------------------------------ MODULE DeviceCodes ------------------------------
(***************************************************************************)
(* The device-code flow for clients: an app starts a challenge and polls   *)
(* it (StartChallengeView, ChallengeView and _poll_device_code in          *)
(* fakts/views.py), a user accepts it for one of her compositions          *)
(* (accept_device_code, validate_device_code), or an administrator does so *)
(* for her (the command validatecode).  Beside them, a client registers    *)
(* another without a code (create_developmental_client).                   *)
(*                                                                         *)
(* Nothing sets DeviceCode.denied, so the denied branch of the poll is     *)
(* dead and left out.  So is the reuse of a client by                      *)
(* validate_device_code: its filter compares redirect_uris with a          *)
(* one-element tuple, which no row equals, and every acceptance enters     *)
(* create_client with a new secret.                                        *)
(***************************************************************************)
EXTENDS ClientRegistry

CONSTANTS
  AcceptRequest,  \* the requests that accept a code or register without one
  Code            \* device codes that may be drawn, each at most once

ASSUME DeviceAssumption ==
  AcceptRequest \subseteq Request /\ None \notin Code

VARIABLES
  codes,    \* committed DeviceCode rows
  lapsed,   \* codes whose expires_at has passed
  device,   \* what the app that started a code is doing
  accept,   \* the state of each acceptance
  answers   \* history: the answers "granted" the apps were given

deviceVars == <<codes, lapsed, device, accept, answers>>
vars == <<registryVars, deviceVars>>

-----------------------------------------------------------------------------
(* Types *)

CodeRow == [man : Manifest, client : RowId \cup {None}]

Acceptance ==
  [stage : {"register", "done", "failed"}, code : Code \cup {None},
   user : User, org : Org, comp : Comp]

NoAcceptance == [stage |-> "new"]

\* What the app was told, and the row of the client as the poll read it.
CodeAnswer == [code : Code, client : RowId, row : Client]

DeviceTypeOK ==
  /\ RegistryTypeOK
  /\ codes \in [Code -> CodeRow \cup {None}]
  /\ lapsed \in SUBSET Code
  /\ device \in [Code -> {"new", "polling", "deleting", "expired"}]
  /\ accept \in [AcceptRequest -> Acceptance \cup {NoAcceptance}]
  /\ answers \in SUBSET CodeAnswer

-----------------------------------------------------------------------------
DeviceOwnInit ==
  /\ codes = [c \in Code |-> None]
  /\ lapsed = {}
  /\ device = [c \in Code |-> "new"]
  /\ accept = [r \in AcceptRequest |-> NoAcceptance]
  /\ answers = {}

DeviceInit == RegistryInit /\ DeviceOwnInit

\* start_device_code: the manifest is staged under a fresh code.
StartDeviceCode(c, m) ==
  /\ device[c] = "new"
  /\ codes' = [codes EXCEPT ![c] = [man |-> m, client |-> None]]
  /\ device' = [device EXCEPT ![c] = "polling"]
  /\ UNCHANGED <<registryVars, lapsed, accept, answers>>

\* expires_at passes.
Lapse(c) ==
  /\ device[c] # "new"
  /\ c \notin lapsed
  /\ lapsed' = lapsed \cup {c}
  /\ UNCHANGED <<registryVars, codes, device, accept, answers>>

-----------------------------------------------------------------------------
(* _poll_device_code; a poll that finds no row, or no client yet, changes  *)
(* nothing                                                                 *)

\* Mutant: the client is looked at before the expiry.
PollGrantedFirst(c) ==
  /\ device[c] \in {"polling", "expired"}
  /\ codes[c] # None
  /\ codes[c].client # None
  /\ answers' = answers \cup {[code |-> c, client |-> codes[c].client,
                               row |-> clients[codes[c].client]]}
  /\ UNCHANGED <<registryVars, codes, lapsed, device, accept>>

\* The code is not consumed: a later poll is granted again.
PollGranted(c) ==
  /\ device[c] \in {"polling", "expired"}
  /\ codes[c] # None
  /\ c \notin lapsed
  /\ codes[c].client # None
  /\ answers' = answers \cup {[code |-> c, client |-> codes[c].client,
                               row |-> clients[codes[c].client]]}
  /\ UNCHANGED <<registryVars, codes, lapsed, device, accept>>

PollFindsExpired(c) ==
  /\ device[c] \in {"polling", "expired"}
  /\ codes[c] # None
  /\ c \in lapsed
  /\ device' = [device EXCEPT ![c] = "deleting"]
  /\ UNCHANGED <<registryVars, codes, lapsed, accept, answers>>

\* device_code.delete(), then the answer "expired".
DeleteExpiredCode(c) ==
  /\ device[c] = "deleting"
  /\ codes' = [codes EXCEPT ![c] = None]
  /\ device' = [device EXCEPT ![c] = "expired"]
  /\ UNCHANGED <<registryVars, lapsed, accept, answers>>

-----------------------------------------------------------------------------
(* accept_device_code: any user, any code, any composition; whether the    *)
(* code expired, was accepted before, or is polled, is not looked at       *)

BeginAccept(r, c, u, k) ==
  /\ accept[r].stage = "new"
  /\ codes[c] # None
  /\ accept' = [accept EXCEPT ![r] =
       [stage |-> "register", code |-> c, user |-> u, org |-> OrgOf[k], comp |-> k]]
  /\ Enter(r, u, OrgOf[k], k, codes[c].man)
  /\ UNCHANGED <<apps, clients, members, codes, lapsed, device, answers>>

\* The command validatecode checks the membership before it accepts.
ValidateCode(r, c, u, k) ==
  /\ <<u, OrgOf[k]>> \in members
  /\ BeginAccept(r, c, u, k)

\* create_developmental_client, called with a token of client b for user u
\* active in organization o: the new client is keyed to u and o and put into
\* b's composition, and nothing relates o and b.
BeginDevelop(r, b, u, o, m) ==
  /\ accept[r].stage = "new"
  /\ b \in Live
  /\ <<u, o>> \in members
  /\ accept' = [accept EXCEPT ![r] =
       [stage |-> "register", code |-> None, user |-> u, org |-> o,
        comp |-> clients[b].comp]]
  /\ Enter(r, u, o, clients[b].comp, m)
  /\ UNCHANGED <<apps, clients, members, codes, lapsed, device, answers>>

AcceptRegisters(r) ==
  /\ accept[r].stage = "register"
  /\ Register(r)
  /\ UNCHANGED deviceVars

\* Mutant: validate_device_code forgets device_code.save().
CommitAcceptUnsaved(r) ==
  /\ accept[r].stage = "register"
  /\ CommitRegistration(r)
  /\ accept' = [accept EXCEPT ![r].stage = "done"]
  /\ UNCHANGED <<codes, lapsed, device, answers>>

\* device_code.client = client; save(): the row read at the start is written
\* as a whole, and inserted again if a poll has deleted it meanwhile.
CommitAccept(r) ==
  /\ accept[r].stage = "register"
  /\ CommitRegistration(r)
  /\ codes' = [c \in Code |->
       IF c = accept[r].code THEN [man |-> reg[r].man, client |-> reg[r].target]
                             ELSE codes[c]]
  /\ accept' = [accept EXCEPT ![r].stage = "done"]
  /\ UNCHANGED <<lapsed, device, answers>>

FailAccept(r) ==
  /\ accept[r].stage = "register"
  /\ Rollback(r)
  /\ accept' = [accept EXCEPT ![r].stage = "failed"]
  /\ UNCHANGED <<codes, lapsed, device, answers>>

AcceptStep(r) == AcceptRegisters(r) \/ CommitAccept(r) \/ FailAccept(r)

-----------------------------------------------------------------------------
\* Mutant: DeviceCode.client is DO_NOTHING.
CascadeCodesNot(u, o) == UNCHANGED codes

\* DeviceCode.client is CASCADE.
CascadeCodes(u, o) ==
  codes' = [c \in Code |->
    IF codes[c] # None /\ codes[c].client \in ClientsOf(u, o)
      THEN None ELSE codes[c]]

MemberRemoved(u, o) ==
  /\ RemoveMember(u, o)
  /\ CascadeCodes(u, o)
  /\ UNCHANGED <<lapsed, device, accept, answers>>

DeviceSteps ==
  \/ \E c \in Code, m \in Manifest : StartDeviceCode(c, m)
  \/ \E c \in Code : \/ Lapse(c) \/ PollGranted(c)
                     \/ PollFindsExpired(c) \/ DeleteExpiredCode(c)
  \/ \E r \in AcceptRequest, c \in Code, u \in User, k \in Comp :
       BeginAccept(r, c, u, k) \/ ValidateCode(r, c, u, k)
  \/ \E r \in AcceptRequest, b \in Live, u \in User, o \in Org, m \in Manifest :
       BeginDevelop(r, b, u, o, m)
  \/ \E r \in AcceptRequest : AcceptStep(r)

Next ==
  \/ DeviceSteps
  \/ \E n \in DeletableNode, o \in Org :
       DeleteDevice(n, o) /\ UNCHANGED deviceVars
  \/ \E u \in User, o \in Org : MemberRemoved(u, o)

Spec == DeviceInit /\ [][Next]_vars

\* A started app keeps polling.
FairSpec == Spec /\ \A c \in Code : WF_vars(PollGranted(c))

-----------------------------------------------------------------------------
(* Properties *)

\* An app is only ever handed a client of a user who accepted the very code it
\* started, in an organization that user chose for it (a code is accepted by
\* whoever knows it, and possibly by several).
AnswersWereAccepted ==
  \A a \in answers : \E r \in AcceptRequest :
    /\ accept[r].stage = "done"
    /\ accept[r].code = a.code
    /\ accept[r].user = a.row.user
    /\ accept[r].org = a.row.org

\* Once an app has been told "expired", no later poll is granted, even if an
\* acceptance that was under way brings the deleted row back.
ExpiredIsFinal ==
  [][\A c \in Code : device[c] = "expired" =>
       {a \in answers' : a.code = c} = {a \in answers : a.code = c}]_vars

\* A committed acceptance reaches the app, unless the code expires first or
\* someone who accepted it loses the membership that carries the client.
AcceptedIsDelivered ==
  \A r \in AcceptRequest, c \in Code :
    accept[r].stage = "done" /\ accept[r].code = c ~>
      \/ c \in lapsed
      \/ \E a \in answers : a.code = c
      \/ \E q \in AcceptRequest :
           /\ accept[q].stage = "done"
           /\ accept[q].code = c
           /\ <<accept[q].user, accept[q].org>> \notin members

=============================================================================
