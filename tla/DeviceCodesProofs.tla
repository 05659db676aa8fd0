--------------------------- MODULE DeviceCodesProofs ---------------------------
(***************************************************************************)
(* Proofs about DeviceCodes, for any number of codes, acceptances, users,  *)
(* compositions and manifests.                                             *)
(***************************************************************************)
EXTENDS DeviceCodes, ClientRegistryProofs

-----------------------------------------------------------------------------
(* The inductive invariant *)

\* The foreign key from a code to its client.
CodeClientsExist ==
  \A c \in Code : codes[c] # None /\ codes[c].client # None => codes[c].client \in Live

Typing == DeviceTypeOK /\ RegistrationShape /\ CodeClientsExist

\* A registration that runs is that of an acceptance that runs.
RunsForItsAcceptance ==
  \A r \in Request : reg[r].stage \in Running =>
    /\ r \in AcceptRequest
    /\ accept[r].stage = "register"
    /\ reg[r].user = accept[r].user
    /\ reg[r].org = accept[r].org

\* The row named after an acceptance is inserted when it commits.
InsertsAtTheEnd ==
  \A r \in AcceptRequest : accept[r].stage \in {"new", "register"} => r \notin Live

\* What a registration is to update is there and belongs to the same user in
\* the same organization.
UpdatesItsOwn ==
  \A r \in Request : reg[r].stage = "written" /\ reg[r].target # r =>
    /\ reg[r].target \in Live
    /\ clients[reg[r].target].user = reg[r].user
    /\ clients[reg[r].target].org = reg[r].org

\* A user who accepted code c chose the client's organization for it.
Accepted(c, cl) ==
  \E r \in AcceptRequest :
    /\ accept[r].stage = "done"
    /\ accept[r].code = c
    /\ accept[r].user = cl.user
    /\ accept[r].org = cl.org

CodesWereAccepted ==
  \A c \in Code : codes[c] # None /\ codes[c].client # None =>
    Accepted(c, clients[codes[c].client])

Accepting ==
  /\ RunsForItsAcceptance
  /\ InsertsAtTheEnd
  /\ UpdatesItsOwn
  /\ CodesWereAccepted
  /\ \A a \in answers : Accepted(a.code, a.row)

-----------------------------------------------------------------------------
(* Typing *)

LEMMA InitTyping == DeviceInit => Typing
<1> SUFFICES ASSUME DeviceInit PROVE Typing
  OBVIOUS
<1> USE RegistryAssumption, DeviceAssumption DEF DeviceInit
<1>1. RegistryTypeOK
  <2>1. apps \in [RowId -> Ident \cup {None}]
    BY DEF RegistryInit, RowId
  <2>2. clients \in [RowId -> Client \cup {None}]
    BY DEF RegistryInit, RowId, Client
  <2>3. members \in SUBSET (User \X Org)
    BY DEF RegistryInit
  <2>4. reg \in [Request -> Registration \cup {NoRegistration}]
    BY DEF RegistryInit
  <2> QED BY <2>1, <2>2, <2>3, <2>4 DEF RegistryTypeOK
<1>2. /\ codes \in [Code -> CodeRow \cup {None}]
      /\ lapsed \in SUBSET Code
      /\ device \in [Code -> {"new", "polling", "deleting", "expired"}]
      /\ accept \in [AcceptRequest -> Acceptance \cup {NoAcceptance}]
      /\ answers \in SUBSET CodeAnswer
  BY DEF DeviceOwnInit
<1>3. RegistrationShape
  BY DEF RegistryInit, RegistrationShape, NoRegistration
<1>4. CodeClientsExist
  BY DEF DeviceOwnInit, CodeClientsExist
<1> QED BY <1>1, <1>2, <1>3, <1>4 DEF Typing, DeviceTypeOK

\* The app's side of a code.
AppStep ==
  \/ \E c \in Code, m \in Manifest : StartDeviceCode(c, m)
  \/ \E c \in Code : \/ Lapse(c) \/ PollGranted(c)
                     \/ PollFindsExpired(c) \/ DeleteExpiredCode(c)

LEMMA AppTyping == ASSUME Typing, AppStep PROVE Typing'
<1> USE DeviceAssumption, RegistryAssumption DEF Typing, DeviceTypeOK
<1>r. /\ UNCHANGED <<registryVars, accept>>
      /\ RegistryTypeOK' /\ RegistrationShape' /\ Live' = Live
  <2>1. UNCHANGED <<registryVars, accept>>
    BY DEF AppStep, StartDeviceCode, Lapse, PollGranted, PollFindsExpired, DeleteExpiredCode
  <2> QED BY <2>1 DEF registryVars, RegistryTypeOK, RegistrationShape, Live
<1>1. CASE \E c \in Code, m \in Manifest : StartDeviceCode(c, m)
  <2>1. PICK c \in Code, m \in Manifest : StartDeviceCode(c, m)
    BY <1>1
  <2>2. [man |-> m, client |-> None] \in CodeRow
    BY DEF CodeRow
  <2> QED BY <1>r, <2>1, <2>2 DEF StartDeviceCode, CodeClientsExist
<1>2. ASSUME NEW c \in Code, Lapse(c) PROVE Typing'
  BY <1>r, <1>2 DEF Lapse, CodeClientsExist
<1>3. ASSUME NEW c \in Code, PollGranted(c) PROVE Typing'
  <2>1. codes[c].client \in Live /\ codes[c].client \in RowId
    BY <1>3 DEF PollGranted, CodeClientsExist, CodeRow
  <2>2. clients[codes[c].client] \in Client
    BY <2>1 DEF Live, RegistryTypeOK
  <2> QED BY <1>3, <1>r, <2>1, <2>2 DEF PollGranted, CodeAnswer, CodeClientsExist
<1>4. ASSUME NEW c \in Code, PollFindsExpired(c) PROVE Typing'
  BY <1>4, <1>r DEF PollFindsExpired, CodeClientsExist
<1>5. ASSUME NEW c \in Code, DeleteExpiredCode(c) PROVE Typing'
  BY <1>5, <1>r DEF DeleteExpiredCode, CodeClientsExist
<1> QED BY <1>1, <1>2, <1>3, <1>4, <1>5 DEF AppStep

\* An acceptance, or a client that registers another one.
AcceptStepOf(r) ==
  \/ \E c \in Code, u \in User, k \in Comp :
       BeginAccept(r, c, u, k) \/ ValidateCode(r, c, u, k)
  \/ \E b \in Live, u \in User, o \in Org, m \in Manifest : BeginDevelop(r, b, u, o, m)
  \/ AcceptStep(r)

LEMMA AcceptTyping == ASSUME NEW r \in AcceptRequest, Typing, AcceptStepOf(r) PROVE Typing'
<1> USE DeviceAssumption DEF Typing, DeviceTypeOK
<1>r. r \in Request
  OBVIOUS
<1>1. ASSUME NEW c \in Code, NEW u \in User, NEW k \in Comp, BeginAccept(r, c, u, k)
      PROVE  Typing'
  <2>1. codes[c].man \in Manifest /\ OrgOf[k] \in Org
    BY <1>1, RegistryAssumption DEF BeginAccept, CodeRow
  <2>2. RegistryTypeOK' /\ RegistrationShape' /\ Live' = Live
    BY <1>1, <1>r, <2>1, EnterTyping DEF BeginAccept, Live
  <2>3. accept' \in [AcceptRequest -> Acceptance \cup {NoAcceptance}]
    BY <1>1, <2>1 DEF BeginAccept, Acceptance
  <2> QED BY <1>1, <2>2, <2>3 DEF BeginAccept, CodeClientsExist
<1>2. ASSUME NEW b \in Live, NEW u \in User, NEW o \in Org, NEW m \in Manifest,
             BeginDevelop(r, b, u, o, m)
      PROVE  Typing'
  <2>1. clients[b].comp \in Comp
    BY DEF Live, RegistryTypeOK, Client
  <2>2. RegistryTypeOK' /\ RegistrationShape' /\ Live' = Live
    BY <1>2, <1>r, <2>1, EnterTyping DEF BeginDevelop, Live
  <2> QED BY <1>2, <2>1, <2>2 DEF BeginDevelop, Acceptance, CodeClientsExist
<1>3. CASE AcceptRegisters(r)
  <2>1. RegistryTypeOK' /\ RegistrationShape' /\ clients' = clients
    BY <1>3, <1>r, RegisterTyping DEF AcceptRegisters
  <2> QED BY <1>3, <2>1 DEF AcceptRegisters, deviceVars, CodeClientsExist, Live
<1>4. CASE CommitAccept(r)
  <2>1. /\ RegistryTypeOK' /\ RegistrationShape'
        /\ Live' = Live \cup {reg[r].target} /\ reg[r].target \in RowId
    BY <1>4, <1>r, CommitTyping DEF CommitAccept
  <2>2. reg[r] \in Registration
    BY <1>4, <1>r DEF CommitAccept, CommitRegistration, RegistryTypeOK, NoRegistration
  <2>3. [man |-> reg[r].man, client |-> reg[r].target] \in CodeRow
    BY <2>1, <2>2 DEF CodeRow, Registration
  <2>4. codes' \in [Code -> CodeRow \cup {None}] /\ CodeClientsExist'
    BY <1>4, <2>1, <2>3 DEF CommitAccept, CodeClientsExist
  <2>5. accept' \in [AcceptRequest -> Acceptance \cup {NoAcceptance}]
    BY <1>4 DEF CommitAccept, Acceptance, NoAcceptance
  <2> QED BY <1>4, <2>1, <2>4, <2>5 DEF CommitAccept
<1>5. CASE FailAccept(r)
  <2>1. RegistryTypeOK' /\ RegistrationShape' /\ Live' = Live
    BY <1>5, <1>r, RollbackTyping DEF FailAccept, Live
  <2>2. accept' \in [AcceptRequest -> Acceptance \cup {NoAcceptance}]
    BY <1>5 DEF FailAccept, Acceptance, NoAcceptance
  <2> QED BY <1>5, <2>1, <2>2 DEF FailAccept, CodeClientsExist
<1> QED BY <1>1, <1>2, <1>3, <1>4, <1>5 DEF AcceptStepOf, AcceptStep, ValidateCode

LEMMA RemovedTyping ==
  ASSUME NEW u \in User, NEW o \in Org, Typing, MemberRemoved(u, o)
  PROVE  Typing'
<1> USE DEF Typing, DeviceTypeOK
<1>1. RegistryTypeOK' /\ RegistrationShape' /\ Live' = Live \ ClientsOf(u, o)
  BY RemoveTyping DEF MemberRemoved
<1>2. codes' \in [Code -> CodeRow \cup {None}] /\ CodeClientsExist'
  BY <1>1 DEF MemberRemoved, CascadeCodes, CodeClientsExist
<1> QED BY <1>1, <1>2 DEF MemberRemoved

LEMMA DeletedTyping ==
  ASSUME NEW n \in DeletableNode, NEW o \in Org, Typing,
         DeleteDevice(n, o), UNCHANGED deviceVars
  PROVE  Typing'
<1>1. n \in Node
  BY RegistryAssumption
<1>2. RegistryTypeOK' /\ RegistrationShape' /\ Live' = Live
  BY <1>1, DeviceTyping DEF Typing, DeviceTypeOK
<1> QED BY <1>2 DEF Typing, DeviceTypeOK, deviceVars, CodeClientsExist

LEMMA StutterTyping == ASSUME Typing, UNCHANGED vars PROVE Typing'
BY DEF Typing, DeviceTypeOK, RegistryTypeOK, RegistrationShape, CodeClientsExist, Live,
       vars, registryVars, deviceVars

\* Next, request by request.
LEMMA NextSteps ==
  ASSUME Next
  PROVE  \/ AppStep
         \/ \E r \in AcceptRequest : AcceptStepOf(r)
         \/ \E n \in DeletableNode, o \in Org : DeleteDevice(n, o) /\ UNCHANGED deviceVars
         \/ \E u \in User, o \in Org : MemberRemoved(u, o)
BY DEF Next, DeviceSteps, AppStep, AcceptStepOf

LEMMA TypingStep == Typing /\ [Next]_vars => Typing'
BY NextSteps, AppTyping, AcceptTyping, RemovedTyping, DeletedTyping, StutterTyping

\* Codes, acceptances, clients and answers are well-typed throughout; the
\* client an app is handed with "granted" exists when it is read.
THEOREM TypeCorrect == Spec => []DeviceTypeOK
<1>1. Typing => DeviceTypeOK
  BY DEF Typing
<1> QED BY <1>1, InitTyping, TypingStep, PTL DEF Spec


-----------------------------------------------------------------------------
(* Whoever is handed a client was accepted *)

LEMMA InitAccepting == DeviceInit => Accepting
<1> SUFFICES ASSUME DeviceInit PROVE Accepting
  OBVIOUS
<1> USE RegistryAssumption, DeviceAssumption DEF DeviceInit
<1>1. RunsForItsAcceptance /\ UpdatesItsOwn
  BY DEF RegistryInit, RunsForItsAcceptance, UpdatesItsOwn, NoRegistration, Running
<1>2. InsertsAtTheEnd
  BY DEF RegistryInit, InsertsAtTheEnd, Live
<1>3. CodesWereAccepted /\ answers = {}
  BY DEF DeviceOwnInit, CodesWereAccepted
<1> QED BY <1>1, <1>2, <1>3 DEF Accepting

\* The clients may be fewer or have lost their device, and codes with them;
\* registrations and acceptances stay, or are doomed.
LEMMA ShrinkAccepting ==
  ASSUME Typing, Accepting, Live' \subseteq Live, UNCHANGED <<accept, answers>>,
         \A c \in Live' : /\ clients'[c].user = clients[c].user
                          /\ clients'[c].org = clients[c].org,
         \A c \in Code : codes'[c] # None /\ codes'[c].client # None =>
           /\ codes'[c] = codes[c]
           /\ codes[c].client \in Live',
         \A r \in Request :
           /\ reg'[r].stage = reg[r].stage
           /\ reg[r].stage # "none" => /\ reg'[r].target = reg[r].target
                                       /\ reg'[r].user = reg[r].user
                                       /\ reg'[r].org = reg[r].org,
         LockedClients \cap Live \subseteq Live'
  PROVE  Accepting'
<1>1. RunsForItsAcceptance'
  BY DEF Accepting, RunsForItsAcceptance, Running
<1>2. InsertsAtTheEnd'
  BY DEF Accepting, InsertsAtTheEnd
<1>3. UpdatesItsOwn'
  <2> SUFFICES ASSUME NEW r \in Request, reg'[r].stage = "written", reg'[r].target # r
               PROVE  /\ reg'[r].target \in Live'
                      /\ clients'[reg'[r].target].user = reg'[r].user
                      /\ clients'[reg'[r].target].org = reg'[r].org
    BY DEF UpdatesItsOwn
  <2>1. /\ reg[r].stage = "written" /\ reg'[r].target = reg[r].target
        /\ reg'[r].user = reg[r].user /\ reg'[r].org = reg[r].org
    OBVIOUS
  <2>2. /\ reg[r].target \in Live
        /\ clients[reg[r].target].user = reg[r].user
        /\ clients[reg[r].target].org = reg[r].org
    BY <2>1 DEF Accepting, UpdatesItsOwn
  <2>3. reg[r].target \in LockedClients
    BY <2>1, <2>2 DEF LockedClients, Live
  <2> QED BY <2>1, <2>2, <2>3
<1>4. CodesWereAccepted'
  BY DEF Accepting, CodesWereAccepted, Accepted
<1>5. \A a \in answers' : Accepted(a.code, a.row)'
  BY DEF Accepting, Accepted
<1> QED BY <1>1, <1>2, <1>3, <1>4, <1>5 DEF Accepting

LEMMA AppAccepting == ASSUME Typing, Accepting, AppStep PROVE Accepting'
<1>r. UNCHANGED <<registryVars, accept>> /\ Live' = Live
  BY DEF AppStep, StartDeviceCode, Lapse, PollGranted, PollFindsExpired, DeleteExpiredCode,
         registryVars, Live
<1>1. \A c \in Code : codes'[c] # None /\ codes'[c].client # None => codes'[c] = codes[c]
  BY DEF AppStep, StartDeviceCode, Lapse, PollGranted, PollFindsExpired, DeleteExpiredCode,
         Typing, DeviceTypeOK
<1>2. RunsForItsAcceptance' /\ InsertsAtTheEnd' /\ UpdatesItsOwn'
  BY <1>r DEF Accepting, RunsForItsAcceptance, InsertsAtTheEnd, UpdatesItsOwn, registryVars
<1>3. CodesWereAccepted'
  BY <1>r, <1>1 DEF Accepting, CodesWereAccepted, Accepted, registryVars
<1>4. \A a \in answers' : Accepted(a.code, a.row)
  <2>1. \A a \in answers' \ answers : Accepted(a.code, a.row)
    BY DEF AppStep, StartDeviceCode, Lapse, PollGranted, PollFindsExpired, DeleteExpiredCode,
           Accepting, CodesWereAccepted
  <2> QED BY <2>1 DEF Accepting
<1>5. \A a \in answers' : Accepted(a.code, a.row)'
  BY <1>r, <1>4 DEF Accepted
<1> QED BY <1>2, <1>3, <1>5 DEF Accepting

\* An acceptance begins.
LEMMA BeginAccepting ==
  ASSUME NEW r \in AcceptRequest, NEW u \in User, NEW o \in Org, NEW k \in Comp,
         NEW m \in Manifest, NEW c \in Code \cup {None}, Typing, Accepting,
         accept[r].stage = "new",
         accept' = [accept EXCEPT ![r] =
                      [stage |-> "register", code |-> c, user |-> u, org |-> o, comp |-> k]],
         Enter(r, u, o, k, m),
         UNCHANGED <<apps, clients, members, codes, lapsed, device, answers>>
  PROVE  Accepting'
<1> USE DeviceAssumption
<1>1. /\ accept'[r] = [stage |-> "register", code |-> c, user |-> u, org |-> o, comp |-> k]
      /\ \A q \in AcceptRequest \ {r} : accept'[q] = accept[q]
  BY DEF Typing, DeviceTypeOK
<1>2. /\ reg'[r].stage = "app" /\ reg'[r].user = u /\ reg'[r].org = o
      /\ \A q \in Request \ {r} : reg'[q] = reg[q]
  BY DEF Typing, DeviceTypeOK, RegistryTypeOK, Enter
<1>3. RunsForItsAcceptance'
  <2> SUFFICES ASSUME NEW q \in Request, reg'[q].stage \in Running
               PROVE  /\ q \in AcceptRequest
                      /\ accept'[q].stage = "register"
                      /\ reg'[q].user = accept'[q].user
                      /\ reg'[q].org = accept'[q].org
    BY DEF RunsForItsAcceptance
  <2>1. CASE q = r
    BY <1>1, <1>2, <2>1
  <2>2. CASE q # r
    BY <1>1, <1>2, <2>2 DEF Accepting, RunsForItsAcceptance
  <2> QED BY <2>1, <2>2
<1>4. InsertsAtTheEnd'
  BY <1>1 DEF Accepting, InsertsAtTheEnd, Live
<1>5. UpdatesItsOwn'
  BY <1>2 DEF Accepting, UpdatesItsOwn, Live
<1>6. \A q \in AcceptRequest : accept[q].stage = "done" => accept'[q] = accept[q]
  BY <1>1
<1>7. CodesWereAccepted'
  BY <1>6 DEF Accepting, CodesWereAccepted, Accepted
<1>8. \A a \in answers' : Accepted(a.code, a.row)'
  BY <1>6 DEF Accepting, Accepted
<1> QED BY <1>3, <1>4, <1>5, <1>7, <1>8 DEF Accepting

\* A registration looks up its rows.
LEMMA RegistersAccepting ==
  ASSUME NEW r \in AcceptRequest, Typing, Accepting, AcceptRegisters(r)
  PROVE  Accepting'
<1> USE DeviceAssumption
<1>1. /\ UNCHANGED <<clients, codes, accept, answers>> /\ Live' = Live
  BY DEF AcceptRegisters, Register, GetOrCreateApp, LockRelease, Upsert, deviceVars, Live
<1>2. /\ reg[r].stage \in Running /\ reg[r] \in Registration
      /\ reg'[r].stage \in Running
      /\ reg'[r].user = reg[r].user /\ reg'[r].org = reg[r].org
      /\ \A q \in Request \ {r} : reg'[q] = reg[q]
  BY DEF AcceptRegisters, Register, GetOrCreateApp, LockRelease, Upsert, Typing, DeviceTypeOK,
         RegistryTypeOK, Registration, NoRegistration, Running
<1>3. RunsForItsAcceptance'
  <2> SUFFICES ASSUME NEW q \in Request, reg'[q].stage \in Running
               PROVE  /\ q \in AcceptRequest
                      /\ accept[q].stage = "register"
                      /\ reg'[q].user = accept[q].user
                      /\ reg'[q].org = accept[q].org
    BY <1>1 DEF RunsForItsAcceptance
  <2> QED BY <1>2 DEF Accepting, RunsForItsAcceptance
<1>4. UpdatesItsOwn'
  <2>1. reg'[r].stage = "written" /\ reg'[r].target # r => reg'[r].target \in Matching(r)
    BY <1>2 DEF AcceptRegisters, Register, GetOrCreateApp, LockRelease, Upsert,
                Registration, Running, Typing, DeviceTypeOK, RegistryTypeOK
  <2>2. \A d \in Matching(r) : /\ d \in Live
                               /\ clients[d].user = reg[r].user
                               /\ clients[d].org = reg[r].org
    BY DEF Matching, Key, Registered
  <2>3. \A q \in Request \ {r} : reg'[q].stage = "written" /\ reg'[q].target # q =>
          /\ reg'[q].target \in Live
          /\ clients[reg'[q].target].user = reg'[q].user
          /\ clients[reg'[q].target].org = reg'[q].org
    BY <1>2 DEF Accepting, UpdatesItsOwn
  <2> QED BY <1>1, <1>2, <2>1, <2>2, <2>3 DEF UpdatesItsOwn
<1>5. InsertsAtTheEnd' /\ CodesWereAccepted'
  BY <1>1 DEF Accepting, InsertsAtTheEnd, CodesWereAccepted, Accepted
<1>6. \A a \in answers' : Accepted(a.code, a.row)'
  BY <1>1 DEF Accepting, Accepted
<1> QED BY <1>3, <1>4, <1>5, <1>6 DEF Accepting

\* The client is committed and the code carries it.
LEMMA CommitAccepting ==
  ASSUME NEW r \in AcceptRequest, Typing, Accepting, CommitAccept(r)
  PROVE  Accepting'
<1> USE DeviceAssumption
<1> DEFINE t == reg[r].target
<1>1. /\ r \in Request /\ accept[r].stage = "register" /\ accept[r] \in Acceptance
      /\ reg[r].stage = "written" /\ reg[r] \in Registration
      /\ reg[r].user = accept[r].user /\ reg[r].org = accept[r].org
  BY DEF CommitAccept, CommitRegistration, Accepting, RunsForItsAcceptance, Running,
         Typing, DeviceTypeOK, RegistryTypeOK, NoRegistration, NoAcceptance
<1>2. Live' = Live \cup {t} /\ t \in RowId
  BY <1>1, CommitTyping DEF CommitAccept, Typing, DeviceTypeOK
<1>3. /\ clients'[t] = Registered(r)
      /\ \A d \in RowId \ {t} : clients'[d] = clients[d]
  BY <1>2 DEF CommitAccept, CommitRegistration, Typing, DeviceTypeOK, RegistryTypeOK
<1>4. clients'[t].user = reg[r].user /\ clients'[t].org = reg[r].org
  BY <1>3 DEF Registered
<1>5. /\ \A q \in Request \ {r} : reg'[q] = reg[q]
      /\ reg'[r].stage = "ended"
  BY <1>1 DEF CommitAccept, CommitRegistration, Typing, DeviceTypeOK, RegistryTypeOK,
              Registration
<1>6. /\ \A q \in AcceptRequest \ {r} : accept'[q] = accept[q]
      /\ accept'[r].stage = "done" /\ accept'[r].code = accept[r].code
      /\ accept'[r].user = accept[r].user /\ accept'[r].org = accept[r].org
  BY <1>1 DEF CommitAccept, Typing, DeviceTypeOK, Acceptance
<1>7. t \in Live => /\ clients[t].user = reg[r].user
                    /\ clients[t].org = reg[r].org
  BY <1>1 DEF Accepting, UpdatesItsOwn, InsertsAtTheEnd
<1> HIDE DEF t
<1>8. RunsForItsAcceptance'
  <2> SUFFICES ASSUME NEW q \in Request, reg'[q].stage \in Running
               PROVE  /\ q \in AcceptRequest
                      /\ accept'[q].stage = "register"
                      /\ reg'[q].user = accept'[q].user
                      /\ reg'[q].org = accept'[q].org
    BY DEF RunsForItsAcceptance
  <2> QED BY <1>5, <1>6 DEF Accepting, RunsForItsAcceptance, Running
<1>9. InsertsAtTheEnd'
  <2> SUFFICES ASSUME NEW q \in AcceptRequest \ {r}, accept[q].stage \in {"new", "register"}
               PROVE  q \notin Live'
    BY <1>6 DEF InsertsAtTheEnd
  <2>1. q \notin Live
    BY DEF Accepting, InsertsAtTheEnd
  <2>2. q # t
    BY <1>1, <2>1 DEF Accepting, UpdatesItsOwn, t
  <2> QED BY <1>2, <2>1, <2>2
<1>10. UpdatesItsOwn'
  <2> SUFFICES ASSUME NEW q \in Request \ {r}, reg[q].stage = "written", reg[q].target # q
               PROVE  /\ reg[q].target \in Live'
                      /\ clients'[reg[q].target].user = reg[q].user
                      /\ clients'[reg[q].target].org = reg[q].org
    BY <1>5 DEF UpdatesItsOwn
  <2>1. /\ reg[q].target \in Live
        /\ clients[reg[q].target].user = reg[q].user
        /\ clients[reg[q].target].org = reg[q].org
    BY DEF Accepting, UpdatesItsOwn
  <2>2. CASE reg[q].target = t
    BY <1>2, <1>4, <1>7, <2>1, <2>2
  <2>3. CASE reg[q].target # t
    BY <1>2, <1>3, <2>1, <2>3 DEF Live
  <2> QED BY <2>2, <2>3
<1>11. \A q \in AcceptRequest : accept[q].stage = "done" => accept'[q] = accept[q]
  BY <1>1, <1>6
<1>12. CodesWereAccepted'
  <2> SUFFICES ASSUME NEW c \in Code, codes'[c] # None, codes'[c].client # None
               PROVE  Accepted(c, clients[codes[c].client])'
    BY DEF CodesWereAccepted
  <2>1. CASE c = accept[r].code
    <3>1. codes'[c].client = t
      BY <2>1 DEF CommitAccept, t
    <3> QED BY <1>1, <1>4, <1>6, <2>1, <3>1 DEF Accepted
  <2>2. CASE c # accept[r].code
    <3>1. codes'[c] = codes[c]
      BY <2>2 DEF CommitAccept
    <3>2. codes[c].client \in Live /\ Accepted(c, clients[codes[c].client])
      BY <3>1 DEF Typing, CodeClientsExist, Accepting, CodesWereAccepted
    <3>3. /\ clients'[codes[c].client].user = clients[codes[c].client].user
          /\ clients'[codes[c].client].org = clients[codes[c].client].org
      BY <1>3, <1>4, <1>7, <3>2 DEF Live
    <3> QED BY <1>11, <3>1, <3>2, <3>3 DEF Accepted
  <2> QED BY <2>1, <2>2
<1>13. \A a \in answers' : Accepted(a.code, a.row)'
  <2>1. answers' = answers
    BY DEF CommitAccept
  <2> QED BY <1>11, <2>1 DEF Accepting, Accepted
<1> QED BY <1>8, <1>9, <1>10, <1>12, <1>13 DEF Accepting

LEMMA FailAccepting ==
  ASSUME NEW r \in AcceptRequest, Typing, Accepting, FailAccept(r)
  PROVE  Accepting'
<1> USE DeviceAssumption
<1>1. /\ \A q \in Request \ {r} : reg'[q] = reg[q]
      /\ reg'[r].stage = "ended"
      /\ UNCHANGED <<clients, codes, answers>> /\ Live' = Live
  BY DEF FailAccept, Rollback, Typing, DeviceTypeOK, RegistryTypeOK, Registration,
         NoRegistration, Running, Live
<1>2. /\ \A q \in AcceptRequest \ {r} : accept'[q] = accept[q]
      /\ accept[r].stage = "register" /\ accept'[r].stage = "failed"
  BY DEF FailAccept, Typing, DeviceTypeOK, Acceptance, NoAcceptance
<1>3. RunsForItsAcceptance'
  BY <1>1, <1>2 DEF Accepting, RunsForItsAcceptance, Running
<1>4. InsertsAtTheEnd' /\ UpdatesItsOwn'
  BY <1>1, <1>2 DEF Accepting, InsertsAtTheEnd, UpdatesItsOwn
<1>5. CodesWereAccepted' /\ \A a \in answers' : Accepted(a.code, a.row)'
  BY <1>1, <1>2 DEF Accepting, CodesWereAccepted, Accepted
<1> QED BY <1>3, <1>4, <1>5 DEF Accepting

LEMMA AcceptAccepting ==
  ASSUME NEW r \in AcceptRequest, Typing, Accepting, AcceptStepOf(r)
  PROVE  Accepting'
<1>1. ASSUME NEW c \in Code, NEW u \in User, NEW k \in Comp, BeginAccept(r, c, u, k)
      PROVE  Accepting'
  <2>1. codes[c].man \in Manifest /\ OrgOf[k] \in Org
    BY <1>1, RegistryAssumption DEF BeginAccept, Typing, DeviceTypeOK, CodeRow
  <2> QED BY <1>1, <2>1, BeginAccepting DEF BeginAccept
<1>2. ASSUME NEW b \in Live, NEW u \in User, NEW o \in Org, NEW m \in Manifest,
             BeginDevelop(r, b, u, o, m)
      PROVE  Accepting'
  <2>1. clients[b].comp \in Comp
    BY DEF Typing, DeviceTypeOK, Live, RegistryTypeOK, Client
  <2> QED BY <1>2, <2>1, BeginAccepting DEF BeginDevelop
<1>3. AcceptStep(r) => Accepting'
  BY RegistersAccepting, CommitAccepting, FailAccepting DEF AcceptStep
<1> QED BY <1>1, <1>2, <1>3 DEF AcceptStepOf, ValidateCode

\* Dooming keeps what a registration has decided.
LEMMA DoomKeeps ==
  ASSUME NEW S, \A r \in Request : r \in S => reg[r].stage = "written", Doom(S), Typing
  PROVE  \A r \in Request :
           /\ reg'[r].stage = reg[r].stage
           /\ reg[r].stage # "none" => /\ reg'[r].target = reg[r].target
                                       /\ reg'[r].user = reg[r].user
                                       /\ reg'[r].org = reg[r].org
<1> SUFFICES ASSUME NEW r \in Request, r \in S
             PROVE  /\ reg'[r].stage = reg[r].stage
                    /\ reg'[r].target = reg[r].target
                    /\ reg'[r].user = reg[r].user
                    /\ reg'[r].org = reg[r].org
  BY DEF Doom
<1>1. reg[r] \in Registration
  BY DEF Typing, DeviceTypeOK, RegistryTypeOK, NoRegistration
<1> QED BY <1>1 DEF Doom, Registration

LEMMA RemovedAccepting ==
  ASSUME NEW u \in User, NEW o \in Org, Typing, Accepting, MemberRemoved(u, o)
  PROVE  Accepting'
<1> DEFINE onIt == {r \in Request : /\ reg[r].stage = "written"
                                    /\ reg[r].user = u
                                    /\ reg[r].org = o}
<1>1. Live' = Live \ ClientsOf(u, o)
  BY RemoveTyping DEF MemberRemoved, Typing, DeviceTypeOK
<1>2. \A c \in Live' : clients'[c] = clients[c]
  BY DEF MemberRemoved, RemoveMember, Live
<1>3. Doom(onIt) /\ \A r \in Request : r \in onIt => reg[r].stage = "written"
  BY DEF MemberRemoved, RemoveMember
<1> HIDE DEF onIt
<1>4. \A r \in Request :
        /\ reg'[r].stage = reg[r].stage
        /\ reg[r].stage # "none" => /\ reg'[r].target = reg[r].target
                                    /\ reg'[r].user = reg[r].user
                                    /\ reg'[r].org = reg[r].org
  BY <1>3, DoomKeeps
<1>5. \A c \in Code : codes'[c] # None /\ codes'[c].client # None =>
        codes'[c] = codes[c] /\ codes[c].client \in Live'
  BY <1>1 DEF MemberRemoved, CascadeCodes, Typing, CodeClientsExist
<1>6. LockedClients \cap Live \subseteq Live'
  BY <1>1 DEF MemberRemoved, RemoveMember
<1> QED BY <1>1, <1>2, <1>4, <1>5, <1>6, ShrinkAccepting DEF MemberRemoved

LEMMA DeletedAccepting ==
  ASSUME NEW n \in DeletableNode, NEW o \in Org, Typing, Accepting,
         DeleteDevice(n, o), UNCHANGED deviceVars
  PROVE  Accepting'
<1> DEFINE onIt == {r \in Request : /\ reg[r].stage = "written"
                                    /\ NodeOf[reg[r].man] = n
                                    /\ reg[r].org = o}
<1>1. n \in Node
  BY RegistryAssumption
<1>2. Live' = Live
  BY <1>1, DeviceTyping DEF Typing, DeviceTypeOK
<1>3. \A c \in Live : /\ clients'[c].user = clients[c].user
                      /\ clients'[c].org = clients[c].org
  <2> SUFFICES ASSUME NEW c \in Live PROVE /\ clients'[c].user = clients[c].user
                                           /\ clients'[c].org = clients[c].org
    OBVIOUS
  <2>1. clients[c] \in Client
    BY DEF Live, Typing, DeviceTypeOK, RegistryTypeOK
  <2> QED BY <2>1 DEF DeleteDevice, Client, Live
<1>4. Doom(onIt) /\ \A r \in Request : r \in onIt => reg[r].stage = "written"
  BY DEF DeleteDevice
<1> HIDE DEF onIt
<1>5. \A r \in Request :
        /\ reg'[r].stage = reg[r].stage
        /\ reg[r].stage # "none" => /\ reg'[r].target = reg[r].target
                                    /\ reg'[r].user = reg[r].user
                                    /\ reg'[r].org = reg[r].org
  BY <1>4, DoomKeeps
<1>6. \A c \in Code : codes[c] # None /\ codes[c].client # None => codes[c].client \in Live
  BY DEF Typing, CodeClientsExist
<1> QED BY <1>2, <1>3, <1>5, <1>6, ShrinkAccepting DEF deviceVars

LEMMA StutterAccepting == ASSUME Accepting, UNCHANGED vars PROVE Accepting'
<1>1. /\ UNCHANGED <<clients, reg, codes, accept, answers>> /\ Live' = Live
  BY DEF vars, registryVars, deviceVars, Live
<1> QED BY <1>1 DEF Accepting, RunsForItsAcceptance, InsertsAtTheEnd, UpdatesItsOwn,
                    CodesWereAccepted, Accepted

LEMMA AcceptingStep == Typing /\ Accepting /\ [Next]_vars => Accepting'
BY NextSteps, AppAccepting, AcceptAccepting, RemovedAccepting, DeletedAccepting, StutterAccepting

\* An app is only ever handed a client of a user who accepted the code it
\* started, in the organization that user chose, however acceptances, polls,
\* re-registrations and removed memberships interleave.
THEOREM OnlyAccepted == Spec => []AnswersWereAccepted
<1>1. Accepting => AnswersWereAccepted
  BY DEF Accepting, AnswersWereAccepted, Accepted
<1> QED BY <1>1, InitTyping, InitAccepting, TypingStep, AcceptingStep, PTL DEF Spec

-----------------------------------------------------------------------------
(* Expired is the last word *)

ExpiredHaveLapsed == \A c \in Code : device[c] \in {"deleting", "expired"} => c \in lapsed

LEMMA ExpiredStep == Typing /\ ExpiredHaveLapsed /\ [Next]_vars =>
  /\ ExpiredHaveLapsed'
  /\ \A c \in Code : device[c] = "expired" =>
       {a \in answers' : a.code = c} = {a \in answers : a.code = c}
<1> SUFFICES ASSUME Typing, ExpiredHaveLapsed, [Next]_vars
             PROVE  /\ ExpiredHaveLapsed'
                    /\ \A c \in Code : device[c] = "expired" =>
                         {a \in answers' : a.code = c} = {a \in answers : a.code = c}
  OBVIOUS
<1>1. CASE AppStep
  <2>1. \A c \in Code : device'[c] \in {"deleting", "expired"} => c \in lapsed
    BY <1>1 DEF AppStep, StartDeviceCode, Lapse, PollGranted, PollFindsExpired,
                DeleteExpiredCode, Typing, DeviceTypeOK, ExpiredHaveLapsed
  <2>2. lapsed \subseteq lapsed' /\ \A a \in answers' \ answers : a.code \notin lapsed
    BY <1>1 DEF AppStep, StartDeviceCode, Lapse, PollGranted, PollFindsExpired, DeleteExpiredCode
  <2>3. answers \subseteq answers'
    BY <1>1 DEF AppStep, StartDeviceCode, Lapse, PollGranted, PollFindsExpired, DeleteExpiredCode
  <2> QED BY <2>1, <2>2, <2>3 DEF ExpiredHaveLapsed
<1>2. UNCHANGED <<lapsed, device, answers>> =>
        /\ ExpiredHaveLapsed'
        /\ \A c \in Code : device[c] = "expired" =>
             {a \in answers' : a.code = c} = {a \in answers : a.code = c}
  BY DEF ExpiredHaveLapsed
<1>3. CASE \E r \in AcceptRequest : AcceptStepOf(r)
  BY <1>2, <1>3 DEF AcceptStepOf, BeginAccept, ValidateCode, BeginDevelop, AcceptStep,
                    AcceptRegisters, CommitAccept, FailAccept, deviceVars
<1>4. CASE \E u \in User, o \in Org : MemberRemoved(u, o)
  BY <1>2, <1>4 DEF MemberRemoved
<1>5. CASE \/ UNCHANGED vars
           \/ \E n \in DeletableNode, o \in Org : DeleteDevice(n, o) /\ UNCHANGED deviceVars
  BY <1>2, <1>5 DEF vars, deviceVars
<1> QED BY <1>1, <1>3, <1>4, <1>5, NextSteps

\* An app that was told "expired" is not granted a client by any later poll,
\* although a slow acceptance can bring the deleted row back.
THEOREM ExpiredFinal == Spec => ExpiredIsFinal
<1>1. DeviceInit => ExpiredHaveLapsed
  BY DEF DeviceInit, DeviceOwnInit, ExpiredHaveLapsed
<1>2. Typing /\ ExpiredHaveLapsed /\ [Next]_vars =>
        [\A c \in Code : device[c] = "expired" =>
           {a \in answers' : a.code = c} = {a \in answers : a.code = c}]_vars
  BY ExpiredStep
<1> QED BY <1>1, <1>2, InitTyping, TypingStep, ExpiredStep, PTL DEF Spec, ExpiredIsFinal

=============================================================================
