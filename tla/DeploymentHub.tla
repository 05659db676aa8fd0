----------------------------- MODULE DeploymentHub -----------------------------
(***************************************************************************)
(* Everything that writes an organization's deployment, interleaved:       *)
(* partner compositions, accepted server codes, registrations and claims   *)
(* of clients, deletions of compositions and devices.                      *)
(***************************************************************************)
EXTENDS StagedCodes, Claims

CONSTANT Reading   \* the requests that are claims, which write nothing

ASSUME HubAssumption == Reading \subseteq Request

hubVars == <<deployVars, privateVars, shown>>

HubTypeOK ==
  DeploymentTypeOK /\ ComposingTypeOK /\ PartnerTypeOK /\ AcceptTypeOK /\ ClaimTypeOK

HubInit ==
  DeploymentInit /\ ComposingInit /\ PartnerInit /\ AcceptInit /\ ClaimInit

-----------------------------------------------------------------------------
(* The next-state relation *)

\* A new request, or a boot.
Arrive(r) ==
  \/ \E c \in comps : DeleteComposition(r, c) /\ UNCHANGED privateVars
  \/ \E a \in App, c \in comps, m \in Manifest : \E D \in SUBSET OptionalKeys(m) :
       Register(r, a, c, m, D) /\ UNCHANGED <<partnerVars, acceptVars>>
  \/ \E p \in Partner : Connect(r, p) /\ UNCHANGED <<draft, acceptVars>>
  \/ Boot(r) /\ UNCHANGED <<draft, acceptVars>>
  \/ \E k \in Code : BeginAccept(r, k)
  \/ \E k \in ServiceCode : BeginAcceptService(r, k)

\* A request that writes goes on.
Write(r) ==
  \/ DeletionStep(r) /\ UNCHANGED privateVars
  \/ RegistrationStep(r) /\ UNCHANGED <<partnerVars, acceptVars>>
  \/ PartnerStep(r) /\ UNCHANGED <<draft, acceptVars>>
  \/ AcceptStep(r)

Work(r) ==
  \/ Write(r) /\ UNCHANGED shown
  \/ ClaimStep(r) /\ UNCHANGED privateVars

HubNext ==
  \/ \E r \in Request \ Reading : Arrive(r) /\ UNCHANGED shown
  \/ \E r \in Reading : ClaimArrive(r) /\ UNCHANGED privateVars
  \/ \E r \in Request : Work(r)
  \/ \E k \in Code \cup ServiceCode : (StartCode(k) \/ PollExpired(k)) /\ UNCHANGED shown
  \/ DeleteDevice /\ UNCHANGED shown

HubSpec == HubInit /\ [][HubNext]_hubVars

Working(r) == stage[r] \notin {"new"} \cup Ended

\* The server goes on with the requests it has begun: its database locks are
\* released, a deadlock is resolved and the hook call times out.  No request
\* is favoured; a new one need not arrive.
HubFairSpec == HubSpec /\ WF_hubVars(\E r \in Request : Work(r))

-----------------------------------------------------------------------------
(* Properties *)

\* The organization's default roles are never deleted ("a built-in role that
\* cannot be deleted", Role.is_builtin in karakter/models.py): roles go with
\* the instance that created them, and a manifest that asks for a default
\* role must find it, not become its creator.
BuiltinRolesStay == \A x \in BuiltinRole : roles[x] # None

Deleting(r, c) == comp[r] = c /\ stage[r] \in {"drop", "dropping", "stuck"}

\* create_composition_from_partner commits the composition before it asks the
\* hook: one that was rejected does not outlive the request it was rejected
\* to, unless its deletion failed.
RejectedIsGone ==
  \A r \in Request : \A c \in turned[r] : c \in comps => Deleting(r, c)

Holds(k, I) == \A n \in InstancesOf[k] \ OnDevice : \E i \in I : i.name = n

\* accept_composition_device_code writes without a transaction: the
\* composition a granted code hands to the server has all the instances of
\* its manifest, but those that went with a device, unless it was deleted
\* during the acceptance and inserted again by composition.save(); and the
\* server that claims it with the token is shown them, unless it is deleted
\* by then.
GrantedIsWhole ==
  /\ \A k \in Code :
       codes[k] = "granted" =>
         /\ result[k] \in comps
         /\ result[k] \in revived \/ Holds(k, InstancesIn(result[k]))
  /\ \A r \in Request :
       op[r] = "serve" /\ stage[r] = "done" =>
         comp[r] \in (Composition \ comps) \cup revived \/ Holds(shown[r].code, shown[r].instances)

\* auto_compose: a client whose manifest requires anything is mapped into the
\* composition it is registered in, also after it was moved to another.
MappedInOwnComposition ==
  \A m \in maps :
    /\ clients[m.app] # None
    /\ Requirements[clients[m.app].man] # <<>> => m.inst.comp = clients[m.app].comp

KeysOnce(m) ==
  \A i, j \in 1..Len(Requirements[m]) :
    Requirements[m][i].key = Requirements[m][j].key => i = j

\* Client.statuses and the mappings are written by one transaction: when the
\* manifest names every key once, a mapped key is told "granted", however
\* often the client was registered and whatever was deleted since.  (The
\* reverse does not hold: an instance that is deleted leaves "granted".)
StatusesTellMappings ==
  \A a \in App :
    clients[a] # None /\ clients[a].composed # None /\ KeysOnce(clients[a].composed) =>
      \A m \in maps : m.app = a => clients[a].told[m.key] = "granted"

\* ClaimView reads the client and its mappings in two statements, and a
\* registration may commit in between: still all instances of one answer
\* belong to one composition.
ClaimShowsOneComposition ==
  \A r \in Request :
    stage[r] = "done" /\ op[r] = "claim" =>
      \A m, o \in shown[r].instances : m.inst.comp = o.inst.comp

\* Applying a partner's manifest again, accepting a code, registering another
\* client or deleting another composition takes no mapping from a client: a
\* mapping goes when its own client is registered anew or deleted, or when
\* its instance goes with its composition or its device.
MappingsAreLostForAReason ==
  [][\A m \in maps : m \notin maps' =>
        \/ m.inst.comp \notin comps'
        \/ m.inst \notin insts' /\ m.inst.comp.from \in Code /\ m.inst.name \in OnDevice
        \/ clients'[m.app] = None
        \/ \E r \in Request : CommitRegistration(r) /\ app[r] = m.app]_hubVars

\* Every request ends: a boot works through all partners whatever their hooks
\* answer, and no deletion, upsert or registration waits forever for another
\* one's rows: again and again the server is at rest.
RequestsEnd == []<>(\A r \in Request : ~Working(r))

=============================================================================
