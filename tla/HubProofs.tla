------------------------------- MODULE HubProofs -------------------------------
(***************************************************************************)
(* Proofs about DeploymentHub, for any number of requests, partners,       *)
(* codes, instances, roles and clients: its types, what its clients are    *)
(* mapped to, what a composition code that is granted hands to its server, *)
(* though the acceptance writes without a transaction, and that a rejected *)
(* composition does not come back, however registrations, claims,          *)
(* deletions, partners and codes interleave.                               *)
(***************************************************************************)
EXTENDS DeploymentHub, TLAPS

-----------------------------------------------------------------------------
(* The inductive invariant *)

\* What a request has decided by the time it gets to a stage.
FlowShape(r) ==
  /\ stage[r] \in {"import", "next", "apply", "applying", "hook"} => op[r] \in {"connect", "boot"}
  /\ stage[r] \in {"create", "names", "insert", "clients", "key"} => op[r] = "accept"
  /\ stage[r] = "roles" => op[r] \in {"accept", "service"}
  /\ stage[r] = "new" => op[r] = "none"

WorkShape(r) ==
  /\ stage[r] \in {"apply", "applying"} => part[r] \in Partner
  /\ op[r] = "accept" => part[r] \in Code
  /\ stage[r] \in {"drop", "dropping", "applying", "hook", "composing", "names",
                   "insert", "clients", "key"} => comp[r] \in Composition
  /\ stage[r] = "roles" /\ op[r] = "accept" => comp[r] \in Composition
  /\ stage[r] = "insert" => target[r] \in Instance
  /\ stage[r] = "composing" => /\ draft[r] \in Draft /\ draft[r].next # 0
                               /\ app[r] \in App

ClaimShape(r) ==
  /\ stage[r] = "rendering" => shown[r] \in ClaimAnswer
  /\ stage[r] \in {"serving", "listing"} => shown[r] \in CompositionClaimAnswer

Shape == \A r \in Request : FlowShape(r) /\ WorkShape(r) /\ ClaimShape(r)

Typing == HubTypeOK /\ Shape

-----------------------------------------------------------------------------
(* Typing *)

\* Deletions.
LEMMA CascadeTyping ==
  ASSUME NEW C, NEW I, NEW A, Cascade(C, I, A), DeploymentTypeOK
  PROVE  /\ comps' \in SUBSET Composition
         /\ insts' \in SUBSET Instance
         /\ services' \in [Service -> {"none", "one", "many"}]
         /\ roles' \in [Role -> Instance \cup {None, Null}]
         /\ used' \in SUBSET (Role \X Instance)
         /\ clients' \in [App -> ClientRow \cup {None}]
         /\ maps' \in SUBSET Mapping
         /\ codes' \in [Code \cup ServiceCode -> {"none", "pending", "granted", "gone"}]
         /\ result' \in [Code \cup ServiceCode -> Composition \cup Instance \cup {None}]
BY DEF Cascade, DeploymentTypeOK

LEMMA DependentsTyping ==
  ASSUME NEW c \in Composition, DeploymentTypeOK
  PROVE  Dependents(c) \in Collected
<1>1. InstancesIn(c) \in SUBSET Instance
  BY DEF InstancesIn, DeploymentTypeOK
<1>2. {<<x, roles[x]>> : x \in CreatedIn(c)} \in SUBSET (Role \X Instance)
  BY DEF CreatedIn, InstancesIn, DeploymentTypeOK
<1>3. {<<a, clients[a].by>> : a \in ClientsIn(c)} \in SUBSET (App \X Inserter)
  BY DEF ClientsIn, DeploymentTypeOK, ClientRow
<1> QED BY <1>1, <1>2, <1>3 DEF Dependents, Collected

LEMMA DeletionTyping ==
  ASSUME NEW r \in Request, Typing, DeletionStep(r), UNCHANGED <<privateVars, shown>>
  PROVE  Typing'
<1> USE DEF Typing, HubTypeOK, ComposingTypeOK, PartnerTypeOK, AcceptTypeOK, ClaimTypeOK,
        privateVars, partnerVars, acceptVars, rowVars
<1>1. CASE Collect(r)
  <2>1. Dependents(comp[r]) \in Collected
    BY <1>1, DependentsTyping DEF Collect, Shape, WorkShape
  <2>2. DeploymentTypeOK'
    BY <1>1, <2>1 DEF Collect, To, DeploymentTypeOK, Stage
  <2>3. Shape'
    BY <1>1 DEF Collect, To, DeploymentTypeOK, Shape, FlowShape, WorkShape, ClaimShape
  <2> QED BY <2>2, <2>3
<1>2. CASE CommitDeletion(r)
  <2>1. AfterDeletion(r) \in Stage /\ AfterDeletion(r) \in {"done", "next", "rejected"}
        /\ (AfterDeletion(r) = "next" => op[r] = "boot")
    BY DEF AfterDeletion, Stage, Ended
  <2>2. DeploymentTypeOK'
    <3>1. stage' \in [Request -> Stage] /\ UNCHANGED <<op, comp, app, seen>>
      BY <1>2, <2>1 DEF CommitDeletion, To, DeploymentTypeOK
    <3>2. Cascade({comp[r]}, seen[r].insts, CollectedClients(r))
      BY <1>2 DEF CommitDeletion
    <3> QED BY <3>1, <3>2, CascadeTyping DEF DeploymentTypeOK
  <2>3. Shape'
    BY <1>2, <2>1 DEF CommitDeletion, To, DeploymentTypeOK, Shape, FlowShape, WorkShape, ClaimShape
  <2> QED BY <2>2, <2>3
<1>3. CASE DeletionFails(r)
  <2>1. DeploymentTypeOK'
    BY <1>3 DEF DeletionFails, To, DeploymentTypeOK, Stage, Ended
  <2>2. Shape'
    BY <1>3 DEF DeletionFails, To, DeploymentTypeOK, Shape, FlowShape, WorkShape, ClaimShape
  <2> QED BY <2>1, <2>2
<1> QED BY <1>1, <1>2, <1>3 DEF DeletionStep


\* Registrations.
LEMMA ToldTyping ==
  ASSUME NEW r \in Request, draft[r] \in Draft, NEW status \in Status
  PROVE  Told(r, status) \in [Key -> Status \cup {None}]
BY DEF Told, Draft

LEMMA ContinueTyping ==
  ASSUME NEW r \in Request, draft[r] \in Draft, draft \in [Request -> Draft \cup {NoDraft}],
         NEW got \in SUBSET [key : Key, inst : Instance], NEW told \in [Key -> Status \cup {None}],
         Continue(r, got, told)
  PROVE  /\ draft' \in [Request -> Draft \cup {NoDraft}]
         /\ draft'[r] \in Draft
         /\ \A q \in Request \ {r} : draft'[q] = draft[q]
BY DEF Continue, Draft

\* The requirement under way is one of the manifest's.
LEMMA CurrentTyping ==
  ASSUME NEW r \in Request, draft[r] \in Draft, draft[r].next # 0, ~Composed(r)
  PROVE  Current(r) \in Requirement
<1>1. Requirements[draft[r].man] \in Seq(Requirement)
  BY ComposingAssumption DEF Requirements, ClientManifest, Draft
<1>2. draft[r].next \in 1..Len(Requirements[draft[r].man])
  BY <1>1 DEF Composed, Draft
<1> QED BY <1>1, <1>2 DEF Current

\* The rows stay and so does every request but r.
LEMMA ComposeTyping ==
  ASSUME NEW r \in Request, Typing, ComposeNext(r),
         UNCHANGED <<partnerVars, acceptVars, shown>>
  PROVE  Typing'
<1> USE DEF Typing, HubTypeOK
<1>1. /\ draft[r] \in Draft /\ draft[r].next # 0 /\ app[r] \in App /\ stage[r] = "composing"
      /\ draft \in [Request -> Draft \cup {NoDraft}]
  BY DEF ComposeNext, Shape, WorkShape, ComposingTypeOK
<1>2. Current(r) \in Requirement
  BY <1>1, CurrentTyping DEF ComposeNext
<1>3. /\ draft[r].got \in SUBSET [key : Key, inst : Instance]
      /\ Told(r, "denied") \in [Key -> Status \cup {None}]
      /\ Told(r, "granted") \in [Key -> Status \cup {None}]
      /\ Told(r, "unavailable") \in [Key -> Status \cup {None}]
  BY <1>1, ToldTyping DEF Draft, Status
<1>4. UNCHANGED <<rowVars, op, comp, app, seen, partnerVars, acceptVars, shown>>
  BY DEF ComposeNext
<1>5. ASSUME NEW got \in SUBSET [key : Key, inst : Instance],
             NEW told \in [Key -> Status \cup {None}],
             Continue(r, got, told), UNCHANGED stage
      PROVE  Typing'
  <2>1. /\ draft' \in [Request -> Draft \cup {NoDraft}]
        /\ draft'[r] \in Draft
        /\ \A q \in Request \ {r} : draft'[q] = draft[q]
    BY <1>1, <1>5, ContinueTyping
  <2>2. draft'[r].next # 0
    BY <1>1, <1>5 DEF Continue, Draft
  <2>3. HubTypeOK'
    BY <1>4, <1>5, <2>1 DEF rowVars, partnerVars, acceptVars, DeploymentTypeOK,
       ComposingTypeOK, PartnerTypeOK, AcceptTypeOK, ClaimTypeOK
  <2>4. Shape'
    BY <1>4, <1>5, <2>1, <2>2 DEF partnerVars, acceptVars, Shape, FlowShape, WorkShape,
       ClaimShape
  <2> QED BY <2>3, <2>4
<1>6. CASE SkipDeclined(r)
  BY <1>3, <1>5, <1>6 DEF SkipDeclined
<1>7. CASE SkipUnavailable(r)
  BY <1>3, <1>5, <1>7 DEF SkipUnavailable
<1>8. CASE MapInstance(r)
  <2>1. PICK i \in Candidates(comp[r], Current(r).service, RegisteredBy[app[r]]) :
          Continue(r, draft[r].got \cup {[key |-> Current(r).key, inst |-> i]},
                   Told(r, "granted"))
    BY <1>8 DEF MapInstance
  <2>2. [key |-> Current(r).key, inst |-> i] \in [key : Key, inst : Instance]
    BY <1>2 DEF Requirement, Candidates, InstancesIn, DeploymentTypeOK
  <2>3. UNCHANGED stage
    BY <1>8 DEF MapInstance
  <2> QED BY <1>3, <1>5, <2>1, <2>2, <2>3
<1>9. CASE MissMandatory(r)
  <2>1. stage' = [stage EXCEPT ![r] = "failed"] /\ draft' = [draft EXCEPT ![r] = NoDraft]
    BY <1>9 DEF MissMandatory, To
  <2>2. HubTypeOK'
    BY <1>4, <2>1 DEF rowVars, partnerVars, acceptVars, DeploymentTypeOK,
       ComposingTypeOK, PartnerTypeOK, AcceptTypeOK, ClaimTypeOK, Stage, Ended
  <2>3. Shape'
    BY <1>4, <2>1 DEF partnerVars, acceptVars, Shape, FlowShape, WorkShape, ClaimShape,
       DeploymentTypeOK, ComposingTypeOK
  <2> QED BY <2>2, <2>3
<1> QED BY <1>6, <1>7, <1>8, <1>9 DEF ComposeNext

\* What a registration commits.
LEMMA RegisteredTyping ==
  ASSUME NEW r \in Request, Typing, stage[r] = "composing"
  PROVE  /\ Registered(r) \in ClientRow
         /\ NewMappings(r) \in SUBSET Mapping
<1> USE DEF Typing, HubTypeOK, DeploymentTypeOK
<1>1. /\ draft[r] \in Draft /\ app[r] \in App /\ comp[r] \in Composition
      /\ clients[app[r]] \in ClientRow \cup {None}
  BY DEF Shape, WorkShape
<1>2. NothingTold \in [Key -> Status \cup {None}]
  BY DEF NothingTold
<1>3. OldRow(r) \in ClientRow
  BY <1>1, <1>2 DEF OldRow, ClientRow, Draft, Inserter
<1>4. Registered(r) \in ClientRow
  BY <1>1, <1>3 DEF Registered, NewStatuses, ClientRow, Draft
<1>5. NewMappings(r) \in SUBSET Mapping
  BY <1>1 DEF NewMappings, Mapping, Draft
<1> QED BY <1>4, <1>5

LEMMA RegistrationTyping ==
  ASSUME NEW r \in Request, Typing, RegistrationStep(r),
         UNCHANGED <<partnerVars, acceptVars, shown>>
  PROVE  Typing'
<1> USE DEF Typing, HubTypeOK
<1>1. CASE CommitRegistration(r)
  <2>1. /\ stage[r] = "composing"
        /\ AfterRegistration(r) \in {"clients", "done"}
        /\ AfterRegistration(r) = "clients" => op[r] = "accept"
    BY <1>1 DEF CommitRegistration, AfterRegistration
  <2>2. clients' \in [App -> ClientRow \cup {None}] /\ maps' \in SUBSET Mapping
    BY <1>1, <2>1, RegisteredTyping DEF CommitRegistration, DeploymentTypeOK
  <2>3. DeploymentTypeOK'
    BY <1>1, <2>1, <2>2 DEF CommitRegistration, To, DeploymentTypeOK, Stage, Ended
  <2>4. HubTypeOK'
    BY <1>1, <2>3 DEF CommitRegistration, partnerVars, acceptVars, ComposingTypeOK,
       PartnerTypeOK, AcceptTypeOK, ClaimTypeOK
  <2>5. Shape'
    BY <1>1, <2>1 DEF CommitRegistration, To, partnerVars, acceptVars, Shape, FlowShape,
       WorkShape, ClaimShape, DeploymentTypeOK, ComposingTypeOK
  <2> QED BY <2>4, <2>5
<1>2. CASE RegistrationFails(r)
  <2>1. HubTypeOK'
    BY <1>2 DEF RegistrationFails, To, rowVars, partnerVars, acceptVars, DeploymentTypeOK,
       ComposingTypeOK, PartnerTypeOK, AcceptTypeOK, ClaimTypeOK, Stage, Ended
  <2>2. Shape'
    BY <1>2 DEF RegistrationFails, To, rowVars, partnerVars, acceptVars, Shape, FlowShape,
       WorkShape, ClaimShape, DeploymentTypeOK, ComposingTypeOK
  <2> QED BY <2>1, <2>2
<1> QED BY <1>1, <1>2, ComposeTyping DEF RegistrationStep

\* Partner connections and boots.
LEMMA ManifestTyping ==
  ASSUME NEW s \in Source
  PROVE  /\ InstancesOf[s] \in SUBSET Name
         /\ \A n \in InstancesOf[s] : ServiceOf[n] \in Service /\ RolesOf[n] \in SUBSET Role
BY DeploymentAssumption DEF InstancesOf, ServiceOf, RolesOf, CompositionManifest, ServiceManifest

LEMMA AppliedTyping ==
  ASSUME NEW r \in Request, Typing, stage[r] = "applying"
  PROVE  /\ comp[r] \in Composition /\ part[r] \in Source
         /\ AppliedInstances(r) \in SUBSET Instance
         /\ NewUses(r) \in SUBSET (Role \X Instance)
<1>1. comp[r] \in Composition /\ part[r] \in Source
  BY DEF Typing, Shape, WorkShape, Source
<1>2. Requested(r) \in SUBSET Name
  BY <1>1, ManifestTyping DEF Requested
<1>3. AppliedInstances(r) \in SUBSET Instance
  BY <1>1, <1>2 DEF AppliedInstances, InstancesIn, Instance, Inserter, Typing, HubTypeOK,
     DeploymentTypeOK
<1>4. NewUses(r) \in SUBSET (Role \X Instance)
  BY DEF NewUses
<1> QED BY <1>1, <1>3, <1>4

\* A step that changes the stage of a request only.
LEMMA MoveTyping ==
  ASSUME NEW r \in Request, Typing, NEW s \in Stage, To(r, s),
         s \in {"next", "done", "failed", "drop"},
         s = "next" => op[r] \in {"connect", "boot"},
         s = "drop" => comp[r] \in Composition,
         UNCHANGED <<rowVars, op, comp, app, seen, privateVars, shown>>
  PROVE  Typing'
<1>1. HubTypeOK'
  BY DEF To, Typing, HubTypeOK, rowVars, privateVars, partnerVars, acceptVars,
     DeploymentTypeOK, ComposingTypeOK, PartnerTypeOK, AcceptTypeOK, ClaimTypeOK
<1>2. Shape'
  BY DEF To, Typing, HubTypeOK, privateVars, partnerVars, acceptVars, Shape, FlowShape,
     WorkShape, ClaimShape, DeploymentTypeOK
<1> QED BY <1>1, <1>2 DEF Typing

\* The stages of a boot between two partners.
LEMMA BootTyping ==
  ASSUME NEW r \in Request, Typing,
         \/ \E p \in left[r] : ImportPartner(r, p)
         \/ SaveOrganization(r) \/ NextPartner(r) \/ BootEnds(r),
         UNCHANGED <<draft, acceptVars, shown>>
  PROVE  Typing'
<1> USE DEF Typing, HubTypeOK, acceptVars, ComposingTypeOK, AcceptTypeOK, ClaimTypeOK
<1>1. ASSUME NEW p \in left[r], ImportPartner(r, p) PROVE Typing'
  <2>1. HubTypeOK'
    BY <1>1 DEF ImportPartner, rowVars, taskVars, DeploymentTypeOK, PartnerTypeOK
  <2>2. Shape'
    BY <1>1 DEF ImportPartner, taskVars, Shape, FlowShape, WorkShape, ClaimShape
  <2> QED BY <2>1, <2>2
<1>2. CASE SaveOrganization(r)
  <2>1. /\ roles' \in [Role -> Instance \cup {None, Null}]
        /\ left' \in [Request -> SUBSET Partner]
    BY <1>2 DEF SaveOrganization, DeploymentTypeOK, PartnerTypeOK, Automatic
  <2>2. HubTypeOK'
    BY <1>2, <2>1 DEF SaveOrganization, To, DeploymentTypeOK, PartnerTypeOK, Stage
  <2>3. Shape'
    BY <1>2 DEF SaveOrganization, To, DeploymentTypeOK, Shape, FlowShape, WorkShape, ClaimShape
  <2> QED BY <2>2, <2>3
<1>3. CASE NextPartner(r)
  <2>1. PICK p \in left[r] : /\ part' = [part EXCEPT ![r] = p]
                             /\ left' = [left EXCEPT ![r] = left[r] \ {p}]
    BY <1>3 DEF NextPartner
  <2>2. p \in Partner /\ op[r] \in {"connect", "boot"}
    BY <1>3, <2>1 DEF NextPartner, PartnerTypeOK, Shape, FlowShape
  <2>3. HubTypeOK'
    BY <1>3, <2>1, <2>2 DEF NextPartner, To, rowVars, DeploymentTypeOK, PartnerTypeOK, Stage,
       Source
  <2>4. Shape'
    BY <1>3, <2>1, <2>2 DEF NextPartner, To, DeploymentTypeOK, PartnerTypeOK, Shape, FlowShape,
       WorkShape, ClaimShape
  <2> QED BY <2>3, <2>4
<1>4. CASE BootEnds(r)
  BY <1>4, MoveTyping DEF BootEnds, privateVars, Stage, Ended
<1> QED BY <1>1, <1>2, <1>3, <1>4

LEMMA ApplyTyping ==
  ASSUME NEW r \in Request, Typing,
         BeginApply(r) \/ CommitApply(r) \/ ApplyFails(r) \/ HookAnswers(r),
         UNCHANGED <<draft, acceptVars, shown>>
  PROVE  Typing'
<1> USE DEF Typing, HubTypeOK, acceptVars, ComposingTypeOK, AcceptTypeOK, ClaimTypeOK
<1>1. CASE BeginApply(r)
  <2>1. PICK c \in Upserted(r, part[r]) : comp' = [comp EXCEPT ![r] = c]
    BY <1>1 DEF BeginApply
  <2>2. part[r] \in Partner /\ stage[r] = "apply"
    BY <1>1 DEF BeginApply, Shape, WorkShape
  <2>3. c \in Composition
    BY <2>1, <2>2 DEF Upserted, Composition, Inserter, Source, DeploymentTypeOK
  <2>4. fresh' \in [Request -> SUBSET Service]
    <3>1. {s \in RequestedServices(r) : services[s] = "none"} \in SUBSET Service
      BY <2>2, ManifestTyping DEF RequestedServices, Requested, Source
    <3> QED BY <1>1, <3>1 DEF BeginApply, PartnerTypeOK
  <2>5. HubTypeOK'
    BY <1>1, <2>1, <2>3, <2>4 DEF BeginApply, To, rowVars, DeploymentTypeOK, PartnerTypeOK, Stage
  <2>6. Shape'
    BY <1>1, <2>1, <2>2, <2>3 DEF BeginApply, To, DeploymentTypeOK, PartnerTypeOK, Shape,
       FlowShape, WorkShape, ClaimShape
  <2> QED BY <2>5, <2>6
<1>2. CASE CommitApply(r)
  <2>1. stage[r] = "applying" /\ op[r] \in {"connect", "boot"}
    BY <1>2 DEF CommitApply, Shape, FlowShape
  <2>2. /\ comp[r] \in Composition /\ part[r] \in Source
        /\ AppliedInstances(r) \in SUBSET Instance
        /\ NewUses(r) \in SUBSET (Role \X Instance)
    BY <2>1, AppliedTyping
  <2>3. AfterApply(r) \in {"hook", "next", "done"}
    BY DEF AfterApply
  <2>4. roles' \in [Role -> Instance \cup {None, Null}]
    <3>1. PICK by \in [MissingRoles(r) -> AppliedInstances(r)] :
            roles' = [x \in Role |-> IF x \in MissingRoles(r) THEN by[x] ELSE roles[x]]
      BY <1>2 DEF CommitApply
    <3> QED BY <2>2, <3>1 DEF DeploymentTypeOK
  <2>5. services' \in [Service -> {"none", "one", "many"}]
    BY <1>2 DEF CommitApply, OneMore, DeploymentTypeOK
  <2>6. DeploymentTypeOK'
    BY <1>2, <2>2, <2>3, <2>4, <2>5 DEF CommitApply, To, DeploymentTypeOK, Stage, Ended
  <2>7. HubTypeOK'
    BY <1>2, <2>6 DEF CommitApply, partnerVars, PartnerTypeOK
  <2>8. Shape'
    BY <1>2, <2>1, <2>2, <2>3 DEF CommitApply, To, partnerVars, DeploymentTypeOK, Shape,
       FlowShape, WorkShape, ClaimShape
  <2> QED BY <2>7, <2>8
<1>3. CASE ApplyFails(r)
  BY <1>3, MoveTyping DEF ApplyFails, privateVars, Stage, Ended
<1>4. ASSUME NEW a \in Answer, HookApproves(r, a) PROVE Typing'
  <2>1. op[r] \in {"connect", "boot"}
    BY <1>4 DEF HookApproves, Shape, FlowShape
  <2> QED BY <1>4, <2>1, MoveTyping DEF HookApproves, privateVars, Stage, Ended
<1>5. ASSUME NEW a \in Answer, HookRejects(r, a) PROVE Typing'
  <2>1. comp[r] \in Composition
    BY <1>5 DEF HookRejects, Shape, WorkShape
  <2>2. turned' \in [Request -> SUBSET Composition]
    BY <1>5, <2>1 DEF HookRejects, PartnerTypeOK
  <2>3. HubTypeOK'
    BY <1>5, <2>2 DEF HookRejects, To, rowVars, DeploymentTypeOK, PartnerTypeOK, Stage
  <2>4. Shape'
    BY <1>5, <2>1 DEF HookRejects, To, DeploymentTypeOK, Shape, FlowShape, WorkShape, ClaimShape
  <2> QED BY <2>3, <2>4
<1> QED BY <1>1, <1>2, <1>3, <1>4, <1>5 DEF HookAnswers

\* Accepted server codes: a service row may have been inserted before it fails.
LEMMA FailTyping ==
  ASSUME NEW r \in Request, Typing, Fail(r),
         services' \in [Service -> {"none", "one", "many"}],
         UNCHANGED <<comps, insts, roles, used, clients, maps, codes, result, shown>>
  PROVE  Typing'
<1>1. HubTypeOK'
  BY DEF Fail, To, Typing, HubTypeOK, privateVars, partnerVars, acceptVars, Stage, Ended,
     DeploymentTypeOK, ComposingTypeOK, PartnerTypeOK, AcceptTypeOK, ClaimTypeOK
<1>2. Shape'
  BY DEF Fail, To, Typing, HubTypeOK, privateVars, partnerVars, acceptVars, Shape, FlowShape,
     WorkShape, ClaimShape, DeploymentTypeOK
<1> QED BY <1>1, <1>2 DEF Typing

LEMMA NewServicesTyping ==
  ASSUME NEW r \in Request, Typing
  PROVE  NewServices(r) \in [Service -> {"none", "one", "many"}]
BY DEF NewServices, OneMore, Typing, HubTypeOK, DeploymentTypeOK

LEMMA AcceptFailsTyping ==
  ASSUME NEW r \in Request, Typing, UNCHANGED shown,
         \/ CreateFails(r) \/ FindServiceFails(r) \/ InsertFails(r) \/ GiveRoleFails(r)
         \/ RegisterStagedFails(r) \/ StoreKeyFails(r) \/ MissingServiceFails(r)
         \/ GrantFails(r)
  PROVE  Typing'
<1>1. services' \in [Service -> {"none", "one", "many"}]
  BY NewServicesTyping DEF CreateFails, FindServiceFails, InsertFails, GiveRoleFails,
     RegisterStagedFails, StoreKeyFails, MissingServiceFails, GrantFails, rowVars, Typing,
     HubTypeOK, DeploymentTypeOK
<1> QED BY <1>1, FailTyping DEF CreateFails, FindServiceFails, InsertFails, GiveRoleFails,
        RegisterStagedFails, StoreKeyFails, MissingServiceFails, GrantFails, rowVars

\* The composition and its instances are inserted.
LEMMA InsertingTyping ==
  ASSUME NEW r \in Request, Typing, UNCHANGED shown,
         CreateComposition(r) \/ FindService(r) \/ InsertInstance(r)
  PROVE  Typing'
<1> USE DEF Typing, HubTypeOK, ComposingTypeOK, ClaimTypeOK
<1>1. CASE CreateComposition(r)
  <2> DEFINE c == [by |-> r, from |-> part[r]]
  <2>1. part[r] \in Code /\ op[r] = "accept"
    BY <1>1 DEF CreateComposition, Shape, FlowShape, WorkShape
  <2>2. c \in Composition
    BY <2>1 DEF Composition, Inserter, Source
  <2>3. InstancesOf[part[r]] \in SUBSET Name /\ ClientsOf[part[r]] \in SUBSET App
    BY <2>1, ManifestTyping, DeploymentAssumption DEF Source, ClientsOf, CompositionManifest
  <2>4. /\ comps' = comps \cup {c} /\ comp' = [comp EXCEPT ![r] = c]
        /\ stage[r] = "create" /\ stage' = [stage EXCEPT ![r] = "names"]
    BY <1>1 DEF CreateComposition, To
  <2> HIDE DEF c
  <2>5. DeploymentTypeOK'
    BY <1>1, <2>2, <2>4 DEF CreateComposition, DeploymentTypeOK, Stage
  <2>6. PartnerTypeOK' /\ AcceptTypeOK'
    BY <1>1, <2>3 DEF CreateComposition, partnerVars, PartnerTypeOK, AcceptTypeOK
  <2>7. Shape'
    BY <1>1, <2>1, <2>2, <2>4 DEF CreateComposition, partnerVars, DeploymentTypeOK,
       Shape, FlowShape, WorkShape, ClaimShape
  <2> QED BY <1>1, <2>5, <2>6, <2>7 DEF CreateComposition
<1>2. CASE FindService(r)
  <2>1. PICK n \in names[r] :
          /\ fresh' = [fresh EXCEPT ![r] =
               IF services[ServiceOf[n]] = "none" THEN {ServiceOf[n]} ELSE {}]
          /\ target' = [target EXCEPT ![r] = [comp |-> comp[r], name |-> n, by |-> r]]
    BY <1>2 DEF FindService
  <2>2. /\ n \in Name /\ comp[r] \in Composition /\ ServiceOf[n] \in Service
        /\ op[r] = "accept"
    BY <1>2, <2>1, DeploymentAssumption DEF FindService, AcceptTypeOK, Shape, FlowShape, WorkShape,
       ServiceOf, ServiceManifest
  <2>3. [comp |-> comp[r], name |-> n, by |-> r] \in Instance
    BY <2>2 DEF Instance, Inserter
  <2>4. DeploymentTypeOK'
    BY <1>2 DEF FindService, To, rowVars, DeploymentTypeOK, Stage
  <2>5. PartnerTypeOK' /\ AcceptTypeOK'
    BY <1>2, <2>1, <2>2, <2>3 DEF FindService, PartnerTypeOK, AcceptTypeOK
  <2>6. Shape'
    BY <1>2, <2>1, <2>2, <2>3 DEF FindService, To, DeploymentTypeOK, AcceptTypeOK, Shape,
       FlowShape, WorkShape, ClaimShape
  <2> QED BY <1>2, <2>4, <2>5, <2>6 DEF FindService
<1>3. CASE InsertInstance(r)
  <2>1. target[r] \in Instance /\ op[r] = "accept" /\ comp[r] \in Composition
    BY <1>3 DEF InsertInstance, Shape, FlowShape, WorkShape
  <2>2. RolesOf[target[r].name] \X {target[r]} \in SUBSET (Role \X Instance)
    BY <2>1, DeploymentAssumption DEF Instance, RolesOf, ServiceManifest
  <2>3. DeploymentTypeOK'
    BY <1>3, <2>1, NewServicesTyping DEF InsertInstance, To, DeploymentTypeOK, Stage
  <2>4. AcceptTypeOK'
    BY <1>3, <2>2 DEF InsertInstance, AcceptTypeOK
  <2>5. PartnerTypeOK'
    BY <1>3 DEF InsertInstance, partnerVars, PartnerTypeOK
  <2>6. Shape'
    BY <1>3, <2>1 DEF InsertInstance, To, partnerVars, DeploymentTypeOK, Shape, FlowShape,
       WorkShape, ClaimShape
  <2> QED BY <1>3, <2>3, <2>4, <2>5, <2>6 DEF InsertInstance
<1> QED BY <1>1, <1>2, <1>3

\* Roles are given, clients registered.
LEMMA GivingTyping ==
  ASSUME NEW r \in Request, Typing, UNCHANGED shown,
         \/ GiveRole(r) \/ InstanceReady(r) \/ AllInserted(r) \/ RegisterStaged(r)
         \/ AllRegistered(r)
  PROVE  Typing'
<1> USE DEF Typing, HubTypeOK, ClaimTypeOK
<1>1. CASE GiveRole(r)
  <2>1. PICK d \in due[r] :
          /\ d[2] \in insts
          /\ roles' = [roles EXCEPT ![d[1]] = IF roles[d[1]] = None THEN d[2] ELSE roles[d[1]]]
          /\ used' = used \cup {d}
          /\ due' = [due EXCEPT ![r] = due[r] \ {d}]
    BY <1>1 DEF GiveRole
  <2>2. d \in Role \X Instance
    BY <2>1 DEF AcceptTypeOK
  <2>3. roles' \in [Role -> Instance \cup {None, Null}] /\ used' \in SUBSET (Role \X Instance)
    BY <2>1, <2>2 DEF DeploymentTypeOK
  <2>4. DeploymentTypeOK'
    BY <1>1, <2>3 DEF GiveRole, taskVars, DeploymentTypeOK
  <2>5. AcceptTypeOK'
    BY <1>1, <2>1 DEF GiveRole, AcceptTypeOK
  <2>6. ComposingTypeOK' /\ PartnerTypeOK' /\ ClaimTypeOK'
    BY <1>1 DEF GiveRole, partnerVars, ComposingTypeOK, PartnerTypeOK
  <2>7. Shape'
    BY <1>1 DEF GiveRole, taskVars, partnerVars, Shape, FlowShape, WorkShape, ClaimShape
  <2> QED BY <2>4, <2>5, <2>6, <2>7
<1>2. ASSUME NEW s \in Stage, To(r, s), s \in {"grant", "names", "clients", "key"},
             s # "grant" => op[r] = "accept" /\ comp[r] \in Composition,
             UNCHANGED <<rowVars, op, comp, app, seen, privateVars>>
      PROVE  Typing'
  <2>1. HubTypeOK'
    BY <1>2 DEF To, rowVars, privateVars, partnerVars, acceptVars,
       DeploymentTypeOK, ComposingTypeOK, PartnerTypeOK, AcceptTypeOK, ClaimTypeOK
  <2>2. Shape'
    BY <1>2 DEF To, privateVars, partnerVars, acceptVars, Shape, FlowShape,
       WorkShape, ClaimShape, DeploymentTypeOK
  <2> QED BY <2>1, <2>2
<1>3. CASE InstanceReady(r)
  <2>1. op[r] # "service" => op[r] = "accept" /\ comp[r] \in Composition
    BY <1>3 DEF InstanceReady, Shape, FlowShape, WorkShape
  <2> QED BY <1>2, <1>3, <2>1 DEF InstanceReady, Stage
<1>4. CASE AllInserted(r) \/ AllRegistered(r)
  <2>1. op[r] = "accept" /\ comp[r] \in Composition
    BY <1>4 DEF AllInserted, AllRegistered, Shape, FlowShape, WorkShape
  <2> QED BY <1>2, <1>4, <2>1 DEF AllInserted, AllRegistered, Stage
<1>5. CASE RegisterStaged(r)
  <2>1. PICK a \in apps[r] :
          /\ app' = [app EXCEPT ![r] = a]
          /\ apps' = [apps EXCEPT ![r] = apps[r] \ {a}]
          /\ Enter(r, ClientMan[a], {})
    BY <1>5 DEF RegisterStaged
  <2>2. /\ a \in App /\ ClientMan[a] \in Manifest
        /\ comp[r] \in Composition /\ op[r] = "accept"
    BY <1>5, <2>1, CodeAssumption DEF RegisterStaged, AcceptTypeOK, Shape, FlowShape, WorkShape
  <2>3. /\ draft' \in [Request -> Draft \cup {NoDraft}]
        /\ draft'[r] \in Draft /\ draft'[r].next # 0
        /\ \A q \in Request \ {r} : draft'[q] = draft[q]
    BY <2>1, <2>2 DEF Enter, NothingTold, Draft, ComposingTypeOK
  <2>4. DeploymentTypeOK'
    BY <1>5, <2>1, <2>2 DEF RegisterStaged, To, rowVars, DeploymentTypeOK, Stage
  <2>5. AcceptTypeOK'
    BY <1>5, <2>1 DEF RegisterStaged, AcceptTypeOK
  <2>6. ComposingTypeOK' /\ PartnerTypeOK' /\ ClaimTypeOK'
    BY <1>5, <2>3 DEF RegisterStaged, partnerVars, ComposingTypeOK, PartnerTypeOK
  <2>7. Shape'
    BY <1>5, <2>1, <2>2, <2>3 DEF RegisterStaged, To, partnerVars, DeploymentTypeOK, Shape,
       FlowShape, WorkShape, ClaimShape
  <2> QED BY <2>4, <2>5, <2>6, <2>7
<1> QED BY <1>1, <1>3, <1>4, <1>5

\* The auth key is stored, the code granted.
LEMMA GrantingTyping ==
  ASSUME NEW r \in Request, Typing, UNCHANGED shown, StoreKey(r) \/ Grant(r)
  PROVE  Typing'
<1> USE DEF Typing, HubTypeOK, ClaimTypeOK
<1>1. CASE StoreKey(r)
  <2>1. comp[r] \in Composition
    BY <1>1 DEF StoreKey, Shape, WorkShape
  <2>2. DeploymentTypeOK'
    BY <1>1, <2>1 DEF StoreKey, To, DeploymentTypeOK, Stage
  <2>3. AcceptTypeOK'
    BY <1>1, <2>1 DEF StoreKey, AcceptTypeOK
  <2>4. ComposingTypeOK' /\ PartnerTypeOK' /\ ClaimTypeOK'
    BY <1>1 DEF StoreKey, partnerVars, ComposingTypeOK, PartnerTypeOK
  <2>5. Shape'
    BY <1>1 DEF StoreKey, To, partnerVars, DeploymentTypeOK, Shape, FlowShape, WorkShape,
       ClaimShape
  <2> QED BY <2>2, <2>3, <2>4, <2>5
<1>2. CASE Grant(r)
  <2>1. Outcome(r) \in Composition \cup Instance
    BY <1>2 DEF Grant, DeploymentTypeOK
  <2>2. DeploymentTypeOK'
    BY <1>2, <2>1 DEF Grant, Answered, To, DeploymentTypeOK, Stage, Ended
  <2>3. AcceptTypeOK' /\ ComposingTypeOK' /\ PartnerTypeOK' /\ ClaimTypeOK'
    BY <1>2 DEF Grant, privateVars, partnerVars, acceptVars, ComposingTypeOK, PartnerTypeOK,
       AcceptTypeOK
  <2>4. Shape'
    BY <1>2 DEF Grant, To, privateVars, partnerVars, acceptVars, DeploymentTypeOK, Shape,
       FlowShape, WorkShape, ClaimShape
  <2> QED BY <2>2, <2>3, <2>4
<1> QED BY <1>1, <1>2

LEMMA AcceptTyping ==
  ASSUME NEW r \in Request, Typing, UNCHANGED shown, AcceptStep(r)
  PROVE  Typing'
BY AcceptFailsTyping, InsertingTyping, GivingTyping, GrantingTyping DEF AcceptStep

\* Claims.
LEMMA LinksTyping ==
  ASSUME NEW a, Typing
  PROVE  LinksOf(a) \in SUBSET Link
BY DEF LinksOf, Link, Mapping, Typing, HubTypeOK, DeploymentTypeOK

\* A claim reads on: only its own answer and stage change.
LEMMA ReadTyping ==
  ASSUME NEW r \in Request, Typing, NEW s \in Stage, To(r, s),
         NEW answer \in ClaimAnswer \cup CompositionClaimAnswer \cup {NoClaim}, Show(r, answer),
         s \in {"done", "failed", "rendering", "listing"},
         s = "rendering" => answer \in ClaimAnswer,
         s = "listing" => answer \in CompositionClaimAnswer,
         UNCHANGED <<rowVars, op, comp, app, seen, privateVars>>
  PROVE  Typing'
<1>1. HubTypeOK'
  BY DEF To, Show, Typing, HubTypeOK, rowVars, privateVars, partnerVars, acceptVars,
     DeploymentTypeOK, ComposingTypeOK, PartnerTypeOK, AcceptTypeOK, ClaimTypeOK
<1>2. Shape'
  BY DEF To, Show, Typing, HubTypeOK, privateVars, partnerVars, acceptVars, Shape, FlowShape,
     WorkShape, ClaimShape, DeploymentTypeOK, ClaimTypeOK
<1> QED BY <1>1, <1>2 DEF Typing

LEMMA ClaimTyping ==
  ASSUME NEW r \in Request, Typing, ClaimStep(r), UNCHANGED privateVars
  PROVE  Typing'
<1>s. {"done", "failed", "rendering", "listing"} \subseteq Stage
  BY DEF Stage, Ended
<1>1. CASE ListMappings(r)
  <2>1. [instances |-> {}, left |-> LinksOf(app[r])] \in ClaimAnswer
    BY LinksTyping DEF ClaimAnswer
  <2>2. PICK s \in {"done", "rendering"} : To(r, s)
    BY <1>1 DEF ListMappings
  <2> QED BY <1>1, <1>s, <2>1, <2>2, ReadTyping DEF ListMappings
<1>2. CASE RenderInstance(r)
  <2>1. shown[r] \in ClaimAnswer
    BY <1>2 DEF RenderInstance, Typing, Shape, ClaimShape
  <2>2. PICK l \in shown[r].left :
          /\ Show(r, [instances |-> shown[r].instances \cup {l}, left |-> shown[r].left \ {l}])
          /\ To(r, IF shown[r].left = {l} THEN "done" ELSE "rendering")
    BY <1>2 DEF RenderInstance
  <2>3. [instances |-> shown[r].instances \cup {l}, left |-> shown[r].left \ {l}] \in ClaimAnswer
    BY <2>1, <2>2 DEF ClaimAnswer
  <2>4. PICK s \in {"done", "rendering"} : To(r, s)
    BY <2>2
  <2> QED BY <1>2, <1>s, <2>2, <2>3, <2>4, ReadTyping DEF RenderInstance
<1>3. CASE RenderFails(r)
  BY <1>3, <1>s, ReadTyping DEF RenderFails
<1>4. CASE ListInstances(r)
  <2>1. shown[r] \in CompositionClaimAnswer
    BY <1>4 DEF ListInstances, Typing, Shape, ClaimShape
  <2>2. [code |-> shown[r].code, instances |-> InstancesIn(comp[r]), clients |-> {}]
          \in CompositionClaimAnswer
    BY <2>1 DEF CompositionClaimAnswer, InstancesIn, Typing, HubTypeOK, DeploymentTypeOK
  <2> QED BY <1>4, <1>s, <2>2, ReadTyping DEF ListInstances
<1>5. CASE ListClients(r)
  <2>1. shown[r] \in CompositionClaimAnswer
    BY <1>5 DEF ListClients, Typing, Shape, ClaimShape
  <2>2. [code |-> shown[r].code, instances |-> shown[r].instances, clients |-> ClientsIn(comp[r])]
          \in CompositionClaimAnswer
    BY <2>1 DEF CompositionClaimAnswer, ClientsIn
  <2> QED BY <1>5, <1>s, <2>2, ReadTyping DEF ListClients
<1> QED BY <1>1, <1>2, <1>3, <1>4, <1>5 DEF ClaimStep

\* Arrivals: a request starts with what it was asked for.
LEMMA StartTyping ==
  ASSUME NEW r \in Request, Typing, NEW o \in Op, NEW s \in Stage,
         NEW c \in Composition \cup {None}, NEW a \in App \cup {None}, Start(r, o, s, c, a),
         UNCHANGED rowVars
  PROVE  /\ DeploymentTypeOK'
         /\ op'[r] = o /\ stage'[r] = s /\ comp'[r] = c /\ app'[r] = a
         /\ \A q \in Request \ {r} : /\ op'[q] = op[q] /\ stage'[q] = stage[q]
                                     /\ comp'[q] = comp[q] /\ app'[q] = app[q]
BY DEF Start, rowVars, Typing, HubTypeOK, DeploymentTypeOK

LEMMA ArriveTyping ==
  ASSUME NEW r \in Request, Typing, Arrive(r), UNCHANGED shown
  PROVE  Typing'
<1> USE DEF Typing, HubTypeOK, ClaimTypeOK
<1>1. ASSUME NEW c \in comps, DeleteComposition(r, c), UNCHANGED privateVars PROVE Typing'
  <2>1. c \in Composition
    BY DEF DeploymentTypeOK
  <2>2. /\ DeploymentTypeOK'
        /\ op'[r] = "delete" /\ stage'[r] = "drop" /\ comp'[r] = c
        /\ \A q \in Request \ {r} : /\ op'[q] = op[q] /\ stage'[q] = stage[q]
                                    /\ comp'[q] = comp[q] /\ app'[q] = app[q]
    <3>1. Start(r, "delete", "drop", c, None) /\ UNCHANGED rowVars
      BY <1>1 DEF DeleteComposition
    <3>2. "delete" \in Op /\ "drop" \in Stage /\ c \in Composition \cup {None}
          /\ None \in App \cup {None}
      BY <2>1 DEF Op, Stage
    <3> QED BY <3>1, <3>2, StartTyping
  <2>3. Shape'
    BY <1>1, <2>1, <2>2 DEF privateVars, partnerVars, acceptVars, Shape, FlowShape, WorkShape,
       ClaimShape
  <2> QED BY <1>1, <2>2, <2>3 DEF privateVars, partnerVars, acceptVars, ComposingTypeOK,
          PartnerTypeOK, AcceptTypeOK
<1>2. ASSUME NEW a \in App, NEW c \in comps, NEW m \in Manifest, NEW D \in SUBSET OptionalKeys(m),
             Register(r, a, c, m, D), UNCHANGED <<partnerVars, acceptVars>>
      PROVE  Typing'
  <2>1. c \in Composition
    BY DEF DeploymentTypeOK
  <2>2. /\ DeploymentTypeOK'
        /\ op'[r] = "register" /\ stage'[r] = "composing" /\ comp'[r] = c /\ app'[r] = a
        /\ \A q \in Request \ {r} : /\ op'[q] = op[q] /\ stage'[q] = stage[q]
                                    /\ comp'[q] = comp[q] /\ app'[q] = app[q]
    BY <1>2, <2>1, StartTyping DEF Register, Op, Stage
  <2>3. D \in SUBSET Key
    <3>1. Requirements[m] \in Seq(Requirement)
      BY ComposingAssumption DEF Requirements, ClientManifest
    <3>2. \A j \in 1..Len(Requirements[m]) : Requirements[m][j] \in Requirement
      BY <3>1
    <3>3. \A q \in Requirement : q.key \in Key
      BY DEF Requirement
    <3> QED BY <3>2, <3>3 DEF OptionalKeys
  <2>4. /\ draft' \in [Request -> Draft \cup {NoDraft}]
        /\ draft'[r] \in Draft /\ draft'[r].next # 0
        /\ \A q \in Request \ {r} : draft'[q] = draft[q]
    BY <1>2, <2>3 DEF Register, Enter, NothingTold, Draft, ComposingTypeOK
  <2>5. Shape'
    BY <1>2, <2>1, <2>2, <2>4 DEF partnerVars, acceptVars, Shape, FlowShape, WorkShape, ClaimShape
  <2> QED BY <1>2, <2>2, <2>4, <2>5 DEF partnerVars, acceptVars, ComposingTypeOK, PartnerTypeOK,
          AcceptTypeOK
<1>3. ASSUME NEW p \in Partner, Connect(r, p), UNCHANGED <<draft, acceptVars>> PROVE Typing'
  <2>1. /\ DeploymentTypeOK'
        /\ op'[r] = "connect" /\ stage'[r] = "apply"
        /\ \A q \in Request \ {r} : /\ op'[q] = op[q] /\ stage'[q] = stage[q]
                                    /\ comp'[q] = comp[q] /\ app'[q] = app[q]
    BY <1>3, StartTyping DEF Connect, Op, Stage
  <2>2. PartnerTypeOK' /\ part'[r] = p /\ \A q \in Request \ {r} : part'[q] = part[q]
    BY <1>3 DEF Connect, PartnerTypeOK, Source
  <2>3. Shape'
    BY <1>3, <2>1, <2>2 DEF acceptVars, Shape, FlowShape, WorkShape, ClaimShape
  <2> QED BY <1>3, <2>1, <2>2, <2>3 DEF acceptVars, ComposingTypeOK, AcceptTypeOK
<1>4. ASSUME Boot(r), UNCHANGED <<draft, acceptVars>> PROVE Typing'
  <2>1. /\ DeploymentTypeOK'
        /\ op'[r] = "boot" /\ stage'[r] = "import"
        /\ \A q \in Request \ {r} : /\ op'[q] = op[q] /\ stage'[q] = stage[q]
                                    /\ comp'[q] = comp[q] /\ app'[q] = app[q]
    BY <1>4, StartTyping DEF Boot, Op, Stage
  <2>2. PartnerTypeOK' /\ part' = part
    BY <1>4, PartnerAssumption DEF Boot, PartnerTypeOK
  <2>3. Shape'
    BY <1>4, <2>1, <2>2 DEF acceptVars, Shape, FlowShape, WorkShape, ClaimShape
  <2> QED BY <1>4, <2>1, <2>2, <2>3 DEF acceptVars, ComposingTypeOK, AcceptTypeOK
<1>5. ASSUME NEW k \in Code, BeginAccept(r, k) PROVE Typing'
  <2>1. /\ DeploymentTypeOK'
        /\ op'[r] = "accept" /\ stage'[r] = "create"
        /\ \A q \in Request \ {r} : /\ op'[q] = op[q] /\ stage'[q] = stage[q]
                                    /\ comp'[q] = comp[q] /\ app'[q] = app[q]
    BY <1>5, StartTyping DEF BeginAccept, Op, Stage
  <2>2. PartnerTypeOK' /\ part'[r] = k /\ \A q \in Request \ {r} : part'[q] = part[q]
    BY <1>5 DEF BeginAccept, PartnerTypeOK, Source
  <2>3. Shape'
    BY <1>5, <2>1, <2>2 DEF BeginAccept, acceptVars, Shape, FlowShape, WorkShape, ClaimShape
  <2> QED BY <1>5, <2>1, <2>2, <2>3 DEF BeginAccept, acceptVars, ComposingTypeOK, AcceptTypeOK
<1>6. ASSUME NEW k \in ServiceCode, BeginAcceptService(r, k) PROVE Typing'
  <2>1. PICK s \in {"roles", "missing"} : Start(r, "service", s, None, None)
    BY <1>6 DEF BeginAcceptService
  <2>2. /\ DeploymentTypeOK'
        /\ op'[r] = "service" /\ stage'[r] = s
        /\ \A q \in Request \ {r} : /\ op'[q] = op[q] /\ stage'[q] = stage[q]
                                    /\ comp'[q] = comp[q] /\ app'[q] = app[q]
    <3>1. UNCHANGED rowVars
      BY <1>6 DEF BeginAcceptService
    <3>2. "service" \in Op /\ s \in Stage
      BY DEF Op, Stage
    <3>3. None \in Composition \cup {None} /\ None \in App \cup {None}
      OBVIOUS
    <3> QED BY <2>1, <3>1, <3>2, <3>3, StartTyping
  <2>3. /\ part'[r] = k /\ \A q \in Request \ {r} : part'[q] = part[q]
        /\ \A q \in Request \ {r} : target'[q] = target[q]
        /\ draft' = draft
    BY <1>6 DEF BeginAcceptService, PartnerTypeOK, AcceptTypeOK
  <2>4. PartnerTypeOK'
    <3>1. NamedBy[k] \in Name /\ ServiceOf[NamedBy[k]] \in Service
      BY CodeAssumption, DeploymentAssumption DEF ServiceOf, ServiceManifest
    <3>2. fresh' \in [Request -> SUBSET Service]
      BY <1>6, <3>1 DEF BeginAcceptService, PartnerTypeOK
    <3> QED BY <1>6, <3>2 DEF BeginAcceptService, PartnerTypeOK
  <2>5. AcceptTypeOK'
    <3>1. \A i \in insts : i \in Instance /\ RolesOf[i.name] \X {i} \in SUBSET (Role \X Instance)
      BY DeploymentAssumption DEF DeploymentTypeOK, Instance, RolesOf, ServiceManifest
    <3> QED BY <1>6, <3>1 DEF BeginAcceptService, AcceptTypeOK
  <2>6. Shape'
    BY <2>2, <2>3 DEF Shape, FlowShape, WorkShape, ClaimShape
  <2> QED BY <2>2, <2>3, <2>4, <2>5, <2>6 DEF ComposingTypeOK
<1> QED BY <1>1, <1>2, <1>3, <1>4, <1>5, <1>6 DEF Arrive

LEMMA ClaimArriveTyping ==
  ASSUME NEW r \in Request, Typing, ClaimArrive(r), UNCHANGED privateVars
  PROVE  Typing'
<1> USE DEF Typing, HubTypeOK
<1>r. ComposingTypeOK' /\ PartnerTypeOK' /\ AcceptTypeOK'
  BY DEF privateVars, partnerVars, acceptVars, ComposingTypeOK, PartnerTypeOK, AcceptTypeOK
<1>1. ASSUME NEW a \in App, BeginClaim(r, a) PROVE Typing'
  <2>1. clients[a].comp \in Composition
    BY <1>1 DEF BeginClaim, DeploymentTypeOK, ClientRow
  <2>2. /\ DeploymentTypeOK'
        /\ op'[r] = "claim" /\ stage'[r] = "claiming"
        /\ \A q \in Request \ {r} : /\ op'[q] = op[q] /\ stage'[q] = stage[q]
                                    /\ comp'[q] = comp[q] /\ app'[q] = app[q]
    BY <1>1, <2>1, StartTyping DEF BeginClaim, Op, Stage
  <2>3. Shape'
    BY <1>1, <2>2 DEF BeginClaim, privateVars, partnerVars, acceptVars, Shape, FlowShape,
       WorkShape, ClaimShape
  <2> QED BY <1>1, <1>r, <2>2, <2>3 DEF BeginClaim, ClaimTypeOK
<1>2. ASSUME NEW k \in Code, BeginServerClaim(r, k) PROVE Typing'
  <2>1. result[k] \in Composition
    BY <1>2 DEF BeginServerClaim, DeploymentTypeOK
  <2>2. /\ DeploymentTypeOK'
        /\ op'[r] = "serve" /\ stage'[r] = "serving"
        /\ \A q \in Request \ {r} : /\ op'[q] = op[q] /\ stage'[q] = stage[q]
                                    /\ comp'[q] = comp[q] /\ app'[q] = app[q]
    BY <1>2, <2>1, StartTyping DEF BeginServerClaim, Op, Stage
  <2>3. [code |-> k, instances |-> {}, clients |-> {}] \in CompositionClaimAnswer
    BY DEF CompositionClaimAnswer
  <2>4. /\ ClaimTypeOK' /\ shown'[r] \in CompositionClaimAnswer
        /\ \A q \in Request \ {r} : shown'[q] = shown[q]
    BY <1>2, <2>3 DEF BeginServerClaim, Show, ClaimTypeOK
  <2>5. Shape'
    BY <2>2, <2>4 DEF privateVars, partnerVars, acceptVars, Shape, FlowShape,
       WorkShape, ClaimShape
  <2> QED BY <1>r, <2>2, <2>4, <2>5
<1> QED BY <1>1, <1>2 DEF ClaimArrive

\* Codes are drawn and expire, devices are deleted.
LEMMA CodeTyping ==
  ASSUME Typing, UNCHANGED shown,
         \/ \E k \in Code \cup ServiceCode : StartCode(k) \/ PollExpired(k)
         \/ DeleteDevice
  PROVE  Typing'
<1> USE DEF Typing, HubTypeOK
<1>1. UNCHANGED <<taskVars, privateVars, shown>>
  BY DEF StartCode, PollExpired, DeleteDevice
<1>2. DeploymentTypeOK'
  <2>1. CASE DeleteDevice
    BY <1>1, <2>1, CascadeTyping DEF DeleteDevice, taskVars, DeploymentTypeOK
  <2>2. ASSUME NEW k \in Code \cup ServiceCode, StartCode(k) \/ PollExpired(k)
        PROVE  DeploymentTypeOK'
    BY <1>1, <2>2 DEF StartCode, PollExpired, Answered, taskVars, DeploymentTypeOK
  <2> QED BY <2>1, <2>2
<1>3. ComposingTypeOK' /\ PartnerTypeOK' /\ AcceptTypeOK' /\ ClaimTypeOK'
  BY <1>1 DEF privateVars, partnerVars, acceptVars, ComposingTypeOK, PartnerTypeOK,
     AcceptTypeOK, ClaimTypeOK
<1>4. Shape'
  BY <1>1 DEF taskVars, privateVars, partnerVars, acceptVars, Shape, FlowShape, WorkShape,
     ClaimShape
<1> QED BY <1>2, <1>3, <1>4

LEMMA StutterTyping == ASSUME Typing, UNCHANGED hubVars PROVE Typing'
<1>1. HubTypeOK'
  BY DEF Typing, HubTypeOK, hubVars, deployVars, rowVars, taskVars, privateVars, partnerVars,
     acceptVars, DeploymentTypeOK, ComposingTypeOK, PartnerTypeOK, AcceptTypeOK, ClaimTypeOK
<1>2. Shape'
  BY DEF Typing, hubVars, deployVars, taskVars, privateVars, partnerVars, acceptVars, Shape,
     FlowShape, WorkShape, ClaimShape
<1> QED BY <1>1, <1>2 DEF Typing

LEMMA TypingStep == Typing /\ [HubNext]_hubVars => Typing'
<1> SUFFICES ASSUME Typing, [HubNext]_hubVars PROVE Typing'
  OBVIOUS
<1>1. ASSUME NEW r \in Request, Write(r), UNCHANGED shown PROVE Typing'
  <2>1. CASE DeletionStep(r) /\ UNCHANGED privateVars
    BY <1>1, <2>1, DeletionTyping
  <2>2. CASE RegistrationStep(r) /\ UNCHANGED <<partnerVars, acceptVars>>
    BY <1>1, <2>2, RegistrationTyping
  <2>3. CASE PartnerStep(r) /\ UNCHANGED <<draft, acceptVars>>
    BY <1>1, <2>3, BootTyping, ApplyTyping DEF PartnerStep
  <2>4. CASE AcceptStep(r)
    BY <1>1, <2>4, AcceptTyping
  <2> QED BY <1>1, <2>1, <2>2, <2>3, <2>4 DEF Write
<1>2. ASSUME NEW r \in Request, Work(r) PROVE Typing'
  BY <1>1, <1>2, ClaimTyping DEF Work
<1>3. Reading \subseteq Request
  BY HubAssumption
<1> QED BY <1>2, <1>3, ArriveTyping, ClaimArriveTyping, CodeTyping, StutterTyping DEF HubNext

LEMMA InitTyping == HubInit => Typing
<1> SUFFICES ASSUME HubInit PROVE Typing
  OBVIOUS
<1> USE DEF HubInit
<1>1. SeedComps \in SUBSET Composition /\ SeedInsts \in SUBSET Instance
  BY DeploymentAssumption DEF SeedComps, SeedInsts, Composition, Inserter, Source
<1>2. roles \in [Role -> Instance \cup {None, Null}]
  <2>1. \A x \in Role : (\E u \in SeedUses : u[1] = x) =>
          (CHOOSE i \in SeedInsts : <<x, i>> \in SeedUses) \in SeedInsts
    BY DEF SeedUses
  <2> QED BY <1>1, <2>1 DEF DeploymentInit
<1>3. SeedUses \in SUBSET (Role \X Instance)
  BY <1>1 DEF SeedUses
<1>4. DeploymentTypeOK
  BY <1>1, <1>2, <1>3, DeploymentAssumption
     DEF DeploymentInit, DeploymentTypeOK, Op, Stage, Nothing, Collected
<1>5. ComposingTypeOK /\ AcceptTypeOK /\ ClaimTypeOK
  BY DEF ComposingInit, AcceptInit, ClaimInit, ComposingTypeOK, AcceptTypeOK, ClaimTypeOK
<1>6. PartnerTypeOK
  BY DeploymentAssumption DEF PartnerInit, PartnerTypeOK
<1>7. Shape
  BY DEF DeploymentInit, Shape, FlowShape, WorkShape, ClaimShape
<1> QED BY <1>4, <1>5, <1>6, <1>7 DEF Typing, HubTypeOK

\* Every row, task and answer is well-typed whatever requests interleave: no
\* client refers to a composition that was none, no code to anything but a
\* composition or an instance.
THEOREM TypeCorrect == HubSpec => []HubTypeOK
<1>1. Typing => HubTypeOK
  BY DEF Typing
<1> QED BY <1>1, InitTyping, TypingStep, PTL DEF HubSpec

-----------------------------------------------------------------------------
(* The default roles *)

\* A role that no instance created stays so: Cascade takes the roles of the
\* instances it deletes, and get_or_create finds the row.
LEMMA NullStays ==
  ASSUME Typing, [HubNext]_hubVars, NEW x \in Role, roles[x] = Null
  PROVE  roles'[x] = Null
<1> USE DEF Typing, HubTypeOK, DeploymentTypeOK
<1>n. Null \notin Instance /\ None # Null
  BY DeploymentAssumption
<1>c. ASSUME NEW C, NEW I \in SUBSET Instance, NEW A, Cascade(C, I, A) PROVE roles'[x] = Null
  BY <1>n, <1>c DEF Cascade
<1>1. ASSUME NEW r \in Request, DeletionStep(r) PROVE roles'[x] = Null
  <2>1. seen[r].insts \in SUBSET Instance
    BY DEF Collected
  <2> QED BY <1>1, <1>c, <2>1 DEF DeletionStep, Collect, CommitDeletion, DeletionFails, rowVars
<1>2. ASSUME NEW r \in Request, RegistrationStep(r) PROVE roles'[x] = Null
  BY <1>2 DEF RegistrationStep, ComposeNext, CommitRegistration, RegistrationFails, rowVars
<1>3. ASSUME NEW r \in Request, PartnerStep(r) PROVE roles'[x] = Null
  <2>1. CASE CommitApply(r)
    BY <1>n, <2>1 DEF CommitApply, MissingRoles
  <2>2. CASE SaveOrganization(r)
    BY <2>2 DEF SaveOrganization
  <2> QED BY <1>3, <2>1, <2>2 DEF PartnerStep, ImportPartner, NextPartner, BootEnds, BeginApply,
          ApplyFails, HookAnswers, HookApproves, HookRejects, rowVars
<1>4. ASSUME NEW r \in Request, AcceptStep(r) PROVE roles'[x] = Null
  <2>1. CASE GiveRole(r)
    BY <1>n, <2>1 DEF GiveRole
  <2> QED BY <1>4, <2>1 DEF AcceptStep, CreateComposition, CreateFails, FindService,
          FindServiceFails, InsertInstance, InsertFails, GiveRoleFails, InstanceReady, AllInserted,
          RegisterStaged, RegisterStagedFails, AllRegistered, StoreKey, StoreKeyFails,
          MissingServiceFails, Grant, GrantFails, rowVars
<1>5. ASSUME NEW r \in Request, ClaimStep(r) PROVE roles'[x] = Null
  BY <1>5 DEF ClaimStep, ListMappings, RenderInstance, RenderFails, ListInstances, ListClients,
     rowVars
<1>6. ASSUME NEW r \in Request, Arrive(r) \/ ClaimArrive(r) PROVE roles'[x] = Null
  BY <1>6 DEF Arrive, ClaimArrive, DeleteComposition, Register, Connect, Boot, BeginAccept,
     BeginAcceptService, BeginClaim, BeginServerClaim, rowVars
<1>7. CASE DeleteDevice
  BY <1>7, <1>c DEF DeleteDevice
<1>8. ASSUME NEW k \in Code \cup ServiceCode, StartCode(k) \/ PollExpired(k)
      PROVE  roles'[x] = Null
  BY <1>8 DEF StartCode, PollExpired
<1>9. CASE UNCHANGED hubVars
  BY <1>9 DEF hubVars, deployVars, rowVars
<1> QED BY HubAssumption, <1>1, <1>2, <1>3, <1>4, <1>5, <1>6, <1>7, <1>8, <1>9
        DEF HubNext, Work, Write

\* The organization's default roles are never deleted: no instance ever
\* becomes their creator, also not when its manifest asks for one of them.
THEOREM DefaultRoles == HubSpec => []BuiltinRolesStay
<1> DEFINE Inv == \A x \in BuiltinRole : roles[x] = Null
<1>1. HubInit => Inv
  BY DeploymentAssumption DEF HubInit, DeploymentInit
<1>2. Typing /\ Inv /\ [HubNext]_hubVars => Inv'
  BY NullStays, DeploymentAssumption
<1>3. Inv => BuiltinRolesStay
  BY DeploymentAssumption DEF BuiltinRolesStay
<1> QED BY <1>1, <1>2, <1>3, InitTyping, TypingStep, PTL DEF HubSpec
-----------------------------------------------------------------------------
(* Mappings, drafts and what claims have read *)

\* A registration has mapped instances of its own composition only, and told
\* "granted" for the keys it has come by.
DraftFits(r) ==
  stage[r] = "composing" =>
    /\ \A m \in draft[r].got : m.inst.comp = comp[r]
    /\ KeysOnce(draft[r].man) =>
         \A m \in draft[r].got :
           /\ draft[r].told[m.key] = "granted"
           /\ \E j \in 1..Len(Requirements[draft[r].man]) :
                j < draft[r].next /\ Requirements[draft[r].man][j].key = m.key

\* A claim has read mappings into one composition.
ShownFits(r) ==
  /\ op[r] = "claim" => stage[r] \in {"claiming", "rendering"} \cup Ended
  /\ op[r] = "claim" /\ stage[r] = "rendering" =>
       \A m, o \in shown[r].instances \cup shown[r].left : m.inst.comp = o.inst.comp
  /\ op[r] = "claim" /\ stage[r] = "done" =>
       \A m, o \in shown[r].instances : m.inst.comp = o.inst.comp

\* A deletion has collected instances of its composition only.
CollectedFits(r) == stage[r] = "dropping" => \A i \in seen[r].insts : i.comp = comp[r]

\* A client's mappings lead into one composition, also those a manifest
\* without requirements leaves to a client that was moved.
OneComposition == \A m, o \in maps : m.app = o.app => m.inst.comp = o.inst.comp

Mapped == MappedInOwnComposition /\ OneComposition /\ StatusesTellMappings

Fitting ==
  Mapped /\ \A r \in Request : DraftFits(r) /\ ShownFits(r) /\ CollectedFits(r)

\* A step of r that touches neither mappings nor drafts nor claims.
Apart(r) ==
  /\ UNCHANGED <<maps, clients, draft, shown>>
  /\ stage'[r] \notin {"composing", "dropping"}
  /\ op'[r] # "claim"
  /\ \A q \in Request \ {r} : /\ op'[q] = op[q] /\ stage'[q] = stage[q]
                              /\ comp'[q] = comp[q] /\ seen'[q] = seen[q]

LEMMA ApartFitting == ASSUME NEW r \in Request, Fitting, Apart(r) PROVE Fitting'
<1>1. Mapped'
  BY DEF Apart, Fitting, Mapped, MappedInOwnComposition, OneComposition, StatusesTellMappings
<1>2. ASSUME NEW q \in Request PROVE DraftFits(q)' /\ ShownFits(q)' /\ CollectedFits(q)'
  BY DEF Apart, Fitting, DraftFits, ShownFits, CollectedFits
<1> QED BY <1>1, <1>2 DEF Fitting

LEMMA PartnerFitting ==
  ASSUME NEW r \in Request, Typing, Fitting, PartnerStep(r), UNCHANGED <<draft, acceptVars, shown>>
  PROVE  Fitting'
<1> USE DEF Typing, HubTypeOK, DeploymentTypeOK, rowVars, taskVars, To
<1>0. ShownFits(r) /\ FlowShape(r)
  BY DEF Fitting, Shape
<1>1. CASE \E p \in left[r] : ImportPartner(r, p)
  BY <1>0, <1>1, ApartFitting DEF ImportPartner, Apart, FlowShape
<1>2. CASE SaveOrganization(r) \/ NextPartner(r) \/ BootEnds(r)
  BY <1>0, <1>2, ApartFitting DEF SaveOrganization, NextPartner, BootEnds, Apart, FlowShape
<1>3. CASE BeginApply(r)
  <2>1. PICK c \in Upserted(r, part[r]) : comp' = [comp EXCEPT ![r] = c]
    BY <1>3 DEF BeginApply
  <2> QED BY <1>0, <1>3, <2>1, ApartFitting DEF BeginApply, Apart, FlowShape
<1>4. CASE CommitApply(r)
  <2>1. AfterApply(r) \in {"hook", "next", "done"}
    BY DEF AfterApply
  <2> QED BY <1>0, <1>4, <2>1, ApartFitting DEF CommitApply, Apart, FlowShape
<1>5. CASE ApplyFails(r) \/ HookAnswers(r)
  BY <1>0, <1>5, ApartFitting DEF ApplyFails, HookAnswers, HookApproves, HookRejects, Apart,
     FlowShape
<1> QED BY <1>1, <1>2, <1>3, <1>4, <1>5 DEF PartnerStep

LEMMA AcceptFitting ==
  ASSUME NEW r \in Request, Typing, Fitting, AcceptStep(r), UNCHANGED shown
  PROVE  Fitting'
<1> USE DEF Typing, HubTypeOK, DeploymentTypeOK, rowVars, taskVars, privateVars, acceptVars, To
<1>0. ShownFits(r)
  BY DEF Fitting
<1>1. CASE \/ CreateFails(r) \/ FindServiceFails(r) \/ InsertFails(r) \/ GiveRoleFails(r)
           \/ RegisterStagedFails(r) \/ StoreKeyFails(r) \/ MissingServiceFails(r)
           \/ GrantFails(r)
  <2>1. Fail(r) /\ UNCHANGED <<maps, clients>> /\ op[r] # "claim"
    BY <1>0, <1>1 DEF CreateFails, FindServiceFails, InsertFails, GiveRoleFails,
       RegisterStagedFails, StoreKeyFails, MissingServiceFails, GrantFails, ShownFits, Ended
  <2> QED BY <2>1, ApartFitting DEF Fail, Apart
<1>2. CASE CreateComposition(r)
  BY <1>0, <1>2, ApartFitting DEF CreateComposition, Apart, ShownFits, Ended
<1>3. CASE FindService(r) \/ InsertInstance(r)
  BY <1>0, <1>3, ApartFitting DEF FindService, InsertInstance, Apart, ShownFits, Ended
<1>4. CASE GiveRole(r)
  BY <1>0, <1>4, ApartFitting DEF GiveRole, Apart, ShownFits, Ended
<1>5. CASE InstanceReady(r) \/ AllInserted(r) \/ AllRegistered(r)
  BY <1>0, <1>5, ApartFitting DEF InstanceReady, AllInserted, AllRegistered, Apart, ShownFits,
     Ended
<1>6. CASE RegisterStaged(r)
  <2>1. PICK a \in apps[r] : Enter(r, ClientMan[a], {})
    BY <1>6 DEF RegisterStaged
  <2>2. draft'[r].got = {} /\ \A q \in Request \ {r} : draft'[q] = draft[q]
    BY <2>1 DEF Enter, ComposingTypeOK
  <2>3. /\ UNCHANGED <<maps, clients, op, comp, seen>>
        /\ stage' = [stage EXCEPT ![r] = "composing"] /\ op[r] # "claim"
    BY <1>0, <1>6 DEF RegisterStaged, ShownFits, Ended
  <2>4. Mapped'
    BY <2>3 DEF Fitting, Mapped, MappedInOwnComposition, OneComposition, StatusesTellMappings
  <2>5. \A q \in Request : DraftFits(q)' /\ ShownFits(q)' /\ CollectedFits(q)'
    BY <2>2, <2>3 DEF Fitting, DraftFits, ShownFits, CollectedFits
  <2> QED BY <2>4, <2>5 DEF Fitting
<1>7. CASE StoreKey(r) \/ Grant(r)
  BY <1>0, <1>7, ApartFitting DEF StoreKey, Grant, Apart, ShownFits, Ended
<1> QED BY <1>1, <1>2, <1>3, <1>4, <1>5, <1>6, <1>7 DEF AcceptStep
\* What one step of a registration composes.
LEMMA ContinueFits ==
  ASSUME NEW r \in Request, Typing, Fitting, stage[r] = "composing", ~Composed(r),
         NEW got, NEW told, Continue(r, got, told),
         \A m \in got : m.inst.comp = comp[r],
         KeysOnce(draft[r].man) =>
           \A m \in got :
             \/ m.key = Current(r).key /\ told[m.key] = "granted"
             \/ m \in draft[r].got /\ (m.key # Current(r).key => told[m.key] = draft[r].told[m.key]),
         UNCHANGED <<rowVars, op, stage, comp, app, seen, shown>>
  PROVE  Fitting'
<1> USE DEF Typing, HubTypeOK, ComposingTypeOK
<1>1. draft[r] \in Draft /\ draft[r].next # 0
  BY DEF Shape, WorkShape
<1>2. /\ draft'[r].man = draft[r].man /\ draft'[r].next = draft[r].next + 1
      /\ draft'[r].got = got /\ draft'[r].told = told
      /\ \A q \in Request \ {r} : draft'[q] = draft[q]
  BY DEF Continue
<1>3. draft[r].next \in Nat /\ draft[r].next \in 1..Len(Requirements[draft[r].man])
      /\ Current(r).key = Requirements[draft[r].man][draft[r].next].key
  <2>1. Requirements[draft[r].man] \in Seq(Requirement)
    BY <1>1, ComposingAssumption DEF Requirements, ClientManifest, Draft
  <2> QED BY <1>1, <2>1 DEF Composed, Current, Draft
<1>4. ASSUME KeysOnce(draft[r].man), NEW m \in got
      PROVE  /\ told[m.key] = "granted"
             /\ \E j \in 1..Len(Requirements[draft[r].man]) :
                  j < draft[r].next + 1 /\ Requirements[draft[r].man][j].key = m.key
  <2>1. CASE m.key = Current(r).key /\ told[m.key] = "granted"
    BY <1>3, <2>1
  <2>2. CASE m \in draft[r].got /\ (m.key # Current(r).key => told[m.key] = draft[r].told[m.key])
    <3>1. PICK j \in 1..Len(Requirements[draft[r].man]) :
            j < draft[r].next /\ Requirements[draft[r].man][j].key = m.key
      BY <1>4, <2>2 DEF Fitting, DraftFits
    <3>2. m.key # Current(r).key
      BY <1>3, <1>4, <3>1 DEF KeysOnce
    <3>3. draft[r].told[m.key] = "granted"
      BY <1>4, <2>2 DEF Fitting, DraftFits
    <3> QED BY <1>3, <2>2, <3>1, <3>2, <3>3
  <2> QED BY <1>4, <2>1, <2>2
<1>5. DraftFits(r)'
  BY <1>2, <1>4 DEF DraftFits, KeysOnce
<1>6. \A q \in Request \ {r} : DraftFits(q)'
  BY <1>2 DEF Fitting, DraftFits
<1>7. \A q \in Request : ShownFits(q)' /\ CollectedFits(q)'
  BY DEF Fitting, ShownFits, CollectedFits
<1>8. Mapped'
  BY DEF Fitting, Mapped, rowVars, MappedInOwnComposition, OneComposition, StatusesTellMappings
<1> QED BY <1>5, <1>6, <1>7, <1>8 DEF Fitting

LEMMA ComposeFitting ==
  ASSUME NEW r \in Request, Typing, Fitting, ComposeNext(r),
         UNCHANGED <<partnerVars, acceptVars, shown>>
  PROVE  Fitting'
<1>1. /\ stage[r] = "composing" /\ ~Composed(r) /\ draft[r] \in Draft
      /\ UNCHANGED <<rowVars, op, comp, app, seen, shown>>
  BY DEF ComposeNext, Typing, Shape, WorkShape
<1>2. \A m \in draft[r].got : m.inst.comp = comp[r]
  BY <1>1 DEF Fitting, DraftFits
<1>3. ASSUME NEW status, NEW k \in Key, k # Current(r).key
      PROVE  Told(r, status)[k] = draft[r].told[k]
  BY <1>1, <1>3 DEF Told, Draft
<1>4. \A m \in draft[r].got : m.key \in Key
  BY <1>1 DEF Draft
<1>5. CASE SkipDeclined(r)
  BY <1>1, <1>2, <1>3, <1>4, <1>5, ContinueFits DEF SkipDeclined
<1>6. CASE SkipUnavailable(r)
  BY <1>1, <1>2, <1>3, <1>4, <1>6, ContinueFits DEF SkipUnavailable
<1>7. CASE MapInstance(r)
  <2>1. PICK i \in Candidates(comp[r], Current(r).service, RegisteredBy[app[r]]) :
          Continue(r, draft[r].got \cup {[key |-> Current(r).key, inst |-> i]},
                   Told(r, "granted"))
    BY <1>7 DEF MapInstance
  <2> DEFINE new == [key |-> Current(r).key, inst |-> i]
  <2>2. new.inst.comp = comp[r]
    BY DEF Candidates, InstancesIn
  <2>3. new.key = Current(r).key /\ Told(r, "granted")[new.key] = "granted"
    <3>1. Current(r) \in Requirement
      BY <1>1, CurrentTyping DEF Typing, Shape, WorkShape
    <3> QED BY <1>1, <3>1 DEF Told, Draft, Requirement
  <2>4. Continue(r, draft[r].got \cup {new}, Told(r, "granted")) /\ UNCHANGED stage
    BY <1>7, <2>1 DEF MapInstance
  <2> HIDE DEF new
  <2> QED BY <1>1, <1>2, <1>3, <1>4, <2>2, <2>3, <2>4, ContinueFits
<1>8. CASE MissMandatory(r)
  <2>1. stage' = [stage EXCEPT ![r] = "failed"] /\ draft' = [draft EXCEPT ![r] = NoDraft]
    BY <1>8 DEF MissMandatory, To
  <2>2. Mapped'
    BY <1>1 DEF Fitting, Mapped, rowVars, MappedInOwnComposition, OneComposition,
       StatusesTellMappings
  <2>3. \A q \in Request : DraftFits(q)' /\ ShownFits(q)' /\ CollectedFits(q)'
    BY <1>1, <2>1 DEF Fitting, DraftFits, ShownFits, CollectedFits, Ended, Typing, HubTypeOK,
       DeploymentTypeOK, ComposingTypeOK
  <2> QED BY <2>2, <2>3 DEF Fitting
<1> QED BY <1>5, <1>6, <1>7, <1>8 DEF ComposeNext

\* What a registration commits.
LEMMA CommitFitting ==
  ASSUME NEW r \in Request, Typing, Fitting, CommitRegistration(r), UNCHANGED shown
  PROVE  Fitting'
<1> USE DEF Typing, HubTypeOK, DeploymentTypeOK
<1>1. /\ stage[r] = "composing" /\ draft[r] \in Draft /\ app[r] \in App
      /\ stage' = [stage EXCEPT ![r] = AfterRegistration(r)]
      /\ draft' = [draft EXCEPT ![r] = NoDraft]
      /\ clients' = [clients EXCEPT ![app[r]] = Registered(r)]
      /\ UNCHANGED <<op, comp, seen>>
  BY DEF CommitRegistration, Shape, WorkShape, To
<1>2. AfterRegistration(r) \in {"clients", "done"} /\ op[r] # "claim"
  BY <1>1 DEF AfterRegistration, Fitting, ShownFits, Ended
<1>3. \A q \in Request : DraftFits(q)' /\ ShownFits(q)' /\ CollectedFits(q)'
  BY <1>1, <1>2 DEF Fitting, DraftFits, ShownFits, CollectedFits, ComposingTypeOK
<1>4. /\ Registered(r) # None
      /\ Registered(r).comp = comp[r] /\ Registered(r).man = draft[r].man
      /\ Recomposes(r) => /\ Registered(r).composed = draft[r].man
                          /\ Registered(r).told = draft[r].told
      /\ ~Recomposes(r) => /\ Registered(r).composed = OldRow(r).composed
                           /\ Registered(r).told = OldRow(r).told
  <2>1. Registered(r) \in ClientRow
    BY <1>1, RegisteredTyping
  <2> QED BY <2>1, RowAssumption DEF Registered, NewStatuses
<1>5. \A a \in App \ {app[r]} : clients'[a] = clients[a]
  BY <1>1
<1>6. clients'[app[r]] = Registered(r)
  BY <1>1
<1>7. \A m \in maps : m.app \in App
  BY DEF Mapping
<1>8. CASE ~Recomposes(r)
  <2>1. maps' = maps
    BY <1>8 DEF CommitRegistration
  <2>2. Requirements[draft[r].man] = <<>>
    BY <1>8 DEF Recomposes
  <2>3. MappedInOwnComposition'
    BY <1>4, <1>5, <1>6, <1>7, <2>1, <2>2 DEF MappedInOwnComposition, Fitting, Mapped
  <2>4. StatusesTellMappings'
    BY <1>4, <1>5, <1>6, <1>8, <2>1 DEF StatusesTellMappings, KeysOnce, Fitting, Mapped, OldRow
  <2> QED BY <1>3, <2>1, <2>3, <2>4 DEF Fitting, Mapped, OneComposition
<1>9. CASE Recomposes(r)
  <2>1. maps' = NewMappings(r)
    BY <1>9 DEF CommitRegistration
  <2>2. ASSUME NEW m \in maps'
        PROVE  \/ m \in maps /\ m.app # app[r]
               \/ /\ m.app = app[r] /\ m.inst.comp = comp[r]
                  /\ KeysOnce(draft[r].man) => draft[r].told[m.key] = "granted"
    <3>1. CASE m \in maps /\ m.app # app[r]
      BY <3>1
    <3>2. CASE \E g \in draft[r].got : m = [app |-> app[r], key |-> g.key, inst |-> g.inst]
      BY <1>1, <3>2 DEF Fitting, DraftFits
    <3> QED BY <2>1, <2>2, <3>1, <3>2 DEF NewMappings
  <2>3. MappedInOwnComposition'
    BY <1>4, <1>5, <1>6, <1>7, <2>2 DEF MappedInOwnComposition, Fitting, Mapped
  <2>4. OneComposition'
    BY <2>2 DEF OneComposition, Fitting, Mapped
  <2>5. StatusesTellMappings'
    BY <1>4, <1>5, <1>6, <1>9, <2>2 DEF StatusesTellMappings, KeysOnce, Fitting, Mapped
  <2> QED BY <1>3, <2>3, <2>4, <2>5 DEF Fitting, Mapped
<1> QED BY <1>8, <1>9

LEMMA RegistrationFitting ==
  ASSUME NEW r \in Request, Typing, Fitting, RegistrationStep(r),
         UNCHANGED <<partnerVars, acceptVars, shown>>
  PROVE  Fitting'
<1>1. CASE RegistrationFails(r)
  <2>1. /\ stage' = [stage EXCEPT ![r] = "failed"] /\ draft' = [draft EXCEPT ![r] = NoDraft]
        /\ UNCHANGED <<rowVars, op, comp, seen>>
    BY <1>1 DEF RegistrationFails, To
  <2>2. Mapped'
    BY <2>1 DEF Fitting, Mapped, rowVars, MappedInOwnComposition, OneComposition,
       StatusesTellMappings
  <2>3. \A q \in Request : DraftFits(q)' /\ ShownFits(q)' /\ CollectedFits(q)'
    BY <2>1 DEF Fitting, DraftFits, ShownFits, CollectedFits, Ended, Typing, HubTypeOK,
       DeploymentTypeOK, ComposingTypeOK
  <2> QED BY <2>2, <2>3 DEF Fitting
<1> QED BY <1>1, ComposeFitting, CommitFitting DEF RegistrationStep
\* Deletions: a mapping goes with its instance or its client, a client stays
\* as it is or goes.
LEMMA CascadeMapped ==
  ASSUME NEW C, NEW I, NEW A, Cascade(C, I, A), Typing, Mapped
  PROVE  Mapped'
<1>1. maps' \subseteq maps /\ \A m \in maps' : m.app \notin A /\ m.app \in App
  BY DEF Cascade, Typing, HubTypeOK, DeploymentTypeOK, Mapping
<1>2. \A a \in App : clients'[a] = IF a \in A THEN None ELSE clients[a]
  BY DEF Cascade
<1>3. MappedInOwnComposition'
  BY <1>1, <1>2 DEF Mapped, MappedInOwnComposition
<1>4. OneComposition'
  BY <1>1 DEF Mapped, OneComposition
<1>5. StatusesTellMappings'
  BY <1>1, <1>2 DEF Mapped, StatusesTellMappings
<1> QED BY <1>3, <1>4, <1>5 DEF Mapped

LEMMA DeletionFitting ==
  ASSUME NEW r \in Request, Typing, Fitting, DeletionStep(r), UNCHANGED <<privateVars, shown>>
  PROVE  Fitting'
<1> USE DEF Typing, HubTypeOK, DeploymentTypeOK, privateVars, To
<1>0. ShownFits(r)
  BY DEF Fitting
<1>1. CASE Collect(r)
  <2>1. /\ seen' = [seen EXCEPT ![r] = Dependents(comp[r])]
        /\ stage' = [stage EXCEPT ![r] = "dropping"] /\ op[r] # "claim"
        /\ UNCHANGED <<rowVars, op, comp, draft, shown>>
    BY <1>0, <1>1 DEF Collect, ShownFits, Ended
  <2>2. \A i \in seen'[r].insts : i.comp = comp[r]
    BY <2>1 DEF Dependents, InstancesIn
  <2>3. Mapped'
    BY <2>1 DEF Fitting, Mapped, rowVars, MappedInOwnComposition, OneComposition,
       StatusesTellMappings
  <2>4. \A q \in Request : DraftFits(q)' /\ ShownFits(q)' /\ CollectedFits(q)'
    BY <2>1, <2>2 DEF Fitting, DraftFits, ShownFits, CollectedFits
  <2> QED BY <2>3, <2>4 DEF Fitting
<1>2. CASE CommitDeletion(r)
  <2>1. /\ Cascade({comp[r]}, seen[r].insts, CollectedClients(r))
        /\ stage' = [stage EXCEPT ![r] = AfterDeletion(r)] /\ op[r] # "claim"
        /\ UNCHANGED <<op, comp, seen, draft, shown>>
    BY <1>0, <1>2 DEF CommitDeletion, ShownFits, Ended
  <2>2. AfterDeletion(r) \in {"done", "next", "rejected"}
    BY DEF AfterDeletion
  <2>3. Mapped'
    BY <2>1, CascadeMapped DEF Fitting
  <2>4. \A q \in Request : DraftFits(q)' /\ ShownFits(q)' /\ CollectedFits(q)'
    BY <2>1, <2>2 DEF Fitting, DraftFits, ShownFits, CollectedFits
  <2> QED BY <2>3, <2>4 DEF Fitting
<1>3. CASE DeletionFails(r)
  BY <1>0, <1>3, ApartFitting DEF DeletionFails, Apart, ShownFits, Ended, rowVars
<1> QED BY <1>1, <1>2, <1>3 DEF DeletionStep

\* Claims write nothing.
LEMMA ClaimFitting ==
  ASSUME NEW r \in Request, Typing, Fitting, ClaimStep(r), UNCHANGED privateVars
  PROVE  Fitting'
<1> USE DEF Typing, HubTypeOK, DeploymentTypeOK, ClaimTypeOK, privateVars, To, Show
<1>1. UNCHANGED <<rowVars, op, comp, seen, draft>>
  BY DEF ClaimStep, ListMappings, RenderInstance, RenderFails, ListInstances, ListClients
<1>2. Mapped'
  BY <1>1 DEF Fitting, Mapped, rowVars, MappedInOwnComposition, OneComposition,
     StatusesTellMappings
<1>3. /\ stage'[r] \in {"done", "failed", "rendering", "listing"}
      /\ \A q \in Request \ {r} : stage'[q] = stage[q] /\ shown'[q] = shown[q]
  BY DEF ClaimStep, ListMappings, RenderInstance, RenderFails, ListInstances, ListClients
<1>4. \A q \in Request : DraftFits(q)' /\ CollectedFits(q)'
  BY <1>1, <1>3 DEF Fitting, DraftFits, CollectedFits
<1>5. \A q \in Request \ {r} : ShownFits(q)'
  BY <1>1, <1>3 DEF Fitting, ShownFits
<1>6. ShownFits(r)'
  <2>1. CASE ListMappings(r)
    <3>1. /\ shown'[r] = [instances |-> {}, left |-> LinksOf(app[r])]
          /\ stage'[r] \in {"done", "rendering"}
      BY <2>1 DEF ListMappings
    <3>2. \A m, o \in LinksOf(app[r]) : m.inst.comp = o.inst.comp
      BY DEF LinksOf, Fitting, Mapped, OneComposition
    <3> QED BY <1>1, <3>1, <3>2 DEF ShownFits, Ended
  <2>2. CASE RenderInstance(r)
    <3>1. PICK l \in shown[r].left :
            /\ shown'[r] = [instances |-> shown[r].instances \cup {l},
                            left |-> shown[r].left \ {l}]
            /\ stage'[r] \in {"done", "rendering"}
      BY <2>2 DEF RenderInstance
    <3>2. op[r] = "claim" =>
            \A m, o \in shown[r].instances \cup shown[r].left : m.inst.comp = o.inst.comp
      BY <2>2 DEF RenderInstance, Fitting, ShownFits
    <3>3. /\ shown'[r].instances \subseteq shown[r].instances \cup shown[r].left
          /\ shown'[r].left \subseteq shown[r].instances \cup shown[r].left
      BY <3>1
    <3>4. op'[r] = op[r]
      BY <1>1
    <3> QED BY <3>1, <3>2, <3>3, <3>4 DEF ShownFits, Ended
  <2>3. CASE RenderFails(r)
    BY <1>1, <2>3 DEF RenderFails, ShownFits, Ended
  <2>4. CASE ListInstances(r) \/ ListClients(r)
    BY <1>1, <2>4 DEF ListInstances, ListClients, Fitting, ShownFits, Ended
  <2> QED BY <2>1, <2>2, <2>3, <2>4 DEF ClaimStep
<1> QED BY <1>2, <1>4, <1>5, <1>6 DEF Fitting

\* Arrivals.
LEMMA ArriveFitting ==
  ASSUME NEW r \in Request, Typing, Fitting, Arrive(r), UNCHANGED shown
  PROVE  Fitting'
<1> USE DEF Typing, HubTypeOK, DeploymentTypeOK, rowVars, privateVars, partnerVars, acceptVars
<1>1. CASE \E c \in comps : DeleteComposition(r, c) /\ UNCHANGED privateVars
  BY <1>1, ApartFitting DEF DeleteComposition, Start, Apart
<1>2. CASE \E p \in Partner : Connect(r, p) /\ UNCHANGED <<draft, acceptVars>>
  BY <1>2, ApartFitting DEF Connect, Start, Apart
<1>3. CASE Boot(r) /\ UNCHANGED <<draft, acceptVars>>
  BY <1>3, ApartFitting DEF Boot, Start, Apart
<1>4. CASE \E k \in Code : BeginAccept(r, k)
  BY <1>4, ApartFitting DEF BeginAccept, Start, Apart
<1>5. CASE \E k \in ServiceCode : BeginAcceptService(r, k)
  <2>1. PICK s \in {"roles", "missing"} : Start(r, "service", s, None, None)
    BY <1>5 DEF BeginAcceptService
  <2>2. UNCHANGED <<maps, clients, draft>>
    BY <1>5 DEF BeginAcceptService
  <2> QED BY <2>1, <2>2, ApartFitting DEF Start, Apart
<1>6. ASSUME NEW a \in App, NEW c \in comps, NEW m \in Manifest, NEW D \in SUBSET OptionalKeys(m),
             Register(r, a, c, m, D)
      PROVE  Fitting'
  <2>1. draft'[r].got = {} /\ \A q \in Request \ {r} : draft'[q] = draft[q]
    BY <1>6 DEF Register, Enter, ComposingTypeOK
  <2>2. /\ UNCHANGED <<maps, clients, seen>>
        /\ op'[r] = "register" /\ stage'[r] = "composing"
        /\ \A q \in Request \ {r} : /\ op'[q] = op[q] /\ stage'[q] = stage[q]
                                    /\ comp'[q] = comp[q]
    BY <1>6 DEF Register, Start
  <2>3. Mapped'
    BY <2>2 DEF Fitting, Mapped, MappedInOwnComposition, OneComposition, StatusesTellMappings
  <2>4. \A q \in Request : DraftFits(q)' /\ ShownFits(q)' /\ CollectedFits(q)'
    BY <2>1, <2>2 DEF Fitting, DraftFits, ShownFits, CollectedFits
  <2> QED BY <2>3, <2>4 DEF Fitting
<1> QED BY <1>1, <1>2, <1>3, <1>4, <1>5, <1>6 DEF Arrive

LEMMA ClaimArriveFitting ==
  ASSUME NEW r \in Request, Typing, Fitting, ClaimArrive(r), UNCHANGED privateVars
  PROVE  Fitting'
<1> USE DEF Typing, HubTypeOK, DeploymentTypeOK, ClaimTypeOK, rowVars, privateVars
<1>1. /\ UNCHANGED <<maps, clients, draft, seen>>
      /\ stage'[r] \in {"claiming", "serving"} /\ (stage'[r] = "serving" => op'[r] = "serve")
      /\ \A q \in Request \ {r} : /\ op'[q] = op[q] /\ stage'[q] = stage[q]
                                  /\ comp'[q] = comp[q] /\ shown'[q] = shown[q]
  BY DEF ClaimArrive, BeginClaim, BeginServerClaim, Start, Show
<1>2. Mapped'
  BY <1>1 DEF Fitting, Mapped, MappedInOwnComposition, OneComposition, StatusesTellMappings
<1>3. \A q \in Request : DraftFits(q)' /\ ShownFits(q)' /\ CollectedFits(q)'
  BY <1>1 DEF Fitting, DraftFits, ShownFits, CollectedFits, Ended
<1> QED BY <1>2, <1>3 DEF Fitting

\* The steps that belong to no request.
LEMMA ElsewhereFitting ==
  ASSUME Typing, Fitting,
         \/ \E k \in Code \cup ServiceCode : StartCode(k) \/ PollExpired(k)
         \/ DeleteDevice
         \/ UNCHANGED hubVars,
         UNCHANGED shown
  PROVE  Fitting'
<1>1. UNCHANGED <<op, stage, comp, seen, draft>>
  BY DEF StartCode, PollExpired, DeleteDevice, hubVars, deployVars, taskVars, privateVars
<1>2. \A q \in Request : DraftFits(q)' /\ ShownFits(q)' /\ CollectedFits(q)'
  BY <1>1 DEF Fitting, DraftFits, ShownFits, CollectedFits
<1>3. Mapped'
  <2>1. CASE DeleteDevice
    BY <2>1, CascadeMapped DEF DeleteDevice, Fitting
  <2>2. CASE UNCHANGED <<maps, clients>>
    BY <2>2 DEF Fitting, Mapped, MappedInOwnComposition, OneComposition, StatusesTellMappings
  <2> QED BY <2>1, <2>2 DEF StartCode, PollExpired, hubVars, deployVars, rowVars
<1> QED BY <1>2, <1>3 DEF Fitting

LEMMA FittingStep == Typing /\ Fitting /\ [HubNext]_hubVars => Fitting'
<1> SUFFICES ASSUME Typing, Fitting, [HubNext]_hubVars PROVE Fitting'
  OBVIOUS
<1>1. ASSUME NEW r \in Request, Write(r), UNCHANGED shown PROVE Fitting'
  BY <1>1, DeletionFitting, RegistrationFitting, PartnerFitting, AcceptFitting DEF Write
<1>2. ASSUME NEW r \in Request, Work(r) PROVE Fitting'
  BY <1>1, <1>2, ClaimFitting DEF Work
<1>3. Reading \subseteq Request
  BY HubAssumption
<1>4. CASE UNCHANGED hubVars
  BY <1>4, ElsewhereFitting DEF hubVars
<1> QED BY <1>2, <1>3, <1>4, ArriveFitting, ClaimArriveFitting, ElsewhereFitting DEF HubNext

LEMMA InitFitting == HubInit => Fitting
BY DEF HubInit, DeploymentInit, Fitting, Mapped, MappedInOwnComposition, OneComposition,
   StatusesTellMappings, DraftFits, ShownFits, CollectedFits

\* A client whose manifest requires anything is mapped into the composition it
\* is registered in, however registrations interleave with deletions.
THEOREM MappedAtHome == HubSpec => []MappedInOwnComposition
<1>1. Fitting => MappedInOwnComposition
  BY DEF Fitting, Mapped
<1> QED BY <1>1, InitTyping, TypingStep, InitFitting, FittingStep, PTL DEF HubSpec

\* Of a manifest that names every key once, a mapped key is told "granted".
THEOREM StatusesTell == HubSpec => []StatusesTellMappings
<1>1. Fitting => StatusesTellMappings
  BY DEF Fitting, Mapped
<1> QED BY <1>1, InitTyping, TypingStep, InitFitting, FittingStep, PTL DEF HubSpec

\* All instances of a claim's answer belong to one composition, though it
\* reads without a transaction.
THEOREM ClaimsShowOne == HubSpec => []ClaimShowsOneComposition
<1>1. Fitting => ClaimShowsOneComposition
  BY DEF Fitting, ShownFits, ClaimShowsOneComposition
<1> QED BY <1>1, InitTyping, TypingStep, InitFitting, FittingStep, PTL DEF HubSpec

-----------------------------------------------------------------------------
(* What a step may take from a client *)

LEMMA LostForAReason ==
  ASSUME Typing, Fitting, [HubNext]_hubVars, NEW m \in maps, m \notin maps'
  PROVE  \/ m.inst.comp \notin comps'
         \/ m.inst \notin insts' /\ m.inst.comp.from \in Code /\ m.inst.name \in OnDevice
         \/ clients'[m.app] = None
         \/ \E r \in Request : CommitRegistration(r) /\ app[r] = m.app
<1> USE DEF Typing, HubTypeOK, DeploymentTypeOK
<1>0. m.app \in App
  BY DEF Mapping
<1>1. CASE DeleteDevice
  BY <1>0, <1>1 DEF DeleteDevice, Cascade
<1>2. ASSUME NEW r \in Request, CommitDeletion(r)
      PROVE  m.inst.comp \notin comps' \/ clients'[m.app] = None
  <2>1. \A i \in seen[r].insts : i.comp = comp[r]
    BY <1>2 DEF CommitDeletion, Fitting, CollectedFits
  <2>2. Cascade({comp[r]}, seen[r].insts, CollectedClients(r))
    BY <1>2 DEF CommitDeletion
  <2> QED BY <1>0, <2>1, <2>2 DEF Cascade
<1>3. ASSUME NEW r \in Request, CommitRegistration(r)
      PROVE  app[r] = m.app
  BY <1>3 DEF CommitRegistration, NewMappings
<1>4. ASSUME NEW r \in Request, DeletionStep(r), ~CommitDeletion(r) PROVE maps' = maps
  BY <1>4 DEF DeletionStep, Collect, DeletionFails, rowVars
<1>5. ASSUME NEW r \in Request, RegistrationStep(r), ~CommitRegistration(r) PROVE maps' = maps
  BY <1>5 DEF RegistrationStep, ComposeNext, RegistrationFails, rowVars
<1>6. ASSUME NEW r \in Request, PartnerStep(r) PROVE maps' = maps
  BY <1>6 DEF PartnerStep, ImportPartner, SaveOrganization, NextPartner, BootEnds, BeginApply,
     CommitApply, ApplyFails, HookAnswers, HookApproves, HookRejects, rowVars
<1>7. ASSUME NEW r \in Request, AcceptStep(r) PROVE maps' = maps
  BY <1>7 DEF AcceptStep, CreateComposition, CreateFails, FindService, FindServiceFails,
     InsertInstance, InsertFails, GiveRole, GiveRoleFails, InstanceReady, AllInserted,
     RegisterStaged, RegisterStagedFails, AllRegistered, StoreKey, StoreKeyFails,
     MissingServiceFails, Grant, GrantFails, rowVars
<1>8. ASSUME NEW r \in Request, ClaimStep(r) PROVE maps' = maps
  BY <1>8 DEF ClaimStep, ListMappings, RenderInstance, RenderFails, ListInstances, ListClients,
     rowVars
<1>9. ASSUME NEW r \in Request, Arrive(r) \/ ClaimArrive(r) PROVE maps' = maps
  BY <1>9 DEF Arrive, ClaimArrive, DeleteComposition, Register, Connect, Boot, BeginAccept,
     BeginAcceptService, BeginClaim, BeginServerClaim, rowVars
<1>10. ASSUME NEW k \in Code \cup ServiceCode, StartCode(k) \/ PollExpired(k) PROVE maps' = maps
  BY <1>10 DEF StartCode, PollExpired
<1>11. ASSUME NEW r \in Request, Work(r)
       PROVE  \/ CommitDeletion(r) \/ CommitRegistration(r) \/ maps' = maps
  BY <1>4, <1>5, <1>6, <1>7, <1>8, <1>11 DEF Work, Write
<1>12. CASE UNCHANGED hubVars
  BY <1>12 DEF hubVars, deployVars, rowVars
<1> QED BY HubAssumption, <1>1, <1>2, <1>3, <1>9, <1>10, <1>11, <1>12 DEF HubNext

\* No client loses a mapping but by its own registration or deletion, or with
\* the instance, when its composition or its device is deleted.
THEOREM MappingsStay == HubSpec => MappingsAreLostForAReason
<1> DEFINE Reason == \A m \in maps : m \notin maps' =>
        \/ m.inst.comp \notin comps'
        \/ m.inst \notin insts' /\ m.inst.comp.from \in Code /\ m.inst.name \in OnDevice
        \/ clients'[m.app] = None
        \/ \E r \in Request : CommitRegistration(r) /\ app[r] = m.app
<1>1. Typing /\ Fitting /\ [HubNext]_hubVars => [Reason]_hubVars
  BY LostForAReason
<1> QED BY <1>1, InitTyping, TypingStep, InitFitting, FittingStep, PTL
        DEF HubSpec, MappingsAreLostForAReason

-----------------------------------------------------------------------------
(* Acceptances: the inductive invariant *)

\* An upsert holds the row it has found, or inserts one of its partner's.
AcceptFlow(r) ==
  /\ op[r] = "accept" =>
       stage[r] \in {"create", "names", "insert", "roles", "clients", "composing", "key", "grant"}
                      \cup Ended
  /\ op[r] = "serve" => stage[r] \in {"serving", "listing"} \cup Ended
  /\ op[r] = "service" => part[r] \in ServiceCode
  /\ stage[r] = "grant" => op[r] \in {"accept", "service"}
  /\ stage[r] = "applying" => comp[r] \in comps \/ comp[r].from \in Partner

\* An acceptance works on the composition it has created, and has inserted
\* every instance when it goes on to the clients.
Making(r) ==
  op[r] = "accept" =>
    /\ stage[r] = "create" => comp[r] = None
    /\ comp[r] # None => comp[r] = [by |-> r, from |-> part[r]]
    /\ stage[r] = "insert" => target[r].comp = comp[r]
    /\ stage[r] \in {"clients", "composing", "key", "grant", "done"} => names[r] = {}

\* A composition of a code has the instances that its acceptance has not still
\* to insert.
Made(c) ==
  c.from \in Code =>
    /\ c.by \in Request /\ op[c.by] = "accept" /\ comp[c.by] = c
    /\ \/ c \in revived
       \/ \A n \in InstancesOf[c.from] \ OnDevice :
            n \in names[c.by] \/ \E i \in insts : i.comp = c /\ i.name = n

Finished(c) ==
  c.by \in Request /\ op[c.by] = "accept" /\ stage[c.by] = "done" /\ comp[c.by] = c

GrantedFits(k) ==
  codes[k] = "granted" =>
    result[k] \in comps /\ result[k].from = k /\ Finished(result[k])

ServedFits(r) ==
  op[r] = "serve" /\ stage[r] \in {"serving", "listing", "done"} =>
    /\ comp[r] \in Composition /\ Finished(comp[r])
    /\ shown[r].code \in Code /\ comp[r].from = shown[r].code
    /\ stage[r] \in {"listing", "done"} =>
         comp[r] \notin comps \/ comp[r] \in revived \/ Holds(shown[r].code, shown[r].instances)

Whole ==
  /\ \A r \in Request : AcceptFlow(r) /\ Making(r) /\ ServedFits(r)
  /\ \A c \in comps : Made(c)
  /\ \A k \in Code : GrantedFits(k)

-----------------------------------------------------------------------------
(* Acceptances: preservation *)

\* Every request but r stays as it is.
OthersStay(r) ==
  \A q \in Request \ {r} :
    /\ op'[q] = op[q] /\ stage'[q] = stage[q] /\ comp'[q] = comp[q] /\ part'[q] = part[q]
    /\ names'[q] = names[q] /\ target'[q] = target[q] /\ shown'[q] = shown[q]

\* A step of r that takes no row of an acceptance, and adds none but a
\* partner's.
LEMMA FrameWhole ==
  ASSUME NEW r \in Request, Whole, OthersStay(r), stage[r] \notin Ended,
         op[r] = "accept" => op'[r] = "accept" /\ comp'[r] = comp[r] /\ names'[r] = names[r],
         op'[r] # "serve", AcceptFlow(r)', Making(r)',
         comps \subseteq comps', \A c \in comps' : c \in comps \/ c.from \in Partner,
         insts \subseteq insts', UNCHANGED <<codes, result, revived>>
  PROVE  Whole'
<1>1. \A c : Finished(c) => Finished(c)'
  BY DEF Finished, OthersStay, Ended
<1>2. \A q \in Request \ {r} : AcceptFlow(q)' /\ Making(q)'
  BY DEF Whole, OthersStay, AcceptFlow, Making
<1>3. \A c \in comps : Made(c)'
  <2> TAKE c \in comps
  <2>1. Made(c)
    BY DEF Whole
  <2> QED BY <2>1 DEF Made, OthersStay
<1>4. \A c \in comps' : Made(c)'
  <2>1. \A c \in comps' : c \in comps \/ c.from \notin Code
    BY DeploymentAssumption
  <2> QED BY <1>3, <2>1 DEF Made
<1>5. \A k \in Code : GrantedFits(k)'
  BY <1>1 DEF Whole, GrantedFits
<1>6. ServedFits(r)'
  BY DEF ServedFits
<1>7. \A q \in Request \ {r} : ServedFits(q)'
  <2> TAKE q \in Request \ {r}
  <2>1. ServedFits(q) /\ op'[q] = op[q] /\ stage'[q] = stage[q] /\ comp'[q] = comp[q]
        /\ shown'[q] = shown[q]
    BY DEF Whole, OthersStay
  <2>2. comp[q].from \in Code /\ comp[q] \notin comps => comp[q] \notin comps'
    BY DeploymentAssumption
  <2> QED BY <1>1, <2>1, <2>2 DEF ServedFits, Holds
<1> QED BY <1>2, <1>4, <1>5, <1>6, <1>7 DEF Whole

\* A step of a request that accepts no composition code.
LEMMA PlainWhole ==
  ASSUME NEW r \in Request, Whole, OthersStay(r), stage[r] \notin Ended,
         op[r] # "accept", op'[r] \notin {"accept", "serve"},
         op'[r] = "service" => part'[r] \in ServiceCode,
         stage'[r] = "grant" => op'[r] = "service",
         stage'[r] = "applying" => comp'[r] \in comps' \/ comp'[r].from \in Partner,
         comps \subseteq comps', \A c \in comps' : c \in comps \/ c.from \in Partner,
         insts \subseteq insts', UNCHANGED <<codes, result, revived>>
  PROVE  Whole'
<1>1. AcceptFlow(r)' /\ Making(r)'
  BY DEF AcceptFlow, Making
<1> QED BY <1>1, FrameWhole

LEMMA PartnerWhole ==
  ASSUME NEW r \in Request, Typing, Whole, PartnerStep(r), UNCHANGED <<draft, acceptVars, shown>>
  PROVE  Whole'
<1> USE DEF Typing, HubTypeOK, DeploymentTypeOK, PartnerTypeOK, rowVars, taskVars, partnerVars,
        acceptVars, To
<1>0. AcceptFlow(r) /\ FlowShape(r) /\ WorkShape(r)
  BY DEF Whole, Shape
<1>1. CASE \E p \in left[r] : ImportPartner(r, p)
  BY <1>0, <1>1, PlainWhole DEF ImportPartner, FlowShape, OthersStay, Ended
<1>2. CASE SaveOrganization(r)
  BY <1>0, <1>2, PlainWhole DEF SaveOrganization, FlowShape, OthersStay, Ended
<1>3. CASE NextPartner(r)
  <2>1. PICK p \in left[r] : part' = [part EXCEPT ![r] = p]
    BY <1>3 DEF NextPartner
  <2> QED BY <1>0, <1>3, <2>1, PlainWhole DEF NextPartner, FlowShape, OthersStay, Ended
<1>4. CASE BootEnds(r)
  BY <1>0, <1>4, PlainWhole DEF BootEnds, FlowShape, OthersStay, Ended
<1>5. CASE BeginApply(r)
  <2>1. PICK c \in Upserted(r, part[r]) : comp' = [comp EXCEPT ![r] = c]
    BY <1>5 DEF BeginApply
  <2>2. c \in comps \/ c.from \in Partner
    BY <1>0, <1>5 DEF Upserted, BeginApply, WorkShape
  <2> QED BY <1>0, <1>5, <2>1, <2>2, PlainWhole DEF BeginApply, FlowShape, OthersStay, Ended
<1>6. CASE CommitApply(r)
  <2>1. AfterApply(r) \in {"hook", "next", "done"}
    BY DEF AfterApply
  <2>2. /\ comps' = comps \cup {comp[r]} /\ (comp[r] \in comps \/ comp[r].from \in Partner)
        /\ insts \subseteq insts' /\ UNCHANGED <<codes, result, revived>>
        /\ stage[r] = "applying" /\ stage' = [stage EXCEPT ![r] = AfterApply(r)]
        /\ UNCHANGED <<op, comp, part, names, target, shown>>
    BY <1>0, <1>6 DEF CommitApply, AcceptFlow
  <2>3. OthersStay(r)
    BY <2>2 DEF OthersStay
  <2>4. stage'[r] \in {"hook", "next", "done"} /\ op[r] \in {"connect", "boot"}
    BY <1>0, <2>1, <2>2 DEF FlowShape
  <2> HIDE DEF To
  <2> QED BY <2>2, <2>3, <2>4, PlainWhole DEF Ended
<1>7. CASE ApplyFails(r)
  BY <1>0, <1>7, PlainWhole DEF ApplyFails, FlowShape, OthersStay, Ended
<1>8. ASSUME NEW a \in Answer, HookApproves(r, a) PROVE Whole'
  BY <1>0, <1>8, PlainWhole DEF HookApproves, FlowShape, OthersStay, Ended
<1>9. ASSUME NEW a \in Answer, HookRejects(r, a) PROVE Whole'
  BY <1>0, <1>9, PlainWhole DEF HookRejects, FlowShape, OthersStay, Ended
<1> QED BY <1>1, <1>2, <1>3, <1>4, <1>5, <1>6, <1>7, <1>8, <1>9 DEF PartnerStep, HookAnswers

\* Compositions and devices are deleted with their instances only.
LEMMA ShrinkWhole ==
  ASSUME NEW C, NEW I, NEW A, Typing, Whole, Cascade(C, I, A),
         UNCHANGED <<op, comp, part, names, target, revived, shown>>,
         \A q \in Request :
           stage'[q] # stage[q] =>
             stage[q] \notin Ended /\ AcceptFlow(q)' /\ op[q] \notin {"accept", "serve"},
         \A q \in Request : stage[q] = "applying" => comp[q] \notin C,
         \A i \in I : i.comp \in C \/ i.name \in OnDevice
  PROVE  Whole'
<1>1. \A c : Finished(c) => Finished(c)'
  BY DEF Finished, Ended
<1>2. comps' = comps \ C /\ insts' = insts \ I
  BY DEF Cascade
<1>3. \A q \in Request : AcceptFlow(q)' /\ Making(q)'
  BY <1>2 DEF Whole, AcceptFlow, Making
<1>4. \A c \in comps' : Made(c)'
  <2> TAKE c \in comps'
  <2>1. Made(c) /\ c \notin C
    BY <1>2 DEF Whole
  <2> QED BY <1>2, <2>1 DEF Made
<1>5. \A k \in Code : GrantedFits(k)'
  <2> TAKE k \in Code
  <2>1. /\ codes'[k] = IF result[k] \in C \cup I THEN "gone" ELSE codes[k]
        /\ result'[k] = IF result[k] \in C \cup I THEN None ELSE result[k]
    BY DEF Cascade
  <2>2. GrantedFits(k)
    BY DEF Whole
  <2> QED BY <1>1, <1>2, <2>1, <2>2 DEF GrantedFits
<1>6. \A q \in Request : ServedFits(q)'
  <2> TAKE q \in Request
  <2>1. ServedFits(q)
    BY DEF Whole
  <2> QED BY <1>1, <1>2, <2>1 DEF ServedFits, Holds
<1> QED BY <1>3, <1>4, <1>5, <1>6 DEF Whole

LEMMA DeletionWhole ==
  ASSUME NEW r \in Request, Typing, Fitting, Whole, DeletionStep(r),
         UNCHANGED <<privateVars, shown>>
  PROVE  Whole'
<1> USE DEF Typing, HubTypeOK, DeploymentTypeOK, rowVars, privateVars, partnerVars, acceptVars, To
<1>0. AcceptFlow(r)
  BY DEF Whole
<1>1. CASE Collect(r) \/ DeletionFails(r)
  BY <1>0, <1>1, PlainWhole DEF Collect, DeletionFails, AcceptFlow, OthersStay, Ended
<1>2. CASE CommitDeletion(r)
  <2>1. /\ Cascade({comp[r]}, seen[r].insts, CollectedClients(r))
        /\ stage' = [stage EXCEPT ![r] = AfterDeletion(r)] /\ stage[r] = "dropping"
        /\ UNCHANGED <<op, comp, seen, draft, shown, part, names, target, revived>>
    BY <1>2 DEF CommitDeletion
  <2>2. AfterDeletion(r) \in {"done", "next", "rejected"}
    BY DEF AfterDeletion
  <2>3. op[r] \notin {"accept", "serve"} /\ stage[r] \notin Ended /\ AcceptFlow(r)'
    BY <1>0, <2>1, <2>2 DEF AcceptFlow, Ended
  <2>4. \A q \in Request : stage[q] = "applying" => comp[q] # comp[r]
    BY <1>2 DEF CommitDeletion, Locked
  <2>5. \A i \in seen[r].insts : i.comp = comp[r]
    BY <2>1 DEF Fitting, CollectedFits
  <2>6. \A q \in Request :
          stage'[q] # stage[q] =>
            stage[q] \notin Ended /\ AcceptFlow(q)' /\ op[q] \notin {"accept", "serve"}
    BY <2>1, <2>3
  <2>7. \A q \in Request : stage[q] = "applying" => comp[q] \notin {comp[r]}
    BY <2>4
  <2>8. \A i \in seen[r].insts : i.comp \in {comp[r]} \/ i.name \in OnDevice
    BY <2>5
  <2>9. UNCHANGED <<op, comp, part, names, target, revived, shown>>
    BY <2>1
  <2> HIDE DEF Typing
  <2> QED BY <2>1, <2>6, <2>7, <2>8, <2>9, ShrinkWhole
<1> QED BY <1>1, <1>2 DEF DeletionStep

LEMMA RegistrationWhole ==
  ASSUME NEW r \in Request, Typing, Whole, RegistrationStep(r),
         UNCHANGED <<partnerVars, acceptVars, shown>>
  PROVE  Whole'
<1> USE DEF Typing, HubTypeOK, DeploymentTypeOK, rowVars, partnerVars, acceptVars, To
<1>0. AcceptFlow(r) /\ Making(r)
  BY DEF Whole
<1>1. /\ stage[r] = "composing" /\ OthersStay(r)
      /\ UNCHANGED <<comps, insts, codes, result, op, comp, part, names, target, revived>>
      /\ stage'[r] \in {"composing", "failed"} \cup {AfterRegistration(r)}
  BY DEF RegistrationStep, ComposeNext, SkipDeclined, MapInstance, SkipUnavailable, MissMandatory,
     CommitRegistration, RegistrationFails, OthersStay
<1>2. AfterRegistration(r) = IF op[r] = "accept" THEN "clients" ELSE "done"
  BY DEF AfterRegistration
<1>3. AcceptFlow(r)' /\ Making(r)' /\ op[r] # "serve"
  BY <1>0, <1>1, <1>2 DEF AcceptFlow, Making, Ended
<1> QED BY <1>1, <1>3, FrameWhole DEF Ended

\* A failing acceptance leaves its instances to insert, but is not granted.
LEMMA FailWhole ==
  ASSUME NEW r \in Request, Typing, Whole, Fail(r), stage[r] \notin Ended,
         op[r] \in {"accept", "service"}, UNCHANGED <<comps, insts, codes, result, shown>>
  PROVE  Whole'
<1> USE DEF Typing, HubTypeOK, DeploymentTypeOK, partnerVars, privateVars, acceptVars, To
<1>0. AcceptFlow(r) /\ Making(r)
  BY DEF Whole
<1>1. stage'[r] = "failed" /\ OthersStay(r) /\ UNCHANGED <<op, comp, part, names, target, revived>>
  BY DEF Fail, OthersStay
<1>2. AcceptFlow(r)' /\ Making(r)'
  BY <1>0, <1>1 DEF AcceptFlow, Making, Ended
<1> QED BY <1>1, <1>2, FrameWhole

\* The steps of an acceptance that touch no row of its composition.
LEMMA StageWhole ==
  ASSUME NEW r \in Request, Typing, Whole,
         \/ FindService(r) \/ GiveRole(r) \/ InstanceReady(r) \/ AllInserted(r)
         \/ RegisterStaged(r) \/ AllRegistered(r),
         UNCHANGED shown
  PROVE  Whole'
<1> USE DEF Typing, HubTypeOK, DeploymentTypeOK, AcceptTypeOK, PartnerTypeOK, ComposingTypeOK,
        rowVars, partnerVars, privateVars, acceptVars, taskVars, To
<1>0. AcceptFlow(r) /\ Making(r) /\ FlowShape(r) /\ WorkShape(r)
  BY DEF Whole, Shape
<1>1. CASE FindService(r)
  <2>1. /\ OthersStay(r) /\ stage[r] = "names" /\ stage'[r] = "insert" /\ target'[r].comp = comp[r]
        /\ UNCHANGED <<comps, insts, codes, result, op, comp, part, names, revived>>
    BY <1>1 DEF FindService, OthersStay
  <2>2. AcceptFlow(r)' /\ Making(r)' /\ op[r] = "accept"
    BY <1>0, <2>1 DEF AcceptFlow, Making, FlowShape
  <2> QED BY <2>1, <2>2, FrameWhole DEF Ended
<1>2. CASE GiveRole(r)
  <2>1. /\ OthersStay(r) /\ stage[r] = "roles"
        /\ UNCHANGED <<comps, insts, codes, result, op, stage, comp, part, names, target, revived>>
    BY <1>2 DEF GiveRole, OthersStay
  <2>2. AcceptFlow(r)' /\ Making(r)' /\ op[r] \in {"accept", "service"}
    BY <1>0, <2>1 DEF AcceptFlow, Making, FlowShape
  <2> QED BY <2>1, <2>2, FrameWhole DEF Ended
<1>3. CASE InstanceReady(r)
  <2>1. /\ OthersStay(r) /\ stage[r] = "roles" /\ op[r] \in {"accept", "service"}
        /\ stage'[r] = IF op[r] = "service" THEN "grant" ELSE "names"
        /\ UNCHANGED <<comps, insts, codes, result, op, comp, part, names, target, revived>>
    BY <1>0, <1>3 DEF InstanceReady, OthersStay, FlowShape
  <2>2. AcceptFlow(r)' /\ Making(r)'
    BY <1>0, <2>1 DEF AcceptFlow, Making
  <2> QED BY <2>1, <2>2, FrameWhole DEF Ended
<1>4. CASE AllInserted(r)
  <2>1. /\ OthersStay(r) /\ stage[r] = "names" /\ stage'[r] = "clients" /\ names[r] = {}
        /\ UNCHANGED <<comps, insts, codes, result, op, comp, part, names, target, revived>>
    BY <1>4 DEF AllInserted, OthersStay
  <2>2. AcceptFlow(r)' /\ Making(r)' /\ op[r] = "accept"
    BY <1>0, <2>1 DEF AcceptFlow, Making, FlowShape
  <2> QED BY <2>1, <2>2, FrameWhole DEF Ended
<1>5. CASE RegisterStaged(r)
  <2>1. /\ OthersStay(r) /\ stage[r] = "clients" /\ stage'[r] = "composing"
        /\ UNCHANGED <<comps, insts, codes, result, op, comp, part, names, target, revived>>
    BY <1>5 DEF RegisterStaged, OthersStay
  <2>2. AcceptFlow(r)' /\ Making(r)' /\ op[r] = "accept"
    BY <1>0, <2>1 DEF AcceptFlow, Making, FlowShape
  <2> QED BY <2>1, <2>2, FrameWhole DEF Ended
<1>6. CASE AllRegistered(r)
  <2>1. /\ OthersStay(r) /\ stage[r] = "clients" /\ stage'[r] \in {"key", "grant"}
        /\ UNCHANGED <<comps, insts, codes, result, op, comp, part, names, target, revived>>
    BY <1>6 DEF AllRegistered, OthersStay
  <2>2. AcceptFlow(r)' /\ Making(r)' /\ op[r] = "accept"
    BY <1>0, <2>1 DEF AcceptFlow, Making, FlowShape
  <2> QED BY <2>1, <2>2, FrameWhole DEF Ended
<1> QED BY <1>1, <1>2, <1>3, <1>4, <1>5, <1>6

\* A composition begins with all its instances to insert.
LEMMA CreateWhole ==
  ASSUME NEW r \in Request, Typing, Whole, CreateComposition(r), UNCHANGED shown
  PROVE  Whole'
<1> USE DEF Typing, HubTypeOK, DeploymentTypeOK, AcceptTypeOK, partnerVars, To
<1> PICK new : new = [by |-> r, from |-> part[r]]
  OBVIOUS
<1>0. AcceptFlow(r) /\ Making(r) /\ FlowShape(r) /\ WorkShape(r)
  BY DEF Whole, Shape
<1>1. /\ OthersStay(r) /\ stage[r] = "create" /\ stage'[r] = "names" /\ comp'[r] = new
      /\ names'[r] = InstancesOf[part[r]] /\ comps' = comps \cup {new}
      /\ UNCHANGED <<insts, codes, result, op, part, target, revived>>
  BY DEF CreateComposition, OthersStay
<1>2. op[r] = "accept" /\ comp[r] = None /\ part[r] \in Code
  BY <1>0, <1>1 DEF FlowShape, WorkShape, Making
<1>3. new \in Composition /\ new.by = r /\ new.from = part[r]
  BY <1>2 DEF Composition, Inserter, Source
<1>4. new \notin comps
  <2>1. new \in comps => Made(new)
    BY DEF Whole
  <2>2. new # None
    BY <1>3, DeploymentAssumption
  <2> QED BY <1>2, <1>3, <2>1, <2>2 DEF Made
<1>5. \A c : Finished(c) => Finished(c)'
  BY <1>1 DEF Finished, OthersStay
<1>6. \A q \in Request : AcceptFlow(q)' /\ Making(q)'
  <2>1. AcceptFlow(r)' /\ Making(r)'
    BY <1>1, <1>2 DEF AcceptFlow, Making
  <2>2. \A q \in Request \ {r} : AcceptFlow(q)' /\ Making(q)'
    BY <1>1 DEF Whole, OthersStay, AcceptFlow, Making
  <2> QED BY <2>1, <2>2
<1>7. \A c \in comps' : Made(c)'
  <2>1. Made(new)'
    BY <1>1, <1>2, <1>3 DEF Made
  <2>2. ASSUME NEW c \in comps PROVE Made(c)'
    <3>1. Made(c) /\ c # None
      BY DeploymentAssumption DEF Whole
    <3>2. c.from \in Code => c.by # r
      BY <1>2, <3>1 DEF Made
    <3> QED BY <1>1, <3>1, <3>2 DEF Made, OthersStay
  <2> QED BY <1>1, <2>1, <2>2
<1>8. \A k \in Code : GrantedFits(k)'
  BY <1>1, <1>5 DEF Whole, GrantedFits
<1>9. \A q \in Request : ServedFits(q)'
  <2>1. ServedFits(r)'
    BY <1>1, <1>2 DEF ServedFits
  <2>2. ASSUME NEW q \in Request \ {r} PROVE ServedFits(q)'
    <3>1. ServedFits(q) /\ op'[q] = op[q] /\ stage'[q] = stage[q] /\ comp'[q] = comp[q]
          /\ shown'[q] = shown[q]
      BY <1>1 DEF Whole, OthersStay
    <3>2. Finished(comp[q]) => comp[q] # new
      BY <1>1, <1>2, <1>3 DEF Finished
    <3> QED BY <1>1, <1>5, <3>1, <3>2 DEF ServedFits, Holds
  <2> QED BY <2>1, <2>2
<1> QED BY <1>6, <1>7, <1>8, <1>9 DEF Whole

\* An instance is inserted under the composition of its acceptance.
LEMMA InsertWhole ==
  ASSUME NEW r \in Request, Typing, Whole, InsertInstance(r), UNCHANGED shown
  PROVE  Whole'
<1> USE DEF Typing, HubTypeOK, DeploymentTypeOK, AcceptTypeOK, partnerVars, To
<1>0. AcceptFlow(r) /\ Making(r) /\ FlowShape(r)
  BY DEF Whole, Shape
<1>1. /\ OthersStay(r) /\ stage[r] = "insert" /\ stage'[r] = "roles"
      /\ insts' = insts \cup {target[r]} /\ names'[r] = names[r] \ {target[r].name}
      /\ UNCHANGED <<comps, codes, result, op, comp, part, target, revived>>
  BY DEF InsertInstance, OthersStay
<1>2. op[r] = "accept" /\ target[r].comp = comp[r]
  BY <1>0, <1>1 DEF FlowShape, Making
<1>3. \A c : Finished(c) => Finished(c)'
  BY <1>1 DEF Finished, OthersStay
<1>4. \A q \in Request : AcceptFlow(q)' /\ Making(q)'
  <2>1. AcceptFlow(r)' /\ Making(r)'
    BY <1>0, <1>1, <1>2 DEF AcceptFlow, Making
  <2>2. \A q \in Request \ {r} : AcceptFlow(q)' /\ Making(q)'
    BY <1>1 DEF Whole, OthersStay, AcceptFlow, Making
  <2> QED BY <2>1, <2>2
<1>5. ASSUME NEW c \in comps PROVE Made(c)'
  <2>1. Made(c)
    BY DEF Whole
  <2>2. CASE c.by = r
    BY <1>1, <1>2, <2>1, <2>2 DEF Made
  <2>3. CASE c.by # r
    BY <1>1, <2>1, <2>3 DEF Made, OthersStay
  <2> QED BY <2>2, <2>3
<1>6. \A k \in Code : GrantedFits(k)'
  BY <1>1, <1>3 DEF Whole, GrantedFits
<1>7. \A q \in Request : ServedFits(q)'
  <2>1. ServedFits(r)'
    BY <1>1, <1>2 DEF ServedFits
  <2>2. \A q \in Request \ {r} : ServedFits(q)'
    BY <1>1, <1>3 DEF Whole, OthersStay, ServedFits, Holds
  <2> QED BY <2>1, <2>2
<1> QED BY <1>1, <1>4, <1>5, <1>6, <1>7 DEF Whole

\* A composition that was deleted meanwhile is inserted again.
LEMMA StoreWhole ==
  ASSUME NEW r \in Request, Typing, Whole, StoreKey(r), UNCHANGED shown
  PROVE  Whole'
<1> USE DEF Typing, HubTypeOK, DeploymentTypeOK, AcceptTypeOK, partnerVars, To
<1>0. AcceptFlow(r) /\ Making(r) /\ FlowShape(r) /\ WorkShape(r)
  BY DEF Whole, Shape
<1>1. /\ OthersStay(r) /\ stage[r] = "key" /\ stage'[r] = "grant"
      /\ comps' = comps \cup {comp[r]} /\ revived' = revived \cup ({comp[r]} \ comps)
      /\ UNCHANGED <<insts, codes, result, op, comp, part, names, target>>
  BY DEF StoreKey, OthersStay
<1>2. /\ op[r] = "accept" /\ comp[r] \in Composition /\ comp[r] # None
      /\ comp[r] = [by |-> r, from |-> part[r]]
  BY <1>0, <1>1, DeploymentAssumption DEF FlowShape, WorkShape, Making
<1>3. \A c : Finished(c) => Finished(c)'
  BY <1>1 DEF Finished, OthersStay
<1>4. \A q \in Request : AcceptFlow(q)' /\ Making(q)'
  <2>1. AcceptFlow(r)' /\ Making(r)'
    BY <1>0, <1>1, <1>2 DEF AcceptFlow, Making
  <2>2. \A q \in Request \ {r} : AcceptFlow(q)' /\ Making(q)'
    BY <1>1 DEF Whole, OthersStay, AcceptFlow, Making
  <2> QED BY <2>1, <2>2
<1>5. ASSUME NEW c \in comps' PROVE Made(c)'
  <2>1. CASE c \in comps
    <3>1. Made(c)
      BY <2>1 DEF Whole
    <3> QED BY <1>1, <3>1 DEF Made, OthersStay
  <2>2. CASE c \notin comps
    <3>1. c = comp[r] /\ c.by = r /\ c \in revived'
      BY <1>1, <1>2, <2>2
    <3> QED BY <1>1, <1>2, <3>1 DEF Made
  <2> QED BY <2>1, <2>2
<1>6. \A k \in Code : GrantedFits(k)'
  BY <1>1, <1>3 DEF Whole, GrantedFits
<1>7. \A q \in Request : ServedFits(q)'
  <2>1. ServedFits(r)'
    BY <1>1, <1>2 DEF ServedFits
  <2>2. ASSUME NEW q \in Request \ {r} PROVE ServedFits(q)'
    <3>1. ServedFits(q)
      BY DEF Whole
    <3>2. comp[q] \notin comps => comp[q] \notin comps' \/ comp[q] \in revived'
      BY <1>1
    <3> QED BY <1>1, <1>3, <3>1, <3>2 DEF OthersStay, ServedFits, Holds
  <2> QED BY <2>1, <2>2
<1> QED BY <1>4, <1>5, <1>6, <1>7 DEF Whole

\* A code is granted when all its instances have been inserted.
LEMMA GrantWhole ==
  ASSUME NEW r \in Request, Typing, Whole, Grant(r), UNCHANGED shown
  PROVE  Whole'
<1> USE DEF Typing, HubTypeOK, DeploymentTypeOK, AcceptTypeOK, privateVars, partnerVars,
        acceptVars, To
<1>0. AcceptFlow(r) /\ Making(r) /\ WorkShape(r)
  BY DEF Whole, Shape
<1>1. /\ OthersStay(r) /\ stage[r] = "grant" /\ stage'[r] = "done"
      /\ codes' = [codes EXCEPT ![part[r]] = "granted"]
      /\ result' = [result EXCEPT ![part[r]] = Outcome(r)]
      /\ Outcome(r) \in comps \cup insts
      /\ UNCHANGED <<comps, insts, op, comp, part, names, target, revived>>
  BY DEF Grant, Answered, OthersStay
<1>2. op[r] \in {"accept", "service"}
  BY <1>0, <1>1 DEF AcceptFlow
<1>3. \A c : Finished(c) => Finished(c)'
  BY <1>1 DEF Finished, OthersStay
<1>4. \A q \in Request : AcceptFlow(q)' /\ Making(q)'
  <2>1. AcceptFlow(r)' /\ Making(r)'
    BY <1>0, <1>1, <1>2 DEF AcceptFlow, Making, Ended
  <2>2. \A q \in Request \ {r} : AcceptFlow(q)' /\ Making(q)'
    BY <1>1 DEF Whole, OthersStay, AcceptFlow, Making
  <2> QED BY <2>1, <2>2
<1>5. \A c \in comps' : Made(c)'
  <2> TAKE c \in comps'
  <2>1. Made(c)
    BY <1>1 DEF Whole
  <2> QED BY <1>1, <2>1 DEF Made
<1>6. ASSUME NEW k \in Code PROVE GrantedFits(k)'
  <2>1. CASE k # part[r]
    BY <1>1, <1>3, <2>1 DEF Whole, GrantedFits
  <2>2. CASE k = part[r]
    <3>1. op[r] = "accept"
      BY <1>0, <1>2, <2>2, DeploymentAssumption DEF AcceptFlow
    <3>2. comp[r] \in comps \cup insts /\ result'[k] = comp[r]
      BY <1>1, <2>2, <3>1 DEF Outcome
    <3>3. comp[r] # None
      BY <3>2, DeploymentAssumption
    <3>4. comp[r] = [by |-> r, from |-> k]
      BY <1>0, <2>2, <3>1, <3>3 DEF Making
    <3>5. comp[r] \in Composition
      BY <3>4 DEF Composition, Inserter, Source
    <3>6. comp[r] \in comps
      BY <3>2, <3>5, DeploymentAssumption
    <3>7. Finished(comp[r])'
      BY <1>1, <3>1, <3>4 DEF Finished
    <3> QED BY <1>1, <3>2, <3>4, <3>6, <3>7 DEF GrantedFits
  <2> QED BY <2>1, <2>2
<1>7. \A q \in Request : ServedFits(q)'
  <2>1. ServedFits(r)'
    BY <1>1, <1>2 DEF ServedFits
  <2>2. \A q \in Request \ {r} : ServedFits(q)'
    BY <1>1, <1>3 DEF Whole, OthersStay, ServedFits, Holds
  <2> QED BY <2>1, <2>2
<1> QED BY <1>4, <1>5, <1>6, <1>7 DEF Whole

LEMMA AcceptWhole ==
  ASSUME NEW r \in Request, Typing, Whole, AcceptStep(r), UNCHANGED shown
  PROVE  Whole'
<1>0. AcceptFlow(r) /\ FlowShape(r)
  BY DEF Whole, Typing, Shape
<1>1. CASE \/ CreateFails(r) \/ FindServiceFails(r) \/ InsertFails(r) \/ GiveRoleFails(r)
           \/ RegisterStagedFails(r) \/ StoreKeyFails(r) \/ GrantFails(r)
  <2>1. /\ Fail(r) /\ UNCHANGED <<comps, insts, codes, result>>
        /\ stage[r] \in {"create", "names", "insert", "roles", "clients", "key", "grant"}
    BY <1>1 DEF CreateFails, FindServiceFails, InsertFails, GiveRoleFails, RegisterStagedFails,
       StoreKeyFails, GrantFails, rowVars
  <2>2. op[r] \in {"accept", "service"} /\ stage[r] \notin Ended
    BY <1>0, <2>1 DEF AcceptFlow, FlowShape, Ended
  <2> QED BY <2>1, <2>2, FailWhole
<1>2. CASE MissingServiceFails(r)
  <2>1. /\ Fail(r) /\ UNCHANGED <<comps, insts, codes, result>> /\ stage[r] = "missing"
    BY <1>2 DEF MissingServiceFails
  <2>2. stage[r] \notin Ended
    BY <2>1 DEF Ended
  <2>3. op[r] # "accept"
    BY <1>0, <2>1, <2>2 DEF AcceptFlow
  <2>4. stage'[r] = "failed" /\ OthersStay(r) /\ UNCHANGED <<op, comp, part, names, revived>>
    BY <2>1 DEF Fail, To, OthersStay, privateVars, partnerVars, acceptVars, Typing, HubTypeOK,
       DeploymentTypeOK
  <2>5. op[r] # "serve" /\ (op[r] = "service" => part[r] \in ServiceCode)
    BY <1>0, <2>1, <2>2 DEF AcceptFlow
  <2> QED BY <2>1, <2>2, <2>3, <2>4, <2>5, PlainWhole
<1> QED BY <1>1, <1>2, StageWhole, CreateWhole, InsertWhole, StoreWhole, GrantWhole DEF AcceptStep

\* A step of a server's claim.
LEMMA ServeWhole ==
  ASSUME NEW r \in Request, Whole, OthersStay(r), op[r] # "accept", op'[r] = "serve",
         AcceptFlow(r)', ServedFits(r)', UNCHANGED <<comps, insts, codes, result, revived>>
  PROVE  Whole'
<1>1. \A c : Finished(c) => Finished(c)'
  BY DEF Finished, OthersStay
<1>2. Making(r)' /\ \A q \in Request \ {r} : AcceptFlow(q)' /\ Making(q)'
  BY DEF Whole, OthersStay, AcceptFlow, Making
<1>3. \A c \in comps' : Made(c)'
  <2> TAKE c \in comps'
  <2>1. Made(c)
    BY DEF Whole
  <2> QED BY <2>1 DEF Made, OthersStay
<1>4. \A k \in Code : GrantedFits(k)'
  BY <1>1 DEF Whole, GrantedFits
<1>5. \A q \in Request \ {r} : ServedFits(q)'
  BY <1>1 DEF Whole, OthersStay, ServedFits, Holds
<1> QED BY <1>2, <1>3, <1>4, <1>5 DEF Whole

\* A server is shown the composition that its code was granted for.
LEMMA BeginServeWhole ==
  ASSUME NEW r \in Request, NEW k \in Code, Typing, Whole, BeginServerClaim(r, k),
         UNCHANGED privateVars
  PROVE  Whole'
<1> USE DEF Typing, HubTypeOK, DeploymentTypeOK, ClaimTypeOK, rowVars, privateVars, partnerVars,
        acceptVars, Show
<1>1. /\ OthersStay(r) /\ stage[r] = "new" /\ stage'[r] = "serving" /\ op'[r] = "serve"
      /\ codes[k] = "granted" /\ comp'[r] = result[k] /\ shown'[r].code = k
      /\ UNCHANGED <<comps, insts, codes, result, revived>>
  BY DEF BeginServerClaim, Start, OthersStay
<1>2. op[r] = "none"
  BY <1>1 DEF Shape, FlowShape
<1> PICK c : c = result[k]
  OBVIOUS
<1>3. c \in Composition /\ c.from = k /\ Finished(c)
  BY <1>1 DEF Whole, GrantedFits
<1>4. Finished(c)'
  BY <1>1, <1>2, <1>3 DEF Finished, OthersStay
<1>5. AcceptFlow(r)' /\ ServedFits(r)'
  BY <1>1, <1>3, <1>4 DEF AcceptFlow, ServedFits
<1> QED BY <1>1, <1>2, <1>5, ServeWhole

\* Of a composition whose code was granted a server lists all instances.
LEMMA ListWhole ==
  ASSUME NEW r \in Request, Typing, Whole, ListInstances(r), UNCHANGED privateVars
  PROVE  Whole'
<1> USE DEF Typing, HubTypeOK, DeploymentTypeOK, ClaimTypeOK, rowVars, privateVars, partnerVars,
        acceptVars, Show, To
<1>0. AcceptFlow(r) /\ ServedFits(r)
  BY DEF Whole
<1>1. /\ OthersStay(r) /\ stage[r] = "serving" /\ stage'[r] = "listing"
      /\ shown'[r].code = shown[r].code /\ shown'[r].instances = InstancesIn(comp[r])
      /\ UNCHANGED <<comps, insts, codes, result, revived, op, comp, part, names, target>>
  BY DEF ListInstances, OthersStay
<1>2. CASE op[r] # "serve"
  <2>1. op[r] # "accept"
    BY <1>0, <1>1 DEF AcceptFlow, Ended
  <2>2. stage[r] \notin Ended /\ (op[r] = "service" => part[r] \in ServiceCode)
    BY <1>0, <1>1 DEF AcceptFlow, Ended
  <2> QED BY <1>1, <1>2, <2>1, <2>2, PlainWhole
<1>3. CASE op[r] = "serve"
  <2> PICK c : c = comp[r]
    OBVIOUS
  <2>1. c \in Composition /\ Finished(c) /\ shown[r].code \in Code /\ c.from = shown[r].code
    BY <1>0, <1>1, <1>3 DEF ServedFits
  <2>2. c \in comps => c \in revived \/ Holds(c.from, InstancesIn(c))
    <3>1. Making(c.by) /\ (c \in comps => Made(c))
      BY <2>1 DEF Whole, Finished
    <3>2. names[c.by] = {}
      BY <2>1, <3>1 DEF Finished, Making
    <3> QED BY <2>1, <3>1, <3>2 DEF Made, Holds, InstancesIn
  <2>3. Finished(c)'
    BY <1>1, <1>3, <2>1 DEF Finished, OthersStay
  <2>4. ServedFits(r)'
    BY <1>1, <2>1, <2>2, <2>3 DEF ServedFits, Holds
  <2>5. AcceptFlow(r)'
    BY <1>1, <1>3 DEF AcceptFlow
  <2> QED BY <1>1, <1>3, <2>4, <2>5, ServeWhole
<1> QED BY <1>2, <1>3

LEMMA ListClientsWhole ==
  ASSUME NEW r \in Request, Typing, Whole, ListClients(r), UNCHANGED privateVars
  PROVE  Whole'
<1> USE DEF Typing, HubTypeOK, DeploymentTypeOK, ClaimTypeOK, rowVars, privateVars, partnerVars,
        acceptVars, Show, To
<1>0. AcceptFlow(r) /\ ServedFits(r)
  BY DEF Whole
<1>1. /\ OthersStay(r) /\ stage[r] = "listing" /\ stage'[r] = "done"
      /\ shown'[r].code = shown[r].code /\ shown'[r].instances = shown[r].instances
      /\ UNCHANGED <<comps, insts, codes, result, revived, op, comp, part, names, target>>
  BY DEF ListClients, OthersStay
<1>2. stage[r] \notin Ended /\ op[r] # "accept"
  BY <1>0, <1>1 DEF AcceptFlow, Ended
<1>3. CASE op[r] # "serve"
  <2>1. op[r] = "service" => part[r] \in ServiceCode
    BY <1>0 DEF AcceptFlow
  <2> QED BY <1>1, <1>2, <1>3, <2>1, PlainWhole
<1>4. CASE op[r] = "serve"
  <2>1. Finished(comp[r])'
    BY <1>0, <1>1, <1>2, <1>4 DEF ServedFits, Finished, OthersStay
  <2>2. AcceptFlow(r)' /\ ServedFits(r)'
    BY <1>0, <1>1, <1>4, <2>1 DEF AcceptFlow, ServedFits, Holds, Ended
  <2> QED BY <1>1, <1>2, <1>4, <2>2, ServeWhole
<1> QED BY <1>3, <1>4

LEMMA ClaimWhole ==
  ASSUME NEW r \in Request, Typing, Whole, ClaimStep(r), UNCHANGED privateVars
  PROVE  Whole'
<1>0. AcceptFlow(r)
  BY DEF Whole
<1>1. CASE ListMappings(r) \/ RenderInstance(r) \/ RenderFails(r)
  <2>1. /\ stage[r] \in {"claiming", "rendering"} /\ stage'[r] \in {"rendering", "done", "failed"}
        /\ OthersStay(r) /\ UNCHANGED <<comps, insts, codes, result, revived, op, comp, part>>
    BY <1>1 DEF ListMappings, RenderInstance, RenderFails, OthersStay, To, Show, rowVars,
       privateVars, partnerVars, acceptVars, Typing, HubTypeOK, DeploymentTypeOK, ClaimTypeOK
  <2>2. /\ stage[r] \notin Ended /\ op[r] \notin {"accept", "serve"}
        /\ op[r] = "service" => part[r] \in ServiceCode
    BY <1>0, <2>1 DEF AcceptFlow, Ended
  <2> QED BY <2>1, <2>2, PlainWhole
<1> QED BY <1>1, ListWhole, ListClientsWhole DEF ClaimStep

LEMMA BeginClaimWhole ==
  ASSUME NEW r \in Request, NEW a \in App, Typing, Whole, BeginClaim(r, a), UNCHANGED privateVars
  PROVE  Whole'
<1>1. /\ stage[r] = "new" /\ stage'[r] = "claiming" /\ op'[r] = "claim"
      /\ OthersStay(r) /\ UNCHANGED <<comps, insts, codes, result, revived>>
  BY DEF BeginClaim, Start, OthersStay, rowVars, privateVars, partnerVars, acceptVars, Typing,
     HubTypeOK, DeploymentTypeOK
<1>2. stage[r] \notin Ended /\ op[r] = "none"
  BY <1>1 DEF Typing, Shape, FlowShape, Ended
<1> QED BY <1>1, <1>2, PlainWhole

\* An acceptance begins without a composition.
LEMMA BeginAcceptWhole ==
  ASSUME NEW r \in Request, NEW k \in Code, Typing, Whole, BeginAccept(r, k), UNCHANGED shown
  PROVE  Whole'
<1>1. /\ stage[r] = "new" /\ stage'[r] = "create" /\ op'[r] = "accept" /\ comp'[r] = None
      /\ OthersStay(r) /\ UNCHANGED <<comps, insts, codes, result, revived>>
  BY DEF BeginAccept, Start, OthersStay, rowVars, acceptVars, Typing, HubTypeOK,
     DeploymentTypeOK, PartnerTypeOK
<1>2. stage[r] \notin Ended /\ op[r] = "none"
  BY <1>1 DEF Typing, Shape, FlowShape, Ended
<1>3. AcceptFlow(r)' /\ Making(r)'
  BY <1>1 DEF AcceptFlow, Making
<1> QED BY <1>1, <1>2, <1>3, FrameWhole

LEMMA BeginServiceWhole ==
  ASSUME NEW r \in Request, NEW k \in ServiceCode, Typing, Whole, BeginAcceptService(r, k),
         UNCHANGED shown
  PROVE  Whole'
<1>1. /\ stage[r] = "new" /\ stage'[r] \in {"roles", "missing"} /\ op'[r] = "service"
      /\ part'[r] = k /\ OthersStay(r) /\ UNCHANGED <<comps, insts, codes, result, revived>>
  BY DEF BeginAcceptService, Start, OthersStay, rowVars, acceptVars, Typing, HubTypeOK,
     DeploymentTypeOK, PartnerTypeOK, AcceptTypeOK
<1>2. stage[r] \notin Ended /\ op[r] = "none"
  BY <1>1 DEF Typing, Shape, FlowShape, Ended
<1> QED BY <1>1, <1>2, PlainWhole

LEMMA ArriveWhole ==
  ASSUME NEW r \in Request, Typing, Whole, Arrive(r), UNCHANGED shown
  PROVE  Whole'
<1> USE DEF Typing, HubTypeOK, DeploymentTypeOK, PartnerTypeOK, rowVars, privateVars, partnerVars,
        acceptVars
<1>0. stage[r] = "new" => stage[r] \notin Ended /\ op[r] = "none"
  BY DEF Shape, FlowShape, Ended
<1>1. CASE \E c \in comps : DeleteComposition(r, c) /\ UNCHANGED privateVars
  BY <1>0, <1>1, PlainWhole DEF DeleteComposition, Start, OthersStay
<1>2. CASE \E a \in App, c \in comps, m \in Manifest : \E D \in SUBSET OptionalKeys(m) :
             Register(r, a, c, m, D) /\ UNCHANGED <<partnerVars, acceptVars>>
  <2>1. /\ stage[r] = "new" /\ stage'[r] = "composing" /\ op'[r] = "register" /\ OthersStay(r)
        /\ UNCHANGED <<comps, insts, codes, result, revived>>
    BY <1>2 DEF Register, Start, OthersStay
  <2> QED BY <1>0, <2>1, PlainWhole
<1>3. CASE \E p \in Partner : Connect(r, p) /\ UNCHANGED <<draft, acceptVars>>
  BY <1>0, <1>3, PlainWhole DEF Connect, Start, OthersStay
<1>4. CASE Boot(r) /\ UNCHANGED <<draft, acceptVars>>
  BY <1>0, <1>4, PlainWhole DEF Boot, Start, OthersStay
<1> QED BY <1>1, <1>2, <1>3, <1>4, BeginAcceptWhole, BeginServiceWhole DEF Arrive

\* Codes are drawn and expire, devices are deleted.
LEMMA ElsewhereWhole ==
  ASSUME Typing, Whole,
         \/ \E k \in Code \cup ServiceCode : StartCode(k) \/ PollExpired(k)
         \/ DeleteDevice
         \/ UNCHANGED hubVars,
         UNCHANGED shown
  PROVE  Whole'
<1>1. CASE DeleteDevice
  <2> PICK I : I = {i \in insts : i.comp.from \in Code /\ i.name \in OnDevice}
    OBVIOUS
  <2>1. /\ Cascade({}, I, {}) /\ UNCHANGED stage
        /\ UNCHANGED <<op, comp, part, names, target, revived, shown>>
    BY <1>1 DEF DeleteDevice, taskVars, privateVars, partnerVars, acceptVars
  <2>2. \A i \in I : i.comp \in {} \/ i.name \in OnDevice
    OBVIOUS
  <2>3. \A q \in Request : stage'[q] # stage[q] =>
          stage[q] \notin Ended /\ AcceptFlow(q)' /\ op[q] \notin {"accept", "serve"}
    BY <2>1
  <2>4. \A q \in Request : stage[q] = "applying" => comp[q] \notin {}
    OBVIOUS
  <2> QED BY <2>1, <2>2, <2>3, <2>4, ShrinkWhole
<1>2. ASSUME UNCHANGED <<comps, insts, op, stage, comp, part, names, target, revived, shown>>,
             \A k \in Code : codes'[k] = "granted" => codes[k] = "granted" /\ result'[k] = result[k]
      PROVE  Whole'
  BY <1>2 DEF Whole, AcceptFlow, Making, Made, Finished, GrantedFits, ServedFits, Holds
<1>3. ASSUME NEW k \in Code \cup ServiceCode, StartCode(k) \/ PollExpired(k) PROVE Whole'
  BY <1>2, <1>3 DEF StartCode, PollExpired, Answered, taskVars, privateVars, partnerVars,
     acceptVars, Typing, HubTypeOK, DeploymentTypeOK
<1>4. CASE UNCHANGED hubVars
  BY <1>2, <1>4 DEF hubVars, deployVars, rowVars, taskVars, privateVars, partnerVars, acceptVars
<1> QED BY <1>1, <1>3, <1>4

LEMMA WholeStep == Typing /\ Fitting /\ Whole /\ [HubNext]_hubVars => Whole'
<1> SUFFICES ASSUME Typing, Fitting, Whole, [HubNext]_hubVars PROVE Whole'
  OBVIOUS
<1>1. ASSUME NEW r \in Request, Write(r), UNCHANGED shown PROVE Whole'
  BY <1>1, DeletionWhole, RegistrationWhole, PartnerWhole, AcceptWhole DEF Write
<1>2. ASSUME NEW r \in Request, Work(r) PROVE Whole'
  BY <1>1, <1>2, ClaimWhole DEF Work
<1>3. ASSUME NEW r \in Request, ClaimArrive(r), UNCHANGED privateVars PROVE Whole'
  BY <1>3, BeginClaimWhole, BeginServeWhole DEF ClaimArrive
<1>4. Reading \subseteq Request
  BY HubAssumption
<1>5. CASE UNCHANGED hubVars
  BY <1>5, ElsewhereWhole DEF hubVars
<1> QED BY <1>2, <1>3, <1>4, <1>5, ArriveWhole, ElsewhereWhole DEF HubNext

LEMMA InitWhole == HubInit => Whole
<1> SUFFICES ASSUME HubInit PROVE Whole
  OBVIOUS
<1>1. \A c \in comps : c.from \notin Code
  BY DeploymentAssumption DEF HubInit, DeploymentInit, SeedComps
<1>2. \A r \in Request : op[r] = "none" /\ stage[r] = "new"
  BY DEF HubInit, DeploymentInit
<1>3. \A k \in Code : codes[k] # "granted"
  BY DEF HubInit, DeploymentInit
<1> QED BY <1>1, <1>2, <1>3 DEF Whole, AcceptFlow, Making, Made, GrantedFits, ServedFits, Ended

LEMMA WholeGrants == ASSUME Typing, Whole PROVE GrantedIsWhole
<1>1. ASSUME NEW k \in Code, codes[k] = "granted"
      PROVE  result[k] \in comps /\ (result[k] \in revived \/ Holds(k, InstancesIn(result[k])))
  <2> PICK c : c = result[k]
    OBVIOUS
  <2>1. c \in comps /\ c.from = k /\ Finished(c) /\ Made(c)
    BY <1>1 DEF Whole, GrantedFits
  <2>2. names[c.by] = {}
    BY <2>1 DEF Whole, Making, Finished
  <2> QED BY <2>1, <2>2 DEF Made, Holds, InstancesIn
<1>2. ASSUME NEW r \in Request, op[r] = "serve", stage[r] = "done"
      PROVE  \/ comp[r] \in (Composition \ comps) \cup revived
             \/ Holds(shown[r].code, shown[r].instances)
  BY <1>2 DEF Whole, ServedFits
<1> QED BY <1>1, <1>2 DEF GrantedIsWhole

\* A code that is granted hands its server a composition with every instance of
\* the manifest, and the server's claim is shown them all, whatever happens
\* between the acceptance's separate commits; a deleted composition that
\* saving its auth key has inserted again is the exception.
THEOREM GrantedWhole == HubSpec => []GrantedIsWhole
<1>1. Typing /\ Whole => GrantedIsWhole
  BY WholeGrants
<1> QED BY <1>1, InitTyping, TypingStep, InitFitting, FittingStep, InitWhole, WholeStep, PTL
        DEF HubSpec

-----------------------------------------------------------------------------
(* Rejections: the inductive invariant *)

\* A composition that is there, was rejected, or may still be committed or
\* rejected.
Known(c) ==
  \/ c \in comps
  \/ \E q \in Request : \/ c \in turned[q]
                        \/ stage[q] \in {"applying", "hook"} /\ comp[q] = c

\* The request q does not begin to apply the partner p any more.
Spent(q, p) ==
  /\ stage[q] \notin {"new", "import"}
  /\ p \notin left[q]
  /\ stage[q] = "apply" => part[q] # p

AppliesOnce(q) == \A p \in Partner : Known([by |-> q, from |-> p]) => Spent(q, p)

TakenOut(r) ==
  /\ stage[r] = "new" => left[r] = {}
  /\ stage[r] = "apply" => part[r] \notin left[r]

\* A composition that an upsert is about to insert is its own, and new.
InsertsNew(r) ==
  stage[r] = "applying" /\ comp[r] \notin comps =>
    /\ comp[r].by = r
    /\ \A q \in Request :
         /\ comp[r] \notin turned[q]
         /\ q # r /\ stage[q] \in {"applying", "hook"} => comp[q] # comp[r]

\* Hooks are asked about compositions of partners only, which nobody but an
\* upsert inserts.
AsksForPartners(r) ==
  /\ stage[r] = "applying" /\ part[r] \in Hooked => comp[r].from \in Partner
  /\ stage[r] = "hook" => comp[r].from \in Partner
  /\ \A c \in turned[r] : c.from \in Partner

Turning ==
  /\ \A r \in Request : AppliesOnce(r) /\ TakenOut(r) /\ InsertsNew(r) /\ AsksForPartners(r)
  /\ RejectedIsGone

\* Every hooked partner's composition has an identifier.
HooksAreNamed == \A p \in Hooked : IdentOf[p] # Unnamed

-----------------------------------------------------------------------------
(* Rejections: preservation *)

Early == {"new", "import", "apply", "applying", "hook"}
Drops == {"drop", "dropping", "stuck"}

\* What a request does that a rejection cannot tell from standing still.
Passes(q) ==
  \/ stage'[q] = stage[q] /\ comp'[q] = comp[q] /\ part'[q] = part[q]
  \/ /\ stage'[q] \notin Early
     /\ stage[q] \in Drops /\ comp[q] \in comps' => stage'[q] \in Drops /\ comp'[q] = comp[q]

\* A step that inserts compositions of codes only, deletes none that is locked,
\* and neither begins nor ends an upsert.
LEMMA QuietTurning ==
  ASSUME Turning,
         \A c \in comps' : c \in comps \/ c.from \in Code,
         \A c \in comps : c \in comps' \/ ~Locked(c),
         UNCHANGED <<turned, left>>,
         \A q \in Request : Passes(q)
  PROVE  Turning'
<1>1. \A q \in Request : stage'[q] \in Early => stage'[q] = stage[q] /\ comp'[q] = comp[q]
                                                /\ part'[q] = part[q]
  BY DEF Passes
<1>2. \A c : c \in comps' /\ c.from \in Partner => c \in comps
  BY DeploymentAssumption
<1>3. ASSUME NEW q \in Request, NEW p \in Partner, Known([by |-> q, from |-> p])'
      PROVE  Spent(q, p)'
  <2> DEFINE c == [by |-> q, from |-> p]
  <2>1. c.from \in Partner
    OBVIOUS
  <2>2. Known(c)
    <3> HIDE DEF c
    <3>1. Known(c)'
      BY <1>3 DEF c
    <3> QED BY <1>1, <1>2, <2>1, <3>1 DEF Known, Early
  <2>3. Spent(q, p)
    BY <2>2 DEF Turning, AppliesOnce
  <2> QED BY <1>1, <2>3 DEF Spent, Early
<1>4. ASSUME NEW r \in Request PROVE TakenOut(r)' /\ AsksForPartners(r)'
  BY <1>1 DEF Turning, TakenOut, AsksForPartners, Early
<1>5. ASSUME NEW r \in Request, stage'[r] = "applying", comp'[r] \notin comps'
      PROVE  InsertsNew(r)'
  <2>1. stage[r] = "applying" /\ comp'[r] = comp[r]
    BY <1>1, <1>5 DEF Early
  <2>2. comp[r] \notin comps
    BY <1>5, <2>1 DEF Locked
  <2>3. /\ comp[r].by = r
        /\ \A q \in Request :
             /\ comp[r] \notin turned[q]
             /\ q # r /\ stage[q] \in {"applying", "hook"} => comp[q] # comp[r]
    BY <2>1, <2>2 DEF Turning, InsertsNew
  <2> QED BY <1>1, <2>1, <2>3 DEF InsertsNew, Early
<1>6. ASSUME NEW r \in Request, NEW c \in turned[r], c \in comps' PROVE Deleting(r, c)'
  <2>1. c \in comps
    BY <1>2, <1>6 DEF Turning, AsksForPartners
  <2>2. comp[r] = c /\ stage[r] \in Drops
    BY <2>1 DEF Turning, RejectedIsGone, Deleting, Drops
  <2> QED BY <1>6, <2>2 DEF Passes, Deleting, Drops
<1> QED BY <1>3, <1>4, <1>5, <1>6 DEF Turning, AppliesOnce, InsertsNew, RejectedIsGone

\* Only r moves, and leaves compositions, answers and partners alone.
LEMMA MoveTurning ==
  ASSUME NEW r \in Request, Turning, UNCHANGED <<comps, turned, left>>,
         \A q \in Request \ {r} : stage'[q] = stage[q] /\ comp'[q] = comp[q] /\ part'[q] = part[q],
         \/ stage'[r] = stage[r] /\ comp'[r] = comp[r] /\ part'[r] = part[r]
         \/ stage'[r] \notin Early /\ stage[r] \notin Drops
  PROVE  Turning'
<1>1. \A q \in Request : Passes(q)
  BY DEF Passes
<1> QED BY <1>1, QuietTurning

LEMMA DeletionTurning ==
  ASSUME NEW r \in Request, Typing, Turning, DeletionStep(r), UNCHANGED privateVars
  PROVE  Turning'
<1> USE DEF Typing, HubTypeOK, DeploymentTypeOK, privateVars, partnerVars, rowVars, To
<1>0. UNCHANGED <<comp, part, turned, left>>
  BY DEF DeletionStep, Collect, CommitDeletion, DeletionFails
<1>1. CASE Collect(r)
  <2>1. \A q \in Request : Passes(q)
    BY <1>0, <1>1 DEF Collect, Passes, Early, Drops
  <2> QED BY <1>0, <1>1, <2>1, QuietTurning DEF Collect
<1>2. CASE CommitDeletion(r)
  <2>1. comps' = comps \ {comp[r]} /\ ~Locked(comp[r])
    BY <1>2 DEF CommitDeletion, Cascade
  <2>2. AfterDeletion(r) \notin Early
    BY DEF AfterDeletion, Early
  <2>3. \A q \in Request : Passes(q)
    BY <1>0, <1>2, <2>1, <2>2 DEF CommitDeletion, Passes
  <2> QED BY <1>0, <2>1, <2>3, QuietTurning
<1>3. CASE DeletionFails(r)
  <2>1. \A q \in Request : Passes(q)
    BY <1>0, <1>3 DEF DeletionFails, Passes, Early, Drops
  <2> QED BY <1>0, <1>3, <2>1, QuietTurning DEF DeletionFails
<1> QED BY <1>1, <1>2, <1>3 DEF DeletionStep

LEMMA RegistrationTurning ==
  ASSUME NEW r \in Request, Typing, Turning, RegistrationStep(r),
         UNCHANGED <<partnerVars, acceptVars>>
  PROVE  Turning'
<1> USE DEF Typing, HubTypeOK, DeploymentTypeOK, partnerVars, rowVars, To, Early, Drops
<1>1. CASE ComposeNext(r)
  <2>1. UNCHANGED stage \/ stage' = [stage EXCEPT ![r] = "failed"]
    BY <1>1 DEF ComposeNext, SkipDeclined, MapInstance, SkipUnavailable, MissMandatory
  <2>2. stage[r] = "composing" /\ UNCHANGED <<comps, comp, part, turned, left>>
    BY <1>1 DEF ComposeNext
  <2> QED BY <2>1, <2>2, MoveTurning
<1>2. CASE CommitRegistration(r)
  <2>1. AfterRegistration(r) \in {"clients", "done"}
    BY DEF AfterRegistration
  <2>2. stage[r] = "composing" /\ stage' = [stage EXCEPT ![r] = AfterRegistration(r)]
        /\ UNCHANGED <<comps, comp, part, turned, left>>
    BY <1>2 DEF CommitRegistration
  <2> QED BY <2>1, <2>2, MoveTurning
<1>3. CASE RegistrationFails(r)
  BY <1>3, MoveTurning DEF RegistrationFails
<1> QED BY <1>1, <1>2, <1>3 DEF RegistrationStep

LEMMA ClaimTurning ==
  ASSUME NEW r \in Request, Typing, Turning, ClaimStep(r), UNCHANGED privateVars
  PROVE  Turning'
<1> USE DEF Typing, HubTypeOK, DeploymentTypeOK, privateVars, partnerVars, rowVars, To, Early, Drops
<1>1. CASE ListMappings(r)
  BY <1>1, MoveTurning DEF ListMappings
<1>2. CASE RenderInstance(r)
  <2>1. PICK s \in {"done", "rendering"} : stage' = [stage EXCEPT ![r] = s]
    BY <1>2 DEF RenderInstance
  <2> QED BY <1>2, <2>1, MoveTurning DEF RenderInstance
<1>3. CASE RenderFails(r)
  BY <1>3, MoveTurning DEF RenderFails
<1>4. CASE ListInstances(r)
  BY <1>4, MoveTurning DEF ListInstances
<1>5. CASE ListClients(r)
  BY <1>5, MoveTurning DEF ListClients
<1> QED BY <1>1, <1>2, <1>3, <1>4, <1>5 DEF ClaimStep

\* An acceptance inserts compositions of its code only.
LEMMA AcceptTurning ==
  ASSUME NEW r \in Request, Typing, Whole, Turning, AcceptStep(r)
  PROVE  Turning'
<1> USE DEF Typing, HubTypeOK, DeploymentTypeOK, privateVars, partnerVars, rowVars, taskVars, To,
        Early, Drops, Fail
<1>0. FlowShape(r) /\ WorkShape(r) /\ Making(r)
  BY DEF Whole, Shape
<1>1. CASE CreateComposition(r)
  <2> PICK c : c = [by |-> r, from |-> part[r]]
    OBVIOUS
  <2>1. /\ stage[r] = "create" /\ comps' = comps \cup {c} /\ comp' = [comp EXCEPT ![r] = c]
        /\ stage' = [stage EXCEPT ![r] = "names"] /\ UNCHANGED <<part, turned, left>>
    BY <1>1 DEF CreateComposition
  <2>2. c.from \in Code
    BY <1>0, <2>1 DEF FlowShape, WorkShape
  <2>3. \A q \in Request : Passes(q)
    BY <2>1 DEF Passes
  <2> QED BY <2>1, <2>2, <2>3, QuietTurning
<1>2. CASE StoreKey(r)
  <2>1. /\ stage[r] = "key" /\ comps' = comps \cup {comp[r]}
        /\ stage' = [stage EXCEPT ![r] = "grant"] /\ UNCHANGED <<comp, part, turned, left>>
    BY <1>2 DEF StoreKey
  <2>2. comp[r].from \in Code
    <3>1. op[r] = "accept" /\ part[r] \in Code /\ comp[r] # None
      BY <1>0, <2>1, DeploymentAssumption DEF FlowShape, WorkShape
    <3> QED BY <1>0, <3>1 DEF Making
  <2>3. \A q \in Request : Passes(q)
    BY <2>1 DEF Passes
  <2> QED BY <2>1, <2>2, <2>3, QuietTurning
<1>3. CASE CreateFails(r) \/ FindServiceFails(r) \/ InsertFails(r) \/ GiveRoleFails(r)
           \/ RegisterStagedFails(r) \/ StoreKeyFails(r) \/ MissingServiceFails(r) \/ GrantFails(r)
  <2>1. /\ stage[r] \in {"create", "names", "insert", "roles", "clients", "key", "missing", "grant"}
        /\ stage' = [stage EXCEPT ![r] = "failed"] /\ UNCHANGED <<comps, comp, part, turned, left>>
    BY <1>3 DEF CreateFails, FindServiceFails, InsertFails, GiveRoleFails, RegisterStagedFails,
       StoreKeyFails, MissingServiceFails, GrantFails
  <2> QED BY <2>1, MoveTurning
<1>4. CASE FindService(r) \/ InsertInstance(r)
  BY <1>4, MoveTurning DEF FindService, InsertInstance
<1>5. CASE GiveRole(r)
  BY <1>5, MoveTurning DEF GiveRole
<1>6. CASE InstanceReady(r)
  <2>1. PICK s \in {"grant", "names"} : stage' = [stage EXCEPT ![r] = s]
    BY <1>6 DEF InstanceReady
  <2> QED BY <1>6, <2>1, MoveTurning DEF InstanceReady
<1>7. CASE AllInserted(r) \/ RegisterStaged(r)
  BY <1>7, MoveTurning DEF AllInserted, RegisterStaged
<1>8. CASE AllRegistered(r)
  <2>1. PICK s \in {"key", "grant"} : stage' = [stage EXCEPT ![r] = s]
    BY <1>8 DEF AllRegistered
  <2> QED BY <1>8, <2>1, MoveTurning DEF AllRegistered
<1>9. CASE Grant(r)
  BY <1>9, MoveTurning DEF Grant
<1> QED BY <1>1, <1>2, <1>3, <1>4, <1>5, <1>6, <1>7, <1>8, <1>9 DEF AcceptStep

\* An upsert works on a composition that is there, or on its own new one.
LEMMA BeginApplyTurning ==
  ASSUME NEW r \in Request, HooksAreNamed, Typing, Turning, BeginApply(r)
  PROVE  Turning'
<1> USE DEF Typing, HubTypeOK, DeploymentTypeOK, PartnerTypeOK, rowVars
<1>0. PICK c \in Upserted(r, part[r]) : comp' = [comp EXCEPT ![r] = c]
  BY DEF BeginApply
<1>1. /\ stage[r] = "apply" /\ stage' = [stage EXCEPT ![r] = "applying"]
      /\ UNCHANGED <<comps, part, turned, left>>
  BY DEF BeginApply, To
<1>2. part[r] \in Partner /\ part[r] \notin left[r]
  BY <1>1 DEF Shape, WorkShape, Turning, TakenOut
<1>3. /\ stage'[r] = "applying" /\ comp'[r] = c
      /\ \A q \in Request \ {r} : stage'[q] = stage[q] /\ comp'[q] = comp[q]
  BY <1>0, <1>1
<1>4. CASE c \in comps
  <2>1. \A d : Known(d)' => Known(d)
    BY <1>1, <1>3, <1>4 DEF Known
  <2>2. ASSUME NEW q \in Request, NEW p \in Partner, Known([by |-> q, from |-> p])'
        PROVE  Spent(q, p)'
    <3> PICK d : d = [by |-> q, from |-> p]
      OBVIOUS
    <3>1. Known(d)
      BY <2>1, <2>2
    <3>2. Spent(q, p)
      BY <3>1 DEF Turning, AppliesOnce
    <3> QED BY <1>1, <3>2 DEF Spent
  <2>3. ASSUME NEW q \in Request, stage'[q] = "applying", comp'[q] \notin comps'
        PROVE  InsertsNew(q)'
    <3>1. q # r /\ stage[q] = "applying" /\ comp[q] = comp'[q] /\ comp[q] \notin comps
      BY <1>1, <1>3, <1>4, <2>3
    <3>2. comp[q].by = q /\ \A x \in Request :
            /\ comp[q] \notin turned[x]
            /\ x # q /\ stage[x] \in {"applying", "hook"} => comp[x] # comp[q]
      BY <3>1 DEF Turning, InsertsNew
    <3> QED BY <1>1, <1>3, <1>4, <3>1, <3>2 DEF InsertsNew
  <2>4. part[r] \in Hooked => c.from \in Partner
    <3> SUFFICES ASSUME part[r] \in Hooked PROVE c.from \in Partner
      OBVIOUS
    <3>1. c.from \in Source
      BY <1>4 DEF Composition
    <3>2. IdentifierOf(c.from) = IdentOf[part[r]] \/ c.from = part[r]
      BY DEF Upserted
    <3> QED BY <1>2, <3>1, <3>2 DEF HooksAreNamed, IdentifierOf, Source
  <2>5. ASSUME NEW q \in Request PROVE TakenOut(q)' /\ AsksForPartners(q)'
    BY <1>1, <1>3, <2>4 DEF Turning, TakenOut, AsksForPartners
  <2>6. RejectedIsGone'
    BY <1>1, <1>3 DEF Turning, RejectedIsGone, Deleting
  <2> QED BY <2>2, <2>3, <2>5, <2>6 DEF Turning, AppliesOnce, InsertsNew
<1>5. CASE c \notin comps
  <2>1. c = [by |-> r, from |-> part[r]]
    BY <1>5 DEF Upserted
  <2>2. ~Known(c)
    BY <1>1, <1>2, <2>1 DEF Turning, AppliesOnce, Spent
  <2>3. \A d : Known(d)' => Known(d) \/ d = c
    BY <1>1, <1>3 DEF Known
  <2>4. ASSUME NEW q \in Request, NEW p \in Partner, Known([by |-> q, from |-> p])'
        PROVE  Spent(q, p)'
    <3> PICK d : d = [by |-> q, from |-> p]
      OBVIOUS
    <3>1. CASE Known(d)
      <4>1. Spent(q, p)
        BY <3>1 DEF Turning, AppliesOnce
      <4> QED BY <1>1, <4>1 DEF Spent
    <3>2. CASE d = c
      <4>1. q = r /\ p = part[r]
        BY <2>1, <3>2
      <4> QED BY <1>1, <1>2, <4>1 DEF Spent
    <3> QED BY <2>3, <2>4, <3>1, <3>2
  <2>5. ASSUME NEW q \in Request, stage'[q] = "applying", comp'[q] \notin comps'
        PROVE  InsertsNew(q)'
    <3>1. CASE q = r
      BY <1>1, <1>3, <2>1, <2>2, <3>1 DEF InsertsNew, Known
    <3>2. CASE q # r
      <4>1. stage[q] = "applying" /\ comp[q] = comp'[q] /\ comp[q] \notin comps
        BY <1>1, <1>3, <2>5, <3>2
      <4>2. comp[q].by = q /\ \A x \in Request :
              /\ comp[q] \notin turned[x]
              /\ x # q /\ stage[x] \in {"applying", "hook"} => comp[x] # comp[q]
        BY <4>1 DEF Turning, InsertsNew
      <4>3. comp[q] # c
        BY <2>1, <3>2, <4>2
      <4> QED BY <1>1, <1>3, <3>2, <4>1, <4>2, <4>3 DEF InsertsNew
    <3> QED BY <3>1, <3>2
  <2>6. ASSUME NEW q \in Request PROVE TakenOut(q)' /\ AsksForPartners(q)'
    BY <1>1, <1>2, <1>3, <2>1 DEF Turning, TakenOut, AsksForPartners
  <2>7. RejectedIsGone'
    BY <1>1, <1>3 DEF Turning, RejectedIsGone, Deleting
  <2> QED BY <2>4, <2>5, <2>6, <2>7 DEF Turning, AppliesOnce, InsertsNew
<1> QED BY <1>4, <1>5

\* What an upsert inserts was rejected to nobody.
LEMMA CommitApplyTurning ==
  ASSUME NEW r \in Request, Typing, Turning, CommitApply(r)
  PROVE  Turning'
<1> USE DEF Typing, HubTypeOK, DeploymentTypeOK, PartnerTypeOK
<1>0. PICK s \in {"hook", "next", "done"} :
        /\ stage' = [stage EXCEPT ![r] = s]
        /\ s = "hook" => part[r] \in Hooked
  <2>1. AfterApply(r) \in {"hook", "next", "done"} /\ (AfterApply(r) = "hook" => part[r] \in Hooked)
    BY DEF AfterApply
  <2> QED BY <2>1 DEF CommitApply, To
<1>1. /\ stage[r] = "applying" /\ comps' = comps \cup {comp[r]}
      /\ UNCHANGED <<comp, part, turned, left>>
  BY DEF CommitApply, partnerVars
<1>2. stage'[r] = s /\ \A q \in Request \ {r} : stage'[q] = stage[q]
  BY <1>0
<1>3. \A d : Known(d)' => Known(d)
  BY <1>1, <1>2 DEF Known
<1>4. ASSUME NEW q \in Request, NEW p \in Partner, Known([by |-> q, from |-> p])'
      PROVE  Spent(q, p)'
  <2> PICK d : d = [by |-> q, from |-> p]
    OBVIOUS
  <2>1. Known(d)
    BY <1>3, <1>4
  <2>2. Spent(q, p)
    BY <2>1 DEF Turning, AppliesOnce
  <2> QED BY <1>1, <1>2, <2>2 DEF Spent
<1>5. ASSUME NEW q \in Request, stage'[q] = "applying", comp'[q] \notin comps'
      PROVE  InsertsNew(q)'
  <2>1. q # r /\ stage[q] = "applying" /\ comp[q] \notin comps
    BY <1>1, <1>2, <1>5
  <2>2. comp[q].by = q /\ \A x \in Request :
          /\ comp[q] \notin turned[x]
          /\ x # q /\ stage[x] \in {"applying", "hook"} => comp[x] # comp[q]
    BY <2>1 DEF Turning, InsertsNew
  <2> QED BY <1>1, <1>2, <2>1, <2>2 DEF InsertsNew
<1>6. ASSUME NEW q \in Request PROVE TakenOut(q)' /\ AsksForPartners(q)'
  BY <1>0, <1>1, <1>2 DEF Turning, TakenOut, AsksForPartners
<1>7. ASSUME NEW q \in Request, NEW d \in turned[q], d \in comps' PROVE Deleting(q, d)'
  <2>1. d \in comps
    BY <1>1, <1>7 DEF Turning, InsertsNew
  <2>2. Deleting(q, d)
    BY <2>1 DEF Turning, RejectedIsGone
  <2> QED BY <1>1, <1>2, <2>2 DEF Deleting
<1> QED BY <1>1, <1>4, <1>5, <1>6, <1>7 DEF Turning, AppliesOnce, InsertsNew, RejectedIsGone

\* A rejection is of a composition that everybody else has left or found.
LEMMA RejectTurning ==
  ASSUME NEW r \in Request, NEW a \in Answer, Typing, Turning, HookRejects(r, a)
  PROVE  Turning'
<1> USE DEF Typing, HubTypeOK, DeploymentTypeOK, PartnerTypeOK
<1>1. /\ stage[r] = "hook" /\ stage' = [stage EXCEPT ![r] = "drop"]
      /\ turned' = [turned EXCEPT ![r] = turned[r] \cup {comp[r]}]
      /\ UNCHANGED <<comps, comp, part, left>>
  BY DEF HookRejects, rowVars, To
<1>2. /\ stage'[r] = "drop" /\ turned'[r] = turned[r] \cup {comp[r]}
      /\ \A q \in Request \ {r} : stage'[q] = stage[q] /\ turned'[q] = turned[q]
  BY <1>1
<1>3. \A d : Known(d)' => Known(d)
  BY <1>1, <1>2 DEF Known
<1>4. ASSUME NEW q \in Request, NEW p \in Partner, Known([by |-> q, from |-> p])'
      PROVE  Spent(q, p)'
  <2> PICK d : d = [by |-> q, from |-> p]
    OBVIOUS
  <2>1. Known(d)
    BY <1>3, <1>4
  <2>2. Spent(q, p)
    BY <2>1 DEF Turning, AppliesOnce
  <2> QED BY <1>1, <1>2, <2>2 DEF Spent
<1>5. ASSUME NEW q \in Request, stage'[q] = "applying", comp'[q] \notin comps'
      PROVE  InsertsNew(q)'
  <2>1. q # r /\ stage[q] = "applying" /\ comp[q] \notin comps
    BY <1>1, <1>2, <1>5
  <2>2. comp[q].by = q /\ \A x \in Request :
          /\ comp[q] \notin turned[x]
          /\ x # q /\ stage[x] \in {"applying", "hook"} => comp[x] # comp[q]
    BY <2>1 DEF Turning, InsertsNew
  <2> QED BY <1>1, <1>2, <2>1, <2>2 DEF InsertsNew
<1>6. ASSUME NEW q \in Request PROVE TakenOut(q)' /\ AsksForPartners(q)'
  BY <1>1, <1>2 DEF Turning, TakenOut, AsksForPartners
<1>7. ASSUME NEW q \in Request, NEW d \in turned'[q], d \in comps' PROVE Deleting(q, d)'
  <2>1. CASE d \in turned[q]
    <3>1. Deleting(q, d)
      BY <1>1, <1>7, <2>1 DEF Turning, RejectedIsGone
    <3> QED BY <1>1, <1>2, <3>1 DEF Deleting
  <2>2. CASE d \notin turned[q]
    <3>1. q = r /\ d = comp[r]
      BY <1>2, <2>2
    <3> QED BY <1>1, <1>2, <3>1 DEF Deleting
  <2> QED BY <2>1, <2>2
<1> QED BY <1>4, <1>5, <1>6, <1>7 DEF Turning, AppliesOnce, InsertsNew, RejectedIsGone

\* Partners are chosen while nothing was inserted, and taken one by one.
LEMMA ChooseTurning ==
  ASSUME NEW r \in Request, Turning, UNCHANGED <<comps, turned>>,
         \A q \in Request \ {r} : /\ stage'[q] = stage[q] /\ comp'[q] = comp[q]
                                  /\ part'[q] = part[q] /\ left'[q] = left[q],
         stage[r] \notin {"applying", "hook"} \cup Drops,
         stage'[r] \notin {"new", "applying", "hook"},
         TakenOut(r)',
         \A p \in Partner : Spent(r, p) => Spent(r, p)'
  PROVE  Turning'
<1>1. \A d : Known(d)' => Known(d)
  BY DEF Known
<1>2. ASSUME NEW q \in Request, NEW p \in Partner, Known([by |-> q, from |-> p])'
      PROVE  Spent(q, p)'
  <2> PICK d : d = [by |-> q, from |-> p]
    OBVIOUS
  <2>1. Known(d)
    BY <1>1, <1>2
  <2>2. Spent(q, p)
    BY <2>1 DEF Turning, AppliesOnce
  <2> QED BY <2>2 DEF Spent
<1>3. ASSUME NEW q \in Request, stage'[q] = "applying", comp'[q] \notin comps'
      PROVE  InsertsNew(q)'
  BY <1>3 DEF Turning, InsertsNew
<1>4. ASSUME NEW q \in Request PROVE TakenOut(q)' /\ AsksForPartners(q)'
  BY DEF Turning, TakenOut, AsksForPartners
<1>5. RejectedIsGone'
  BY DEF Turning, RejectedIsGone, Deleting, Drops
<1> QED BY <1>2, <1>3, <1>4, <1>5 DEF Turning, AppliesOnce, InsertsNew

LEMMA PartnerTurning ==
  ASSUME NEW r \in Request, HooksAreNamed, Typing, Turning, PartnerStep(r)
  PROVE  Turning'
<1> USE DEF Typing, HubTypeOK, DeploymentTypeOK, PartnerTypeOK, rowVars, taskVars, partnerVars, To,
        Drops
<1>0. TakenOut(r)
  BY DEF Turning
<1>1. ASSUME NEW p \in left[r], ImportPartner(r, p) PROVE Turning'
  BY <1>1, ChooseTurning DEF ImportPartner, TakenOut, Spent
<1>2. CASE SaveOrganization(r)
  BY <1>2, ChooseTurning DEF SaveOrganization, TakenOut, Spent
<1>3. CASE NextPartner(r)
  <2>1. PICK p \in left[r] : /\ part' = [part EXCEPT ![r] = p]
                             /\ left' = [left EXCEPT ![r] = left[r] \ {p}]
    BY <1>3 DEF NextPartner
  <2>2. p \in Partner
    BY <2>1
  <2> QED BY <1>3, <2>1, <2>2, ChooseTurning DEF NextPartner, TakenOut, Spent
<1>4. CASE BootEnds(r)
  BY <1>4, MoveTurning DEF BootEnds, Early
<1>5. CASE ApplyFails(r)
  BY <1>5, MoveTurning DEF ApplyFails, Early
<1>6. ASSUME NEW a \in Answer, HookApproves(r, a) PROVE Turning'
  <2>1. PICK s \in {"next", "done"} : stage' = [stage EXCEPT ![r] = s]
    BY <1>6 DEF HookApproves
  <2> QED BY <1>6, <2>1, MoveTurning DEF HookApproves, Early
<1>7. ASSUME NEW a \in Answer, HookRejects(r, a) PROVE Turning'
  BY <1>7, RejectTurning
<1>8. CASE BeginApply(r)
  BY <1>8, BeginApplyTurning
<1>9. CASE CommitApply(r)
  BY <1>9, CommitApplyTurning
<1> QED BY <1>1, <1>2, <1>3, <1>4, <1>5, <1>6, <1>7, <1>8, <1>9 DEF PartnerStep, HookAnswers

\* A new request has begun nothing.
LEMMA ArriveTurning ==
  ASSUME NEW r \in Request, Typing, Turning, Arrive(r)
  PROVE  Turning'
<1> USE DEF Typing, HubTypeOK, DeploymentTypeOK, PartnerTypeOK, rowVars, taskVars, privateVars,
        partnerVars, acceptVars, Drops, Start
<1>0. TakenOut(r)
  BY DEF Turning
<1>1. CASE \E c \in comps : DeleteComposition(r, c) /\ UNCHANGED privateVars
  BY <1>1, MoveTurning DEF DeleteComposition, Early
<1>2. CASE \E a \in App, c \in comps, m \in Manifest : \E D \in SUBSET OptionalKeys(m) :
             Register(r, a, c, m, D) /\ UNCHANGED <<partnerVars, acceptVars>>
  <2>1. /\ stage[r] = "new" /\ stage' = [stage EXCEPT ![r] = "composing"]
        /\ \A q \in Request \ {r} : comp'[q] = comp[q]
        /\ UNCHANGED <<comps, part, turned, left>>
    BY <1>2 DEF Register
  <2> QED BY <2>1, MoveTurning DEF Early
<1>3. ASSUME NEW p \in Partner, Connect(r, p) PROVE Turning'
  BY <1>0, <1>3, ChooseTurning DEF Connect, TakenOut, Spent
<1>4. CASE Boot(r)
  BY <1>4, ChooseTurning DEF Boot, TakenOut, Spent
<1>5. ASSUME NEW k \in Code, BeginAccept(r, k) PROVE Turning'
  BY <1>5, MoveTurning DEF BeginAccept, Early
<1>6. ASSUME NEW k \in ServiceCode, BeginAcceptService(r, k) PROVE Turning'
  <2>1. PICK s \in {"roles", "missing"} :
          /\ stage[r] = "new" /\ stage' = [stage EXCEPT ![r] = s]
          /\ comp' = [comp EXCEPT ![r] = None] /\ part' = [part EXCEPT ![r] = k]
          /\ UNCHANGED <<comps, turned, left>>
    BY <1>6 DEF BeginAcceptService
  <2> QED BY <2>1, MoveTurning DEF Early
<1> QED BY <1>1, <1>2, <1>3, <1>4, <1>5, <1>6 DEF Arrive

LEMMA TurningStep ==
  ASSUME HooksAreNamed, Typing, Whole, Turning, [HubNext]_hubVars PROVE Turning'
<1> USE DEF privateVars, partnerVars, deployVars, rowVars, taskVars, hubVars
<1>1. ASSUME NEW r \in Request, Write(r) PROVE Turning'
  <2>1. CASE DeletionStep(r) /\ UNCHANGED privateVars
    BY <2>1, DeletionTurning
  <2>2. CASE RegistrationStep(r) /\ UNCHANGED <<partnerVars, acceptVars>>
    BY <2>2, RegistrationTurning
  <2>3. CASE PartnerStep(r)
    BY <2>3, PartnerTurning
  <2>4. CASE AcceptStep(r)
    BY <2>4, AcceptTurning
  <2> QED BY <1>1, <2>1, <2>2, <2>3, <2>4 DEF Write
<1>2. ASSUME NEW r \in Request, Work(r) PROVE Turning'
  BY <1>1, <1>2, ClaimTurning DEF Work
<1>3. ASSUME NEW r \in Request, ClaimArrive(r), UNCHANGED privateVars PROVE Turning'
  <2> USE DEF Early, Drops, Typing, HubTypeOK, DeploymentTypeOK, Start
  <2>1. ASSUME NEW a \in App, BeginClaim(r, a) PROVE Turning'
    BY <1>3, <2>1, MoveTurning DEF BeginClaim
  <2>2. ASSUME NEW k \in Code, BeginServerClaim(r, k) PROVE Turning'
    BY <1>3, <2>2, MoveTurning DEF BeginServerClaim
  <2> QED BY <1>3, <2>1, <2>2 DEF ClaimArrive
<1>4. ASSUME UNCHANGED <<comps, turned, left, stage, comp, part>> PROVE Turning'
  BY <1>4, QuietTurning DEF Passes
<1>5. CASE \E k \in Code \cup ServiceCode : StartCode(k) \/ PollExpired(k)
  BY <1>4, <1>5 DEF StartCode, PollExpired
<1>6. CASE DeleteDevice
  BY <1>4, <1>6 DEF DeleteDevice, Cascade
<1>7. CASE UNCHANGED hubVars
  BY <1>4, <1>7
<1>8. Reading \subseteq Request
  BY HubAssumption
<1> QED BY <1>2, <1>3, <1>5, <1>6, <1>7, <1>8, ArriveTurning DEF HubNext

LEMMA InitTurning == HubInit => Turning
<1> SUFFICES ASSUME HubInit PROVE Turning
  OBVIOUS
<1> USE DEF HubInit, DeploymentInit, PartnerInit
<1>1. \A q \in Request : stage[q] = "new" /\ left[q] = {} /\ turned[q] = {}
  OBVIOUS
<1>2. \A q \in Request, p \in Partner : ~Known([by |-> q, from |-> p])
  <2> SUFFICES ASSUME NEW q \in Request, NEW p \in Partner
               PROVE  [by |-> q, from |-> p] \notin comps
    BY <1>1 DEF Known
  <2> QED BY DeploymentAssumption DEF SeedComps
<1> QED BY <1>1, <1>2 DEF Turning, AppliesOnce, TakenOut, InsertsNew, AsksForPartners,
        RejectedIsGone

\* A composition that a partner's hook has rejected, which the upsert has
\* committed before the hook was asked, is deleted and stays so, unless its
\* deletion failed; no boot, connection, acceptance or save that was under way
\* brings it back.
THEOREM RejectedGone == HooksAreNamed => (HubSpec => []RejectedIsGone)
<1> SUFFICES ASSUME HooksAreNamed PROVE HubSpec => []RejectedIsGone
  OBVIOUS
<1>1. Typing /\ Whole /\ Turning /\ [HubNext]_hubVars => Turning'
  BY TurningStep
<1>2. Turning => RejectedIsGone
  BY DEF Turning
<1> QED BY <1>1, <1>2, InitTyping, TypingStep, InitFitting, FittingStep, InitWhole, WholeStep,
        InitTurning, PTL DEF HubSpec

=============================================================================
