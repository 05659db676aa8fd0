-------------------------- MODULE PartnerCompositions --------------------------
(***************************************************************************)
(* Compositions made from the manifests of kommunity partners              *)
(* (fakts/services/compositions.py): an admin connects a partner, and at   *)
(* every boot ensureorganizations connects all partners that apply to the  *)
(* organization's owner.  create_composition_from_manifest upserts the     *)
(* composition in one transaction and commits it; only then the partner's  *)
(* pre-authorization hook is asked, and a rejection deletes the            *)
(* composition, which may have been there, approved, before.               *)
(***************************************************************************)
EXTENDS Deployments

CONSTANTS
  Columns,     \* what the configuration says of each partner
  Configured,  \* partners in the configuration file
  Owner        \* Organization.owner

\* filter_config: the sets of users each of its conditions admits.
KommunityPartner ==
  [pre_authorize_hook : BOOLEAN, preauthorized : BOOLEAN,
   auto_configure : BOOLEAN, filter : SUBSET SUBSET User]

Hooked == {p \in Partner : Columns[p].pre_authorize_hook}
Connectable == {p \in Partner : Columns[p].preauthorized}
Automatic == {p \in Partner : Columns[p].auto_configure}

ASSUME PartnerAssumption ==
  /\ Columns \in [Partner -> KommunityPartner]
  /\ Configured \subseteq Partner
  /\ Owner \in User

VARIABLES
  partners, \* KommunityPartner rows
  part,     \* the partner or the code a request works for
  left,     \* partners a boot has still to import or to connect
  fresh,    \* services that did not exist when the request looked
  turned    \* compositions whose hook rejected this request

partnerVars == <<partners, part, left, fresh, turned>>

-----------------------------------------------------------------------------
(* Types *)

\* What comes back from the hook: nothing (a timeout, a refused connection),
\* an HTTP error, a text, or JSON: an object with a flag or a word, a string.
Answer ==
  {"none", "error", "textOk", "textOther", "flagTrue", "flagOther",
   "wordOk", "wordOther", "stringOk", "stringOther"}

PartnerTypeOK ==
  /\ partners \in SUBSET Partner
  /\ part \in [Request -> Source \cup ServiceCode \cup {None}]
  /\ left \in [Request -> SUBSET Partner]
  /\ fresh \in [Request -> SUBSET Service]
  /\ turned \in [Request -> SUBSET Composition]

-----------------------------------------------------------------------------
(* State helpers *)

\* run_partner_pre_authorize_hook returns only for an explicit OK.
Approves(a) == a \in {"textOk", "flagTrue", "wordOk", "stringOk"}

\* KommunityPartner.applies_to_user: every condition must admit the owner.
AppliesTo(p, u) == \A S \in Columns[p].filter : u \in S

Requested(r) == InstancesOf[part[r]]
RequestedServices(r) == {ServiceOf[n] : n \in Requested(r)}
RequestedRoles(r) == UNION {RolesOf[n] : n \in Requested(r)}

\* The row update_or_create finds, or the one it creates.
Upserted(r, p) ==
  LET found == {c \in comps : IdentifierOf(c.from) = IdentOf[p]}
  IN IF found = {} THEN {[by |-> r, from |-> p]} ELSE found

\* update_or_create holds the row, or its unique key, until the commit.
SomeoneApplies(r) ==
  \E q \in Request \ {r} :
    /\ stage[q] = "applying"
    /\ IdentifierOf(comp[q].from) = IdentOf[part[r]]

PartnerInit ==
  /\ partners = Seeded
  /\ part = [r \in Request |-> None]
  /\ left = [r \in Request |-> {}]
  /\ fresh = [r \in Request |-> {}]
  /\ turned = [r \in Request |-> {}]

-----------------------------------------------------------------------------
(* connect_kommunity_partner; ensurepartners and ensureorganizations at boot *)

\* The caller may manage the organization and has signed the license.
Connect(r, p) ==
  /\ p \in Connectable \cap partners
  /\ Start(r, "connect", "apply", None, None)
  /\ part' = [part EXCEPT ![r] = p]
  /\ UNCHANGED <<rowVars, partners, left, fresh, turned>>

Boot(r) ==
  /\ Start(r, "boot", "import", None, None)
  /\ left' = [left EXCEPT ![r] = Configured]
  /\ UNCHANGED <<rowVars, partners, part, fresh, turned>>

\* ensurepartners: the row of a configured partner is written, with its
\* manifest; one that is configured no longer stays.
ImportPartner(r, p) ==
  /\ stage[r] = "import"
  /\ p \in left[r]
  /\ partners' = partners \cup {p}
  /\ left' = [left EXCEPT ![r] = left[r] \ {p}]
  /\ UNCHANGED <<rowVars, taskVars, part, fresh, turned>>

\* ensureorganizations: the organization is saved, which creates missing
\* default roles again, and the partners to apply are selected.
SaveOrganization(r) ==
  /\ stage[r] = "import"
  /\ left[r] = {}
  /\ roles' = [x \in Role |-> IF x \in BuiltinRole /\ roles[x] = None THEN Null ELSE roles[x]]
  /\ left' = [left EXCEPT ![r] = {p \in Automatic \cap partners : AppliesTo(p, Owner)}]
  /\ To(r, "next")
  /\ UNCHANGED <<comps, insts, services, used, clients, maps, codes, result,
                 op, comp, app, seen, partners, part, fresh, turned>>

NextPartner(r) ==
  /\ stage[r] = "next"
  /\ \E p \in left[r] :
       /\ part' = [part EXCEPT ![r] = p]
       /\ left' = [left EXCEPT ![r] = left[r] \ {p}]
  /\ To(r, "apply")
  /\ UNCHANGED <<rowVars, op, comp, app, seen, partners, fresh, turned>>

BootEnds(r) ==
  /\ stage[r] = "next"
  /\ left[r] = {}
  /\ To(r, "done")
  /\ UNCHANGED <<rowVars, op, comp, app, seen, partnerVars>>

-----------------------------------------------------------------------------
(* create_composition_from_manifest, one transaction *)

\* get_or_create finds two rows of a service.
Ambiguous(r) == \E s \in RequestedServices(r) : services[s] = "many"

\* The composition is locked or inserted; the services are looked up.
BeginApply(r) ==
  /\ stage[r] = "apply"
  /\ ~SomeoneApplies(r)
  /\ ~Ambiguous(r)
  /\ \E c \in Upserted(r, part[r]) : comp' = [comp EXCEPT ![r] = c]
  /\ fresh' = [fresh EXCEPT ![r] =
                 {s \in RequestedServices(r) : services[s] = "none"}]
  /\ To(r, "applying")
  /\ UNCHANGED <<rowVars, op, app, seen, partners, part, left, turned>>

HasInstance(r, n) == \E i \in InstancesIn(comp[r]) : i.name = n

AppliedInstances(r) ==
  InstancesIn(comp[r])
    \cup {[comp |-> comp[r], name |-> n, by |-> r] :
            n \in {x \in Requested(r) : ~HasInstance(r, x)}}

\* get_or_create: a role the organization has not yet belongs to an instance
\* that asks for it, the first of the manifest; here to any.
Creators(r, x) ==
  {i \in AppliedInstances(r) : i.name \in Requested(r) /\ x \in RolesOf[i.name]}

\* Mutant: update_or_create, with creating_instance among the defaults.
MissingOrNot(r) == RequestedRoles(r)

MissingRoles(r) == {x \in RequestedRoles(r) : roles[x] = None}

NewUses(r) ==
  {<<x, i>> : x \in RequestedRoles(r), i \in AppliedInstances(r)}
    \cap {u \in Role \X Instance : u[1] \in RolesOf[u[2].name]
                                    /\ u[2].name \in Requested(r)}

AfterApply(r) == IF part[r] \in Hooked THEN "hook" ELSE
                 IF op[r] = "boot" THEN "next" ELSE "done"

CommitApply(r) ==
  /\ stage[r] = "applying"
  /\ comps' = comps \cup {comp[r]}
  /\ insts' = insts \cup AppliedInstances(r)
  /\ services' = [s \in Service |->
       IF s \in fresh[r] THEN OneMore(s) ELSE services[s]]
  /\ \E by \in [MissingRoles(r) -> AppliedInstances(r)] :
       /\ \A x \in MissingRoles(r) : by[x] \in Creators(r, x)
       /\ roles' = [x \in Role |-> IF x \in MissingRoles(r) THEN by[x] ELSE roles[x]]
  /\ used' = used \cup NewUses(r)
  /\ To(r, AfterApply(r))
  /\ UNCHANGED <<clients, maps, codes, result, op, comp, app, seen, partnerVars>>

Interfering(r) == \E q \in Request \ {r} : stage[q] \in {"applying", "dropping"}

\* Mutant: a boot tries a partner that failed again.
ApplyFailsAgain(r) ==
  /\ \/ stage[r] = "apply" /\ Ambiguous(r)
     \/ stage[r] = "applying" /\ Interfering(r)
  /\ To(r, IF op[r] = "boot" THEN "apply" ELSE "failed")
  /\ UNCHANGED <<rowVars, op, comp, app, seen, partnerVars>>

\* A service is ambiguous, or the transaction loses a deadlock: it is rolled
\* back, and a boot ends with it.
ApplyFails(r) ==
  /\ \/ stage[r] = "apply" /\ Ambiguous(r)
     \/ stage[r] = "applying" /\ Interfering(r)
  /\ To(r, "failed")
  /\ UNCHANGED <<rowVars, op, comp, app, seen, partnerVars>>

-----------------------------------------------------------------------------
(* The hook, asked outside the transaction; the call times out after 10 s *)

HookApproves(r, a) ==
  /\ stage[r] = "hook"
  /\ Approves(a)
  /\ To(r, IF op[r] = "boot" THEN "next" ELSE "done")
  /\ UNCHANGED <<rowVars, op, comp, app, seen, partnerVars>>

\* Mutant: a boot skips the rejected partner and leaves its composition.
HookRejectsSkips(r, a) ==
  /\ stage[r] = "hook"
  /\ ~Approves(a)
  /\ turned' = [turned EXCEPT ![r] = turned[r] \cup {comp[r]}]
  /\ To(r, IF op[r] = "boot" THEN "next" ELSE "drop")
  /\ UNCHANGED <<rowVars, op, comp, app, seen, partners, part, left, fresh>>

\* PartnerPreAuthorizationError: the composition is to be deleted.
HookRejects(r, a) ==
  /\ stage[r] = "hook"
  /\ ~Approves(a)
  /\ turned' = [turned EXCEPT ![r] = turned[r] \cup {comp[r]}]
  /\ To(r, "drop")
  /\ UNCHANGED <<rowVars, op, comp, app, seen, partners, part, left, fresh>>

HookAnswers(r) == \E a \in Answer : HookApproves(r, a) \/ HookRejects(r, a)

PartnerStep(r) ==
  \/ \E p \in left[r] : ImportPartner(r, p)
  \/ SaveOrganization(r) \/ NextPartner(r) \/ BootEnds(r)
  \/ BeginApply(r) \/ CommitApply(r) \/ ApplyFails(r)
  \/ HookAnswers(r)

=============================================================================
