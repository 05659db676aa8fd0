------------------------------- MODULE Composing -------------------------------
(***************************************************************************)
(* How a client gets its instances (fakts/services/rendering.py):          *)
(* auto_compose walks through the requirements of the manifest inside the  *)
(* transaction of create_client.                                           *)
(*                                                                         *)
(* The transaction is cut at each requirement, whose look-up sees what     *)
(* others committed by then, and at its commit.  It holds the lock of the  *)
(* app's Release from before the client is read (see ClientRegistry), so   *)
(* one registration of an app runs at a time.                              *)
(***************************************************************************)
EXTENDS Deployments

CONSTANTS
  Contents,       \* what each manifest requires, and the scopes it asks for
  RegisteredBy, GroupsOf,         \* who registers an app, a user's groups
  Group, AllowedUsers, DeniedUsers, AllowedGroups, DeniedGroups

Requirement == [key : Key, service : Service, optional : BOOLEAN]

ClientManifest == [requirements : Seq(Requirement), scopes : SUBSET Role]

Requirements == [m \in Manifest |-> Contents[m].requirements]
ScopesOf == [m \in Manifest |-> Contents[m].scopes]

ASSUME ComposingAssumption ==
  /\ Contents \in [Manifest -> ClientManifest]
  /\ RegisteredBy \in [App -> User]
  /\ GroupsOf \in [User -> SUBSET Group]
  /\ AllowedUsers \in [Name -> SUBSET User]
  /\ DeniedUsers \in [Name -> SUBSET User]
  /\ AllowedGroups \in [Name -> SUBSET Group]
  /\ DeniedGroups \in [Name -> SUBSET Group]

VARIABLE draft   \* the registration a request has in its transaction

-----------------------------------------------------------------------------
(* Types *)

Draft ==
  [man : Manifest, declined : SUBSET Key, next : Nat,
   got : SUBSET [key : Key, inst : Instance], told : [Key -> Status \cup {None}]]

NoDraft == [next |-> 0]

ComposingTypeOK == draft \in [Request -> Draft \cup {NoDraft}]

-----------------------------------------------------------------------------
(* State helpers *)

\* The filter of find_instance_for_requirement_and_composition.  & binds
\* closer than |: an instance without allowed users is open to everyone, its
\* denied users and its groups are not looked at.
Admits(n, u) ==
  \/ AllowedUsers[n] = {}
  \/ /\ u \in AllowedUsers[n]
     /\ u \notin DeniedUsers[n]
     /\ AllowedGroups[n] = {} \/ AllowedGroups[n] \cap GroupsOf[u] # {}
     /\ DeniedGroups[n] \cap GroupsOf[u] = {}

\* .first() takes the one of the lowest primary key; here it may be any.
Candidates(c, s, u) ==
  {i \in InstancesIn(c) : ServiceOf[i.name] = s /\ Admits(i.name, u)}

Current(r) == Requirements[draft[r].man][draft[r].next]
Composed(r) == draft[r].next > Len(Requirements[draft[r].man])

\* The key is mapped to another instance: one mapping per key and client.
Taken(r, i) == \E m \in draft[r].got : m.key = Current(r).key /\ m.inst # i

\* What a user may decline; other keys have no effect.
OptionalKeys(m) ==
  {Requirements[m][j].key : j \in {x \in 1..Len(Requirements[m]) : Requirements[m][x].optional}}

NothingTold == [k \in Key |-> None]

Told(r, status) == [draft[r].told EXCEPT ![Current(r).key] = status]

Continue(r, got, told) ==
  draft' = [draft EXCEPT ![r] =
    [man |-> draft[r].man, declined |-> draft[r].declined,
     next |-> draft[r].next + 1, got |-> got, told |-> told]]

ComposingInit == draft = [r \in Request |-> NoDraft]

-----------------------------------------------------------------------------
(* create_client *)

\* The transaction has the lock of the app's Release and starts to compose.
Enter(r, m, D) ==
  draft' = [draft EXCEPT ![r] =
    [man |-> m, declined |-> D, next |-> 1, got |-> {}, told |-> NothingTold]]

\* A redeemed token or an accepted device code registers the app.
Register(r, a, c, m, D) ==
  /\ c \in comps
  /\ ~Registering(a)
  /\ Start(r, "register", "composing", c, a)
  /\ Enter(r, m, D)
  /\ UNCHANGED rowVars

\* An optional requirement the user declined.
SkipDeclined(r) ==
  /\ Current(r).optional
  /\ Current(r).key \in draft[r].declined
  /\ Continue(r, draft[r].got, Told(r, "denied"))
  /\ UNCHANGED stage

Wanted(r) == ~(Current(r).optional /\ Current(r).key \in draft[r].declined)

\* The instance found is mapped.
MapInstance(r) ==
  /\ Wanted(r)
  /\ \E i \in Candidates(comp[r], Current(r).service, RegisteredBy[app[r]]) :
       /\ ~Taken(r, i)
       /\ Continue(r, draft[r].got \cup {[key |-> Current(r).key, inst |-> i]},
                   Told(r, "granted"))
  /\ UNCHANGED stage

\* No instance was found, or the mapping violates the unique constraint.
CannotMap(r) ==
  LET found == Candidates(comp[r], Current(r).service, RegisteredBy[app[r]])
  IN found = {} \/ \E i \in found : Taken(r, i)

SkipUnavailable(r) ==
  /\ Wanted(r)
  /\ CannotMap(r)
  /\ Current(r).optional
  /\ Continue(r, draft[r].got, Told(r, "unavailable"))
  /\ UNCHANGED stage

\* A mandatory requirement: the exception rolls the registration back.
MissMandatory(r) ==
  /\ Wanted(r)
  /\ CannotMap(r)
  /\ ~Current(r).optional
  /\ To(r, "failed")
  /\ draft' = [draft EXCEPT ![r] = NoDraft]

ComposeNext(r) ==
  /\ stage[r] = "composing"
  /\ ~Composed(r)
  /\ SkipDeclined(r) \/ MapInstance(r) \/ SkipUnavailable(r) \/ MissMandatory(r)
  /\ UNCHANGED <<rowVars, op, comp, app, seen>>

\* Mutant: auto_compose returns at once when requirements_hash has not changed.
RecomposesIfChanged(r) ==
  /\ Requirements[draft[r].man] # <<>>
  /\ clients[app[r]] # None => clients[app[r]].composed # draft[r].man

\* auto_compose returns at once when the manifest requires nothing.
Recomposes(r) == Requirements[draft[r].man] # <<>>

\* Mutant: the old mappings are not deleted.
NewMappingsKeepOld(r) ==
  maps \cup {[app |-> app[r], key |-> m.key, inst |-> m.inst] : m \in draft[r].got}

\* The old mappings of the client are deleted first.
NewMappings(r) ==
  {m \in maps : m.app # app[r]}
    \cup {[app |-> app[r], key |-> m.key, inst |-> m.inst] : m \in draft[r].got}

\* Mutant: the statuses are kept from the first composition.
NewStatusesKeepOld(r) ==
  IF clients[app[r]] # None THEN clients[app[r]].told ELSE draft[r].told

NewStatuses(r) == draft[r].told

OldRow(r) ==
  IF clients[app[r]] # None THEN clients[app[r]]
  ELSE [by |-> r, comp |-> comp[r], man |-> draft[r].man, composed |-> None,
        told |-> NothingTold]

\* create_development_client assigns composition and manifest in any case.
Registered(r) ==
  IF Recomposes(r)
    THEN [by |-> OldRow(r).by, comp |-> comp[r], man |-> draft[r].man,
          composed |-> draft[r].man, told |-> NewStatuses(r)]
    ELSE [by |-> OldRow(r).by, comp |-> comp[r], man |-> draft[r].man,
          composed |-> OldRow(r).composed, told |-> OldRow(r).told]

\* What the foreign keys and the look-ups of the scopes need.
Committable(r) ==
  /\ comp[r] \in comps
  /\ \A m \in draft[r].got : m.inst \in insts
  /\ \A x \in ScopesOf[draft[r].man] : roles[x] # None

\* The acceptance of a composition code goes on with its next client.
AfterRegistration(r) == IF op[r] = "accept" THEN "clients" ELSE "done"

CommitRegistration(r) ==
  /\ stage[r] = "composing"
  /\ Composed(r)
  /\ Committable(r)
  /\ clients' = [clients EXCEPT ![app[r]] = Registered(r)]
  /\ maps' = IF Recomposes(r) THEN NewMappings(r) ELSE maps
  /\ To(r, AfterRegistration(r))
  /\ draft' = [draft EXCEPT ![r] = NoDraft]
  /\ UNCHANGED <<comps, insts, services, roles, used, codes, result,
                 op, comp, app, seen>>

RegistrationFails(r) ==
  /\ stage[r] = "composing"
  /\ Composed(r)
  /\ ~Committable(r)
  /\ To(r, "failed")
  /\ draft' = [draft EXCEPT ![r] = NoDraft]
  /\ UNCHANGED <<rowVars, op, comp, app, seen>>

RegistrationStep(r) ==
  ComposeNext(r) \/ CommitRegistration(r) \/ RegistrationFails(r)

=============================================================================
