------------------------------ MODULE StagedCodes ------------------------------
(***************************************************************************)
(* Device codes of servers: a server stages a composition, or one service  *)
(* instance, under a code and polls it; a user accepts it for an           *)
(* organization (fakts/services/device_codes.py, fakts/views.py,           *)
(* composition_device_code.py and service_device_code.py in                *)
(* api/management/mutations).                                              *)
(*                                                                         *)
(* Neither acceptance runs in a transaction: every row is committed by     *)
(* itself, and a failure leaves what was written before it.  The code is   *)
(* granted last, by saving its whole row: a row that a poll deleted        *)
(* meanwhile is inserted again, and so is the composition when the auth    *)
(* key is stored in it.  Both declining mutations raise: the fields they   *)
(* look up do not exist, so a code is never denied.                        *)
(*                                                                         *)
(* The accepting user is the organization's owner, the steward of every    *)
(* instance.                                                               *)
(***************************************************************************)
EXTENDS Composing, PartnerCompositions

CONSTANTS
  NamedBy,       \* the instance a service code's manifest describes
  ClientMan,     \* the manifest of each app in a composition manifest
  OnDevice       \* instances that accepted codes put on a device

ASSUME CodeAssumption ==
  /\ NamedBy \in [ServiceCode -> Name]
  /\ ClientMan \in [App -> Manifest]
  /\ OnDevice \subseteq Name

\* The clients a composition code's manifest brings.
ClientsOf == [k \in Code |-> ManifestOf[k].clients]

VARIABLES
  names,    \* instances an acceptance has still to insert
  due,      \* roles it has still to give, with the instance they go to
  apps,     \* apps it has still to register
  target,   \* the instance a service code is accepted for
  revived   \* history: compositions inserted again after their deletion

acceptVars == <<names, due, apps, target, revived>>

\* Every variable but the rows and tasks that all modules share.
privateVars == <<draft, partnerVars, acceptVars>>

-----------------------------------------------------------------------------
AcceptTypeOK ==
  /\ names \in [Request -> SUBSET Name]
  /\ due \in [Request -> SUBSET (Role \X Instance)]
  /\ apps \in [Request -> SUBSET App]
  /\ target \in [Request -> Instance \cup {None}]
  /\ revived \in SUBSET Composition

AcceptInit ==
  /\ names = [r \in Request |-> {}]
  /\ due = [r \in Request |-> {}]
  /\ apps = [r \in Request |-> {}]
  /\ target = [r \in Request |-> None]
  /\ revived = {}

-----------------------------------------------------------------------------
(* start_composition_device_code, start_service_device_code and the polls  *)

StartCode(k) ==
  /\ codes[k] = "none"
  /\ codes' = [codes EXCEPT ![k] = "pending"]
  /\ UNCHANGED <<comps, insts, services, roles, used, clients, maps, result,
                 taskVars, privateVars>>

\* Mutant: a poll after expires_at marks the row.
PollExpiredMarks(k) ==
  /\ codes[k] \in {"pending", "granted"}
  /\ Answered(k, "expired", None)
  /\ UNCHANGED <<comps, insts, services, roles, used, clients, maps,
                 taskVars, privateVars>>

\* A poll after expires_at deletes the row, whatever its answer was; any
\* other poll only reads.
PollExpired(k) ==
  /\ codes[k] \in {"pending", "granted"}
  /\ Answered(k, "gone", None)
  /\ UNCHANGED <<comps, insts, services, roles, used, clients, maps,
                 taskVars, privateVars>>

\* A device and the instances on it are deleted by the organization's users.
DeleteDevice ==
  LET lost == {i \in insts : i.comp.from \in Code /\ i.name \in OnDevice}
  IN /\ lost # {}
     /\ Cascade({}, lost, {})
     /\ UNCHANGED <<taskVars, privateVars>>

-----------------------------------------------------------------------------
(* accept_composition_device_code *)

\* The code is read; its expiry and its answer are not looked at.
BeginAccept(r, k) ==
  /\ codes[k] \in {"pending", "granted"}
  /\ Start(r, "accept", "create", None, None)
  /\ part' = [part EXCEPT ![r] = k]
  /\ UNCHANGED <<rowVars, partners, left, fresh, turned, draft, acceptVars>>

Fail(r) ==
  /\ To(r, "failed")
  /\ UNCHANGED <<op, comp, app, seen, privateVars>>

UnnamedExists == \E c \in comps : IdentifierOf(c.from) = Unnamed

\* Composition.objects.create without an identifier: the second fails.
CreateComposition(r) ==
  /\ stage[r] = "create"
  /\ ~UnnamedExists
  /\ comps' = comps \cup {[by |-> r, from |-> part[r]]}
  /\ comp' = [comp EXCEPT ![r] = [by |-> r, from |-> part[r]]]
  /\ names' = [names EXCEPT ![r] = InstancesOf[part[r]]]
  /\ apps' = [apps EXCEPT ![r] = ClientsOf[part[r]]]
  /\ To(r, "names")
  /\ UNCHANGED <<insts, services, roles, used, clients, maps, codes, result,
                 op, app, seen, draft, partnerVars, due, target, revived>>

CreateFails(r) ==
  /\ stage[r] = "create"
  /\ UnnamedExists
  /\ Fail(r)
  /\ UNCHANGED rowVars

\* The next instance of the manifest: its service is looked up.
FindService(r) ==
  /\ stage[r] = "names"
  /\ \E n \in names[r] :
       /\ services[ServiceOf[n]] # "many"
       /\ fresh' = [fresh EXCEPT ![r] =
            IF services[ServiceOf[n]] = "none" THEN {ServiceOf[n]} ELSE {}]
       /\ target' = [target EXCEPT ![r] = [comp |-> comp[r], name |-> n, by |-> r]]
  /\ To(r, "insert")
  /\ UNCHANGED <<rowVars, op, comp, app, seen, draft, partners, part, left, turned,
                 names, due, apps, revived>>

\* Mutant: an instance whose service is ambiguous is skipped.
FindServiceSkips(r) ==
  /\ stage[r] = "names"
  /\ \E n \in names[r] :
       /\ services[ServiceOf[n]] = "many"
       /\ names' = [names EXCEPT ![r] = names[r] \ {n}]
  /\ UNCHANGED <<rowVars, taskVars, draft, partnerVars, due, apps, target,
                 revived>>

FindServiceFails(r) ==
  /\ stage[r] = "names"
  /\ \E n \in names[r] : services[ServiceOf[n]] = "many"
  /\ Fail(r)
  /\ UNCHANGED rowVars

NewServices(r) ==
  [s \in Service |-> IF s \in fresh[r] THEN OneMore(s) ELSE services[s]]

\* The service, if it is new, and the instance, each in a statement of its
\* own; nobody reads the service in between but to find it there.
InsertInstance(r) ==
  /\ stage[r] = "insert"
  /\ comp[r] \in comps
  /\ services' = NewServices(r)
  /\ insts' = insts \cup {target[r]}
  /\ names' = [names EXCEPT ![r] = names[r] \ {target[r].name}]
  /\ due' = [due EXCEPT ![r] = RolesOf[target[r].name] \X {target[r]}]
  /\ To(r, "roles")
  /\ UNCHANGED <<comps, roles, used, clients, maps, codes, result, op, comp, app,
                 seen, draft, partnerVars, apps, target, revived>>

\* The composition was deleted meanwhile; the new service row stays.
InsertFails(r) ==
  /\ stage[r] = "insert"
  /\ comp[r] \notin comps
  /\ services' = NewServices(r)
  /\ Fail(r)
  /\ UNCHANGED <<comps, insts, roles, used, clients, maps, codes, result>>

\* Role.get_or_create, then used_by.add.
GiveRole(r) ==
  /\ stage[r] = "roles"
  /\ \E d \in due[r] :
       /\ d[2] \in insts
       /\ roles' = [roles EXCEPT ![d[1]] = IF roles[d[1]] = None THEN d[2] ELSE roles[d[1]]]
       /\ used' = used \cup {d}
       /\ due' = [due EXCEPT ![r] = due[r] \ {d}]
  /\ UNCHANGED <<comps, insts, services, clients, maps, codes, result, taskVars,
                 draft, partnerVars, names, apps, target, revived>>

GiveRoleFails(r) ==
  /\ stage[r] = "roles"
  /\ \E d \in due[r] : d[2] \notin insts
  /\ Fail(r)
  /\ UNCHANGED rowVars

\* The instance has its roles (and aliases).
InstanceReady(r) ==
  /\ stage[r] = "roles"
  /\ due[r] = {}
  /\ To(r, IF op[r] = "service" THEN "grant" ELSE "names")
  /\ UNCHANGED <<rowVars, op, comp, app, seen, privateVars>>

AllInserted(r) ==
  /\ stage[r] = "names"
  /\ names[r] = {}
  /\ To(r, "clients")
  /\ UNCHANGED <<rowVars, op, comp, app, seen, privateVars>>

\* create_client for the first client, under the token of the last instance.
RegisterStaged(r) ==
  /\ stage[r] = "clients"
  /\ apps[r] = ClientsOf[part[r]]
  /\ InstancesOf[part[r]] # {}
  /\ \E a \in apps[r] :
       /\ ~Registering(a)
       /\ app' = [app EXCEPT ![r] = a]
       /\ apps' = [apps EXCEPT ![r] = apps[r] \ {a}]
       /\ Enter(r, ClientMan[a], {})
  /\ To(r, "composing")
  /\ UNCHANGED <<rowVars, op, comp, seen, partnerVars, names, due, target,
                 revived>>

\* A second client would get the same token, which is unique; without an
\* instance there is no token at all.
RegisterStagedFails(r) ==
  /\ stage[r] = "clients"
  /\ apps[r] # {}
  /\ apps[r] # ClientsOf[part[r]] \/ InstancesOf[part[r]] = {}
  /\ Fail(r)
  /\ UNCHANGED rowVars

AllRegistered(r) ==
  /\ stage[r] = "clients"
  /\ apps[r] = {}
  /\ To(r, IF ManifestOf[part[r]].request_auth_key THEN "key" ELSE "grant")
  /\ UNCHANGED <<rowVars, op, comp, app, seen, privateVars>>

\* composition.auth_key is set and the composition's whole row saved: one
\* that was deleted meanwhile is there again, without its instances.
StoreKey(r) ==
  /\ stage[r] = "key"
  /\ comp[r] \in comps \/ ~UnnamedExists
  /\ comps' = comps \cup {comp[r]}
  /\ revived' = revived \cup ({comp[r]} \ comps)
  /\ To(r, "grant")
  /\ UNCHANGED <<insts, services, roles, used, clients, maps, codes, result,
                 op, comp, app, seen, draft, partnerVars, names, due,
                 apps, target>>

\* The organization has no ionscale layer, ionscale refuses, or the row cannot
\* be inserted again.
StoreKeyFails(r) ==
  /\ stage[r] = "key"
  /\ Fail(r)
  /\ UNCHANGED rowVars

-----------------------------------------------------------------------------
(* accept_service_device_code: finds an instance in any composition of the *)
(* organization; a new one cannot be inserted, it has no composition       *)

BeginAcceptService(r, k) ==
  /\ codes[k] \in {"pending", "granted"}
  /\ part' = [part EXCEPT ![r] = k]
  /\ \/ \E i \in insts :
          /\ i.name = NamedBy[k]
          /\ Start(r, "service", "roles", None, None)
          /\ target' = [target EXCEPT ![r] = i]
          /\ due' = [due EXCEPT ![r] = RolesOf[i.name] \X {i}]
          /\ UNCHANGED fresh
     \/ /\ \A i \in insts : i.name # NamedBy[k]
        /\ Start(r, "service", "missing", None, None)
        /\ fresh' = [fresh EXCEPT ![r] =
             IF services[ServiceOf[NamedBy[k]]] = "none" THEN {ServiceOf[NamedBy[k]]}
             ELSE {}]
        /\ UNCHANGED <<target, due>>
  /\ UNCHANGED <<rowVars, partners, left, turned, draft, names, apps, revived>>

\* The service row stays, the instance violates NOT NULL.
MissingServiceFails(r) ==
  /\ stage[r] = "missing"
  /\ services' = NewServices(r)
  /\ Fail(r)
  /\ UNCHANGED <<comps, insts, roles, used, clients, maps, codes, result>>

-----------------------------------------------------------------------------
(* device_code.save() *)

Outcome(r) == IF op[r] = "accept" THEN comp[r] ELSE target[r]

Grant(r) ==
  /\ stage[r] = "grant"
  /\ Outcome(r) \in comps \cup insts
  /\ Answered(part[r], "granted", Outcome(r))
  /\ To(r, "done")
  /\ UNCHANGED <<comps, insts, services, roles, used, clients, maps,
                 op, comp, app, seen, privateVars>>

GrantFails(r) ==
  /\ stage[r] = "grant"
  /\ Outcome(r) \notin comps \cup insts
  /\ Fail(r)
  /\ UNCHANGED rowVars

AcceptStep(r) ==
  \/ CreateComposition(r) \/ CreateFails(r)
  \/ FindService(r) \/ FindServiceFails(r)
  \/ InsertInstance(r) \/ InsertFails(r)
  \/ GiveRole(r) \/ GiveRoleFails(r) \/ InstanceReady(r)
  \/ AllInserted(r)
  \/ RegisterStaged(r) \/ RegisterStagedFails(r) \/ AllRegistered(r)
  \/ StoreKey(r) \/ StoreKeyFails(r)
  \/ MissingServiceFails(r)
  \/ Grant(r) \/ GrantFails(r)

=============================================================================
