------------------------------ MODULE Deployments ------------------------------
(***************************************************************************)
(* What one organization has deployed: compositions, their service         *)
(* instances, the roles the instances brought, the clients registered in   *)
(* the compositions and the mappings that tell a client its instances      *)
(* (fakts/models.py, karakter/models.py), and how a deletion cascades      *)
(* through them.                                                           *)
(*                                                                         *)
(* The server runs on PostgreSQL in autocommit mode, READ COMMITTED: a     *)
(* statement outside a transaction commits at once, foreign keys are       *)
(* checked when the transaction ends.  Django deletes in two steps: its    *)
(* collector first reads the rows that depend on the deleted one, a        *)
(* transaction then deletes what was collected, by primary key.  A row     *)
(* that came to depend on it in between fails the transaction; mappings    *)
(* and used_by rows are not collected but deleted by a WHERE clause.       *)
(*                                                                         *)
(* A row is named by the request that inserted it.  Scope has the columns  *)
(* and the life of Role; both stand in Role.                               *)
(***************************************************************************)
EXTENDS Naturals, Sequences, FiniteSets

CONSTANTS
  Request,       \* HTTP requests and boot commands, one task each
  Old,           \* the name of the rows that were there before
  Partner,       \* KommunityPartner rows with a preconfigured composition
  Code,          \* composition device codes that may be drawn
  ServiceCode,   \* service device codes that may be drawn
  Waiting,       \* codes that were drawn before the first request
  Ident,         \* composition identifiers
  Unnamed,       \* the identifier of a composition created without one
  Name,          \* instance tokens in the manifests; each stands for an
                 \* instance_id of one service release
  Service, Role,
  Describes,     \* the service manifest of an instance
  ManifestOf,    \* the composition manifest of a partner or a code
  BuiltinRole,   \* the organization's default roles
  Seeded,        \* partners connected before the first request
  Shared,        \* services other organizations may have deployed before
  App, Manifest, Key, User,
  None,          \* a row that does not exist, or a value not set
  Null           \* creating_instance of a role no instance created

Source == Partner \cup Code
Status == {"granted", "denied", "unavailable"}

Inserter == Request \cup {Old}

\* What a manifest says of an instance: its service and the roles it needs.
ServiceManifest == [service : Service, roles : SUBSET Role]

CompositionManifest ==
  [identifier : Ident, instances : SUBSET Name, clients : SUBSET App,
   request_auth_key : BOOLEAN]

ServiceOf == [n \in Name |-> Describes[n].service]
RolesOf == [n \in Name |-> Describes[n].roles]
IdentOf == [p \in Partner |-> ManifestOf[p].identifier]
InstancesOf == [s \in Source |-> ManifestOf[s].instances]

Composition == [by : Inserter, from : Source]
Instance == [comp : Composition, name : Name, by : Inserter]

ASSUME DeploymentAssumption ==
  /\ Partner \cap Code = {}
  /\ Code \cap ServiceCode = {}
  /\ Waiting \subseteq Code \cup ServiceCode
  /\ Unnamed \in Ident
  /\ Describes \in [Name -> ServiceManifest]
  /\ ManifestOf \in [Source -> CompositionManifest]
  /\ BuiltinRole \subseteq Role
  /\ Old \notin Request
  /\ Seeded \subseteq Partner
  /\ Shared \subseteq Service
  /\ \A p, q \in Seeded : IdentOf[p] = IdentOf[q] => p = q
  /\ None \notin Composition \cup Instance \cup Source \cup App \cup Manifest
  /\ None # Null /\ Null \notin Instance
  /\ Composition \cap Instance = {}

VARIABLES
  comps,     \* Composition rows
  insts,     \* ServiceInstance rows
  services,  \* how many Service rows have an identifier
  roles,     \* creating_instance of each Role row
  used,      \* Role.used_by
  clients,   \* Client rows: one app has one (see ClientRegistry)
  maps,      \* ServiceInstanceMapping rows
  codes,     \* CompositionDeviceCode and ServiceDeviceCode rows
  result     \* the composition or instance of a code

rowVars == <<comps, insts, services, roles, used, clients, maps, codes, result>>

VARIABLES
  op,        \* what a request was asked to do
  stage,     \* where it is
  comp,      \* the composition it works on
  app,       \* the app it registers
  seen       \* what its deletion has collected

taskVars == <<op, stage, comp, app, seen>>
deployVars == <<rowVars, taskVars>>

-----------------------------------------------------------------------------
(* Types *)

\* A client: its composition, the manifest it sent last, the one it was last
\* composed from (requirements_hash) and the statuses stored then.
ClientRow ==
  [by : Inserter, comp : Composition, man : Manifest,
   composed : Manifest \cup {None}, told : [Key -> Status \cup {None}]]

ASSUME RowAssumption == None \notin ClientRow

Mapping == [app : App, key : Key, inst : Instance]

Op == {"none", "connect", "boot", "delete", "accept", "service", "register",
       "claim", "serve"}

Ended == {"done", "failed", "rejected", "stuck"}

Stage ==
  {"new", "drop", "dropping", "import", "next", "apply", "applying", "hook",
   "composing", "claiming", "rendering", "serving", "listing", "create", "names",
   "insert", "roles", "clients", "key", "grant", "missing"} \cup Ended

\* What a deletion has collected: rows by primary key.
Collected ==
  [insts : SUBSET Instance, roles : SUBSET (Role \X Instance),
   apps : SUBSET (App \X Inserter)]

Nothing == [insts |-> {}, roles |-> {}, apps |-> {}]

DeploymentTypeOK ==
  /\ comps \in SUBSET Composition
  /\ insts \in SUBSET Instance
  /\ services \in [Service -> {"none", "one", "many"}]
  /\ roles \in [Role -> Instance \cup {None, Null}]
  /\ used \in SUBSET (Role \X Instance)
  /\ clients \in [App -> ClientRow \cup {None}]
  /\ maps \in SUBSET Mapping
  /\ codes \in [Code \cup ServiceCode -> {"none", "pending", "granted", "gone"}]
  /\ result \in [Code \cup ServiceCode -> Composition \cup Instance \cup {None}]
  /\ op \in [Request -> Op]
  /\ stage \in [Request -> Stage]
  /\ comp \in [Request -> Composition \cup {None}]
  /\ app \in [Request -> App \cup {None}]
  /\ seen \in [Request -> Collected]

-----------------------------------------------------------------------------
(* State helpers *)

\* accept_composition_device_code passes no identifier to create().
IdentifierOf(s) == IF s \in Code THEN Unnamed ELSE IdentOf[s]

InstancesIn(c) == {i \in insts : i.comp = c}
CreatedIn(c) == {x \in Role : \E i \in InstancesIn(c) : roles[x] = i}
ClientsIn(c) == {a \in App : clients[a] # None /\ clients[a].comp = c}

\* The rows Django's collector reads for a composition.
Dependents(c) ==
  [insts |-> InstancesIn(c),
   roles |-> {<<x, roles[x]>> : x \in CreatedIn(c)},
   apps |-> {<<a, clients[a].by>> : a \in ClientsIn(c)}]

\* A transaction that has upserted a composition and not ended holds its row.
Locked(c) == \E q \in Request : stage[q] = "applying" /\ comp[q] = c

\* A registration holds the client row it updates.
Registering(a) == \E q \in Request : stage[q] = "composing" /\ app[q] = a

\* A second row for a service whose insertion raced with the first: Service
\* has no unique constraint, and its get_or_create fails on two.
OneMore(s) == IF services[s] = "none" THEN "one" ELSE "many"

Answered(k, status, row) ==
  /\ codes' = [codes EXCEPT ![k] = status]
  /\ result' = [result EXCEPT ![k] = row]

-----------------------------------------------------------------------------
\* The compositions of the partners in Seeded, with all their instances.
SeedComps == {[by |-> Old, from |-> p] : p \in Seeded}
SeedInsts ==
  {i \in Instance : i.by = Old /\ i.comp \in SeedComps /\ i.name \in InstancesOf[i.comp.from]}
SeedServices == {ServiceOf[i.name] : i \in SeedInsts}
SeedUses == {u \in Role \X SeedInsts : u[1] \in RolesOf[u[2].name]}

DeploymentInit ==
  /\ comps = SeedComps
  /\ insts = SeedInsts
  /\ used = SeedUses
  /\ maps = {}
  /\ services \in [Service -> {"none", "one", "many"}]
  /\ \A s \in SeedServices : services[s] # "none"
  /\ \A s \in Service \ Shared :
       services[s] = IF s \in SeedServices THEN "one" ELSE "none"
  /\ roles = [x \in Role |->
       IF x \in BuiltinRole THEN Null
       ELSE IF \E u \in SeedUses : u[1] = x
              THEN CHOOSE i \in SeedInsts : <<x, i>> \in SeedUses
              ELSE None]
  /\ clients = [a \in App |-> None]
  /\ codes = [k \in Code \cup ServiceCode |->
                IF k \in Waiting THEN "pending" ELSE "none"]
  /\ result = [k \in Code \cup ServiceCode |-> None]
  /\ op = [r \in Request |-> "none"]
  /\ stage = [r \in Request |-> "new"]
  /\ comp = [r \in Request |-> None]
  /\ app = [r \in Request |-> None]
  /\ seen = [r \in Request |-> Nothing]

To(r, s) == stage' = [stage EXCEPT ![r] = s]

Start(r, what, s, c, a) ==
  /\ stage[r] = "new"
  /\ op' = [op EXCEPT ![r] = what]
  /\ stage' = [stage EXCEPT ![r] = s]
  /\ comp' = [comp EXCEPT ![r] = c]
  /\ app' = [app EXCEPT ![r] = a]
  /\ UNCHANGED seen

-----------------------------------------------------------------------------
(* on_delete: CASCADE throughout *)

\* Mutant: mappings are deleted by the token of their instance.
CascadeByToken(C, I, A) ==
  /\ comps' = comps \ C
  /\ insts' = insts \ I
  /\ roles' = [x \in Role |-> IF roles[x] \in I THEN None ELSE roles[x]]
  /\ used' = {u \in used : u[2] \notin I /\ roles[u[1]] \notin I}
  /\ clients' = [a \in App |-> IF a \in A THEN None ELSE clients[a]]
  /\ maps' = {m \in maps : m.inst.name \notin {i.name : i \in I} /\ m.app \notin A}
  /\ codes' = [k \in Code \cup ServiceCode |->
                 IF result[k] \in C \cup I THEN "gone" ELSE codes[k]]
  /\ result' = [k \in Code \cup ServiceCode |->
                  IF result[k] \in C \cup I THEN None ELSE result[k]]
  /\ UNCHANGED services

\* The compositions C, instances I and clients A go, and with them the roles
\* the instances created, every used_by row and mapping of either, and the
\* codes whose result they are.
Cascade(C, I, A) ==
  /\ comps' = comps \ C
  /\ insts' = insts \ I
  /\ roles' = [x \in Role |-> IF roles[x] \in I THEN None ELSE roles[x]]
  /\ used' = {u \in used : u[2] \notin I /\ roles[u[1]] \notin I}
  /\ clients' = [a \in App |-> IF a \in A THEN None ELSE clients[a]]
  /\ maps' = {m \in maps : m.inst \notin I /\ m.app \notin A}
  /\ codes' = [k \in Code \cup ServiceCode |->
                 IF result[k] \in C \cup I THEN "gone" ELSE codes[k]]
  /\ result' = [k \in Code \cup ServiceCode |->
                  IF result[k] \in C \cup I THEN None ELSE result[k]]
  /\ UNCHANGED services

\* delete_composition: the row is fetched, the caller is the owner.
DeleteComposition(r, c) ==
  /\ c \in comps
  /\ Start(r, "delete", "drop", c, None)
  /\ UNCHANGED rowVars

\* composition.delete(): the collector reads.
Collect(r) ==
  /\ stage[r] = "drop"
  /\ seen' = [seen EXCEPT ![r] = Dependents(comp[r])]
  /\ To(r, "dropping")
  /\ UNCHANGED <<rowVars, op, comp, app>>

\* What was collected covers all that depends on the composition now.
CoversDependents(r) ==
  /\ Dependents(comp[r]).insts \subseteq seen[r].insts
  /\ Dependents(comp[r]).roles \subseteq seen[r].roles
  /\ Dependents(comp[r]).apps \subseteq seen[r].apps

\* The clients still there under the primary keys collected; one that was
\* registered anew for another composition since is among them.
CollectedClients(r) ==
  {a \in App : clients[a] # None /\ <<a, clients[a].by>> \in seen[r].apps}

\* Where a request goes on once its composition is deleted: the caller of
\* create_composition_from_partner gets the rejection, a boot goes on.
AfterDeletion(r) ==
  IF op[r] = "delete" THEN "done" ELSE IF op[r] = "boot" THEN "next" ELSE "rejected"

CommitDeletion(r) ==
  /\ stage[r] = "dropping"
  /\ ~Locked(comp[r])
  /\ \A a \in CollectedClients(r) : ~Registering(a)
  /\ CoversDependents(r)
  /\ Cascade({comp[r]}, seen[r].insts, CollectedClients(r))
  /\ To(r, AfterDeletion(r))
  /\ UNCHANGED <<op, comp, app, seen>>

\* A foreign key fails, or a deadlock with a transaction that holds one of
\* the rows is resolved against the deletion.
DeletionFails(r) ==
  /\ stage[r] = "dropping"
  /\ \/ ~CoversDependents(r)
     \/ Locked(comp[r])
     \/ \E a \in CollectedClients(r) : Registering(a)
  /\ To(r, "stuck")
  /\ UNCHANGED <<rowVars, op, comp, app, seen>>

DeletionStep(r) == Collect(r) \/ CommitDeletion(r) \/ DeletionFails(r)

=============================================================================
