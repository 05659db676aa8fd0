------------------------------ MODULE Memberships ------------------------------
(***************************************************************************)
(* The memberships of one organization and the tailnets that follow them:  *)
(* the Membership signals (karakter/signals.py), sync_organization_layers  *)
(* (ionscale/manager.py) and the requests that change memberships and      *)
(* layers without an invite.  Organizations do not share any of this.      *)
(*                                                                         *)
(* The server has no request transactions: every statement commits by      *)
(* itself, and then the post_save signal pushes a policy to every layer.   *)
(* Only Model.delete() and get_or_create() open a transaction, in which    *)
(* the signal runs before the commit and whose failure rolls it back.      *)
(***************************************************************************)
EXTENDS FiniteSets

CONSTANTS
  Request,    \* HTTP requests, each of which inserts at most one row
  Seed,       \* membership rows that are there at the start
  User, SeedUser,
  Owner,      \* Organization.owner
  Role, Admin, Guest,
  Layer,      \* tailnets, each the IonscaleLayer it is created with
  SeedLayer,  \* layers that are there at the start
  None

RowId == Request \cup Seed

Membership == [user : User, roles : SUBSET Role]

Op == {"accept", "decline", "cancel", "leave", "update", "add", "owner", "layer"}

ASSUME MembershipAssumption ==
  /\ Request \cap Seed = {}
  /\ SeedUser \in [Seed -> User]
  /\ \A s, t \in Seed : SeedUser[s] = SeedUser[t] => s = t
  /\ Owner \in User
  /\ {Admin, Guest} \subseteq Role
  /\ SeedLayer \subseteq Layer
  /\ None \notin RowId \cup User \cup Layer \cup Membership \cup Op

VARIABLES
  rows,        \* committed Membership rows
  layers,      \* committed IonscaleLayer rows
  policy,      \* the subs of the policy last pushed to each tailnet
  task,        \* what each request is doing
  sync,        \* the push of policies a request is in
  undisturbed  \* history: the syncs during which nothing else has changed

memberVars == <<rows, layers, policy, task, sync, undisturbed>>

-----------------------------------------------------------------------------
(* Types *)

\* While inserting, deleting or saved a sync runs: within the transaction that inserts
\* or deletes a row, or after the statement that saved one.
Stage == {"new", "inserting", "deleting", "saved",
          "check", "join", "delete", "find", "clear", "roles", "save", "mark",
          "done", "failed"}

Task == [op : Op \cup {None}, stage : Stage, user : User \cup {None},
         row : RowId \cup {None}, roles : SUBSET Role]

NoTask == [op |-> None, stage |-> "new", user |-> None, row |-> None, roles |-> {}]

Sync == [all : SUBSET Layer, todo : SUBSET Layer,
         at : Layer \cup {None}, subs : SUBSET User]

NoSync == [all |-> {}, todo |-> {}, at |-> None, subs |-> {}]

MemberTypeOK ==
  /\ rows \in [RowId -> Membership \cup {None}]
  /\ \A m, n \in RowId :
       rows[m] # None /\ rows[n] # None /\ rows[m].user = rows[n].user => m = n
  /\ layers \in SUBSET Layer
  /\ policy \in [Layer -> SUBSET User]
  /\ task \in [Request -> Task]
  /\ sync \in [Request -> Sync]
  /\ undisturbed \in SUBSET Request

-----------------------------------------------------------------------------
(* State helpers *)

LiveRows == {m \in RowId : rows[m] # None}

Members == {rows[m].user : m \in LiveRows}

RowsOf(u) == {m \in LiveRows : rows[m].user = u}

Deleting(m) == \E r \in Request : task[r].stage = "deleting" /\ task[r].row = m

Inserting(u) == \E r \in Request : task[r].stage = "inserting" /\ task[r].user = u

\* What the request's own transaction has done to the memberships.
Removed(r) == IF task[r].stage = "deleting" THEN {task[r].row} ELSE {}

Inserted(r) == IF task[r].stage = "inserting" THEN {task[r].user} ELSE {}

\* Mutant: the signal is pre_delete, which still sees the row.
VisibleBeforeDelete(r) == Members \cup Inserted(r)

\* The members a request sees: what is committed, but for its own transaction.
Visible(r) ==
  {rows[m].user : m \in LiveRows \ Removed(r)} \cup Inserted(r)

Syncing(r) == sync[r].todo # {} \/ sync[r].at # None

ListLayers(r, ls) ==
  sync' = [sync EXCEPT ![r] = [all |-> ls, todo |-> ls, at |-> None, subs |-> {}]]

Become(r, t) == task' = [task EXCEPT ![r] = t]

Proceed(r, stage, row, roles) ==
  Become(r, [op |-> task[r].op, stage |-> stage, user |-> task[r].user,
             row |-> row, roles |-> roles])

Reach(r, stage) == Proceed(r, stage, task[r].row, task[r].roles)

WriteRoles(m, rs) == rows' = [rows EXCEPT ![m] = [user |-> rows[m].user, roles |-> rs]]

-----------------------------------------------------------------------------
MemberInit ==
  /\ rows = [m \in RowId |->
       IF m \in Seed
         THEN [user |-> SeedUser[m],
               roles |-> IF SeedUser[m] = Owner THEN {Admin} ELSE {Guest}]
         ELSE None]
  /\ layers = SeedLayer
  /\ policy = [l \in Layer |-> IF l \in SeedLayer THEN {SeedUser[s] : s \in Seed} ELSE {}]
  /\ task = [r \in Request |-> NoTask]
  /\ sync = [r \in Request |-> NoSync]
  /\ undisturbed = {}

-----------------------------------------------------------------------------
(* sync_organization_layers *)

\* The members of the layer's organization are read afresh for each layer.
SyncRead(r) ==
  /\ sync[r].at = None
  /\ \E l \in sync[r].todo :
       sync' = [sync EXCEPT ![r] = [all |-> sync[r].all, todo |-> sync[r].todo \ {l},
                                    at |-> l, subs |-> Visible(r)]]
  /\ UNCHANGED <<rows, layers, policy, task, undisturbed>>

\* update_policy replaces the whole policy of the tailnet.
SyncPush(r) ==
  /\ sync[r].at # None
  /\ policy' = [policy EXCEPT ![sync[r].at] = sync[r].subs]
  /\ sync' = [sync EXCEPT ![r] = [all |-> sync[r].all, todo |-> sync[r].todo,
                                  at |-> None, subs |-> {}]]
  /\ undisturbed' = undisturbed \cap {r}
  /\ UNCHANGED <<rows, layers, task>>

\* The CLI fails: the request fails, and with it its transaction; what was
\* pushed before stays.
SyncFail(r) ==
  /\ sync[r].at # None
  /\ Reach(r, "failed")
  /\ sync' = [sync EXCEPT ![r] = NoSync]
  /\ undisturbed' = undisturbed \ {r}
  /\ UNCHANGED <<rows, layers, policy>>

\* What a request does with the membership that get_or_create returned, and
\* after the sync of a row it saved.
AfterGet(op) == IF op = "add" THEN "clear" ELSE "roles"

AfterSave(op) == IF op = "accept" THEN "roles" ELSE "done"

\* The sync is over: the transaction, if there is one, commits.
EndSync(r) ==
  /\ ~Syncing(r)
  /\ \/ /\ task[r].stage = "deleting"
        /\ rows' = [rows EXCEPT ![task[r].row] = None]
        /\ Reach(r, "done")
        /\ undisturbed' = {}
     \/ /\ task[r].stage = "inserting"
        /\ rows' = [rows EXCEPT ![r] = [user |-> task[r].user, roles |-> {}]]
        /\ Proceed(r, AfterGet(task[r].op), r, task[r].roles)
        /\ undisturbed' = {}
     \/ /\ task[r].stage = "saved"
        /\ Reach(r, AfterSave(task[r].op))
        /\ undisturbed' = undisturbed \ {r}
        /\ UNCHANGED rows
  /\ sync' = [sync EXCEPT ![r] = NoSync]
  /\ UNCHANGED <<layers, policy>>

-----------------------------------------------------------------------------
(* Requests *)

\* delete_membership and leave_org: only one's own.
Leave(r, m) ==
  /\ task[r].stage = "new"
  /\ m \in LiveRows
  /\ Become(r, [op |-> "leave", stage |-> "delete", user |-> rows[m].user,
                row |-> m, roles |-> {}])
  /\ UNCHANGED <<rows, layers, policy, sync, undisturbed>>

\* membership.delete() waits for a transaction that is deleting the row; the
\* signal is sent even if there is no row any more.
Delete(r) ==
  /\ task[r].stage = "delete"
  /\ ~Deleting(task[r].row)
  /\ Reach(r, "deleting")
  /\ ListLayers(r, layers)
  /\ undisturbed' = undisturbed \cup {r}
  /\ UNCHANGED <<rows, layers, policy>>

\* update_membership: the membership is read; then its roles are set, if any
\* were given.
Update(r, m, rs) ==
  /\ task[r].stage = "new"
  /\ m \in LiveRows
  /\ Become(r, [op |-> "update", stage |-> IF rs = {} THEN "save" ELSE "roles",
                user |-> rows[m].user, row |-> m, roles |-> rs])
  /\ UNCHANGED <<rows, layers, policy, sync, undisturbed>>

\* add_user_to_organization, and ensure_owner_is_admin when the organization
\* is saved.
Ensure(r, op, u, rs) ==
  /\ task[r].stage = "new"
  /\ Become(r, [op |-> op, stage |-> "find", user |-> u, row |-> None, roles |-> rs])
  /\ UNCHANGED <<rows, layers, policy, sync, undisturbed>>

\* Membership.objects.get_or_create(user, organization): the insertion waits
\* for another one of the same membership, and then finds it.
FindOrInsert(r) ==
  /\ task[r].stage = "find"
  /\ \/ \E m \in RowsOf(task[r].user) :
          /\ Proceed(r, AfterGet(task[r].op), m, task[r].roles)
          /\ UNCHANGED <<sync, undisturbed>>
     \/ /\ RowsOf(task[r].user) = {}
        /\ ~Inserting(task[r].user)
        /\ Reach(r, "inserting")
        /\ ListLayers(r, layers)
        /\ undisturbed' = undisturbed \cup {r}
  /\ UNCHANGED <<rows, layers, policy>>

\* x.roles.clear(); a deletion of the row has locked its roles.
ClearRoles(r) ==
  LET m == task[r].row IN
  /\ task[r].stage = "clear"
  /\ m \in LiveRows /\ Deleting(m) => rows[m].roles = {}
  /\ IF m \in LiveRows THEN WriteRoles(m, {}) ELSE UNCHANGED rows
  /\ Reach(r, "roles")
  /\ UNCHANGED <<layers, policy, sync, undisturbed>>

\* Storing roles needs a row that is still there, and waits until a deletion of
\* it is decided.
RowStays(m) == m \in LiveRows /\ ~Deleting(m)

\* roles.set of an update, roles.add(admin) of the owner.
SetRoles(r) ==
  LET m == task[r].row IN
  /\ task[r].stage = "roles"
  /\ task[r].op \in {"update", "owner"}
  /\ RowStays(m)
  /\ WriteRoles(m, IF task[r].op = "update" THEN task[r].roles
                   ELSE rows[m].roles \cup task[r].roles)
  /\ Reach(r, "save")
  /\ UNCHANGED <<layers, policy, sync, undisturbed>>

\* add_user_to_organization adds one role at a time and does not save.
AddRole(r) ==
  LET m == task[r].row IN
  /\ task[r].stage = "roles"
  /\ task[r].op = "add"
  /\ \/ \E role \in task[r].roles :
          /\ RowStays(m)
          /\ WriteRoles(m, rows[m].roles \cup {role})
          /\ Proceed(r, "roles", m, task[r].roles \ {role})
     \/ /\ task[r].roles = {}
        /\ Reach(r, "done")
        /\ UNCHANGED rows
  /\ UNCHANGED <<layers, policy, sync, undisturbed>>

\* membership.save(): an UPDATE or, if it finds no row, an INSERT.
Save(r) ==
  LET m == task[r].row IN
  /\ task[r].stage = "save"
  /\ ~Deleting(m)
  /\ m \in LiveRows \/ (RowsOf(task[r].user) = {} /\ ~Inserting(task[r].user))
  /\ Reach(r, "saved")
  /\ ListLayers(r, layers)
  /\ IF m \in LiveRows
       THEN rows' = rows /\ undisturbed' = undisturbed \cup {r}
       ELSE /\ rows' = [rows EXCEPT ![m] = [user |-> task[r].user, roles |-> {}]]
            /\ undisturbed' = {r}
  /\ UNCHANGED <<layers, policy>>

\* The row is gone when its roles are stored, or the membership has been
\* inserted anew when it is saved.
Fail(r) ==
  LET m == task[r].row IN
  /\ m \notin LiveRows
  /\ \/ task[r].stage = "roles" /\ (task[r].op = "add" => task[r].roles # {})
     \/ task[r].stage = "save" /\ RowsOf(task[r].user) # {}
  /\ Reach(r, "failed")
  /\ UNCHANGED <<rows, layers, policy, sync, undisturbed>>

\* create_ionscale_layer creates the tailnet and its row and pushes the policy.
CreateLayer(r, l) ==
  /\ task[r].stage = "new"
  /\ l \notin layers
  /\ layers' = layers \cup {l}
  /\ Become(r, [op |-> "layer", stage |-> "saved", user |-> None, row |-> None, roles |-> {}])
  /\ ListLayers(r, {l})
  /\ undisturbed' = {r}
  /\ UNCHANGED <<rows, policy>>

\* update_ionscale_layer sets blocked_for, which the policy does not look at.
UpdateLayer(r, l) ==
  /\ task[r].stage = "new"
  /\ l \in layers
  /\ Become(r, [op |-> "layer", stage |-> "saved", user |-> None, row |-> None, roles |-> {}])
  /\ ListLayers(r, {l})
  /\ undisturbed' = undisturbed \cup {r}
  /\ UNCHANGED <<rows, layers, policy>>

MemberStep(r) ==
  \/ SyncRead(r) \/ SyncPush(r) \/ SyncFail(r) \/ EndSync(r)
  \/ Delete(r) \/ FindOrInsert(r) \/ ClearRoles(r) \/ SetRoles(r) \/ AddRole(r) \/ Save(r) \/ Fail(r)

MemberRequest(r) ==
  \/ \E m \in RowId : Leave(r, m)
  \/ \E m \in RowId, rs \in SUBSET Role : Update(r, m, rs)
  \/ \E u \in User, rs \in SUBSET Role : Ensure(r, "add", u, rs)
  \/ Ensure(r, "owner", Owner, {Admin})
  \/ \E l \in Layer : CreateLayer(r, l) \/ UpdateLayer(r, l)

-----------------------------------------------------------------------------
(* Properties, for the modules that run these requests *)

\* A change of memberships or layers during which nothing else changes leaves
\* every tailnet it pushed to with exactly the members: the signals read the
\* memberships after the row and before the commit (signals.py, manager.py).
UndisturbedSyncIsExact ==
  [][\A r \in Request :
       r \in undisturbed /\ EndSync(r)
         => \A l \in sync[r].all : policy'[l] = Members']_memberVars

\* "Create iam policy for all organization members" (manager.py): once every
\* request is through and none has failed, each tailnet's policy lists exactly
\* the members.
SettledPolicyIsExact ==
  (\A r \in Request : task[r].stage \in {"new", "done"})
    => \A l \in layers : policy[l] = Members

=============================================================================
