----------------------------- MODULE InvitesProofs -----------------------------
(***************************************************************************)
(* Proofs about the memberships and invites of an organization: types and  *)
(* one membership per user, what a closed invite and an accepted one do,   *)
(* and what a push of policies leaves in the tailnets.                     *)
(***************************************************************************)
EXTENDS Invites, TLAPS

-----------------------------------------------------------------------------
(* Typing: the variables, and what the stage of a request says of it.      *)

InviteOps == {"accept", "decline", "cancel"}

Shapes ==
  /\ rows \in [RowId -> Membership \cup {None}]
  /\ layers \in SUBSET Layer
  /\ policy \in [Layer -> SUBSET User]
  /\ task \in [Request -> Task]
  /\ sync \in [Request -> Sync]
  /\ undisturbed \in SUBSET Request
  /\ status \in [Invite -> Status]
  /\ expired \in SUBSET Expiring
  /\ using \in [Request -> Invite \cup {None}]
  /\ joined \in SUBSET (Invite \X User)

\* A task that fits its stage.
Fit(t) ==
  /\ t.stage = "new" => t = NoTask
  /\ t.op \in Op \ {"layer"} => t.user \in User
  /\ t.stage \in {"delete", "deleting", "clear", "roles", "save"} => t.row \in RowId
  /\ t.stage \in {"check", "join"} => t.op = "accept"
  /\ t.stage \in {"find", "inserting", "check", "join"} => t.row = None
  /\ t.stage = "mark" => t.op \in InviteOps
  /\ t.stage \in {"delete", "deleting"} => t.op = "leave"
  /\ t.stage \in {"find", "clear", "inserting"} => t.op \in {"add", "owner"}
  /\ t.stage = "save" => t.op \in {"update", "owner"}
  /\ t.stage = "saved" => t.op \in {"accept", "update", "owner", "layer"}
  /\ t.stage = "saved" /\ t.op # "layer" => t.row \in RowId
  /\ t.stage = "roles" => t.op \in {"accept", "update", "add", "owner"}

Uses(r) == using[r] # None <=> task[r].op \in InviteOps

Typing ==
  /\ Shapes
  /\ \A r \in Request : Fit(task[r])
  /\ \A r \in Request : Uses(r)

USE MembershipAssumption, InviteAssumption

\* An invite gives roles of the organization, whatever it was created with.
LEMMA GrantedRoles == \A i \in Invite : Granted(i) \in SUBSET Role
  BY DEF InviteRoles, Granted

\* What the steps of one request leave alone.
LEMMA TaskStep ==
  ASSUME Typing, NEW r \in Request, NEW t \in Task, Fit(t),
         task' = [task EXCEPT ![r] = t], using' = using,
         t.op \in InviteOps <=> task[r].op \in InviteOps
  PROVE  /\ task' \in [Request -> Task]
         /\ \A q \in Request : Fit(task'[q])
         /\ \A q \in Request : Uses(q)'
  BY DEF Typing, Shapes, Uses

LEMMA SyncTyping ==
  ASSUME Typing, NEW r \in Request, SyncRead(r) \/ SyncPush(r) \/ SyncFail(r),
         UNCHANGED inviteVars
  PROVE  Typing'
<1> USE DEF Typing, Shapes
<1>1. CASE SyncRead(r)
  <2>1. Visible(r) \in SUBSET User
    BY DEF Visible, Removed, Inserted, LiveRows, Membership, Fit, Task, Op
  <2>2. PICK l \in sync[r].todo :
          sync' = [sync EXCEPT ![r] = [all |-> sync[r].all, todo |-> sync[r].todo \ {l},
                                       at |-> l, subs |-> Visible(r)]]
    BY <1>1 DEF SyncRead
  <2>3. sync' \in [Request -> Sync]
    BY <2>1, <2>2 DEF Sync
  <2> QED BY <1>1, <2>3 DEF SyncRead, inviteVars, Uses
<1>2. CASE SyncPush(r)
  <2>1. sync' \in [Request -> Sync]
    BY <1>2 DEF SyncPush, Sync
  <2>2. policy' \in [Layer -> SUBSET User]
    BY <1>2 DEF SyncPush, Sync
  <2> QED BY <1>2, <2>1, <2>2 DEF SyncPush, inviteVars, Uses
<1>3. CASE SyncFail(r)
  <2>1. sync' \in [Request -> Sync]
    BY <1>3 DEF SyncFail, Sync, NoSync
  <2>2. task' \in [Request -> Task] /\ \A q \in Request : Fit(task'[q]) /\ Uses(q)'
    BY <1>3 DEF SyncFail, Reach, Proceed, Become, Task, Stage, Fit, Uses, inviteVars, InviteOps
  <2> QED BY <1>3, <2>1, <2>2 DEF SyncFail, inviteVars
<1> QED BY <1>1, <1>2, <1>3

LEMMA ListTyping ==
  ASSUME Typing, NEW r \in Request, NEW ls \in SUBSET Layer, ListLayers(r, ls)
  PROVE  sync' \in [Request -> Sync]
  BY DEF Typing, Shapes, ListLayers, Sync

LEMMA RowTyping ==
  ASSUME Typing, NEW m \in LiveRows, NEW rs \in SUBSET Role, WriteRoles(m, rs)
  PROVE  rows' \in [RowId -> Membership \cup {None}]
<1>1. rows[m] \in Membership
  BY DEF Typing, Shapes, LiveRows
<1> QED BY <1>1 DEF Typing, Shapes, LiveRows, WriteRoles, Membership

LEMMA ProceedTyping ==
  ASSUME Typing, NEW r \in Request, task[r].op # None,
         NEW stage \in Stage \ {"new"}, NEW row \in RowId \cup {None}, NEW rs \in SUBSET Role,
         Proceed(r, stage, row, rs), using' = using,
         Fit([op |-> task[r].op, stage |-> stage, user |-> task[r].user,
              row |-> row, roles |-> rs])
  PROVE  /\ task' \in [Request -> Task]
         /\ \A q \in Request : Fit(task'[q])
         /\ \A q \in Request : Uses(q)'
<1> DEFINE t == [op |-> task[r].op, stage |-> stage, user |-> task[r].user,
                 row |-> row, roles |-> rs]
<1>1. t \in Task
  BY DEF Typing, Shapes, Task
<1>2. t.op = task[r].op
  OBVIOUS
<1>3. task' = [task EXCEPT ![r] = t]
  BY DEF Proceed, Become
<1> HIDE DEF t
<1> QED BY <1>1, <1>2, <1>3, TaskStep DEF t

LEMMA SyncEndTyping ==
  ASSUME Typing, NEW r \in Request, EndSync(r), UNCHANGED inviteVars
  PROVE  Typing'
<1> USE DEF Typing, Shapes
<1>1. sync' \in [Request -> Sync]
  BY DEF EndSync, Sync, NoSync
<1>2. undisturbed' \in SUBSET Request
  BY DEF EndSync
<1>3. rows' \in [RowId -> Membership \cup {None}]
  <2>1. CASE task[r].stage = "inserting"
    <3>1. task[r].user \in User
      BY <2>1 DEF Fit, Op, Task
    <3> QED BY <2>1, <3>1 DEF EndSync, Membership, RowId
  <2> QED BY <2>1 DEF EndSync
<1>4. task[r] \in Task /\ Fit(task[r]) /\ task[r].op # None
  BY DEF EndSync, Fit, Op, Task
<1>5. /\ task' \in [Request -> Task]
      /\ \A q \in Request : Fit(task'[q])
      /\ \A q \in Request : Uses(q)'
  <2>1. CASE task[r].stage = "deleting"
    BY <1>4, <2>1, ProceedTyping DEF EndSync, Reach, Fit, Task, Stage, inviteVars
  <2>2. CASE task[r].stage = "inserting"
    BY <1>4, <2>2, ProceedTyping DEF EndSync, AfterGet, Fit, Task, Stage, inviteVars, RowId
  <2>3. CASE task[r].stage = "saved"
    BY <1>4, <2>3, ProceedTyping DEF EndSync, Reach, AfterSave, Fit, Task, Stage, inviteVars
  <2> QED BY <2>1, <2>2, <2>3 DEF EndSync
<1> QED BY <1>1, <1>2, <1>3, <1>5 DEF EndSync, inviteVars

\* The steps of Memberships that push nothing and have started already.
LEMMA WorkTyping ==
  ASSUME Typing, NEW r \in Request, UNCHANGED inviteVars,
         \/ Delete(r) \/ FindOrInsert(r) \/ ClearRoles(r) \/ SetRoles(r)
         \/ AddRole(r) \/ Save(r) \/ Fail(r)
  PROVE  Typing'
<1> USE DEF Typing, Shapes
<1> DEFINE m == task[r].row
<1>0. task[r] \in Task /\ Fit(task[r]) /\ using' = using
  BY DEF inviteVars
<1>1. CASE Delete(r)
  <2>1. Proceed(r, "deleting", m, task[r].roles) /\ ListLayers(r, layers)
    BY <1>1 DEF Delete, Reach
  <2>2. sync' \in [Request -> Sync]
    BY <2>1, ListTyping
  <2>3. task[r].op = "leave" /\ "leave" # None
    BY <1>0, <1>1 DEF Delete, Fit, Op
  <2>4. task' \in [Request -> Task] /\ \A q \in Request : Fit(task'[q]) /\ Uses(q)'
    BY <1>0, <1>1, <2>1, <2>3, ProceedTyping DEF Delete, Fit, Task, Stage
  <2> QED BY <1>1, <2>2, <2>4 DEF Delete, inviteVars
<1>2. CASE FindOrInsert(r)
  <2>1. /\ task[r].op \in {"add", "owner"} /\ task[r].op # None
        /\ task[r].user \in User /\ task[r].row = None
    BY <1>0, <1>2 DEF FindOrInsert, Fit, Op
  <2>2. CASE \E n \in RowsOf(task[r].user) :
               /\ Proceed(r, AfterGet(task[r].op), n, task[r].roles)
               /\ UNCHANGED <<sync, undisturbed>>
    <3>1. PICK n \in RowsOf(task[r].user) :
               /\ Proceed(r, AfterGet(task[r].op), n, task[r].roles)
               /\ UNCHANGED <<sync, undisturbed>>
      BY <2>2
    <3>2. n \in RowId
      BY DEF RowsOf, LiveRows
    <3>3. task' \in [Request -> Task] /\ \A q \in Request : Fit(task'[q]) /\ Uses(q)'
      BY <1>0, <2>1, <3>1, <3>2, ProceedTyping DEF AfterGet, Fit, Task, Stage
    <3> QED BY <1>2, <3>1, <3>3 DEF FindOrInsert, inviteVars
  <2>3. CASE Reach(r, "inserting") /\ ListLayers(r, layers) /\ undisturbed' = undisturbed \cup {r}
    <3>1. sync' \in [Request -> Sync]
      BY <2>3, ListTyping
    <3>2. task' \in [Request -> Task] /\ \A q \in Request : Fit(task'[q]) /\ Uses(q)'
      BY <1>0, <2>1, <2>3, ProceedTyping DEF Reach, Fit, Task, Stage
    <3> QED BY <1>2, <2>3, <3>1, <3>2 DEF FindOrInsert, inviteVars
  <2> QED BY <1>2, <2>2, <2>3 DEF FindOrInsert
<1>3. CASE ClearRoles(r)
  <2>1. rows' \in [RowId -> Membership \cup {None}]
    BY <1>3, RowTyping DEF ClearRoles
  <2>2. task[r].op \in {"add", "owner"} /\ task[r].op # None
    BY <1>0, <1>3 DEF ClearRoles, Fit, Op
  <2>3. task' \in [Request -> Task] /\ \A q \in Request : Fit(task'[q]) /\ Uses(q)'
    BY <1>0, <1>3, <2>2, ProceedTyping DEF ClearRoles, Reach, Fit, Task, Stage
  <2> QED BY <1>3, <2>1, <2>3 DEF ClearRoles, inviteVars
<1>4. CASE SetRoles(r)
  <2>1. m \in LiveRows /\ rows[m] \in Membership
    BY <1>4 DEF SetRoles, RowStays, LiveRows
  <2>2. (IF task[r].op = "update" THEN task[r].roles ELSE rows[m].roles \cup task[r].roles)
          \in SUBSET Role
    BY <1>0, <2>1 DEF Membership, Task
  <2>3. rows' \in [RowId -> Membership \cup {None}]
    BY <1>4, <2>1, <2>2, RowTyping DEF SetRoles
  <2>4. task[r].op # None
    BY <1>4 DEF SetRoles, Op
  <2>5. task' \in [Request -> Task] /\ \A q \in Request : Fit(task'[q]) /\ Uses(q)'
    BY <1>0, <1>4, <2>4, ProceedTyping DEF SetRoles, Reach, Fit, Task, Stage
  <2> QED BY <1>4, <2>3, <2>5 DEF SetRoles, inviteVars
<1>5. CASE AddRole(r)
  <2>1. task[r].op # None /\ task[r].roles \in SUBSET Role
    BY <1>0, <1>5 DEF AddRole, Op, Task
  <2>2. ASSUME NEW role \in task[r].roles, RowStays(m),
               WriteRoles(m, rows[m].roles \cup {role}),
               Proceed(r, "roles", m, task[r].roles \ {role})
        PROVE  Typing'
    <3>1. m \in LiveRows /\ rows[m].roles \cup {role} \in SUBSET Role
      BY <2>1, <2>2 DEF RowStays, LiveRows, Membership
    <3>2. rows' \in [RowId -> Membership \cup {None}]
      BY <2>2, <3>1, RowTyping
    <3>3. task' \in [Request -> Task] /\ \A q \in Request : Fit(task'[q]) /\ Uses(q)'
      BY <1>0, <1>5, <2>1, <2>2, ProceedTyping DEF AddRole, Fit, Task, Stage
    <3> QED BY <1>5, <3>2, <3>3 DEF AddRole, inviteVars
  <2>3. CASE Reach(r, "done") /\ UNCHANGED rows
    <3>1. task' \in [Request -> Task] /\ \A q \in Request : Fit(task'[q]) /\ Uses(q)'
      BY <1>0, <1>5, <2>1, <2>3, ProceedTyping DEF AddRole, Reach, Fit, Task, Stage
    <3> QED BY <1>5, <2>3, <3>1 DEF AddRole, inviteVars
  <2> QED BY <1>5, <2>2, <2>3 DEF AddRole
<1>6. CASE Save(r)
  <2>1. task[r].op \in {"update", "owner"} /\ task[r].op # None /\ task[r].user \in User
        /\ m \in RowId
    BY <1>0, <1>6 DEF Save, Fit, Op
  <2>2. sync' \in [Request -> Sync]
    BY <1>6, ListTyping DEF Save
  <2>3. rows' \in [RowId -> Membership \cup {None}]
    BY <1>6, <2>1 DEF Save, Membership
  <2>4. task' \in [Request -> Task] /\ \A q \in Request : Fit(task'[q]) /\ Uses(q)'
    BY <1>0, <1>6, <2>1, ProceedTyping DEF Save, Reach, Fit, Task, Stage
  <2> QED BY <1>6, <2>2, <2>3, <2>4 DEF Save, inviteVars
<1>7. CASE Fail(r)
  <2>1. task[r].op # None
    BY <1>0, <1>7 DEF Fail, Fit, Op
  <2>2. task' \in [Request -> Task] /\ \A q \in Request : Fit(task'[q]) /\ Uses(q)'
    BY <1>0, <1>7, <2>1, ProceedTyping DEF Fail, Reach, Fit, Task, Stage
  <2> QED BY <1>7, <2>2 DEF Fail, inviteVars
<1> QED BY <1>1, <1>2, <1>3, <1>4, <1>5, <1>6, <1>7

\* The first step of a request, but for an answer to an invite.
LEMMA RequestTyping ==
  ASSUME Typing, NEW r \in Request, UNCHANGED inviteVars, MemberRequest(r)
  PROVE  Typing'
<1> USE DEF Typing, Shapes
<1>0. Fit(task[r]) /\ using' = using
  BY DEF inviteVars
<1>1. task[r].op = None /\ None \notin InviteOps
  <2>1. task[r].stage = "new"
    BY DEF MemberRequest, Leave, Update, Ensure, CreateLayer, UpdateLayer
  <2>2. task[r] = NoTask
    BY <1>0, <2>1 DEF Fit
  <2> QED BY <2>2 DEF NoTask, InviteOps, Op
<1>2. ASSUME NEW t \in Task, Fit(t), t.op \notin InviteOps, Become(r, t)
      PROVE  /\ task' \in [Request -> Task]
             /\ \A q \in Request : Fit(task'[q]) /\ Uses(q)'
  BY <1>0, <1>1, <1>2, TaskStep DEF Become
<1>3. ASSUME NEW m \in RowId, Leave(r, m)
      PROVE  Typing'
  <2>1. rows[m].user \in User
    BY <1>3 DEF Leave, LiveRows, Membership
  <2> DEFINE t == [op |-> "leave", stage |-> "delete", user |-> rows[m].user,
                   row |-> m, roles |-> {}]
  <2>2. t \in Task /\ Fit(t) /\ t.op \notin InviteOps
    BY <2>1 DEF Task, Fit, Op, Stage, InviteOps
  <2>3. Become(r, t)
    BY <1>3 DEF Leave
  <2> HIDE DEF t
  <2> QED BY <1>2, <1>3, <2>2, <2>3 DEF Leave, inviteVars
<1>4. ASSUME NEW m \in RowId, NEW rs \in SUBSET Role, Update(r, m, rs)
      PROVE  Typing'
  <2>1. rows[m].user \in User
    BY <1>4 DEF Update, LiveRows, Membership
  <2> DEFINE t == [op |-> "update", stage |-> IF rs = {} THEN "save" ELSE "roles",
                   user |-> rows[m].user, row |-> m, roles |-> rs]
  <2>2. t \in Task /\ Fit(t) /\ t.op \notin InviteOps
    BY <2>1 DEF Task, Fit, Op, Stage, InviteOps
  <2>3. Become(r, t)
    BY <1>4 DEF Update
  <2> HIDE DEF t
  <2> QED BY <1>2, <1>4, <2>2, <2>3 DEF Update, inviteVars
<1>5. ASSUME NEW op \in {"add", "owner"}, NEW u \in User, NEW rs \in SUBSET Role,
             Ensure(r, op, u, rs)
      PROVE  Typing'
  <2> DEFINE t == [op |-> op, stage |-> "find", user |-> u, row |-> None, roles |-> rs]
  <2>2. t \in Task /\ Fit(t) /\ t.op \notin InviteOps
    BY DEF Task, Fit, Op, Stage, InviteOps
  <2>3. Become(r, t)
    BY <1>5 DEF Ensure
  <2> HIDE DEF t
  <2> QED BY <1>2, <1>5, <2>2, <2>3 DEF Ensure, inviteVars
<1>6. ASSUME NEW l \in Layer, CreateLayer(r, l) \/ UpdateLayer(r, l)
      PROVE  Typing'
  <2> DEFINE t == [op |-> "layer", stage |-> "saved", user |-> None, row |-> None, roles |-> {}]
  <2>2. t \in Task /\ Fit(t) /\ t.op \notin InviteOps
    BY DEF Task, Fit, Op, Stage, InviteOps
  <2>3. Become(r, t) /\ ListLayers(r, {l})
    BY <1>6 DEF CreateLayer, UpdateLayer
  <2>4. sync' \in [Request -> Sync]
    BY <2>3, ListTyping
  <2> HIDE DEF t
  <2> QED BY <1>2, <1>6, <2>2, <2>3, <2>4 DEF CreateLayer, UpdateLayer, inviteVars
<1> QED BY <1>3, <1>4, <1>5, <1>6 DEF MemberRequest

\* Answering an invite.
LEMMA InviteTyping ==
  ASSUME Typing, NEW r \in Request,
         \/ \E op \in InviteOps, i \in Invite, u \in User : ReadInvite(r, op, i, u)
         \/ FindMember(r) \/ Join(r) \/ JoinRefused(r) \/ GiveRoles(r) \/ Answer(r)
  PROVE  Typing'
<1> USE DEF Typing, Shapes
<1> DEFINE m == task[r].row
<1>0. task[r] \in Task /\ Fit(task[r])
  OBVIOUS
<1>1. ASSUME NEW op \in InviteOps, NEW i \in Invite, NEW u \in User, ReadInvite(r, op, i, u)
      PROVE  Typing'
  <2> DEFINE t == [op |-> op, stage |-> IF op = "accept" THEN "check" ELSE "mark",
                   user |-> u, row |-> None, roles |-> {}]
  <2>1. t \in Task /\ Fit(t) /\ t.op \in InviteOps
    BY DEF Task, Fit, Op, Stage, InviteOps
  <2>2. task' = [task EXCEPT ![r] = t] /\ using' = [using EXCEPT ![r] = i]
    BY <1>1 DEF ReadInvite, Become
  <2> HIDE DEF t
  <2>3. task' \in [Request -> Task] /\ \A q \in Request : Fit(task'[q]) /\ Uses(q)'
    BY <2>1, <2>2 DEF Uses
  <2> QED BY <1>1, <2>2, <2>3 DEF ReadInvite
<1>2. CASE FindMember(r)
  <2>1. task[r].op = "accept" /\ "accept" # None /\ using' = using
    BY <1>0, <1>2 DEF FindMember, Fit, Op, inviteVars
  <2>2. task' \in [Request -> Task] /\ \A q \in Request : Fit(task'[q]) /\ Uses(q)'
    BY <1>0, <1>2, <2>1, ProceedTyping DEF FindMember, Reach, Fit, Task, Stage, InviteOps
  <2> QED BY <1>2, <2>2 DEF FindMember, inviteVars
<1>3. CASE Join(r)
  <2>1. /\ task[r].op = "accept" /\ "accept" # None /\ task[r].user \in User
        /\ using[r] \in Invite /\ using' = using
    BY <1>0, <1>3 DEF Join, Fit, Op, Uses, InviteOps
  <2>2. task' \in [Request -> Task] /\ \A q \in Request : Fit(task'[q]) /\ Uses(q)'
    BY <1>0, <1>3, <2>1, ProceedTyping DEF Join, Fit, Task, Stage, RowId
  <2>3. rows' \in [RowId -> Membership \cup {None}]
    BY <1>3, <2>1 DEF Join, Membership, RowId
  <2>4. joined' \in SUBSET (Invite \X User)
    BY <1>3, <2>1 DEF Join
  <2>5. sync' \in [Request -> Sync]
    BY <1>3, ListTyping DEF Join
  <2> QED BY <1>3, <2>2, <2>3, <2>4, <2>5 DEF Join
<1>4. CASE JoinRefused(r)
  <2>1. task[r].op = "accept" /\ "accept" # None /\ using' = using
    BY <1>0, <1>4 DEF JoinRefused, Fit, Op, inviteVars
  <2>2. task' \in [Request -> Task] /\ \A q \in Request : Fit(task'[q]) /\ Uses(q)'
    BY <1>0, <1>4, <2>1, ProceedTyping DEF JoinRefused, Reach, Fit, Task, Stage
  <2> QED BY <1>4, <2>2 DEF JoinRefused, inviteVars
<1>5. CASE GiveRoles(r)
  <2>1. task[r].op = "accept" /\ "accept" # None /\ using' = using /\ using[r] \in Invite
    BY <1>0, <1>5 DEF GiveRoles, Op, inviteVars, Uses, InviteOps
  <2>2. m \in LiveRows /\ Granted(using[r]) \in SUBSET Role
    BY <1>5, <2>1, GrantedRoles DEF GiveRoles, RowStays, Uses, Fit, InviteOps
  <2>3. rows' \in [RowId -> Membership \cup {None}]
    BY <1>5, <2>2, RowTyping DEF GiveRoles
  <2>4. task' \in [Request -> Task] /\ \A q \in Request : Fit(task'[q]) /\ Uses(q)'
    BY <1>0, <1>5, <2>1, ProceedTyping DEF GiveRoles, Reach, Fit, Task, Stage, InviteOps
  <2> QED BY <1>5, <2>3, <2>4 DEF GiveRoles, inviteVars
<1>6. CASE Answer(r)
  <2>1. task[r].op \in InviteOps /\ task[r].op # None /\ using' = using
    BY <1>0, <1>6 DEF Answer, Fit, Op, InviteOps
  <2>2. task' \in [Request -> Task] /\ \A q \in Request : Fit(task'[q]) /\ Uses(q)'
    BY <1>0, <1>6, <2>1, ProceedTyping DEF Answer, Reach, Fit, Task, Stage
  <2>3. status' \in [Invite -> Status]
    BY <1>6 DEF Answer, AnsweredStatus, Status
  <2> QED BY <1>6, <2>2, <2>3 DEF Answer
<1> QED BY <1>1, <1>2, <1>3, <1>4, <1>5, <1>6

LEMMA InitTyping == Init => Typing
<1> SUFFICES ASSUME Init PROVE Typing
  OBVIOUS
<1>1. rows \in [RowId -> Membership \cup {None}]
  BY DEF Init, MemberInit, Membership
<1>2. policy \in [Layer -> SUBSET User]
  BY DEF Init, MemberInit
<1>3. NoTask \in Task /\ Fit(NoTask) /\ NoTask.op = None /\ NoSync \in Sync
  BY DEF NoTask, Task, Fit, Op, Stage, NoSync, Sync
<1>4. task \in [Request -> Task] /\ sync \in [Request -> Sync]
      /\ \A r \in Request : task[r] = NoTask
  BY <1>3 DEF Init, MemberInit
<1>5. \A r \in Request : Fit(task[r]) /\ Uses(r)
  BY <1>3, <1>4 DEF Init, Uses, InviteOps, Op
<1> QED BY <1>1, <1>2, <1>4, <1>5 DEF Init, MemberInit, Typing, Shapes, Status

LEMMA NextTyping == Typing /\ [Next]_vars => Typing'
<1> SUFFICES ASSUME Typing, [Next]_vars PROVE Typing'
  OBVIOUS
<1>1. ASSUME NEW i \in Invite, Expire(i) PROVE Typing'
  BY <1>1 DEF Expire, Typing, Shapes, Uses
<1>2. ASSUME NEW r \in Request, MemberRequest(r) \/ MemberStep(r), UNCHANGED inviteVars
      PROVE  Typing'
  BY <1>2, RequestTyping, WorkTyping, SyncTyping, SyncEndTyping DEF MemberStep
<1>3. ASSUME NEW r \in Request,
             \/ \E op \in InviteOps, i \in Invite, u \in User : ReadInvite(r, op, i, u)
             \/ FindMember(r) \/ Join(r) \/ JoinRefused(r) \/ GiveRoles(r) \/ Answer(r)
      PROVE  Typing'
  BY <1>3, InviteTyping
<1>4. CASE UNCHANGED vars
  BY <1>4 DEF vars, Typing, Shapes, Uses
<1> QED BY <1>1, <1>2, <1>3, <1>4 DEF Next, InviteOps, AcceptInvite, DeclineInvite, CancelInvite, AnswerOnPage

-----------------------------------------------------------------------------
(* What a step does to the requests.                                       *)

\* A request that answers an invite.
InviteStep(r) ==
  \/ \E op \in InviteOps, i \in Invite, u \in User : ReadInvite(r, op, i, u)
  \/ FindMember(r) \/ Join(r) \/ JoinRefused(r) \/ GiveRoles(r) \/ Answer(r)

StepOf(r) ==
  \/ (MemberRequest(r) \/ MemberStep(r)) /\ UNCHANGED inviteVars
  \/ InviteStep(r)

\* A request keeps its operation, its user and, once it has one, its row.
Keeps(r) ==
  /\ \A q \in Request \ {r} : task'[q] = task[q]
  /\ task[r].stage # "new" =>
       /\ task'[r].op = task[r].op
       /\ task'[r].user = task[r].user
       /\ task[r].row # None => task'[r].row = task[r].row

LEMMA StepKeeps ==
  ASSUME Typing, NEW r \in Request, StepOf(r)
  PROVE  Keeps(r)
<1>0. Fit(task[r])
  BY DEF Typing
<1>1. ASSUME NEW t, Become(r, t), task[r].stage = "new" PROVE Keeps(r)
  BY <1>1 DEF Typing, Shapes, Become, Keeps
<1>2. ASSUME NEW stage, NEW row, NEW rs, Proceed(r, stage, row, rs),
             task[r].row # None => row = task[r].row
      PROVE  Keeps(r)
  BY <1>2 DEF Keeps, Proceed, Become, Typing, Shapes
<1>3. CASE MemberRequest(r)
  BY <1>1, <1>3 DEF MemberRequest, Leave, Update, Ensure, CreateLayer, UpdateLayer
<1>4. CASE MemberStep(r)
  <2>1. CASE SyncRead(r) \/ SyncPush(r)
    BY <2>1 DEF SyncRead, SyncPush, Keeps
  <2>2. CASE SyncFail(r) \/ Delete(r) \/ ClearRoles(r) \/ SetRoles(r) \/ Save(r) \/ Fail(r)
    BY <1>2, <2>2 DEF SyncFail, Delete, ClearRoles, SetRoles, Save, Fail, Reach
  <2>3. CASE AddRole(r)
    BY <1>2, <2>3 DEF AddRole, Reach
  <2>4. CASE EndSync(r)
    BY <1>0, <1>2, <2>4 DEF EndSync, Reach, Fit
  <2>5. CASE FindOrInsert(r)
    BY <1>0, <1>2, <2>5 DEF FindOrInsert, Reach, Fit
  <2> QED BY <1>4, <2>1, <2>2, <2>3, <2>4, <2>5 DEF MemberStep
<1>5. CASE InviteStep(r)
  <2>1. CASE \E op \in InviteOps, i \in Invite, u \in User : ReadInvite(r, op, i, u)
    BY <1>1, <2>1 DEF ReadInvite
  <2>2. CASE FindMember(r) \/ JoinRefused(r) \/ GiveRoles(r) \/ Answer(r)
    BY <1>2, <2>2 DEF FindMember, JoinRefused, GiveRoles, Answer, Reach
  <2>3. CASE Join(r)
    BY <1>0, <1>2, <2>3 DEF Join, Fit
  <2> QED BY <1>5, <2>1, <2>2, <2>3 DEF InviteStep
<1> QED BY <1>3, <1>4, <1>5 DEF StepOf

LEMMA NextSteps ==
  [Next]_vars => \/ \E i \in Invite : Expire(i)
                 \/ \E r \in Request : StepOf(r)
                 \/ UNCHANGED vars
  BY DEF Next, StepOf, InviteStep, InviteOps, AcceptInvite, DeclineInvite,
         CancelInvite, AnswerOnPage

-----------------------------------------------------------------------------
(* A closed invite admits nobody.                                          *)

\* A request that may still create a membership.
Accepting(r, i) ==
  using[r] = i /\ task[r].op = "accept" /\ task[r].stage \in {"check", "join"}

\* Only reading an invite that can be accepted begins to accept it.
LEMMA AcceptingBegins ==
  ASSUME Typing, NEW r \in Request, StepOf(r), NEW q \in Request, NEW i \in Invite,
         Accepting(q, i)'
  PROVE  Accepting(q, i) \/ (status[i] = "pending" /\ i \notin expired)
<1>0. Keeps(r) /\ Fit(task[r]) /\ Typing'
  BY StepKeeps, NextTyping DEF Typing, StepOf, Next, InviteStep, InviteOps, AcceptInvite,
         DeclineInvite, CancelInvite
<1>1. CASE (MemberRequest(r) \/ MemberStep(r)) /\ UNCHANGED inviteVars
  <2>1. using' = using
    BY <1>1 DEF inviteVars
  <2>2. CASE task' = task
    BY <2>1, <2>2 DEF Accepting
  <2>3. CASE task'[r].stage \notin {"check", "join"}
    BY <1>0, <2>1, <2>3 DEF Accepting, Keeps
  <2>4. ASSUME NEW t, Become(r, t), t.stage \notin {"check", "join"}
        PROVE  task'[r].stage \notin {"check", "join"}
    BY <2>4 DEF Typing, Shapes, Become
  <2>5. ASSUME NEW stage, NEW row, NEW rs, Proceed(r, stage, row, rs),
               stage \notin {"check", "join"}
        PROVE  task'[r].stage \notin {"check", "join"}
    BY <2>5 DEF Proceed, Become, Typing, Shapes
  <2>6. CASE MemberRequest(r)
    BY <2>3, <2>4, <2>6 DEF MemberRequest, Leave, Update, Ensure, CreateLayer, UpdateLayer
  <2>7. CASE SyncRead(r) \/ SyncPush(r)
    BY <2>2, <2>7 DEF SyncRead, SyncPush
  <2>8. CASE SyncFail(r) \/ Delete(r) \/ ClearRoles(r) \/ SetRoles(r) \/ Save(r) \/ Fail(r)
    BY <2>3, <2>5, <2>8 DEF SyncFail, Delete, ClearRoles, SetRoles, Save, Fail, Reach
  <2>9. CASE AddRole(r)
    <3>1. CASE \E role \in task[r].roles :
                 Proceed(r, "roles", task[r].row, task[r].roles \ {role})
      BY <2>3, <2>5, <3>1
    <3>2. CASE Reach(r, "done")
      BY <2>3, <2>5, <3>2 DEF Reach
    <3> QED BY <2>9, <3>1, <3>2 DEF AddRole
  <2>10. CASE EndSync(r)
    BY <2>3, <2>5, <2>10 DEF EndSync, Reach, AfterGet, AfterSave
  <2>11. CASE FindOrInsert(r)
    BY <2>3, <2>5, <2>11 DEF FindOrInsert, Reach, AfterGet
  <2> QED BY <1>1, <2>6, <2>7, <2>8, <2>9, <2>10, <2>11 DEF MemberStep
<1>2. CASE InviteStep(r)
  <2>1. ASSUME NEW op \in InviteOps, NEW j \in Invite, NEW u \in User, ReadInvite(r, op, j, u)
        PROVE  Accepting(q, i) \/ (status[i] = "pending" /\ i \notin expired)
    <3>1. CASE q = r
      <4>1. using'[r] = j /\ task'[r].op = op
        BY <2>1 DEF ReadInvite, Become, Typing, Shapes
      <4> QED BY <2>1, <3>1, <4>1 DEF ReadInvite, Readable, Accepting
    <3>2. CASE q # r
      BY <1>0, <2>1, <3>2 DEF ReadInvite, Keeps, Accepting, Typing, Shapes
    <3> QED BY <3>1, <3>2
  <2>2. CASE FindMember(r)
    <3>1. using' = using /\ task[r].stage = "check" /\ task[r].op = "accept"
      BY <1>0, <2>2 DEF FindMember, inviteVars, Fit
    <3> QED BY <1>0, <3>1 DEF Accepting, Keeps
  <2>3. ASSUME NEW stage, NEW row, NEW rs, Proceed(r, stage, row, rs),
               stage \notin {"check", "join"}, using' = using
        PROVE  Accepting(q, i)
    BY <1>0, <2>3 DEF Keeps, Accepting, Proceed, Become, Typing, Shapes
  <2>4. CASE Join(r)
    BY <2>3, <2>4 DEF Join
  <2>5. CASE JoinRefused(r) \/ GiveRoles(r) \/ Answer(r)
    BY <2>3, <2>5 DEF JoinRefused, GiveRoles, Answer, Reach, inviteVars
  <2> QED BY <1>2, <2>1, <2>2, <2>4, <2>5 DEF InviteStep
<1> QED BY <1>1, <1>2 DEF StepOf

\* An invite that has been answered, or has expired, and that no request is
\* accepting stays so and lets nobody else in (Invite.is_valid, accept).
THEOREM ClosedInvite == Spec => ClosedInviteAdmitsNobody
<1> DEFINE Shut(i) == status[i] # "pending" \/ i \in expired
<1>1. ASSUME Typing, [Next]_vars, NEW i \in Invite, Closed(i)
      PROVE  Closed(i)' /\ \A u \in User : <<i, u>> \in joined' => <<i, u>> \in joined
  <2>1. Shut(i) /\ \A q \in Request : ~Accepting(q, i)
    BY <1>1 DEF Closed, Accepting
  <2>2. CASE \E j \in Invite : Expire(j)
    BY <1>1, <2>1, <2>2 DEF Expire, Closed
  <2>3. CASE UNCHANGED vars
    BY <1>1, <2>3 DEF vars, Closed
  <2>4. ASSUME NEW r \in Request, StepOf(r)
        PROVE  Closed(i)' /\ \A u \in User : <<i, u>> \in joined' => <<i, u>> \in joined
    <3>1. \A q \in Request : ~Accepting(q, i)'
      BY <1>1, <2>1, <2>4, AcceptingBegins
    <3>2. Shut(i)'
      <4>1. CASE status' = status /\ expired' = expired
        BY <2>1, <4>1
      <4>2. CASE Answer(r)
        <5>1. \A op : AnsweredStatus(op) # "pending"
          BY DEF AnsweredStatus
        <5> QED BY <1>1, <2>1, <4>2, <5>1 DEF Answer, Typing, Shapes
      <4> QED BY <2>4, <4>1, <4>2 DEF StepOf, InviteStep, inviteVars, ReadInvite, FindMember,
                                      Join, JoinRefused, GiveRoles
    <3>3. \A u \in User : <<i, u>> \in joined' => <<i, u>> \in joined
      <4>1. CASE joined' = joined
        BY <4>1
      <4>2. CASE Join(r)
        <5>1. using[r] # i
          BY <1>1, <2>1, <4>2 DEF Join, Accepting, Typing, Fit
        <5> QED BY <4>2, <5>1 DEF Join
      <4> QED BY <2>4, <4>1, <4>2 DEF StepOf, InviteStep, inviteVars, ReadInvite, FindMember,
                                      Answer, JoinRefused, GiveRoles
    <3> QED BY <3>1, <3>2 , <3>3 DEF Closed, Accepting
  <2> QED BY <1>1, <2>2, <2>3, <2>4, NextSteps
<1>2. Typing /\ [Next]_vars =>
        [\A i \in Invite :
           Closed(i) => Closed(i)' /\ \A u \in User : <<i, u>> \in joined' => <<i, u>> \in joined]_vars
  BY <1>1
<1> QED BY InitTyping, NextTyping, <1>2, PTL DEF Spec, ClosedInviteAdmitsNobody

-----------------------------------------------------------------------------
(* A user has at most one membership: the unique key, and the waiting for  *)
(* an insertion of the same key.                                           *)

OneRow ==
  \A m, n \in RowId :
    rows[m] # None /\ rows[n] # None /\ rows[m].user = rows[n].user => m = n

InsertingAlone ==
  \A r \in Request : task[r].stage = "inserting" =>
    /\ RowsOf(task[r].user) = {}
    /\ \A q \in Request : task[q].stage = "inserting" /\ task[q].user = task[r].user => q = r

Unique == OneRow /\ InsertingAlone

\* No row is new, and every live row keeps its user.
SameUsers ==
  \A m \in RowId : rows'[m] # None => rows[m] # None /\ rows'[m].user = rows[m].user

NoInsertion ==
  \A q \in Request : task'[q].stage = "inserting" => task'[q] = task[q]

LEMMA WritesKeepUsers ==
  ASSUME Typing, NEW m \in RowId, NEW rs, WriteRoles(m, rs), m \in LiveRows
  PROVE  SameUsers
  BY DEF Typing, Shapes, WriteRoles, SameUsers, LiveRows

LEMMA UniqueKept ==
  ASSUME Typing, Unique, SameUsers, NoInsertion
  PROVE  Unique'
<1>1. OneRow'
  BY DEF Unique, OneRow, SameUsers
<1>2. \A u : RowsOf(u) = {} => RowsOf(u)' = {}
  BY DEF RowsOf, LiveRows, SameUsers
<1>3. InsertingAlone'
  BY <1>2 DEF Unique, InsertingAlone, NoInsertion
<1> QED BY <1>1, <1>3 DEF Unique

\* A row for a user who has none, whom nobody else is inserting.
LEMMA UniqueAdded ==
  ASSUME Typing, Unique, NEW m \in RowId, NEW u \in User, RowsOf(u) = {},
         rows' = [rows EXCEPT ![m] = [user |-> u, roles |-> {}]],
         NoInsertion,
         \A q \in Request : task'[q].stage = "inserting" => task'[q].user # u
  PROVE  Unique'
<1>1. /\ rows'[m].user = u
      /\ \A n \in RowId \ {m} : rows'[n] = rows[n]
  BY DEF Typing, Shapes
<1>2. \A n \in RowId : rows[n] # None => rows[n].user # u
  BY DEF RowsOf, LiveRows
<1>3. OneRow'
  BY <1>1, <1>2 DEF Unique, OneRow
<1>4. \A v : v # u /\ RowsOf(v) = {} => RowsOf(v)' = {}
  BY <1>1 DEF RowsOf, LiveRows
<1>5. InsertingAlone'
  BY <1>4 DEF Unique, InsertingAlone, NoInsertion
<1> QED BY <1>3, <1>5 DEF Unique

LEMMA UniqueStep ==
  ASSUME Typing, Unique, NEW r \in Request, StepOf(r)
  PROVE  Unique'
<1> DEFINE m == task[r].row
<1>0. Keeps(r) /\ task[r] \in Task /\ Fit(task[r])
  BY StepKeeps DEF Typing, Shapes
<1>1. ASSUME rows' = rows PROVE SameUsers
  BY <1>1 DEF SameUsers
<1>2. ASSUME task'[r] = task[r] \/ task'[r].stage # "inserting" PROVE NoInsertion
  BY <1>0, <1>2 DEF Keeps, NoInsertion
<1>3. ASSUME NEW t, Become(r, t), t.stage # "inserting" PROVE task'[r].stage # "inserting"
  BY <1>3 DEF Typing, Shapes, Become
<1>4. ASSUME NEW stage, NEW row, NEW rs, Proceed(r, stage, row, rs), stage # "inserting"
      PROVE  task'[r].stage # "inserting"
  BY <1>4 DEF Typing, Shapes, Proceed, Become
<1>5. CASE MemberRequest(r)
  <2>1. rows' = rows /\ task'[r].stage # "inserting"
    BY <1>3, <1>5 DEF MemberRequest, Leave, Update, Ensure, CreateLayer, UpdateLayer
  <2> QED BY <1>1, <1>2, <2>1, UniqueKept
<1>6. CASE SyncRead(r) \/ SyncPush(r) \/ SyncFail(r) \/ Delete(r) \/ Fail(r)
  <2>1. rows' = rows
    BY <1>6 DEF SyncRead, SyncPush, SyncFail, Delete, Fail
  <2>2. task'[r] = task[r] \/ task'[r].stage # "inserting"
    BY <1>4, <1>6 DEF SyncRead, SyncPush, SyncFail, Delete, Fail, Reach
  <2> QED BY <1>1, <1>2, <2>1, <2>2, UniqueKept
<1>7. CASE EndSync(r)
  <2>1. task'[r].stage # "inserting"
    BY <1>4, <1>7 DEF EndSync, Reach, AfterGet, AfterSave
  <2>2. CASE task[r].stage = "inserting"
    <3>1. task[r].user \in User /\ r \in RowId /\ RowsOf(task[r].user) = {}
      BY <1>0, <2>2 DEF Fit, Op, RowId, Unique, InsertingAlone
    <3>2. \A q \in Request : task'[q].stage = "inserting" => task'[q].user # task[r].user
      BY <1>0, <2>1, <2>2 DEF Keeps, Unique, InsertingAlone
    <3>3. rows' = [rows EXCEPT ![r] = [user |-> task[r].user, roles |-> {}]]
      BY <1>7, <2>2 DEF EndSync
    <3> QED BY <1>2, <2>1, <3>1, <3>2, <3>3, UniqueAdded
  <2>3. CASE task[r].stage # "inserting"
    <3>1. SameUsers
      BY <1>7, <2>3 DEF EndSync, SameUsers, Typing, Shapes
    <3> QED BY <1>2, <2>1, <3>1, UniqueKept
  <2> QED BY <2>2, <2>3
<1>8. CASE FindOrInsert(r)
  <2>1. rows' = rows
    BY <1>8 DEF FindOrInsert
  <2>2. CASE RowsOf(task[r].user) = {} /\ ~Inserting(task[r].user)
    <3>1. \A q \in Request : task'[q].stage = "inserting" /\ q # r => task'[q].user # task[r].user
      BY <1>0, <2>2 DEF Keeps, Inserting
    <3>2. task'[r].user = task[r].user
      BY <1>0, <1>8 DEF Keeps, FindOrInsert
    <3>3. \A u : RowsOf(u)' = RowsOf(u)
      BY <2>1 DEF RowsOf, LiveRows
    <3>4. OneRow'
      BY <2>1 DEF Unique, OneRow
    <3>5. InsertingAlone'
      BY <1>0, <2>2, <3>1, <3>2, <3>3 DEF Keeps, Unique, InsertingAlone
    <3> QED BY <3>4, <3>5 DEF Unique
  <2>3. CASE \E n \in RowsOf(task[r].user) : Proceed(r, AfterGet(task[r].op), n, task[r].roles)
    <3>1. task'[r].stage # "inserting"
      BY <1>4, <2>3 DEF AfterGet
    <3> QED BY <1>1, <1>2, <2>1, <3>1, UniqueKept
  <2> QED BY <1>8, <2>2, <2>3 DEF FindOrInsert
<1>9. CASE ClearRoles(r) \/ SetRoles(r) \/ AddRole(r) \/ GiveRoles(r)
  <2>1. task'[r].stage # "inserting"
    <3>1. CASE \E role \in task[r].roles : Proceed(r, "roles", m, task[r].roles \ {role})
      BY <1>4, <3>1
    <3>2. CASE ~\E role \in task[r].roles : Proceed(r, "roles", m, task[r].roles \ {role})
      BY <1>4, <1>9, <3>2 DEF ClearRoles, SetRoles, AddRole, GiveRoles, Reach
    <3> QED BY <3>1, <3>2
  <2>2. CASE rows' = rows
    BY <1>1, <1>2, <2>1, <2>2, UniqueKept
  <2>3. ASSUME NEW rs, WriteRoles(m, rs), m \in LiveRows PROVE Unique'
    BY <1>2, <2>1, <2>3, WritesKeepUsers, UniqueKept DEF LiveRows
  <2> QED BY <1>9, <2>2, <2>3 DEF ClearRoles, SetRoles, AddRole, GiveRoles, RowStays
<1>10. CASE Save(r)
  <2>1. task'[r].stage # "inserting" /\ task[r].user \in User /\ m \in RowId
    BY <1>0, <1>4, <1>10 DEF Save, Reach, Fit, Op
  <2>2. CASE rows' = rows
    BY <1>1, <1>2, <2>1, <2>2, UniqueKept
  <2>3. CASE m \notin LiveRows
    <3>1. \A q \in Request : task'[q].stage = "inserting" => task'[q].user # task[r].user
      BY <1>0, <1>10, <2>1, <2>3 DEF Save, Keeps, Inserting
    <3> QED BY <1>2, <1>10, <2>1, <2>3, <3>1, UniqueAdded DEF Save
  <2> QED BY <1>10, <2>2, <2>3 DEF Save
<1>11. CASE (\E op \in InviteOps, i \in Invite, u \in User : ReadInvite(r, op, i, u))
            \/ FindMember(r) \/ JoinRefused(r) \/ Answer(r)
  <2>1. rows' = rows
    BY <1>11 DEF ReadInvite, FindMember, JoinRefused, Answer
  <2>2. task'[r].stage # "inserting"
    <3>1. CASE \E op \in InviteOps, i \in Invite, u \in User : ReadInvite(r, op, i, u)
      BY <1>3, <3>1 DEF ReadInvite
    <3> QED BY <1>4, <1>11, <3>1 DEF FindMember, JoinRefused, Answer, Reach
  <2> QED BY <1>1, <1>2, <2>1, <2>2, UniqueKept
<1>12. CASE Join(r)
  <2>1. task'[r].stage # "inserting" /\ task[r].user \in User /\ r \in RowId
    BY <1>0, <1>4, <1>12 DEF Join, Fit, Op, RowId
  <2>2. \A q \in Request : task'[q].stage = "inserting" => task'[q].user # task[r].user
    BY <1>0, <1>12, <2>1 DEF Join, Keeps, Inserting
  <2> QED BY <1>2, <1>12, <2>1, <2>2, UniqueAdded DEF Join
<1> QED BY <1>5, <1>6, <1>7, <1>8, <1>9, <1>10, <1>11, <1>12
        DEF StepOf, InviteStep, MemberStep

\* Every variable keeps its type, and a user never has two memberships of the
\* organization, whatever requests insert and save them (Membership.Meta,
\* update_membership, accept_invite).
THEOREM TypeCorrect == Spec => []InviteTypeOK
<1>1. Init => Typing /\ Unique
  <2>1. ASSUME Init PROVE OneRow
    BY <2>1 DEF Init, MemberInit, OneRow
  <2>2. ASSUME Init PROVE InsertingAlone
    BY <2>2 DEF Init, MemberInit, NoTask, InsertingAlone
  <2> QED BY <2>1, <2>2, InitTyping DEF Unique
<1>2. Typing /\ Unique /\ [Next]_vars => (Typing /\ Unique)'
  <2>1. ASSUME Typing, Unique, \E i \in Invite : Expire(i) PROVE Unique'
    BY <2>1 DEF Expire, Unique, OneRow, InsertingAlone, RowsOf, LiveRows
  <2>2. ASSUME Typing, Unique, UNCHANGED vars PROVE Unique'
    BY <2>2 DEF vars, Unique, OneRow, InsertingAlone, RowsOf, LiveRows
  <2> QED BY <2>1, <2>2, NextTyping, NextSteps, UniqueStep
<1>3. Typing /\ Unique => InviteTypeOK
  BY DEF Typing, Shapes, Uses, Unique, OneRow, InviteTypeOK, MemberTypeOK, InviteOps
<1> QED BY <1>1, <1>2, <1>3, PTL DEF Spec

-----------------------------------------------------------------------------
(* A row belongs to one user for good: that of the request that inserts it *)
(* or of the seed, and requests that refer to it act on that user.         *)

AtHome(m, u, ts) ==
  IF m \in Seed THEN u = SeedUser[m] ELSE u = ts[m].user /\ ts[m].row = m

Home ==
  /\ \A m \in RowId : rows[m] # None => AtHome(m, rows[m].user, task)
  /\ \A r \in Request : task[r].row # None => AtHome(task[r].row, task[r].user, task)
  /\ \A r \in Request : task[r].op = "accept" => task[r].row \in {None, r}

Writers == {"update", "add", "owner", "accept"}

\* Only the row of the request changes, and its user does not.
RowMove(r) ==
  \A m \in RowId : rows'[m] # rows[m] =>
    \/ rows'[m] = None
    \/ /\ task'[r].row = m
       /\ task'[r].op \in Writers
       /\ rows'[m].user = task'[r].user \/ (rows[m] # None /\ rows'[m].user = rows[m].user)

\* Where the row of a request comes from.
RowSource(r) ==
  \/ task'[r].row \in {None, r}
  \/ task[r].stage # "new" /\ task'[r].row = task[r].row
  \/ /\ task'[r].row \in LiveRows
     /\ task'[r].user = rows[task'[r].row].user
     /\ task'[r].op # "accept"

LEMMA RowMoves ==
  ASSUME Typing, NEW r \in Request, StepOf(r)
  PROVE  RowMove(r) /\ RowSource(r)
<1> DEFINE m == task[r].row
<1>0. Keeps(r) /\ task[r] \in Task /\ Fit(task[r])
  BY StepKeeps DEF Typing, Shapes
<1>1. ASSUME rows' = rows PROVE RowMove(r)
  BY <1>1 DEF RowMove
<1>2. ASSUME NEW t, Become(r, t) PROVE task'[r] = t
  BY <1>2 DEF Typing, Shapes, Become
<1>3. ASSUME NEW stage, NEW row, NEW rs, Proceed(r, stage, row, rs)
      PROVE  task'[r].row = row /\ task'[r].op = task[r].op /\ task'[r].user = task[r].user
  BY <1>3 DEF Typing, Shapes, Proceed, Become
<1>4. ASSUME NEW rs, WriteRoles(m, rs), m \in LiveRows, task'[r].row = m, task'[r].op \in Writers
      PROVE  RowMove(r)
  BY <1>4 DEF Typing, Shapes, WriteRoles, RowMove, LiveRows
<1>5. CASE MemberRequest(r)
  <2>1. rows' = rows
    BY <1>5 DEF MemberRequest, Leave, Update, Ensure, CreateLayer, UpdateLayer
  <2>2. ASSUME NEW n \in RowId, Leave(r, n) PROVE RowSource(r)
    BY <1>2, <2>2 DEF Leave, RowSource
  <2>3. ASSUME NEW n \in RowId, NEW rs \in SUBSET Role, Update(r, n, rs) PROVE RowSource(r)
    BY <1>2, <2>3 DEF Update, RowSource
  <2>4. ASSUME NEW op, NEW u, NEW rs, Ensure(r, op, u, rs) PROVE RowSource(r)
    BY <1>2, <2>4 DEF Ensure, RowSource
  <2>5. ASSUME NEW l \in Layer, CreateLayer(r, l) \/ UpdateLayer(r, l) PROVE RowSource(r)
    BY <1>2, <2>5 DEF CreateLayer, UpdateLayer, RowSource
  <2> QED BY <1>1, <1>5, <2>1, <2>2, <2>3, <2>4, <2>5 DEF MemberRequest
<1>6. CASE SyncRead(r) \/ SyncPush(r) \/ SyncFail(r) \/ Delete(r) \/ Fail(r)
  <2>1. rows' = rows
    BY <1>6 DEF SyncRead, SyncPush, SyncFail, Delete, Fail
  <2>2. task'[r].row = task[r].row
    BY <1>3, <1>6 DEF SyncRead, SyncPush, SyncFail, Delete, Fail, Reach
  <2>3. task[r].stage = "new" => task[r].row = None
    BY <1>0 DEF Fit, NoTask
  <2> QED BY <1>1, <2>1, <2>2, <2>3 DEF RowSource
<1>7. CASE EndSync(r)
  <2>1. CASE task[r].stage = "inserting"
    <3>1. task'[r].row = r /\ task'[r].op \in Writers /\ task'[r].user = task[r].user
      BY <1>0, <1>3, <1>7, <2>1 DEF EndSync, Fit, Writers
    <3>2. rows' = [rows EXCEPT ![r] = [user |-> task[r].user, roles |-> {}]]
      BY <1>7, <2>1 DEF EndSync
    <3> QED BY <3>1, <3>2 DEF Typing, Shapes, RowMove, RowSource
  <2>2. CASE task[r].stage # "inserting"
    <3>1. task'[r].row = task[r].row /\ task[r].stage # "new"
      BY <1>3, <1>7, <2>2 DEF EndSync, Reach
    <3>2. RowMove(r)
      BY <1>7, <2>2 DEF EndSync, RowMove, Typing, Shapes
    <3> QED BY <3>1, <3>2 DEF RowSource
  <2> QED BY <2>1, <2>2
<1>8. CASE FindOrInsert(r)
  <2>1. rows' = rows /\ task[r].stage # "new" /\ task[r].op # "accept"
    BY <1>0, <1>8 DEF FindOrInsert, Fit
  <2>2. CASE Reach(r, "inserting")
    BY <1>1, <1>3, <2>1, <2>2 DEF Reach, RowSource
  <2>3. ASSUME NEW n \in RowsOf(task[r].user), Proceed(r, AfterGet(task[r].op), n, task[r].roles)
        PROVE  RowMove(r) /\ RowSource(r)
    BY <1>1, <1>3, <2>1, <2>3 DEF RowSource, RowsOf
  <2> QED BY <1>8, <2>2, <2>3 DEF FindOrInsert
<1>9. CASE ClearRoles(r) \/ SetRoles(r) \/ AddRole(r) \/ GiveRoles(r)
  <2>1. task'[r].row = m /\ task'[r].op = task[r].op
    <3>1. CASE \E role \in task[r].roles : Proceed(r, "roles", m, task[r].roles \ {role})
      BY <1>3, <3>1
    <3>2. CASE ~\E role \in task[r].roles : Proceed(r, "roles", m, task[r].roles \ {role})
      BY <1>3, <1>9, <3>2 DEF ClearRoles, SetRoles, AddRole, GiveRoles, Reach
    <3> QED BY <3>1, <3>2
  <2>2. RowSource(r)
    BY <1>9, <2>1 DEF ClearRoles, SetRoles, AddRole, GiveRoles, RowSource
  <2>3. CASE rows' = rows
    BY <1>1, <2>2, <2>3
  <2>4. task[r].op \in Writers
    BY <1>0, <1>9 DEF ClearRoles, SetRoles, AddRole, GiveRoles, Fit, Writers
  <2>5. ASSUME NEW rs, WriteRoles(m, rs), m \in LiveRows PROVE RowMove(r)
    BY <1>4, <2>1, <2>4, <2>5
  <2> QED BY <1>9, <2>2, <2>3, <2>5 DEF ClearRoles, SetRoles, AddRole, GiveRoles, RowStays
<1>10. CASE Save(r)
  <2>1. /\ task'[r].row = m /\ task'[r].op = task[r].op /\ task'[r].user = task[r].user
        /\ task[r].op \in Writers /\ m \in RowId
    BY <1>0, <1>3, <1>10 DEF Save, Reach, Fit, Writers
  <2>2. RowSource(r)
    BY <1>10, <2>1 DEF Save, RowSource
  <2>3. CASE rows' = [rows EXCEPT ![m] = [user |-> task[r].user, roles |-> {}]]
    <3>1. RowMove(r)
      BY <2>1, <2>3 DEF Typing, Shapes, RowMove
    <3> QED BY <2>2, <3>1
  <2> QED BY <1>1, <1>10, <2>2, <2>3 DEF Save
<1>11. CASE InviteStep(r) /\ ~GiveRoles(r) /\ ~Join(r)
  <2>1. rows' = rows
    BY <1>11 DEF InviteStep, ReadInvite, FindMember, JoinRefused, Answer
  <2>2. CASE \E op \in InviteOps, i \in Invite, u \in User : ReadInvite(r, op, i, u)
    BY <1>1, <1>2, <2>1, <2>2 DEF ReadInvite, RowSource
  <2>3. CASE FindMember(r) \/ JoinRefused(r) \/ Answer(r)
    BY <1>1, <1>3, <2>1, <2>3 DEF FindMember, JoinRefused, Answer, Reach, RowSource
  <2> QED BY <1>11, <2>2, <2>3 DEF InviteStep
<1>12. CASE Join(r)
  <2>1. task'[r].row = r /\ task'[r].op \in Writers /\ task'[r].user = task[r].user
    BY <1>0, <1>3, <1>12 DEF Join, Fit, Writers
  <2> QED BY <1>12, <2>1 DEF Join, Typing, Shapes, RowMove, RowSource
<1> QED BY <1>5, <1>6, <1>7, <1>8, <1>9, <1>10, <1>11, <1>12
        DEF StepOf, MemberStep, InviteStep

LEMMA HomeStep ==
  ASSUME Typing, Home, NEW r \in Request, StepOf(r)
  PROVE  Home'
<1>0. Keeps(r) /\ RowMove(r) /\ RowSource(r) /\ Typing'
  BY StepKeeps, RowMoves, NextTyping DEF Typing, StepOf, Next, InviteStep, InviteOps, AcceptInvite,
         DeclineInvite, CancelInvite
<1>1. \A q \in Request : task[q].stage = "new" => task[q].row = None
  BY DEF Typing, Fit, NoTask
<1>2. ASSUME NEW m \in RowId, NEW u, AtHome(m, u, task) PROVE AtHome(m, u, task')
  <2>1. CASE m \in Seed
    BY <1>2, <2>1 DEF AtHome
  <2>2. CASE m \in Request
    BY <1>0, <1>1, <1>2, <2>2 DEF AtHome, Keeps
  <2> QED BY <2>1, <2>2 DEF RowId
<1>3. \A q \in Request : task[q].row \in RowId \cup {None} /\ task'[q].row \in RowId \cup {None}
  BY <1>0 DEF Typing, Shapes, Task
<1>4. ASSUME task'[r].row # None PROVE AtHome(task'[r].row, task'[r].user, task')
  <2>1. CASE task'[r].row = r
    BY <2>1 DEF AtHome
  <2>2. CASE task[r].stage # "new" /\ task'[r].row = task[r].row
    BY <1>0, <1>2, <1>3, <1>4, <2>2 DEF Keeps, Home
  <2>3. CASE task'[r].row \in LiveRows /\ task'[r].user = rows[task'[r].row].user
    BY <1>2, <2>3 DEF Home, LiveRows
  <2> QED BY <1>0, <1>4, <2>1, <2>2, <2>3 DEF RowSource
<1>5. ASSUME NEW q \in Request, task'[q].row # None PROVE AtHome(task'[q].row, task'[q].user, task')
  <2>1. CASE q = r
    BY <1>4, <1>5, <2>1
  <2>2. CASE q # r
    BY <1>0, <1>2, <1>3, <1>5, <2>2 DEF Keeps, Home
  <2> QED BY <2>1, <2>2
<1>6. ASSUME NEW m \in RowId, rows'[m] # None PROVE AtHome(m, rows'[m].user, task')
  <2>1. CASE rows[m] # None /\ rows'[m].user = rows[m].user
    BY <1>2, <2>1 DEF Home
  <2>2. CASE task'[r].row = m /\ rows'[m].user = task'[r].user
    BY <1>4, <2>2
  <2> QED BY <1>0, <1>6, <2>1, <2>2 DEF RowMove
<1>7. ASSUME NEW q \in Request, task'[q].op = "accept" PROVE task'[q].row \in {None, q}
  <2>1. CASE q = r
    BY <1>0, <1>7, <2>1 DEF RowSource, Keeps, Home
  <2>2. CASE q # r
    BY <1>0, <1>7, <2>2 DEF Keeps, Home
  <2> QED BY <2>1, <2>2
<1> QED BY <1>5, <1>6, <1>7 DEF Home

LEMMA InitHome == Init => Home
<1>1. ASSUME Init PROVE \A m \in RowId : rows[m] # None => AtHome(m, rows[m].user, task)
  BY <1>1 DEF Init, MemberInit, AtHome
<1>2. ASSUME Init PROVE \A r \in Request : task[r] = NoTask
  BY <1>2 DEF Init, MemberInit
<1>3. None # "accept"
  BY DEF Op
<1> QED BY <1>1, <1>2, <1>3 DEF Home, NoTask

LEMMA NextHome == Typing /\ Home /\ [Next]_vars => Home'
<1>1. ASSUME Typing, Home, (\E i \in Invite : Expire(i)) \/ UNCHANGED vars PROVE Home'
  BY <1>1 DEF Expire, vars, Home, AtHome
<1> QED BY <1>1, HomeStep, NextSteps

-----------------------------------------------------------------------------
(* Accepting gives the roles of the invite.                                *)

\* RolesTouched, of the requests ts.
Touched(u, ts) == \E q \in Request : ts[q].op \in {"update", "add", "owner"} /\ ts[q].user = u

\* The roles are as given from the moment they have been set.
Granting ==
  \A r \in Request :
    /\ task[r].stage \in {"mark", "done"}
    /\ task[r].op = "accept"
    /\ task[r].row \in LiveRows
    /\ ~Touched(task[r].user, task)
    => rows[task[r].row].roles = Granted(using[r])

LEMMA TouchedForGood ==
  ASSUME Typing, NEW r \in Request, StepOf(r), NEW u, Touched(u, task)
  PROVE  Touched(u, task')
<1>1. PICK q \in Request : task[q].op \in {"update", "add", "owner"} /\ task[q].user = u
  BY DEF Touched
<1>2. task[q].stage # "new"
  BY <1>1 DEF Typing, Fit, NoTask, Op
<1>3. task'[q].op = task[q].op /\ task'[q].user = task[q].user
  BY <1>2, StepKeeps DEF Keeps
<1> QED BY <1>1, <1>3 DEF Touched

\* A request that has given its roles goes on to answer, and no further.
LEMMA GrantingMoves ==
  ASSUME Typing, NEW r \in Request, StepOf(r),
         task'[r].op = "accept", task'[r].stage \in {"mark", "done"}, task'[r].row # None
  PROVE  \/ GiveRoles(r)
         \/ /\ task[r].op = "accept" /\ task[r].stage \in {"mark", "done"}
            /\ task'[r].row = task[r].row /\ task'[r].user = task[r].user
            /\ rows' = rows /\ using' = using
<1>0. Fit(task[r])
  BY DEF Typing
<1>1. ASSUME NEW t, Become(r, t) PROVE task'[r] = t
  BY <1>1 DEF Typing, Shapes, Become
<1>2. ASSUME NEW stage, NEW row, NEW rs, Proceed(r, stage, row, rs)
      PROVE  /\ task'[r].row = row /\ task'[r].stage = stage
             /\ task'[r].op = task[r].op /\ task'[r].user = task[r].user
  BY <1>2 DEF Typing, Shapes, Proceed, Become
<1>3. ~MemberRequest(r)
  <2>1. ASSUME NEW n \in RowId, Leave(r, n) PROVE FALSE
    BY <1>1, <2>1 DEF Leave
  <2>2. ASSUME NEW n \in RowId, NEW rs \in SUBSET Role, Update(r, n, rs) PROVE FALSE
    BY <1>1, <2>2 DEF Update
  <2>3. ASSUME NEW op \in {"add", "owner"}, NEW u, NEW rs, Ensure(r, op, u, rs) PROVE FALSE
    BY <1>1, <2>3 DEF Ensure
  <2>4. ASSUME NEW l \in Layer, CreateLayer(r, l) \/ UpdateLayer(r, l) PROVE FALSE
    BY <1>1, <2>4 DEF CreateLayer, UpdateLayer
  <2> QED BY <2>1, <2>2, <2>3, <2>4 DEF MemberRequest
<1>4. CASE (SyncRead(r) \/ SyncPush(r)) /\ UNCHANGED inviteVars
  BY <1>4 DEF SyncRead, SyncPush, inviteVars
<1>5. ~SyncFail(r) /\ ~Delete(r) /\ ~Save(r) /\ ~Fail(r) /\ ~ClearRoles(r)
  BY <1>2 DEF SyncFail, Delete, Save, Fail, ClearRoles, Reach
<1>6. ~SetRoles(r) /\ ~FindOrInsert(r)
  <2>1. ~SetRoles(r)
    BY <1>2 DEF SetRoles, Reach
  <2>2. ~FindOrInsert(r)
    BY <1>0, <1>2 DEF FindOrInsert, Reach, AfterGet, Fit
  <2> QED BY <2>1, <2>2
<1>7. ~AddRole(r)
  BY <1>0, <1>2 DEF AddRole, Reach
<1>8. ~EndSync(r)
  <2>1. task[r].stage = "inserting" \/ task[r].stage = "deleting" => task[r].op # "accept"
    BY <1>0 DEF Fit
  <2> QED BY <1>2, <2>1 DEF EndSync, Reach, AfterGet, AfterSave
<1>9. CASE InviteStep(r)
  <2>1. ASSUME NEW op \in InviteOps, NEW i \in Invite, NEW u \in User, ReadInvite(r, op, i, u)
        PROVE  FALSE
    BY <1>1, <2>1 DEF ReadInvite
  <2>2. ~FindMember(r) /\ ~Join(r) /\ ~JoinRefused(r)
    BY <1>0, <1>2 DEF FindMember, Join, JoinRefused, Reach, Fit
  <2>3. CASE Answer(r)
    BY <1>2, <2>3 DEF Answer, Reach
  <2> QED BY <1>9, <2>1, <2>2, <2>3 DEF InviteStep
<1> QED BY <1>3, <1>4, <1>5, <1>6, <1>7, <1>8, <1>9 DEF StepOf, MemberStep

LEMMA GrantingStep ==
  ASSUME Typing, Home, Granting, NEW r \in Request, StepOf(r)
  PROVE  Granting'
<1>0. Keeps(r) /\ RowMove(r) /\ Home' /\ Typing'
  BY StepKeeps, RowMoves, HomeStep, NextTyping DEF StepOf, Next, InviteStep, InviteOps, AcceptInvite,
         DeclineInvite, CancelInvite
<1> SUFFICES ASSUME NEW q \in Request, task'[q].stage \in {"mark", "done"},
                    task'[q].op = "accept", task'[q].row \in LiveRows',
                    ~Touched(task'[q].user, task')
             PROVE  rows'[task'[q].row].roles = Granted(using'[q])
  BY DEF Granting
<1>1. task'[q].row = q /\ q \in RowId /\ rows'[q] # None
  BY <1>0 DEF Home, LiveRows, RowId
<1>2. CASE q = r
  <2>1. CASE GiveRoles(r)
    <3>1. using'[r] = using[r] /\ task'[r].row = task[r].row /\ task[r].row \in LiveRows
      BY <2>1 DEF GiveRoles, inviteVars, RowStays, Reach, Proceed, Become, Typing, Shapes
    <3> QED BY <1>1, <1>2, <2>1, <3>1 DEF GiveRoles, WriteRoles, Typing, Shapes, LiveRows
  <2>2. CASE /\ task[r].op = "accept" /\ task[r].stage \in {"mark", "done"}
             /\ task'[r].row = task[r].row /\ task'[r].user = task[r].user
             /\ rows' = rows /\ using' = using
    <3>1. ~Touched(task[r].user, task)
      BY <1>2, <2>2, TouchedForGood
    <3> QED BY <1>1, <1>2, <2>2, <3>1 DEF Granting, LiveRows
  <2> QED BY <1>1, <1>2, <2>1, <2>2, GrantingMoves DEF RowId
<1>3. CASE q # r
  <2>1. task'[q] = task[q] /\ using'[q] = using[q]
    <3>1. CASE using' = using
      BY <1>0, <1>3, <3>1 DEF Keeps
    <3>2. CASE \E op \in InviteOps, i \in Invite, u \in User : ReadInvite(r, op, i, u)
      BY <1>0, <1>3, <3>2 DEF Keeps, ReadInvite, Typing, Shapes
    <3> QED BY <3>1, <3>2 DEF StepOf, InviteStep, inviteVars, FindMember, Join, JoinRefused,
                              GiveRoles, Answer
  <2>2. rows'[q] = rows[q]
    <3>1. SUFFICES ASSUME rows'[q] # rows[q] PROVE FALSE
      OBVIOUS
    <3>2. task'[r].row = q /\ task'[r].op \in Writers
      BY <1>0, <1>1, <3>1 DEF RowMove
    <3>3. q # None /\ task'[r].op # "accept"
      BY <1>0, <1>1, <1>3, <3>2 DEF Home
    <3>4. task'[r].user = task'[q].user
      BY <1>0, <3>2, <3>3 DEF Home, AtHome
    <3>5. Touched(task'[q].user, task')
      BY <3>2, <3>3, <3>4 DEF Touched, Writers
    <3> QED BY <3>5
  <2>3. ~Touched(task[q].user, task)
    BY <2>1, TouchedForGood
  <2> QED BY <1>1, <2>1, <2>2, <2>3 DEF Granting, LiveRows
<1> QED BY <1>2, <1>3

\* Whoever has accepted an invite has the roles of that invite and no other, as
\* long as nobody else changes them, whatever leaves and accepts come between
\* (accept_invite: membership.roles.set or the guest role).
THEOREM AcceptRoles == Spec => []AcceptGrantsItsRoles
<1>1. Init => Granting
  BY DEF Init, MemberInit, NoTask, Granting
<1>2. Typing /\ Home /\ Granting /\ [Next]_vars => Granting'
  <2>1. ASSUME Granting, (\E i \in Invite : Expire(i)) \/ UNCHANGED vars PROVE Granting'
    BY <2>1 DEF Expire, vars, Granting, Touched, LiveRows
  <2> QED BY <2>1, NextSteps, GrantingStep
<1>3. Granting => AcceptGrantsItsRoles
  BY DEF Granting, AcceptGrantsItsRoles, Touched, RolesTouched
<1> QED BY <1>1, <1>2, <1>3, InitTyping, NextTyping, InitHome, NextHome, PTL DEF Spec

-----------------------------------------------------------------------------
(* An undisturbed push leaves the policies exact.                          *)

\* While a request pushes undisturbed, what it has read and pushed is what it
\* would still read.
ExactFor(r) ==
  /\ task[r].stage \in {"inserting", "deleting", "saved"}
  /\ sync[r].at # None => sync[r].subs = Visible(r)
  /\ \A l \in sync[r].all : l \notin sync[r].todo /\ l # sync[r].at => policy[l] = Visible(r)

Exact == \A r \in undisturbed : ExactFor(r)

SameMembers ==
  \A m \in RowId : /\ rows'[m] # None <=> rows[m] # None
                   /\ rows[m] # None => rows'[m].user = rows[m].user

LEMMA VisibleKept ==
  ASSUME NEW r \in Request, SameMembers, task'[r] = task[r]
  PROVE  Visible(r)' = Visible(r)
  BY DEF Visible, Removed, Inserted, LiveRows, SameMembers

LEMMA WritesKeepMembers ==
  ASSUME Typing, NEW m, NEW rs \in SUBSET Role, WriteRoles(m, rs), m \in LiveRows
  PROVE  SameMembers
<1>1. m \in RowId /\ rows[m] \in Membership
  BY DEF Typing, Shapes, LiveRows
<1>2. [user |-> rows[m].user, roles |-> rs] \in Membership
  BY <1>1 DEF Membership
<1>3. rows' = [rows EXCEPT ![m] = [user |-> rows[m].user, roles |-> rs]]
  BY DEF WriteRoles
<1>4. rows'[m] # None /\ rows'[m].user = rows[m].user
  BY <1>1, <1>2, <1>3 DEF Typing, Shapes
<1>5. \A n \in RowId \ {m} : rows'[n] = rows[n]
  BY <1>3 DEF Typing, Shapes
<1> QED BY <1>1, <1>4, <1>5 DEF SameMembers, LiveRows

LEMMA RoleWrites ==
  ASSUME Typing, NEW q \in Request, UNCHANGED inviteVars \/ GiveRoles(q),
         ClearRoles(q) \/ SetRoles(q) \/ AddRole(q) \/ GiveRoles(q)
  PROVE  SameMembers
<1> DEFINE m == task[q].row
<1>1. CASE rows' = rows
  BY <1>1 DEF SameMembers
<1>2. task[q].roles \in SUBSET Role
  BY DEF Typing, Shapes, Task
<1>3. m \in LiveRows => rows[m].roles \in SUBSET Role
  BY DEF Typing, Shapes, LiveRows, Membership
<1>4. CASE ClearRoles(q)
  BY <1>1, <1>4, WritesKeepMembers DEF ClearRoles
<1>5. CASE SetRoles(q)
  <2>1. m \in LiveRows
    BY <1>5 DEF SetRoles, RowStays
  <2> DEFINE rs == IF task[q].op = "update" THEN task[q].roles ELSE rows[m].roles \cup task[q].roles
  <2>2. rs \in SUBSET Role
    BY <1>2, <1>3, <2>1
  <2>3. WriteRoles(m, rs)
    BY <1>5 DEF SetRoles
  <2> HIDE DEF rs
  <2> QED BY <2>1, <2>2, <2>3, WritesKeepMembers
<1>6. CASE AddRole(q)
  <2>1. ASSUME NEW role \in task[q].roles, RowStays(m), WriteRoles(m, rows[m].roles \cup {role})
        PROVE  SameMembers
    <3>1. m \in LiveRows /\ rows[m].roles \cup {role} \in SUBSET Role
      BY <1>2, <1>3, <2>1 DEF RowStays
    <3> QED BY <2>1, <3>1, WritesKeepMembers
  <2> QED BY <1>1, <1>6, <2>1 DEF AddRole
<1>7. CASE GiveRoles(q)
  <2>1. using[q] \in Invite
    BY <1>7 DEF GiveRoles, Typing, Shapes, Uses, InviteOps
  <2>2. m \in LiveRows /\ Granted(using[q]) \in SUBSET Role
    BY <1>7, <2>1, GrantedRoles DEF GiveRoles, RowStays, Uses, Fit, InviteOps
  <2> QED BY <1>7, <2>2, WritesKeepMembers DEF GiveRoles
<1> QED BY <1>4, <1>5, <1>6, <1>7

\* What others do leaves a push undisturbed only if it changes no membership
\* and pushes nothing.
LEMMA OthersKeep ==
  ASSUME Typing, NEW q \in Request, StepOf(q), NEW r \in Request \ {q}, r \in undisturbed'
  PROVE  r \in undisturbed /\ policy' = policy /\ sync'[r] = sync[r] /\ SameMembers
<1>1. ASSUME NEW s, sync' = [sync EXCEPT ![q] = s] PROVE sync'[r] = sync[r]
  BY <1>1 DEF Typing, Shapes
<1>2. ASSUME NEW ls, ListLayers(q, ls) PROVE sync'[r] = sync[r]
  BY <1>2 DEF ListLayers, Typing, Shapes
<1>3. ASSUME rows' = rows PROVE SameMembers
  BY <1>3 DEF SameMembers
<1>4. CASE MemberRequest(q)
  <2>1. rows' = rows /\ policy' = policy /\ r \in undisturbed
    BY <1>4 DEF MemberRequest, Leave, Update, Ensure, CreateLayer, UpdateLayer
  <2>2. sync'[r] = sync[r]
    BY <1>2, <1>4 DEF MemberRequest, Leave, Update, Ensure, CreateLayer, UpdateLayer
  <2> QED BY <1>3, <2>1, <2>2
<1>5. CASE SyncRead(q)
  BY <1>1, <1>3, <1>5 DEF SyncRead
<1>6. ~SyncPush(q)
  BY DEF SyncPush
<1>7. CASE SyncFail(q)
  BY <1>1, <1>3, <1>7 DEF SyncFail
<1>8. CASE EndSync(q)
  BY <1>1, <1>3, <1>8 DEF EndSync
<1>9. CASE Delete(q)
  BY <1>2, <1>3, <1>9 DEF Delete
<1>10. CASE FindOrInsert(q)
  BY <1>2, <1>3, <1>10 DEF FindOrInsert
<1>11. CASE (ClearRoles(q) \/ SetRoles(q) \/ AddRole(q)) /\ UNCHANGED inviteVars
  BY <1>11, RoleWrites DEF ClearRoles, SetRoles, AddRole
<1>12. CASE GiveRoles(q)
  BY <1>12, RoleWrites DEF GiveRoles
<1>13. CASE Save(q)
  BY <1>2, <1>3, <1>13 DEF Save
<1>14. CASE Fail(q)
  BY <1>3, <1>14 DEF Fail
<1>15. CASE InviteStep(q) /\ ~GiveRoles(q)
  <2>1. ~Join(q)
    BY DEF Join
  <2> QED BY <1>3, <1>15, <2>1 DEF InviteStep, ReadInvite, FindMember, JoinRefused, Answer
<1> QED BY <1>4, <1>5, <1>6, <1>7, <1>8, <1>9, <1>10, <1>11, <1>12, <1>13, <1>14, <1>15
        DEF StepOf, MemberStep

\* What a request does to its own push.
LEMMA OwnPush ==
  ASSUME Typing, Exact, NEW r \in Request, StepOf(r), r \in undisturbed'
  PROVE  ExactFor(r)'
<1> DEFINE Pushing == {"inserting", "deleting", "saved"}
<1>1. task[r].stage \notin Pushing => r \notin undisturbed
  BY DEF Exact, ExactFor
<1>2. ASSUME NEW ls, ListLayers(r, ls), task'[r].stage \in Pushing PROVE ExactFor(r)'
  BY <1>2 DEF ListLayers, ExactFor, Typing, Shapes
<1>3. ASSUME NEW stage, NEW row, NEW rs, Proceed(r, stage, row, rs) PROVE task'[r].stage = stage
  BY <1>3 DEF Proceed, Become, Typing, Shapes
<1>4. ASSUME NEW t, Become(r, t) PROVE task'[r] = t
  BY <1>4 DEF Become, Typing, Shapes
<1>5. CASE MemberRequest(r)
  <2>1. task[r].stage = "new"
    BY <1>5 DEF MemberRequest, Leave, Update, Ensure, CreateLayer, UpdateLayer
  <2>2. ASSUME NEW l \in Layer, CreateLayer(r, l) \/ UpdateLayer(r, l) PROVE ExactFor(r)'
    BY <1>2, <1>4, <2>2 DEF CreateLayer, UpdateLayer
  <2> QED BY <1>1, <1>5, <2>1, <2>2 DEF MemberRequest, Leave, Update, Ensure
<1>6. CASE SyncRead(r)
  <2>1. Visible(r)' = Visible(r)
    BY <1>6, VisibleKept DEF SyncRead, SameMembers
  <2>2. PICK l \in sync[r].todo :
          sync' = [sync EXCEPT ![r] = [all |-> sync[r].all, todo |-> sync[r].todo \ {l},
                                       at |-> l, subs |-> Visible(r)]]
    BY <1>6 DEF SyncRead
  <2>3. sync'[r] = [all |-> sync[r].all, todo |-> sync[r].todo \ {l}, at |-> l, subs |-> Visible(r)]
    BY <2>2 DEF Typing, Shapes
  <2>4. ExactFor(r) /\ sync[r].at = None /\ policy' = policy /\ task' = task
    BY <1>6 DEF SyncRead, Exact
  <2>5. \A k \in sync[r].all : k \notin sync[r].todo => policy[k] = Visible(r)
    BY <2>4 DEF ExactFor, Typing, Shapes, Sync
  <2> QED BY <2>1, <2>3, <2>4, <2>5 DEF ExactFor
<1>7. CASE SyncPush(r)
  <2>1. Visible(r)' = Visible(r)
    BY <1>7, VisibleKept DEF SyncPush, SameMembers
  <2>2. sync'[r] = [all |-> sync[r].all, todo |-> sync[r].todo, at |-> None, subs |-> {}]
    BY <1>7 DEF SyncPush, Typing, Shapes
  <2>3. ExactFor(r) /\ sync[r].at # None /\ sync[r].at \in Layer /\ sync[r].all \subseteq Layer
        /\ task' = task
    BY <1>7 DEF SyncPush, Exact, Typing, Shapes, Sync
  <2>4. policy' = [policy EXCEPT ![sync[r].at] = sync[r].subs]
    BY <1>7 DEF SyncPush
  <2>5. \A k \in sync[r].all : k \notin sync[r].todo => policy'[k] = Visible(r)
    BY <2>3, <2>4 DEF ExactFor, Typing, Shapes
  <2> QED BY <2>1, <2>2, <2>3, <2>5 DEF ExactFor
<1>8. ~SyncFail(r) /\ ~EndSync(r)
  BY DEF SyncFail, EndSync
<1>9. CASE Delete(r)
  BY <1>2, <1>3, <1>9 DEF Delete, Reach
<1>10. CASE FindOrInsert(r)
  <2>1. r \notin undisturbed
    BY <1>1, <1>10 DEF FindOrInsert
  <2> QED BY <1>2, <1>3, <1>10, <2>1 DEF FindOrInsert, Reach
<1>11. CASE Save(r)
  BY <1>2, <1>3, <1>11 DEF Save, Reach
<1>12. CASE Join(r)
  BY <1>2, <1>3, <1>12 DEF Join
<1>13. ~ClearRoles(r) /\ ~SetRoles(r) /\ ~AddRole(r) /\ ~Fail(r)
  BY <1>1 DEF ClearRoles, SetRoles, AddRole, Fail
<1>14. InviteStep(r) => Join(r)
  BY <1>1 DEF InviteStep, ReadInvite, FindMember, JoinRefused, GiveRoles, Answer
<1> QED BY <1>5, <1>6, <1>7, <1>8, <1>9, <1>10, <1>11, <1>12, <1>13, <1>14
        DEF StepOf, MemberStep

LEMMA ExactStep ==
  ASSUME Typing, Exact, NEW q \in Request, StepOf(q)
  PROVE  Exact'
<1> SUFFICES ASSUME NEW r \in undisturbed' PROVE ExactFor(r)'
  BY DEF Exact
<1>1. r \in Request /\ Keeps(q)
  BY StepKeeps, NextTyping DEF Typing, Shapes, StepOf, Next, InviteStep, InviteOps, AcceptInvite,
         DeclineInvite, CancelInvite
<1>2. CASE r = q
  BY <1>1, <1>2, OwnPush
<1>3. CASE r # q
  <2>1. r \in undisturbed /\ policy' = policy /\ sync'[r] = sync[r] /\ SameMembers
    BY <1>1, <1>3, OthersKeep
  <2>2. task'[r] = task[r]
    BY <1>1, <1>3 DEF Keeps
  <2>3. Visible(r)' = Visible(r) /\ ExactFor(r)
    BY <1>1, <2>1, <2>2, VisibleKept DEF Exact
  <2> QED BY <2>1, <2>2, <2>3 DEF ExactFor
<1> QED BY <1>2, <1>3

\* What a request has seen is what everybody sees when it commits.
LEMMA CommitShows ==
  ASSUME Typing, Home, NEW r \in Request, EndSync(r)
  PROVE  Members' = Visible(r)
<1>0. task[r] \in Task /\ Fit(task[r])
  BY DEF Typing, Shapes
<1>1. CASE task[r].stage = "deleting"
  <2>1. rows' = [rows EXCEPT ![task[r].row] = None] /\ task[r].row \in RowId
    BY <1>0, <1>1 DEF EndSync, Fit
  <2>2. LiveRows' = LiveRows \ {task[r].row}
        /\ \A m \in LiveRows \ {task[r].row} : rows'[m] = rows[m]
    BY <2>1 DEF LiveRows, Typing, Shapes
  <2> QED BY <1>1, <2>2 DEF Members, Visible, Removed, Inserted
<1>2. CASE task[r].stage = "inserting"
  <2>1. rows' = [rows EXCEPT ![r] = [user |-> task[r].user, roles |-> {}]] /\ r \in RowId
        /\ task[r].user \in User
    BY <1>0, <1>2 DEF EndSync, RowId, Fit, Op
  <2>2. rows[r] = None
    BY <1>0, <1>2, <2>1 DEF Home, AtHome, Fit
  <2>3. [user |-> task[r].user, roles |-> {}] # None
    BY <2>1 DEF Membership
  <2>4. LiveRows' = LiveRows \cup {r} /\ rows'[r].user = task[r].user
        /\ \A m \in LiveRows : rows'[m] = rows[m]
    BY <2>1, <2>2, <2>3 DEF LiveRows, Typing, Shapes
  <2> QED BY <1>2, <2>4 DEF Members, Visible, Removed, Inserted
<1>3. CASE task[r].stage = "saved"
  <2>1. rows' = rows
    BY <1>3 DEF EndSync
  <2> QED BY <1>3, <2>1 DEF Members, LiveRows, Visible, Removed, Inserted
<1> QED BY <1>1, <1>2, <1>3 DEF EndSync

\* A change of memberships or layers during which nothing else changes leaves
\* every tailnet it pushes to with exactly the members (signals.py, manager.py).
THEOREM SyncExact == Spec => UndisturbedSyncIsExact
<1>1. Init => Exact
  BY DEF Init, MemberInit, Exact
<1>2. Typing /\ Exact /\ [Next]_vars => Exact'
  <2>1. ASSUME Exact, (\E i \in Invite : Expire(i)) \/ UNCHANGED vars PROVE Exact'
    BY <2>1 DEF Expire, vars, Exact, ExactFor, Visible, LiveRows, Removed, Inserted
  <2> QED BY <2>1, NextSteps, ExactStep
<1>3. ASSUME Typing, Home, Exact, NEW r \in Request, r \in undisturbed, EndSync(r),
             NEW l \in sync[r].all
      PROVE  policy'[l] = Members'
  <2>1. sync[r].todo = {} /\ sync[r].at = None /\ policy' = policy /\ l \in Layer
    BY <1>3 DEF EndSync, Syncing, Typing, Shapes, Sync
  <2>2. policy[l] = Visible(r)
    BY <1>3, <2>1 DEF Exact, ExactFor
  <2> QED BY <1>3, <2>1, <2>2, CommitShows
<1>4. Typing /\ Home /\ Exact /\ [Next]_vars =>
        [\A r \in Request :
           r \in undisturbed /\ EndSync(r)
             => \A l \in sync[r].all : policy'[l] = Members']_memberVars
  BY <1>3
<1> QED BY <1>1, <1>2, <1>4, InitTyping, NextTyping, InitHome, NextHome, PTL
        DEF Spec, UndisturbedSyncIsExact

=============================================================================
