------------------------------ MODULE AccountProofs ------------------------------
(***************************************************************************)
(* Proofs about AccountServer: how its requests go through their programs, *)
(* the types of its rows and of what requests have in memory, and what     *)
(* holds of organizations, credentials and tailnets however requests and   *)
(* boots interleave.                                                       *)
(***************************************************************************)
EXTENDS AccountServer, FiniteSetTheorems, TLAPS

-----------------------------------------------------------------------------
(* The programs *)

LEMMA Ops ==
  Op = {"create", "update", "delete", "signup", "join", "leave", "choose", "quit",
        "tailnet", "authkey", "makeAdmin", "unmakeAdmin", "ensureusers",
        "ensureorganizations", "ensurememberships", "register", "drop", "accept",
        "exchange", "refresh", "credentials", "api", "info", "channel", "message",
        "comment", "stash", "restash", "unstash", "additems", "removeitems", "device",
        "group", "profile", "upload", "edit", "remove", "enlist", "permit"}
BY DEF Op, Program

LEMMA Lengths ==
  /\ Len(Program["create"]) = 9
  /\ Len(Program["update"]) = 7
  /\ Len(Program["delete"]) = 3
  /\ Len(Program["signup"]) = 5
  /\ Len(Program["join"]) = 1
  /\ Len(Program["leave"]) = 1
  /\ Len(Program["choose"]) = 7
  /\ Len(Program["quit"]) = 7
  /\ Len(Program["tailnet"]) = 4
  /\ Len(Program["authkey"]) = 4
  /\ Len(Program["makeAdmin"]) = 3
  /\ Len(Program["unmakeAdmin"]) = 3
  /\ Len(Program["ensureusers"]) = 5
  /\ Len(Program["ensureorganizations"]) = 6
  /\ Len(Program["ensurememberships"]) = 4
  /\ Len(Program["register"]) = 1
  /\ Len(Program["drop"]) = 1
  /\ Len(Program["accept"]) = 2
  /\ Len(Program["exchange"]) = 3
  /\ Len(Program["refresh"]) = 3
  /\ Len(Program["credentials"]) = 2
  /\ Len(Program["api"]) = 3
  /\ Len(Program["info"]) = 2
  /\ Len(Program["channel"]) = 2
  /\ Len(Program["message"]) = 2
  /\ Len(Program["comment"]) = 4
  /\ Len(Program["stash"]) = 1
  /\ Len(Program["restash"]) = 2
  /\ Len(Program["unstash"]) = 2
  /\ Len(Program["additems"]) = 3
  /\ Len(Program["removeitems"]) = 1
  /\ Len(Program["device"]) = 1
  /\ Len(Program["group"]) = 1
  /\ Len(Program["profile"]) = 1
  /\ Len(Program["upload"]) = 1
  /\ Len(Program["edit"]) = 2
  /\ Len(Program["remove"]) = 2
  /\ Len(Program["enlist"]) = 4
  /\ Len(Program["permit"]) = 4
BY DEF Program

\* Which programs have the step s, and where.
InPlace(o, p, s) ==
  /\ s = "insert" => o = "create" /\ p = 1
  /\ s = "roles" =>
      \/ o \in {"create", "ensureorganizations"} /\ p = 2
      \/ o = "update" /\ p = 3
  /\ s = "ensure" =>
      \/ o \in {"create", "ensureorganizations"} /\ p = 3
      \/ o = "update" /\ p = 4
  /\ s = "admin" =>
      \/ o = "create" /\ p \in {4, 8}
      \/ o = "update" /\ p = 5
      \/ o \in {"signup", "ensureusers", "ensureorganizations"} /\ p = 4
      \/ o \in {"choose", "quit"} /\ p = 6
      \/ o = "ensurememberships" /\ p = 3
  /\ s = "save" =>
      \/ o = "create" /\ p \in {5, 9}
      \/ o = "update" /\ p = 6
      \/ o \in {"signup", "ensureusers", "ensureorganizations"} /\ p = 5
      \/ o \in {"choose", "quit"} /\ p = 7
      \/ o \in {"makeAdmin", "unmakeAdmin"} /\ p = 3
      \/ o = "ensurememberships" /\ p = 4
  /\ s = "profile" =>
      \/ o \in {"create", "ensureorganizations"} /\ p = 6
      \/ o = "update" /\ p = 7
  /\ s = "upsert" =>
      \/ o = "create" /\ p = 7
      \/ o \in {"signup", "ensureusers"} /\ p = 3
      \/ o \in {"choose", "quit"} /\ p = 5
      \/ o = "ensurememberships" /\ p = 2
  /\ s = "read" => o \in {"update", "tailnet"} /\ p = 1
  /\ s = "write" => o = "update" /\ p = 2
  /\ s = "own" => o = "delete" /\ p = 1
  /\ s = "collect" => o = "delete" /\ p = 2
  /\ s = "erase" => o = "delete" /\ p = 3
  /\ s = "user" => o \in {"signup", "ensureusers"} /\ p = 1
  /\ s = "home" =>
      \/ o \in {"signup", "ensureusers"} /\ p = 2
      \/ o \in {"choose", "quit"} /\ p = 4
  /\ s = "join" => o = "join" /\ p = 1
  /\ s = "leave" =>
      \/ o = "leave" /\ p = 1
      \/ o = "quit" /\ p = 2
  /\ s = "account" => o \in {"choose", "quit"} /\ p = 1
  /\ s = "choose" => o = "choose" /\ p = 2
  /\ s = "saveuser" => o \in {"choose", "quit"} /\ p = 3
  /\ s = "row" => o \in {"makeAdmin", "unmakeAdmin"} /\ p = 1
  /\ s = "set" => o \in {"makeAdmin", "unmakeAdmin"} /\ p = 2
  /\ s = "organize" => o = "ensureorganizations" /\ p = 1
  /\ s = "find" => o = "ensurememberships" /\ p = 1
  /\ s = "register" => o = "register" /\ p = 1
  /\ s = "drop" => o = "drop" /\ p = 1
  /\ s = "member" => o = "accept" /\ p = 1
  /\ s = "issue" => o = "accept" /\ p = 2
  /\ s = "query" => o = "exchange" /\ p = 1
  /\ s = "token" => o \in {"exchange", "refresh", "credentials"} /\ p = 2
  /\ s = "spend" => o = "exchange" /\ p = 3
  /\ s = "active" => o = "refresh" /\ p = 1
  /\ s = "revoke" => o = "refresh" /\ p = 3
  /\ s = "resolve" => o = "credentials" /\ p = 1
  /\ s = "organization" => o = "api" /\ p = 1
  /\ s = "client" => o = "api" /\ p = 2
  /\ s = "membership" => o = "api" /\ p = 3
  /\ s = "validate" => o = "info" /\ p = 1
  /\ s = "describe" => o = "info" /\ p = 2
  /\ s = "create" => o = "tailnet" /\ p = 2
  /\ s = "layer" => o = "tailnet" /\ p = 3
  /\ s = "push" => o = "tailnet" /\ p = 4
  /\ s = "layerrow" => o = "authkey" /\ p = 1
  /\ s = "ofmember" => o = "authkey" /\ p = 2
  /\ s = "mint" => o = "authkey" /\ p = 3
  /\ s = "store" => o = "authkey" /\ p = 4
  /\ s = "look" => o = "channel" /\ p = 1
  /\ s = "put" => o = "channel" /\ p = 2
  /\ s = "target" => o = "message" /\ p = 1
  /\ s = "notify" =>
      \/ o = "message" /\ p = 2
      \/ o = "comment" /\ p = 3
  /\ s = "comment" => o = "comment" /\ p = 1
  /\ s = "lookup" => o = "comment" /\ p = 2
  /\ s = "attach" => o = "comment" /\ p = 4
  /\ s = "stash" => o = "stash" /\ p = 1
  /\ s = "stashrow" => o \in {"restash", "unstash", "additems"} /\ p = 1
  /\ s = "stashsave" => o = "restash" /\ p = 2
  /\ s = "unstash" => o = "unstash" /\ p = 2
  /\ s = "finditem" => o = "additems" /\ p = 2
  /\ s = "putitem" => o = "additems" /\ p = 3
  /\ s = "removeitem" => o = "removeitems" /\ p = 1
  /\ s = "putdevice" => o = "device" /\ p = 1
  /\ s = "insertrow" => o \in {"group", "profile"} /\ p = 1
  /\ s = "putfile" => o = "upload" /\ p = 1
  /\ s = "readrow" =>
      \/ o \in {"edit", "remove"} /\ p = 1
      \/ o = "enlist" /\ p = 2
  /\ s = "saverow" =>
      \/ o = "edit" /\ p = 2
      \/ o = "enlist" /\ p = 4
  /\ s = "deleterow" => o = "remove" /\ p = 2
  /\ s = "readgroup" => o = "enlist" /\ p = 1
  /\ s = "addpair" => o = "enlist" /\ p = 3
  /\ s = "allowedGroups" => o = "permit" /\ p = 1
  /\ s = "allowedUsers" => o = "permit" /\ p = 2
  /\ s = "deniedGroups" => o = "permit" /\ p = 3
  /\ s = "deniedUsers" => o = "permit" /\ p = 4

LEMMA Places ==
  ASSUME NEW o \in Op, NEW p \in 1..Len(Program[o]), NEW s, s = Program[o][p]
  PROVE  InPlace(o, p, s)
<1>1. CASE o = "create"  BY <1>1 DEF Program, InPlace
<1>2. CASE o = "update"  BY <1>2 DEF Program, InPlace
<1>3. CASE o = "delete"  BY <1>3 DEF Program, InPlace
<1>4. CASE o = "signup"  BY <1>4 DEF Program, InPlace
<1>5. CASE o = "join"  BY <1>5 DEF Program, InPlace
<1>6. CASE o = "leave"  BY <1>6 DEF Program, InPlace
<1>7. CASE o = "choose"  BY <1>7 DEF Program, InPlace
<1>8. CASE o = "quit"  BY <1>8 DEF Program, InPlace
<1>9. CASE o = "tailnet"  BY <1>9 DEF Program, InPlace
<1>10. CASE o = "authkey"  BY <1>10 DEF Program, InPlace
<1>11. CASE o = "makeAdmin"  BY <1>11 DEF Program, InPlace
<1>12. CASE o = "unmakeAdmin"  BY <1>12 DEF Program, InPlace
<1>13. CASE o = "ensureusers"  BY <1>13 DEF Program, InPlace
<1>14. CASE o = "ensureorganizations"  BY <1>14 DEF Program, InPlace
<1>15. CASE o = "ensurememberships"  BY <1>15 DEF Program, InPlace
<1>16. CASE o = "register"  BY <1>16 DEF Program, InPlace
<1>17. CASE o = "drop"  BY <1>17 DEF Program, InPlace
<1>18. CASE o = "accept"  BY <1>18 DEF Program, InPlace
<1>19. CASE o = "exchange"  BY <1>19 DEF Program, InPlace
<1>20. CASE o = "refresh"  BY <1>20 DEF Program, InPlace
<1>21. CASE o = "credentials"  BY <1>21 DEF Program, InPlace
<1>22. CASE o = "api"  BY <1>22 DEF Program, InPlace
<1>23. CASE o = "info"  BY <1>23 DEF Program, InPlace
<1>24. CASE o = "channel"  BY <1>24 DEF Program, InPlace
<1>25. CASE o = "message"  BY <1>25 DEF Program, InPlace
<1>26. CASE o = "comment"  BY <1>26 DEF Program, InPlace
<1>27. CASE o = "stash"  BY <1>27 DEF Program, InPlace
<1>28. CASE o = "restash"  BY <1>28 DEF Program, InPlace
<1>29. CASE o = "unstash"  BY <1>29 DEF Program, InPlace
<1>30. CASE o = "additems"  BY <1>30 DEF Program, InPlace
<1>31. CASE o = "removeitems"  BY <1>31 DEF Program, InPlace
<1>32. CASE o = "device"  BY <1>32 DEF Program, InPlace
<1>33. CASE o = "group"  BY <1>33 DEF Program, InPlace
<1>34. CASE o = "profile"  BY <1>34 DEF Program, InPlace
<1>35. CASE o = "upload"  BY <1>35 DEF Program, InPlace
<1>36. CASE o = "edit"  BY <1>36 DEF Program, InPlace
<1>37. CASE o = "remove"  BY <1>37 DEF Program, InPlace
<1>38. CASE o = "enlist"  BY <1>38 DEF Program, InPlace
<1>39. CASE o = "permit"  BY <1>39 DEF Program, InPlace
<1> QED
  BY Ops, <1>1, <1>2, <1>3, <1>4, <1>5, <1>6, <1>7, <1>8, <1>9, <1>10, <1>11, <1>12, <1>13, <1>14,
     <1>15, <1>16, <1>17, <1>18, <1>19, <1>20, <1>21, <1>22, <1>23, <1>24, <1>25, <1>26,
     <1>27, <1>28, <1>29, <1>30, <1>31, <1>32, <1>33, <1>34, <1>35, <1>36, <1>37, <1>38,
     <1>39

-----------------------------------------------------------------------------
(* Going through a program *)

BootOp == {"ensureusers", "ensureorganizations", "ensurememberships"}

Placed(t) == t.op \in Op /\ t.pc \in 1..Len(Program[t.op])

\* A running boot runs alone; what had ended when a request began has ended.
Flow ==
  /\ task \in [Request -> Task] /\ past \in [Request -> SUBSET Request]
  /\ \A r \in Request :
       /\ IF task[r].status = "new" THEN task[r].op = None ELSE Placed(task[r])
       /\ task[r].status # "new" => (r \in Boot <=> task[r].op \in BootOp)
       /\ past[r] \subseteq Ended /\ r \notin past[r]
  /\ \A b \in Boot : Running(b) => \A q \in Request : Running(q) => q = b

\* The task t is what is left of s, with other rows in memory; an update changes
\* one organization, whose slug it has once it has read it.
Keeps(t, s) ==
  /\ t \in Task /\ t.op = s.op /\ t.status = s.status /\ t.pc = s.pc /\ t.cred = s.cred
  /\ s.op = "update" => t.org = s.org /\ (s.pc # 1 => t.slug = s.slug)

\* A boot goes on in its command, or on to the next one.
GoesOn(t, s) ==
  \/ t.op = s.op /\ t.pc >= s.pc
  \/ s.op = "ensureusers" /\ t.op = "ensureorganizations"
  \/ s.op = "ensureorganizations" /\ t.op = "ensurememberships"

\* A request is done after its last statement, or where it saves a user.
Through(t) == t.pc = Len(Program[t.op]) \/ t.op \in {"choose", "quit"}

\* What a step does to the tasks: it is the request's own, which goes on in its
\* program, or ends; a boot goes on to its next command.
Moves(r) ==
  /\ Running(r) /\ topic' = topic /\ past' = past
  /\ task' \in [Request -> Task]
  /\ \A q \in Request \ {r} : task'[q] = task[q]
  /\ task'[r].status \in {"running", "done", "failed"}
  /\ Placed(task'[r])
  /\ r \in Boot => /\ task'[r].op \in BootOp /\ task'[r].status # "failed"
                   /\ GoesOn(task'[r], task[r])
  /\ r \notin Boot =>
       /\ task'[r].op = task[r].op /\ task'[r].cred = task[r].cred
       /\ task'[r].pc >= task[r].pc \/ task[r].op = "additems"
       /\ task[r].op = "update" =>
            task'[r].org = task[r].org /\ (task[r].pc # 1 => task'[r].slug = task[r].slug)
       /\ task'[r].status = "done" => Through(task'[r])

LEMMA AtPlace ==
  ASSUME NEW r, Placed(task[r]), NEW s, At(r, s)
  PROVE  InPlace(task[r].op, task[r].pc, s)
<1>1. /\ task[r].op \in Op /\ task[r].pc \in 1..Len(Program[task[r].op])
      /\ s = Program[task[r].op][task[r].pc]
  BY Zenon DEF At, Placed
<1> DEFINE o == task[r].op
           p == task[r].pc
<1>2. o \in Op /\ p \in 1..Len(Program[o]) /\ s = Program[o][p]
  BY <1>1
<1> HIDE DEF o, p
<1>3. InPlace(o, p, s)
  BY <1>2, Places
<1> QED BY <1>3 DEF o, p

LEMMA Untouched ==
  ASSUME Flow, NEW r \in Request, Running(r), taskVars' = taskVars
  PROVE  Moves(r)
<1> USE DEF Flow, Moves, Running, taskVars
<1>1. Placed(task[r]) /\ task[r].pc >= task[r].pc
  BY DEF Task
<1> QED BY <1>1, SMTT(30) DEF Placed, GoesOn

LEMMA SomeLength ==
  ASSUME NEW o \in Op
  PROVE  Len(Program[o]) \in 1..9
<1>1. Len(Program[o]) \in {1, 2, 3, 4, 5, 6, 7, 8, 9}
  BY Ops, Lengths, ZenonT(30)
<1> QED BY <1>1

LEMMA FirstPlace ==
  ASSUME NEW o \in Op
  PROVE  1 \in 1..Len(Program[o])
BY SomeLength

LEMMA Beginning ==
  ASSUME NEW o \in Op
  PROVE  /\ Asked(o) \in Task /\ Placed(Asked(o)) /\ Asked(o).op = o
         /\ Asked(o).status = "running" /\ Asked(o).pc = 1
         /\ Asked(o).org = None /\ Asked(o).user = None /\ Asked(o).slug = None
         /\ Asked(o).row = None /\ Asked(o).client = None /\ Asked(o).cred = None
<1>1. NoTask \in Task
  BY DEF NoTask, Task, Status
<1>2. ASSUME NEW n \in 0..9, n = 1
      PROVE  [NoTask EXCEPT !.op = o, !.status = "running", !.pc = n] \in Task
  BY <1>1, <1>2 DEF Task, Status
<1>3. Asked(o) \in Task
  BY <1>2 DEF Asked
<1>4. 1 \in 1..Len(Program[o])
  BY FirstPlace, Zenon
<1>5. /\ Asked(o).op = o /\ Asked(o).status = "running" /\ Asked(o).pc = 1
      /\ Asked(o).org = None /\ Asked(o).user = None /\ Asked(o).slug = None
      /\ Asked(o).row = None /\ Asked(o).client = None /\ Asked(o).cred = None
  BY DEF Asked, NoTask
<1>6. Placed(Asked(o))
  BY <1>4, <1>5, Zenon DEF Placed
<1> QED BY <1>3, <1>5, <1>6

LEMMA NextCommand ==
  ASSUME NEW t \in Task, Placed(t), t.op \in BootOp
  PROVE  /\ AfterCommand(t) \in Task /\ Placed(AfterCommand(t))
         /\ AfterCommand(t).op \in BootOp
         /\ t.op = "ensureusers" =>
              AfterCommand(t) = Asked("ensureorganizations")
         /\ t.op = "ensureorganizations" =>
              AfterCommand(t) = Asked("ensurememberships")
         /\ t.op = "ensurememberships" =>
              AfterCommand(t) = [t EXCEPT !.status = "done"]
<1>0. /\ Len(Commands) = 3 /\ Commands[1] = "ensureusers"
      /\ Commands[2] = "ensureorganizations" /\ Commands[3] = "ensurememberships"
  BY DEF Commands
<1>t. ASSUME NEW o \in BootOp
      PROVE  Asked(o) \in Task /\ Placed(Asked(o)) /\ Asked(o).op = o
  <2>1. o \in Op
    BY <1>t, Ops DEF BootOp
  <2> QED BY <2>1, Beginning
<1>1. CASE t.op = "ensureusers"
  <2>1. \E i \in 1..Len(Commands) - 1 : Commands[i] = t.op
    BY <1>0, <1>1
  <2>2. (CHOOSE i \in 1..Len(Commands) - 1 : Commands[i] = t.op) = 1
    BY <1>0, <1>1
  <2>c. Commands[(CHOOSE i \in 1..Len(Commands) - 1 : Commands[i] = t.op) + 1]
          = "ensureorganizations"
    <3>1. 1 + 1 = 2
      OBVIOUS
    <3> QED BY <1>0, <2>2, <3>1, Zenon
  <2>3. AfterCommand(t) = Asked("ensureorganizations")
    BY <2>1, <2>c, Zenon DEF AfterCommand, Asked
  <2> QED BY <1>1, <2>3, <1>t DEF BootOp
<1>2. CASE t.op = "ensureorganizations"
  <2>1. \E i \in 1..Len(Commands) - 1 : Commands[i] = t.op
    BY <1>0, <1>2
  <2>2. (CHOOSE i \in 1..Len(Commands) - 1 : Commands[i] = t.op) = 2
    BY <1>0, <1>2
  <2>c. Commands[(CHOOSE i \in 1..Len(Commands) - 1 : Commands[i] = t.op) + 1]
          = "ensurememberships"
    <3>1. 2 + 1 = 3
      OBVIOUS
    <3> QED BY <1>0, <2>2, <3>1, Zenon
  <2>3. AfterCommand(t) = Asked("ensurememberships")
    BY <2>1, <2>c, Zenon DEF AfterCommand, Asked
  <2> QED BY <1>2, <2>3, <1>t DEF BootOp
<1>3. CASE t.op = "ensurememberships"
  <2>1. ~\E i \in 1..Len(Commands) - 1 : Commands[i] = t.op
    BY <1>0, <1>3
  <2>2. AfterCommand(t) = [t EXCEPT !.status = "done"]
    BY <1>0, <2>1 DEF AfterCommand
  <2> QED BY <1>3, <2>2 DEF Task, Placed, BootOp, Status
<1> QED BY <1>1, <1>2, <1>3 DEF BootOp

LEMMA Onward ==
  ASSUME NEW t \in Task, Placed(t), t.op \in BootOp
  PROVE  GoesOn(AfterCommand(t), t)
<1>1. CASE t.op = "ensurememberships"
  <2>1. [t EXCEPT !.status = "done"].op = t.op /\ [t EXCEPT !.status = "done"].pc >= t.pc
    BY DEF Task
  <2> QED BY <1>1, <2>1, NextCommand DEF GoesOn
<1>2. CASE t.op \in {"ensureusers", "ensureorganizations"}
  BY <1>2, NextCommand, Beginning, Ops DEF GoesOn
<1> QED BY <1>1, <1>2 DEF BootOp

\* What the task has in memory is t's.
Remembers(t, s) ==
  /\ t.op = s.op /\ t.org = s.org /\ t.user = s.user /\ t.slug = s.slug /\ t.row = s.row
  /\ t.client = s.client /\ t.cred = s.cred /\ t.fresh = s.fresh

LEMMA Advance ==
  ASSUME Flow, NEW r \in Request, Running(r),
         NEW t, Keeps(t, task[r]), Go(r, t)
  PROVE  /\ Moves(r)
         /\ task' = [task EXCEPT ![r] = task'[r]]
         /\ r \notin Boot \/ t.pc < Len(Program[t.op]) => Remembers(task'[r], t)
         /\ t.pc < Len(Program[t.op]) =>
              task'[r].pc = t.pc + 1 /\ task'[r].status = "running"
         /\ ~(t.pc < Len(Program[t.op])) =>
              IF r \in Boot THEN task'[r] = AfterCommand(t)
              ELSE task'[r].status = "done" /\ task'[r].pc = t.pc
<1> DEFINE n == Advanced(r, t)
<1>t. t \in Task /\ task[r] \in Task /\ Placed(task[r])
  BY DEF Flow, Keeps, Running
<1>p. Placed(t) /\ t.status = "running"
  BY <1>t, Zenon DEF Keeps, Placed, Running
<1>b. r \in Boot <=> t.op \in BootOp
  BY DEF Flow, Keeps, Running
<1>g. task' = [task EXCEPT ![r] = n] /\ topic' = topic /\ past' = past
  BY DEF Go, Goto
<1>l. t.pc \in 1..Len(Program[t.op]) /\ Len(Program[t.op]) \in 1..9
  BY <1>p, SomeLength DEF Placed
<1>1. CASE t.pc < Len(Program[t.op])
  <2>1. PICK m : m = t.pc + 1
    OBVIOUS
  <2>2. m \in 0..9 /\ m \in 1..Len(Program[t.op])
    <3> DEFINE l == Len(Program[t.op])
               p == t.pc
    <3>1. p \in 1..l /\ l \in 1..9 /\ p < l /\ m = p + 1
      BY <1>l, <1>1, <2>1
    <3> HIDE DEF l, p
    <3>2. m \in 0..9 /\ m \in 1..l
      BY <3>1
    <3> QED BY <3>2 DEF l
  <2>3. n = [t EXCEPT !.pc = m]
    BY <1>1, <2>1 DEF Advanced
  <2>4. n \in Task /\ Remembers(n, t) /\ n.pc = m /\ n.status = "running"
    BY <1>t, <1>p, <2>2, <2>3 DEF Task, Remembers
  <2>5. Placed(n)
    BY <1>p, <2>2, <2>4, Zenon DEF Placed, Remembers
  <2>6. m >= t.pc
    BY <1>l, <2>1
  <2> QED
    BY <1>t, <1>b, <1>g, <1>1, <2>1, <2>4, <2>5, <2>6 DEF Moves, Flow, Keeps, Remembers, GoesOn
<1>2. CASE ~(t.pc < Len(Program[t.op])) /\ r \in Boot
  <2>1. n = AfterCommand(t)
    BY <1>2 DEF Advanced
  <2>2. n \in Task /\ Placed(n) /\ n.op \in BootOp /\ n.status \in {"running", "done"}
    BY <1>t, <1>p, <1>b, <1>2, <2>1, NextCommand, Beginning, Ops DEF BootOp, Task
  <2>3. GoesOn(n, task[r])
    BY <1>t, <1>p, <1>b, <1>2, <2>1, Onward DEF Keeps, GoesOn
  <2> QED BY <1>t, <1>g, <1>2, <2>1, <2>2, <2>3 DEF Moves, Flow
<1>3. CASE ~(t.pc < Len(Program[t.op])) /\ r \notin Boot
  <2>1. n = [t EXCEPT !.status = "done"]
    BY <1>3 DEF Advanced
  <2>2. n \in Task /\ Remembers(n, t) /\ n.pc = t.pc /\ n.status = "done"
    BY <1>t, <2>1 DEF Task, Status, Remembers
  <2>3. Placed(n)
    BY <1>p, <2>2, Zenon DEF Placed, Remembers
  <2>4. Through(n)
    <3>1. t.pc = Len(Program[t.op])
      BY <1>l, <1>3
    <3> QED BY <2>2, <3>1, Zenon DEF Through, Remembers
  <2> QED BY <1>t, <1>l, <1>g, <1>3, <2>2, <2>3, <2>4 DEF Moves, Flow, Keeps, Remembers
<1> QED BY <1>1, <1>2, <1>3

LEMMA Refusal ==
  ASSUME Flow, NEW r \in Request, Running(r), Fail(r)
  PROVE  /\ Moves(r) /\ seen' = seen
         /\ task' = [task EXCEPT ![r] = task'[r]]
         /\ IF r \in Boot THEN task'[r] = AfterCommand(task[r])
            ELSE /\ task'[r].status = "failed" /\ task'[r].pc = task[r].pc
                 /\ Remembers(task'[r], task[r])
<1>t. task[r] \in Task /\ Placed(task[r])
  BY DEF Flow, Running
<1>b. r \in Boot <=> task[r].op \in BootOp
  BY DEF Flow, Running
<1>g. topic' = topic /\ past' = past /\ seen' = seen
  BY DEF Fail
<1>1. CASE r \in Boot
  <2> DEFINE n == AfterCommand(task[r])
  <2>1. task' = [task EXCEPT ![r] = n]
    BY <1>1 DEF Fail, Goto
  <2>2. n \in Task /\ Placed(n) /\ n.op \in BootOp /\ n.status \in {"running", "done"}
    BY <1>t, <1>b, <1>1, NextCommand, Beginning, Ops DEF BootOp, Task
  <2>3. GoesOn(n, task[r])
    BY <1>t, <1>b, <1>1, Onward
  <2> QED BY <1>g, <1>1, <2>1, <2>2, <2>3 DEF Moves, Flow
<1>2. CASE r \notin Boot
  <2> DEFINE n == [task[r] EXCEPT !.status = "failed"]
  <2>1. task' = [task EXCEPT ![r] = n]
    BY <1>2 DEF Fail, Goto
  <2>2. n \in Task /\ Remembers(n, task[r]) /\ n.pc = task[r].pc /\ n.status = "failed"
    BY <1>t DEF Task, Status, Remembers
  <2>3. Placed(n)
    BY <1>t, <2>2, Zenon DEF Placed, Remembers
  <2>4. task[r].pc >= task[r].pc
    BY <1>t DEF Task
  <2> QED BY <1>g, <1>2, <2>1, <2>2, <2>3, <2>4 DEF Moves, Flow, Remembers
<1> QED BY <1>1, <1>2

\* What an arrival does to the tasks.
Begins(r) ==
  /\ r \notin Boot /\ task[r].status = "new" /\ Serving
  /\ topic' = topic /\ past' = [past EXCEPT ![r] = Ended]
  /\ task' \in [Request -> Task]
  /\ \A q \in Request \ {r} : task'[q] = task[q]
  /\ task'[r].status = "running" /\ task'[r].pc = 1
  /\ Placed(task'[r]) /\ task'[r].op \notin BootOp

LEMMA Arrival ==
  ASSUME Flow, NEW r \in Request, NEW t \in Task, NEW o \in Op \ BootOp, Begin(r, t),
         t.op = o, t.status = "running", t.pc = 1
  PROVE  /\ Begins(r) /\ seen' = seen /\ task' = [task EXCEPT ![r] = t]
         /\ task'[r] = t
<1>1. Placed(t)
  <2>1. 1 \in 1..Len(Program[o])
    BY FirstPlace, Zenon
  <2> QED BY <2>1, Zenon DEF Placed
<1> QED BY <1>1 DEF Begin, Goto, Begins, Flow

LEMMA PlacedStays ==
  ASSUME NEW t, NEW s, Placed(t), t.op = s.op, t.pc = s.pc
  PROVE  Placed(s)
BY Zenon DEF Placed

LEMMA FlowMoves ==
  ASSUME Flow, NEW r \in Request, Moves(r)
  PROVE  Flow'
<1> USE DEF Flow, Moves, Running, Ended
<1>1. \A q \in Request : q # r => task'[q] = task[q]
  OBVIOUS
<1>2. \A q \in Request :
        IF task'[q].status = "new" THEN task'[q].op = None ELSE Placed(task'[q])
  BY <1>1
<1>3. \A q \in Request :
        task'[q].status # "new" => (q \in Boot <=> task'[q].op \in BootOp)
  BY <1>1
<1>4. \A q \in Request : past'[q] \subseteq Ended' /\ q \notin past'[q]
  BY <1>1
<1>5. \A b \in Boot : Running(b)' => \A q \in Request : Running(q)' => q = b
  BY <1>1, AccountAssumption
<1> QED BY <1>2, <1>3, <1>4, <1>5

LEMMA FlowBegins ==
  ASSUME Flow, NEW r \in Request, Begins(r)
  PROVE  Flow'
<1> USE DEF Flow, Begins, Running, Ended
<1>1. \A q \in Request : q # r => task'[q] = task[q]
  OBVIOUS
<1>2. \A q \in Request :
        IF task'[q].status = "new" THEN task'[q].op = None ELSE Placed(task'[q])
  BY <1>1
<1>3. \A q \in Request :
        task'[q].status # "new" => (q \in Boot <=> task'[q].op \in BootOp)
  BY <1>1
<1>4. \A q \in Request : past'[q] \subseteq Ended' /\ q \notin past'[q]
  BY <1>1
<1>5. \A b \in Boot : Running(b)' => \A q \in Request : Running(q)' => q = b
  BY <1>1, AccountAssumption DEF Serving
<1> QED BY <1>2, <1>3, <1>4, <1>5

\* What booting does to the tasks.
LEMMA Cuts ==
  ASSUME Flow, NEW b \in Boot, Restart(b)
  PROVE  /\ task' \in [Request -> Task] /\ task'[b] = Asked("ensureusers")
         /\ \A q \in Request \ {b} :
              IF Running(q)
                THEN /\ Remembers(task'[q], task[q]) /\ task'[q].pc = task[q].pc
                     /\ task'[q].status = "cut"
                ELSE task'[q] = task[q]
         /\ topic' = topic /\ seen' = seen
         /\ task[b].status = "new" /\ past'[b] = Ended'
         /\ \A q \in Request \ {b} : past'[q] = past[q]
         /\ past' \in [Request -> SUBSET Request]
<1>b. b \in Request
  BY AccountAssumption
<1>1. "ensureusers" \in Op /\ Commands[1] = "ensureusers"
  BY Ops DEF Commands
<1>2. ASSUME NEW q \in Request
      PROVE  /\ [task[q] EXCEPT !.status = "cut"] \in Task
             /\ Remembers([task[q] EXCEPT !.status = "cut"], task[q])
             /\ [task[q] EXCEPT !.status = "cut"].pc = task[q].pc
             /\ [task[q] EXCEPT !.status = "cut"].status = "cut"
  BY DEF Flow, Task, Status, Remembers
<1>3. task' = [r \in Request |->
               IF r = b THEN Asked("ensureusers")
               ELSE IF Running(r) THEN [task[r] EXCEPT !.status = "cut"]
               ELSE task[r]]
  BY <1>1 DEF Restart
<1>4. task' \in [Request -> Task]
  BY <1>1, <1>2, <1>3, Beginning DEF Flow
<1>5. \A q \in Request \ {b} :
        IF Running(q)
          THEN /\ Remembers(task'[q], task[q]) /\ task'[q].pc = task[q].pc
               /\ task'[q].status = "cut"
          ELSE task'[q] = task[q]
  BY <1>2, <1>3
<1>6. task[b].status = "new" /\ topic' = topic /\ seen' = seen
      /\ past' = [past EXCEPT ![b] = Ended \cup {r \in Request : Running(r)}]
  BY DEF Restart
<1>7. Ended' = Ended \cup {r \in Request : Running(r)}
  <2>1. task'[b].status = "running" /\ ~(task[b].status \in {"done", "failed", "cut"})
    BY <1>b, <1>1, <1>3, <1>6, Beginning
  <2> QED BY <1>b, <1>5, <1>6, <2>1 DEF Ended, Running
<1>8. /\ past'[b] = Ended' /\ past' \in [Request -> SUBSET Request]
      /\ \A q \in Request \ {b} : past'[q] = past[q]
  BY <1>b, <1>6, <1>7 DEF Flow, Ended
<1>9. task'[b] = Asked("ensureusers")
  BY <1>b, <1>3
<1> QED BY <1>4, <1>5, <1>6, <1>8, <1>9

LEMMA FlowCuts ==
  ASSUME Flow, NEW b \in Boot, Restart(b)
  PROVE  Flow'
<1>b. b \in Request
  BY AccountAssumption
<1>c. /\ task' \in [Request -> Task] /\ task'[b] = Asked("ensureusers")
      /\ \A q \in Request \ {b} :
           IF Running(q)
             THEN /\ Remembers(task'[q], task[q]) /\ task'[q].pc = task[q].pc
                  /\ task'[q].status = "cut"
             ELSE task'[q] = task[q]
      /\ task[b].status = "new" /\ past'[b] = Ended'
      /\ \A q \in Request \ {b} : past'[q] = past[q]
      /\ past' \in [Request -> SUBSET Request]
  BY Cuts
<1>a. /\ Placed(task'[b]) /\ task'[b].op = "ensureusers" /\ task'[b].status = "running"
  BY <1>c, Beginning, Ops
<1>2. ASSUME NEW q \in Request
      PROVE  IF task'[q].status = "new" THEN task'[q].op = None ELSE Placed(task'[q])
  <2>1. CASE q = b
    BY <1>a, <2>1
  <2>2. CASE q # b /\ Running(q)
    <3>1. Placed(task[q])
      BY <2>2 DEF Flow, Running
    <3> QED BY <1>c, <2>2, <3>1, PlacedStays DEF Remembers
  <2>3. CASE q # b /\ ~Running(q)
    BY <1>c, <2>3 DEF Flow
  <2> QED BY <2>1, <2>2, <2>3
<1>3. ASSUME NEW q \in Request, task'[q].status # "new"
      PROVE  q \in Boot <=> task'[q].op \in BootOp
  <2>1. CASE q = b
    BY <1>a, <2>1 DEF BootOp
  <2>2. CASE q # b
    BY <1>c, <1>3, <2>2 DEF Flow, Running, Remembers
  <2> QED BY <2>1, <2>2
<1>4. \A q \in Request : past'[q] \subseteq Ended' /\ q \notin past'[q]
  <2>1. Ended \subseteq Ended'
    BY <1>b, <1>c DEF Ended, Running
  <2>2. b \notin Ended'
    BY <1>b, <1>a DEF Ended
  <2> QED BY <1>b, <1>c, <2>1, <2>2 DEF Flow
<1>5. \A q \in Request : Running(q)' => q = b
  BY <1>c DEF Running
<1> QED BY <1>b, <1>c, <1>2, <1>3, <1>4, <1>5, AccountAssumption DEF Flow

-----------------------------------------------------------------------------
(* What requests have in memory *)

\* What a task was begun with, and what it has found by the step it is at.
InMemory(t) ==
  /\ t.op \in {"update", "delete", "choose", "tailnet"} => t.org \in OrgId
  /\ t.op \in {"choose", "quit", "authkey", "channel"} => t.user \in User
  /\ t.op \in {"leave", "quit", "makeAdmin", "unmakeAdmin"} => t.row \in Membership
  /\ t.op \in {"accept", "exchange", "refresh", "credentials", "drop"} => t.client \in ClientId
  /\ t.op \in {"exchange", "refresh", "api", "info", "authkey"} => t.cred \in Inserter
  /\ t.op = "comment" => t.cred \in Request \cup {None}
  /\ t.op \in {"restash", "unstash", "additems"} => t.org \in Inserter
  /\ t.op \in {"update", "tailnet"} /\ t.pc >= 2 => t.slug \in Slug
  /\ t.op = "authkey" /\ t.pc >= 2 => t.org \in OrgId /\ t.slug \in Slug
  /\ t.op \in {"create", "signup", "ensureusers", "ensureorganizations"} /\ t.pc >= 4
       => t.row \in Membership
  /\ t.op = "update" /\ t.pc >= 5 => t.row \in Membership
  /\ t.op = "choose" /\ t.pc >= 6 => t.row \in Membership
  /\ t.op = "ensurememberships" /\ t.pc >= 3 => t.row \in Membership

\* The steps that find something that is needed later have found it.
Finds(t, s) ==
  /\ s \in {"ensure", "upsert"} => t.row \in Membership
  /\ s = "read" => t.slug \in Slug
  /\ s = "layerrow" => t.org \in OrgId /\ t.slug \in Slug

LEMMA Finders ==
  /\ Program["update"][1] = "read" /\ Program["tailnet"][1] = "read"
  /\ Program["authkey"][1] = "layerrow"
  /\ Program["create"][3] = "ensure" /\ Program["ensureorganizations"][3] = "ensure"
  /\ Program["update"][4] = "ensure"
  /\ Program["signup"][3] = "upsert" /\ Program["ensureusers"][3] = "upsert"
  /\ Program["choose"][5] = "upsert" /\ Program["ensurememberships"][2] = "upsert"
BY DEF Program

LEMMA FreshMemory ==
  ASSUME NEW o \in BootOp
  PROVE  InMemory(Asked(o))
<1>1. /\ Asked(o).op = o /\ Asked(o).pc = 1
  BY Beginning, Ops DEF BootOp
<1> QED BY <1>1 DEF BootOp, InMemory

LEMMA SameMemory ==
  ASSUME NEW t, NEW s, InMemory(s), Remembers(t, s), t.pc = s.pc
  PROVE  InMemory(t)
BY DEF InMemory, Remembers

LEMMA CommandMemory ==
  ASSUME NEW t \in Task, Placed(t), t.op \in BootOp, InMemory(t)
  PROVE  InMemory(AfterCommand(t))
<1>1. CASE t.op = "ensurememberships"
  <2>1. AfterCommand(t) = [t EXCEPT !.status = "done"]
    BY <1>1, NextCommand
  <2>2. Remembers(AfterCommand(t), t) /\ AfterCommand(t).pc = t.pc
    BY <2>1 DEF Remembers, Task
  <2> QED BY <2>2, SameMemory
<1>2. CASE t.op # "ensurememberships"
  BY <1>2, NextCommand, FreshMemory DEF BootOp
<1> QED BY <1>1, <1>2

LEMMA Remembered ==
  ASSUME Flow, NEW r \in Request, Running(r),
         NEW t, Keeps(t, task[r]), Go(r, t), InMemory(t),
         NEW s, At(r, s), Finds(t, s)
  PROVE  Moves(r) /\ InMemory(task'[r])
<1>t. t \in Task /\ Placed(t)
  BY PlacedStays DEF Keeps, Flow, Running
<1>1. CASE t.pc < Len(Program[t.op])
  <2>1. task'[r].pc = t.pc + 1 /\ Remembers(task'[r], t)
    BY <1>1, Advance
  <2>2. s = Program[t.op][t.pc]
    BY DEF At, Keeps
  <2> DEFINE u == task'[r]
  <2>3. u.op \in {"update", "tailnet"} /\ u.pc >= 2 => u.slug \in Slug
    BY <1>t, <2>1, <2>2, Finders DEF InMemory, Remembers, Finds, Task
  <2>4. u.op = "authkey" /\ u.pc >= 2 => u.org \in OrgId /\ u.slug \in Slug
    BY <1>t, <2>1, <2>2, Finders DEF InMemory, Remembers, Finds, Task
  <2>5. u.op \in {"create", "signup", "ensureusers", "ensureorganizations"} /\ u.pc >= 4
          => u.row \in Membership
    BY <1>t, <2>1, <2>2, Finders DEF InMemory, Remembers, Finds, Task
  <2>6. u.op = "update" /\ u.pc >= 5 => u.row \in Membership
    BY <1>t, <2>1, <2>2, Finders DEF InMemory, Remembers, Finds, Task
  <2>7. u.op = "choose" /\ u.pc >= 6 => u.row \in Membership
    BY <1>t, <2>1, <2>2, Finders DEF InMemory, Remembers, Finds, Task
  <2>8. u.op = "ensurememberships" /\ u.pc >= 3 => u.row \in Membership
    BY <1>t, <2>1, <2>2, Finders DEF InMemory, Remembers, Finds, Task
  <2>9. InMemory(u)
    BY <2>1, <2>3, <2>4, <2>5, <2>6, <2>7, <2>8 DEF InMemory, Remembers
  <2> QED BY <2>9, Advance
<1>2. CASE ~(t.pc < Len(Program[t.op])) /\ r \in Boot
  <2>1. t.op \in BootOp /\ task'[r] = AfterCommand(t)
    BY <1>2, Advance DEF Flow, Keeps, Running
  <2> QED BY <1>t, <2>1, CommandMemory, Advance
<1>3. CASE ~(t.pc < Len(Program[t.op])) /\ r \notin Boot
  BY <1>3, Advance, SameMemory
<1> QED BY <1>1, <1>2, <1>3

LEMMA RefusedMemory ==
  ASSUME Flow, NEW r \in Request, Running(r), InMemory(task[r]), Fail(r)
  PROVE  Moves(r) /\ InMemory(task'[r])
<1>t. task[r] \in Task /\ Placed(task[r]) /\ (r \in Boot => task[r].op \in BootOp)
  BY DEF Flow, Running
<1> QED BY <1>t, Refusal, SameMemory, CommandMemory

LEMMA OnToNextCommand ==
  ASSUME Flow, NEW r \in Boot, Running(r), InMemory(task[r]),
         Goto(r, AfterCommand(task[r])), topic' = topic, past' = past
  PROVE  Moves(r) /\ InMemory(task'[r])
<1>r. r \in Request
  BY AccountAssumption
<1>t. task[r] \in Task /\ Placed(task[r]) /\ task[r].op \in BootOp
  BY <1>r DEF Flow, Running
<1>1. /\ AfterCommand(task[r]) \in Task /\ Placed(AfterCommand(task[r]))
      /\ AfterCommand(task[r]).op \in BootOp
      /\ AfterCommand(task[r]).status \in {"running", "done"}
  BY <1>t, NextCommand, Beginning, Ops DEF BootOp, Task
<1>2. InMemory(AfterCommand(task[r])) /\ GoesOn(AfterCommand(task[r]), task[r])
  BY <1>t, CommandMemory, Onward
<1> QED BY <1>r, <1>1, <1>2 DEF Moves, Flow, Goto

LEMMA EarlyEnd ==
  ASSUME Flow, NEW r \in Request \ Boot, Running(r), InMemory(task[r]),
         task[r].op \in {"choose", "quit"},
         Goto(r, [task[r] EXCEPT !.status = "done"]), topic' = topic, past' = past
  PROVE  Moves(r) /\ InMemory(task'[r])
<1> DEFINE n == [task[r] EXCEPT !.status = "done"]
<1>t. task[r] \in Task /\ Placed(task[r])
  BY DEF Flow, Running
<1>1. n \in Task /\ Remembers(n, task[r]) /\ n.pc = task[r].pc /\ n.status = "done"
  BY <1>t DEF Task, Status, Remembers
<1>2. Placed(n) /\ InMemory(n)
  BY <1>t, <1>1, PlacedStays, SameMemory DEF Remembers
<1>3. task[r].pc >= task[r].pc
  BY <1>t DEF Task
<1>4. Through(n)
  BY DEF Through
<1> HIDE DEF n
<1> QED BY <1>1, <1>2, <1>3, <1>4 DEF Moves, Flow, Goto, Remembers, n

LEMMA Continued ==
  ASSUME Flow, NEW r \in Request, InMemory(task[r]),
         NEW s, At(r, s), s \notin {"ensure", "upsert", "read", "layerrow"},
         Proceed(r) \/ Fail(r)
  PROVE  Moves(r) /\ InMemory(task'[r])
<1>r. Running(r)
  BY DEF At
<1>1. CASE Proceed(r)
  <2>1. Keeps(task[r], task[r]) /\ Finds(task[r], s) /\ Go(r, task[r])
    BY <1>1 DEF Proceed, Keeps, Flow, Finds
  <2> QED BY <1>r, <2>1, Remembered
<1>2. CASE Fail(r)
  BY <1>r, <1>2, RefusedMemory
<1> QED BY <1>1, <1>2

\* The types of the rows, and of what is recorded beside them.
Recorded ==
  /\ grants \in [Inserter -> Code \cup {None}]
  /\ claims \in [Inserter -> Claims \cup {None}]
  /\ \A r \in Request : task[r].op \in {"refresh", "api", "info"} => claims[task[r].cred] # None

Typing == Flow /\ AccountTypeOK /\ Recorded /\ \A r \in Request : InMemory(task[r])

LEMMA NotNull == None \notin OrgId /\ None \notin User /\ None \notin Slug /\ None \notin Inserter
BY AccountAssumption DEF OrgId

LEMMA MemberTypes ==
  ASSUME AccountTypeOK, NEW m \in members
  PROVE  m \in Membership /\ m.org \in OrgId /\ m.user \in User /\ m.by \in Inserter
BY DEF AccountTypeOK, Membership

LEMMA OrganizationMoves ==
  ASSUME Typing, NEW r \in Request, Running(r), OrganizationStep(r)
  PROVE  Moves(r) /\ InMemory(task'[r])
<1> USE DEF Typing
<1>t. task[r] \in Task /\ InMemory(task[r])
  BY DEF Flow
<1>p. Placed(task[r])
  BY DEF Flow, Running
<1>r. r \in Inserter /\ r \in OrgId
  BY DEF Inserter, OrgId
<1>f. ASSUME NEW m \in RowsOf(task[r].org, task[r].user), FoundRow(r, m),
             NEW s \in {"ensure", "upsert", "join"}, At(r, s)
      PROVE  Moves(r) /\ InMemory(task'[r])
  <2> DEFINE t == [task[r] EXCEPT !.row = m]
  <2>1. m \in Membership
    BY MemberTypes DEF RowsOf
  <2>2. Keeps(t, task[r]) /\ InMemory(t) /\ Finds(t, s)
    BY <1>t, <1>f, <2>1 DEF Keeps, InMemory, Finds, Task
  <2>3. Go(r, t)
    BY <1>f DEF FoundRow
  <2> QED BY <1>f, <2>2, <2>3, Remembered
<1>i. ASSUME InsertMember(r), NEW s \in {"ensure", "upsert", "join"}, At(r, s)
      PROVE  Moves(r) /\ InMemory(task'[r])
  <2> DEFINE m == [org |-> task[r].org, user |-> task[r].user, by |-> r]
             t == [task[r] EXCEPT !.row = m]
  <2>1. m \in Membership
    BY <1>t, <1>r, <1>i DEF InsertMember, Live, Membership, AccountTypeOK, Task
  <2>2. Keeps(t, task[r]) /\ InMemory(t) /\ Finds(t, s)
    BY <1>t, <1>i, <2>1 DEF Keeps, InMemory, Finds, Task
  <2>3. Go(r, t)
    BY <1>i DEF InsertMember
  <2> QED BY <1>i, <2>2, <2>3, Remembered
<1>h. ASSUME NEW f \in BOOLEAN
      PROVE  Keeps([task[r] EXCEPT !.fresh = f], task[r])
             /\ InMemory([task[r] EXCEPT !.fresh = f])
  BY <1>t DEF Keeps, InMemory, Task
<1>1. CASE EnsureRoles(r)
  BY <1>t, <1>1, Continued DEF EnsureRoles, FailUnkept
<1>2. CASE EnsureOwner(r)
  <2>1. At(r, "ensure")
    BY <1>2 DEF EnsureOwner
  <2>2. CASE CannotInsert(r)
    BY <1>t, <2>2, RefusedMemory DEF CannotInsert, FailUnkept
  <2> QED BY <1>2, <1>f, <1>i, <2>1, <2>2 DEF EnsureOwner
<1>3. CASE UpsertMember(r)
  <2>1. At(r, "upsert")
    BY <1>3 DEF UpsertMember
  <2>2. CASE CannotInsert(r) \/ Fail(r)
    BY <1>t, <2>2, RefusedMemory DEF CannotInsert, FailUnkept
  <2> QED BY <1>3, <1>f, <1>i, <2>1, <2>2 DEF UpsertMember
<1>4. CASE GiveAdmin(r)
  BY <1>t, <1>4, Continued DEF GiveAdmin, FailUnkept
<1>5. CASE SaveMember(r)
  BY <1>t, <1>5, Continued DEF SaveMember, FailUnkept
<1>6. CASE CreateProfile(r)
  BY <1>t, <1>6, Continued DEF CreateProfile
<1>7. CASE InsertOrg(r)
  <2> DEFINE t == [task[r] EXCEPT !.org = r, !.fresh = TRUE]
  <2>1. At(r, "insert")
    BY <1>7 DEF InsertOrg
  <2>2. task[r].op = "create"
    BY <1>p, <2>1, AtPlace DEF InPlace
  <2>3. Keeps(t, task[r]) /\ InMemory(t) /\ Finds(t, "insert")
    BY <1>t, <1>r, <2>2 DEF Keeps, InMemory, Finds, Task
  <2>4. CASE Go(r, t)
    BY <2>1, <2>3, <2>4, Remembered
  <2>5. CASE Fail(r)
    BY <1>t, <2>5, RefusedMemory
  <2> QED BY <1>7, <2>4, <2>5 DEF InsertOrg
<1>8. CASE ReadOrg(r)
  <2> DEFINE o == task[r].org
             t == [task[r] EXCEPT !.user = orgs[o].owner,
                     !.slug = IF task[r].slug = None THEN orgs[o].slug ELSE task[r].slug]
  <2>1. At(r, "read")
    BY <1>8 DEF ReadOrg
  <2>2. CASE Live(o) /\ Go(r, t)
    <3>1. o \in OrgId /\ orgs[o] \in Organization
      BY <1>t, <2>2 DEF Live, AccountTypeOK, Task
    <3>2. PICK v \in Slug : v = IF task[r].slug = None THEN orgs[o].slug ELSE task[r].slug
      BY <1>t, <3>1 DEF Task, Organization
    <3>3. PICK u \in User : u = orgs[o].owner
      BY <3>1 DEF Organization
    <3>4. Keeps([task[r] EXCEPT !.user = u, !.slug = v], task[r])
      BY <1>t, <1>p, <2>1, AtPlace DEF Keeps, Task, InPlace
    <3>5. InMemory([task[r] EXCEPT !.user = u, !.slug = v])
      BY <1>t DEF InMemory, Task
    <3>6. Finds([task[r] EXCEPT !.user = u, !.slug = v], "read")
      BY <1>t DEF Finds, Task
    <3>7. Keeps(t, task[r]) /\ InMemory(t) /\ Finds(t, "read")
      BY <3>2, <3>3, <3>4, <3>5, <3>6
    <3> QED BY <2>1, <2>2, <3>7, Remembered
  <2>3. CASE Fail(r)
    BY <1>t, <2>3, RefusedMemory
  <2> QED BY <1>8, <2>2, <2>3 DEF ReadOrg
<1>9. CASE WriteBack(r)
  <2> DEFINE t == [task[r] EXCEPT !.fresh = ~Live(task[r].org)]
  <2>1. At(r, "write")
    BY <1>9 DEF WriteBack
  <2>2. CASE Go(r, t)
    <3>1. Keeps(t, task[r]) /\ InMemory(t) /\ Finds(t, "write")
      BY <1>h DEF Finds
    <3> QED BY <2>1, <2>2, <3>1, Remembered
  <2>3. CASE Fail(r)
    BY <1>t, <2>3, RefusedMemory
  <2> QED BY <1>9, <2>2, <2>3 DEF WriteBack
<1>10. CASE CheckOwner(r)
  BY <1>t, <1>10, Continued DEF CheckOwner
<1>11. CASE CollectRows(r)
  <2>1. At(r, "collect") /\ Go(r, task[r])
    BY <1>11 DEF CollectRows
  <2>2. Keeps(task[r], task[r]) /\ Finds(task[r], "collect")
    BY <1>t DEF Keeps, Finds
  <2> QED BY <1>t, <2>1, <2>2, Remembered
<1>12. CASE EraseOrg(r)
  BY <1>t, <1>12, Continued DEF EraseOrg
<1>13. CASE InsertUser(r)
  <2> DEFINE t == [task[r] EXCEPT !.user = NewUser]
  <2>1. At(r, "user")
    BY <1>13 DEF InsertUser
  <2>2. task[r].op \in {"signup", "ensureusers"}
    BY <1>p, <2>1, AtPlace DEF InPlace
  <2>3. Keeps(t, task[r]) /\ InMemory(t) /\ Finds(t, "user")
    BY <1>t, <2>2, AccountAssumption DEF Keeps, InMemory, Finds, Task
  <2>4. CASE Go(r, t)
    BY <2>1, <2>3, <2>4, Remembered
  <2>5. CASE Fail(r)
    BY <1>t, <2>5, RefusedMemory
  <2>6. CASE /\ r \in Boot /\ Goto(r, AfterCommand(task[r]))
             /\ UNCHANGED <<topic, seen, past, troubled>>
    BY <1>t, <2>6, OnToNextCommand
  <2> QED BY <1>13, <2>4, <2>5, <2>6 DEF InsertUser
<1>14. CASE HomeOrganization(r)
  <2>1. At(r, "home")
    BY <1>14 DEF HomeOrganization
  <2>2. task[r].op \in {"signup", "ensureusers", "choose", "quit"}
    BY <1>p, <2>1, AtPlace DEF InPlace
  <2>3. ASSUME NEW o \in OrgId, Go(r, [task[r] EXCEPT !.org = o])
        PROVE  Moves(r) /\ InMemory(task'[r])
    <3> DEFINE t == [task[r] EXCEPT !.org = o]
    <3>1. Keeps(t, task[r]) /\ InMemory(t) /\ Finds(t, "home")
      BY <1>t, <2>2 DEF Keeps, InMemory, Finds, Task
    <3> QED BY <2>1, <2>3, <3>1, Remembered
  <2>4. CASE Fail(r)
    BY <1>t, <2>4, RefusedMemory
  <2> QED BY <1>r, <1>14, <2>3, <2>4 DEF HomeOrganization, Named
<1>15. CASE Join(r)
  <2>1. At(r, "join")
    BY <1>15 DEF Join
  <2>2. CASE Fail(r)
    BY <1>t, <2>2, RefusedMemory
  <2> QED BY <1>15, <1>f, <1>i, <2>1, <2>2 DEF Join
<1>16. CASE Leave(r)
  BY <1>t, <1>16, Continued DEF Leave
<1>17. CASE ReadMember(r)
  BY <1>t, <1>17, Continued DEF ReadMember
<1>18. CASE SetRoles(r)
  BY <1>t, <1>18, Continued DEF SetRoles
<1>19. CASE ReadUser(r)
  <2> DEFINE t == [task[r] EXCEPT !.fresh = task[r].row # None
                                              /\ active[task[r].user] = task[r].row.org]
  <2>1. At(r, "account")
    BY <1>19 DEF ReadUser
  <2>2. CASE Go(r, t)
    <3>1. Keeps(t, task[r]) /\ InMemory(t) /\ Finds(t, "account")
      BY <1>h DEF Finds
    <3> QED BY <2>1, <2>2, <3>1, Remembered
  <2>3. CASE Fail(r)
    BY <1>t, <2>3, RefusedMemory
  <2> QED BY <1>19, <2>2, <2>3 DEF ReadUser
<1>20. CASE ChooseOrg(r)
  BY <1>t, <1>20, Continued DEF ChooseOrg
<1>21. CASE SaveUser(r)
  <2>1. At(r, "saveuser")
    BY <1>21 DEF SaveUser
  <2>2. task[r].op \in {"choose", "quit"}
    BY <1>p, <2>1, AtPlace DEF InPlace
  <2>3. r \notin Boot
    BY <2>2 DEF Flow, Running, BootOp
  <2>4. CASE Proceed(r) \/ Fail(r)
    BY <1>t, <2>1, <2>4, Continued
  <2>5. CASE /\ Goto(r, [task[r] EXCEPT !.status = "done"])
             /\ UNCHANGED <<topic, seen, past, troubled>>
    BY <1>t, <2>2, <2>3, <2>5, EarlyEnd
  <2> QED BY <1>21, <2>4, <2>5 DEF SaveUser
<1>22. CASE EnsureOrg(r)
  <2>1. At(r, "organize")
    BY <1>22 DEF EnsureOrg
  <2>2. task[r].op = "ensureorganizations" /\ task[r].pc = 1
    BY <1>p, <2>1, AtPlace DEF InPlace
  <2>b. Configured(r) \in OrgId
    BY <2>2 DEF Flow, Running, BootOp, OrgId
  <2>3. CASE Fail(r)
    BY <1>t, <2>3, RefusedMemory
  <2>4. ASSUME NEW o \in OrgId, NEW u \in User,
               Go(r, [task[r] EXCEPT !.org = o, !.user = u, !.fresh = ~Live(o)])
        PROVE  Moves(r) /\ InMemory(task'[r])
    <3>1. PICK f \in BOOLEAN : f = ~Live(o)
      OBVIOUS
    <3> DEFINE t == [task[r] EXCEPT !.org = o, !.user = u, !.fresh = f]
    <3>2. Keeps(t, task[r])
      BY <1>t, <2>2 DEF Keeps, Task
    <3>3. InMemory(t) /\ Finds(t, "organize")
      BY <1>t, <2>2 DEF InMemory, Finds, Task
    <3>4. Go(r, t)
      BY <2>4, <3>1
    <3> QED BY <2>1, <3>2, <3>3, <3>4, Remembered
  <2>5. CASE users = {} /\ Fail(r)
    BY <2>3, <2>5
  <2>6. ASSUME NEW o \in (IF Named(ConfSlug) = {} THEN {Configured(r)} ELSE Named(ConfSlug)),
               NEW u \in (IF ConfOwner \in users THEN {ConfOwner} ELSE users)
        PROVE  o \in OrgId /\ u \in User
    BY <2>b, <2>6, AccountAssumption DEF Named, AccountTypeOK
  <2> QED BY <1>22, <2>4, <2>5, <2>6 DEF EnsureOrg
<1>23. CASE FindMember(r)
  <2>1. At(r, "find")
    BY <1>23 DEF FindMember
  <2>2. task[r].op = "ensurememberships"
    BY <1>p, <2>1, AtPlace DEF InPlace
  <2>3. r \in Boot
    BY <2>2 DEF Flow, Running, BootOp
  <2>4. ASSUME NEW o \in OrgId, Go(r, [task[r] EXCEPT !.org = o, !.user = ConfMember])
        PROVE  Moves(r) /\ InMemory(task'[r])
    <3> DEFINE t == [task[r] EXCEPT !.org = o, !.user = ConfMember]
    <3>1. Keeps(t, task[r]) /\ InMemory(t) /\ Finds(t, "find")
      BY <1>t, <2>2, AccountAssumption DEF Keeps, InMemory, Finds, Task
    <3> QED BY <2>1, <2>4, <3>1, Remembered
  <2>5. CASE Goto(r, AfterCommand(task[r])) /\ UNCHANGED <<topic, past, troubled>>
    BY <1>t, <2>3, <2>5, OnToNextCommand
  <2> QED BY <1>23, <2>4, <2>5 DEF FindMember, Named
<1> QED
  BY <1>1, <1>2, <1>3, <1>4, <1>5, <1>6, <1>7, <1>8, <1>9, <1>10, <1>11, <1>12, <1>13,
     <1>14, <1>15, <1>16, <1>17, <1>18, <1>19, <1>20, <1>21, <1>22, <1>23
     DEF OrganizationStep, SignalStep

LEMMA OAuthMoves ==
  ASSUME Typing, NEW r \in Request, Running(r), OAuthStep(r)
  PROVE  Moves(r) /\ InMemory(task'[r])
<1> USE DEF Typing
<1>t. task[r] \in Task /\ InMemory(task[r])
  BY DEF Flow
<1>p. Placed(task[r])
  BY DEF Flow, Running
<1>f. ASSUME Fail(r)
      PROVE  Moves(r) /\ InMemory(task'[r])
  BY <1>t, <1>f, RefusedMemory
<1>m. ASSUME NEW m \in Membership, Go(r, [task[r] EXCEPT !.row = m]),
             NEW s, At(r, s), s \notin {"read", "layerrow"}
      PROVE  Moves(r) /\ InMemory(task'[r])
  <2> DEFINE t == [task[r] EXCEPT !.row = m]
  <2>1. Keeps(t, task[r]) /\ InMemory(t) /\ Finds(t, s)
    BY <1>t, <1>m DEF Keeps, InMemory, Finds, Task
  <2> QED BY <1>m, <2>1, Remembered
<1>1. CASE RegisterClient(r)
  BY <1>t, <1>1, Continued DEF RegisterClient
<1>2. CASE DropClient(r)
  BY <1>t, <1>2, Continued DEF DropClient
<1>3. CASE FindMembership(r)
  <2>1. At(r, "member")
    BY <1>3 DEF FindMembership
  <2>2. ASSUME NEW m \in RowsOf(task[r].org, task[r].user)
        PROVE  m \in Membership
    BY MemberTypes DEF RowsOf
  <2> QED BY <1>3, <1>f, <1>m, <2>1, <2>2 DEF FindMembership
<1>4. CASE IssueCode(r)
  BY <1>t, <1>4, Continued DEF IssueCode
<1>5. CASE QueryCode(r)
  <2>1. At(r, "query")
    BY <1>5 DEF QueryCode
  <2>2. task[r].cred \in Inserter
    BY <1>t, <1>p, <2>1, AtPlace DEF InPlace, InMemory
  <2>3. codes[task[r].cred] # None => codes[task[r].cred].member \in Membership
    BY <2>2 DEF AccountTypeOK
  <2> QED BY <1>5, <1>f, <1>m, <2>1, <2>3 DEF QueryCode
<1>6. CASE SaveToken(r)
  BY <1>t, <1>6, Continued DEF SaveToken
<1>7. CASE SpendCode(r)
  BY <1>t, <1>7, Continued DEF SpendCode
<1>8. CASE QueryRefreshToken(r)
  <2>1. At(r, "active")
    BY <1>8 DEF QueryRefreshToken
  <2>2. task[r].cred \in Inserter
    BY <1>t, <1>p, <2>1, AtPlace DEF InPlace, InMemory
  <2>3. tokens[task[r].cred] # None => tokens[task[r].cred].member \in Membership
    BY <2>2 DEF AccountTypeOK
  <2> QED BY <1>8, <1>f, <1>m, <2>1, <2>3 DEF QueryRefreshToken
<1>9. CASE RevokeToken(r)
  BY <1>t, <1>9, Continued DEF RevokeToken
<1>10. CASE ResolveMembership(r)
  <2>1. At(r, "resolve")
    BY <1>10 DEF ResolveMembership
  <2>2. \A c \in oauth : fakts[c] # None => fakts[c] \in Membership
    BY DEF AccountTypeOK
  <2> QED BY <1>10, <1>f, <1>m, <2>1, <2>2 DEF ResolveMembership
<1>11. CASE ExpandOrganization(r)
  <2>1. At(r, "organization")
    BY <1>11 DEF ExpandOrganization
  <2>2. task[r].op = "api"
    BY <1>p, <2>1, AtPlace DEF InPlace
  <2>3. PICK u \in User : u = claims[task[r].cred].user
    BY <1>t, <2>2 DEF InMemory, Recorded, Claims
  <2>4. ASSUME NEW o \in OrgId, Go(r, [task[r] EXCEPT !.org = o, !.user = u])
        PROVE  Moves(r) /\ InMemory(task'[r])
    <3> DEFINE t == [task[r] EXCEPT !.org = o, !.user = u]
    <3>1. Keeps(t, task[r]) /\ InMemory(t) /\ Finds(t, "organization")
      BY <1>t, <2>2 DEF Keeps, InMemory, Finds, Task
    <3> QED BY <2>1, <2>4, <3>1, Remembered
  <2> QED BY <1>11, <1>f, <2>3, <2>4 DEF ExpandOrganization, Named
<1>12. CASE ExpandClient(r)
  <2>1. At(r, "client")
    BY <1>12 DEF ExpandClient
  <2>2. task[r].op = "api"
    BY <1>p, <2>1, AtPlace DEF InPlace
  <2>3. ASSUME NEW c \in ClientId, Go(r, [task[r] EXCEPT !.client = c])
        PROVE  Moves(r) /\ InMemory(task'[r])
    <3> DEFINE t == [task[r] EXCEPT !.client = c]
    <3>1. Keeps(t, task[r]) /\ InMemory(t) /\ Finds(t, "client")
      BY <1>t, <2>2 DEF Keeps, InMemory, Finds, Task
    <3> QED BY <2>1, <2>3, <3>1, Remembered
  <2> QED BY <1>12, <1>f, <2>3 DEF ExpandClient, AccountTypeOK
<1>13. CASE ExpandMembership(r)
  <2>1. At(r, "membership")
    BY <1>13 DEF ExpandMembership
  <2>2. ASSUME NEW m \in RowsOf(task[r].org, task[r].user)
        PROVE  m \in Membership
    BY MemberTypes DEF RowsOf
  <2> QED BY <1>13, <1>f, <1>m, <2>1, <2>2 DEF ExpandMembership
<1>14. CASE ValidateToken(r)
  <2>1. At(r, "validate")
    BY <1>14 DEF ValidateToken
  <2>2. task[r].cred \in Inserter
    BY <1>t, <1>p, <2>1, AtPlace DEF InPlace, InMemory
  <2>3. tokens[task[r].cred] # None => tokens[task[r].cred].member \in Membership
    BY <2>2 DEF AccountTypeOK
  <2> QED BY <1>14, <1>f, <1>m, <2>1, <2>3 DEF ValidateToken
<1>15. CASE DescribeUser(r)
  <2>1. At(r, "describe")
    BY <1>15 DEF DescribeUser
  <2>2. task[r].op = "info"
    BY <1>p, <2>1, AtPlace DEF InPlace
  <2>3. ASSUME NEW o \in OrgId, NEW u \in User, NEW v \in Slug,
               Go(r, [task[r] EXCEPT !.user = u, !.org = o, !.slug = v])
        PROVE  Moves(r) /\ InMemory(task'[r])
    <3> DEFINE t == [task[r] EXCEPT !.user = u, !.org = o, !.slug = v]
    <3>1. Keeps(t, task[r]) /\ InMemory(t) /\ Finds(t, "describe")
      BY <1>t, <2>2 DEF Keeps, InMemory, Finds, Task
    <3> QED BY <2>1, <2>3, <3>1, Remembered
  <2>4. ASSUME NEW m \in members
        PROVE  m.org \in OrgId /\ m.user \in User /\ orgs[m.org].slug \in Slug
    BY MemberTypes DEF AccountTypeOK, Organization
  <2> QED BY <1>15, <1>f, <2>3, <2>4 DEF DescribeUser
<1> QED
  BY <1>1, <1>2, <1>3, <1>4, <1>5, <1>6, <1>7, <1>8, <1>9, <1>10, <1>11, <1>12, <1>13,
     <1>14, <1>15 DEF OAuthStep

LEMMA TailnetMoves ==
  ASSUME Typing, NEW r \in Request, Running(r), TailnetStep(r)
  PROVE  Moves(r) /\ InMemory(task'[r])
<1> USE DEF Typing
<1>t. task[r] \in Task /\ InMemory(task[r])
  BY DEF Flow
<1>p. Placed(task[r])
  BY DEF Flow, Running
<1>1. CASE ReadLayer(r)
  <2> DEFINE l == task[r].cred
             t == [task[r] EXCEPT !.org = layers[l].org, !.slug = layers[l].tailnet]
  <2>1. At(r, "layerrow")
    BY <1>1 DEF ReadLayer
  <2>2. task[r].op = "authkey"
    BY <1>p, <2>1, AtPlace DEF InPlace
  <2>3. CASE layers[l] # None /\ Go(r, t)
    <3>1. layers[l] \in Layer
      BY <1>t, <2>2, <2>3 DEF InMemory, AccountTypeOK
    <3>2. layers[l].org \in OrgId /\ layers[l].tailnet \in Slug
      BY <3>1 DEF Layer
    <3>3. Keeps(t, task[r]) /\ InMemory(t) /\ Finds(t, "layerrow")
      BY <1>t, <2>2, <3>2 DEF Keeps, InMemory, Finds, Task
    <3> QED BY <2>1, <2>3, <3>3, Remembered
  <2>4. CASE Fail(r)
    BY <1>t, <2>4, RefusedMemory
  <2> QED BY <1>1, <2>3, <2>4 DEF ReadLayer
<1>2. CASE CreateTailnet(r)
  BY <1>t, <1>2, Continued DEF CreateTailnet
<1>3. CASE InsertLayer(r)
  BY <1>t, <1>3, Continued DEF InsertLayer
<1>4. CASE PushPolicy(r)
  BY <1>t, <1>4, Continued DEF PushPolicy
<1>5. CASE CheckMember(r)
  BY <1>t, <1>5, Continued DEF CheckMember
<1>6. CASE MintKey(r)
  BY <1>t, <1>6, Continued DEF MintKey
<1>7. CASE StoreKey(r)
  BY <1>t, <1>7, Continued DEF StoreKey
<1> QED
  BY <1>1, <1>2, <1>3, <1>4, <1>5, <1>6, <1>7 DEF TailnetStep

LEMMA SocialMoves ==
  ASSUME Typing, NEW r \in Request, Running(r), SocialStep(r)
  PROVE  Moves(r) /\ InMemory(task'[r])
<1> USE DEF Typing
<1>t. task[r] \in Task /\ InMemory(task[r]) /\ Placed(task[r])
  BY DEF Flow, Running
<1>u. ASSUME taskVars' = taskVars
      PROVE  Moves(r) /\ InMemory(task'[r])
  BY <1>t, <1>u, Untouched DEF taskVars
<1>1. CASE LookForChannel(r)
  BY <1>t, <1>1, Continued DEF LookForChannel
<1>2. CASE PutChannel(r)
  BY <1>t, <1>2, Continued DEF PutChannel, PutToken, CannotPut
<1>3. CASE InsertComment(r)
  BY <1>t, <1>3, Continued DEF InsertComment
<1>4. CASE LookUpMentions(r)
  BY <1>t, <1>4, Continued DEF LookUpMentions
<1>5. CASE NotifyMention(r)
  BY <1>t, <1>5, <1>u, Continued DEF NotifyMention
<1>6. CASE AttachMentions(r)
  BY <1>t, <1>6, Continued DEF AttachMentions
<1>7. CASE ResolveTarget(r)
  BY <1>t, <1>7, Continued DEF ResolveTarget
<1>8. CASE CreateStash(r)
  BY <1>t, <1>8, Continued DEF CreateStash
<1>9. CASE ReadStash(r)
  BY <1>t, <1>9, Continued DEF ReadStash
<1>10. CASE SaveStash(r)
  BY <1>t, <1>10, Continued DEF SaveStash
<1>11. CASE DeleteStash(r)
  BY <1>t, <1>11, Continued DEF DeleteStash
<1>12. CASE FindItem(r)
  BY <1>t, <1>12, Continued DEF FindItem
<1>13. CASE PutItem(r)
  <2>1. At(r, "putitem")
    BY <1>13 DEF PutItem
  <2>2. task[r].op = "additems" /\ task[r].pc = 3
    BY <1>t, <2>1, AtPlace DEF InPlace
  <2>3. CASE Proceed(r) \/ Fail(r)
    BY <1>t, <2>1, <2>3, Continued
  <2>4. CASE /\ Goto(r, [task[r] EXCEPT !.pc = task[r].pc - 1])
             /\ UNCHANGED <<topic, seen, past, troubled>>
    <3>1. PICK n \in 0..9 : n = 2
      OBVIOUS
    <3> DEFINE t == [task[r] EXCEPT !.pc = n]
    <3>2. task' = [task EXCEPT ![r] = t] /\ topic' = topic /\ past' = past
      BY <2>2, <2>4, <3>1 DEF Goto
    <3>3. t \in Task /\ t.op = "additems" /\ t.status = "running" /\ t.cred = task[r].cred
          /\ t.org = task[r].org /\ t.pc = n
      BY <1>t, <2>2 DEF Task, Running
    <3>4. Placed(t)
      <4>1. "additems" \in Op /\ Len(Program["additems"]) = 3
        BY Ops, Lengths
      <4>2. 2 \in 1..Len(Program["additems"])
        BY <4>1
      <4> QED BY <3>1, <3>3, <4>1, <4>2, Zenon DEF Placed
    <3>5. InMemory(t)
      BY <1>t, <2>2, <3>3 DEF InMemory
    <3>6. r \notin Boot
      BY <2>2 DEF Flow, Running, BootOp
    <3> QED BY <2>2, <3>2, <3>3, <3>4, <3>5, <3>6 DEF Moves, Flow
  <2> QED BY <1>13, <2>3, <2>4 DEF PutItem
<1>14. CASE RemoveItem(r)
  BY <1>t, <1>14, <1>u, Continued DEF RemoveItem
<1> QED
  BY <1>1, <1>2, <1>3, <1>4, <1>5, <1>6, <1>7, <1>8, <1>9, <1>10, <1>11, <1>12, <1>13,
     <1>14 DEF SocialStep

LEMMA InventoryMoves ==
  ASSUME Typing, NEW r \in Request, Running(r), InventoryStep(r)
  PROVE  Moves(r) /\ InMemory(task'[r])
<1> USE DEF Typing
<1>t. task[r] \in Task /\ InMemory(task[r])
  BY DEF Flow
<1>1. CASE PutDevice(r)
  BY <1>t, <1>1, Continued DEF PutDevice
<1>2. CASE PutFile(r)
  BY <1>t, <1>2, Continued DEF PutFile
<1>3. CASE InsertRow(r)
  BY <1>t, <1>3, Continued DEF InsertRow, Refused
<1>4. CASE ReadRow(r)
  BY <1>t, <1>4, Continued DEF ReadRow
<1>5. CASE SaveRow(r)
  BY <1>t, <1>5, Continued DEF SaveRow, Refused
<1>6. CASE DeleteRow(r)
  BY <1>t, <1>6, Continued DEF DeleteRow
<1>7. CASE ReadGroup(r)
  BY <1>t, <1>7, Continued DEF ReadGroup
<1>8. CASE AddPair(r)
  BY <1>t, <1>8, Continued DEF AddPair
<1>9. CASE SetList(r)
  <2>1. PICK l \in List : At(r, l) /\ Proceed(r)
    BY <1>9 DEF SetList
  <2>2. l \notin {"ensure", "upsert", "read", "layerrow"}
    BY <2>1 DEF List, Lists
  <2> QED BY <1>t, <2>1, <2>2, Continued
<1> QED
  BY <1>1, <1>2, <1>3, <1>4, <1>5, <1>6, <1>7, <1>8, <1>9 DEF InventoryStep

-----------------------------------------------------------------------------
(* Arrivals *)

\* The task of a request that has been asked for o.
Plain(t, o) == t \in Task /\ t.op = o /\ t.status = "running" /\ t.pc = 1

LEMMA Asking ==
  ASSUME Flow, NEW r \in Request, NEW o \in Op \ BootOp,
         NEW t, Plain(t, o), Begin(r, t), InMemory(t)
  PROVE  /\ Begins(r) /\ InMemory(task'[r]) /\ seen' = seen
         /\ task'[r] = t
BY Arrival DEF Plain

LEMMA AskedPlain ==
  ASSUME NEW o \in Op
  PROVE  Plain(Asked(o), o)
BY Beginning DEF Plain

LEMMA OrganizationArrives ==
  ASSUME Typing, NEW r \in Request, OrganizationArrive(r)
  PROVE  /\ Begins(r) /\ InMemory(task'[r]) /\ seen' = seen
         /\ task'[r].op \in {"create", "update", "delete", "signup", "join", "leave",
                             "makeAdmin", "unmakeAdmin", "choose", "quit"}
         /\ task'[r].op = "update" => Live(task'[r].org) /\ task'[r].slug \notin Request
         /\ UNCHANGED <<orgVars, oauthVars>>
<1> USE DEF Typing
<1>r. r \in Slug
  BY DEF Slug
<1>1. ASSUME NEW u \in users, BeginCreate(r, u)
      PROVE  /\ Begins(r) /\ InMemory(task'[r]) /\ seen' = seen /\ task'[r].op = "create"
             /\ UNCHANGED <<orgVars, oauthVars>>
  <2> DEFINE t == [Asked("create") EXCEPT !.user = u, !.slug = r]
  <2>1. "create" \in Op \ BootOp
    BY Ops DEF BootOp
  <2>2. u \in User \cup {None} /\ r \in Slug \cup {None}
    BY <1>r DEF AccountTypeOK
  <2>a. Plain(Asked("create"), "create")
    BY <2>1, AskedPlain
  <2>3. Plain(t, "create")
    BY <2>2, <2>a DEF Plain, Task
  <2>4. InMemory(t)
    BY <2>2, <2>3 DEF InMemory, Plain
  <2>5. Begin(r, t) /\ UNCHANGED <<orgVars, oauthVars>>
    BY <1>1 DEF BeginCreate
  <2> HIDE DEF t
  <2> QED BY <2>1, <2>3, <2>4, <2>5, Asking DEF Plain
<1>2. ASSUME NEW x \in OrgId, Live(x), NEW s \in {None, NewUser, ConfSlug}, BeginUpdate(r, x, s)
      PROVE  /\ Begins(r) /\ InMemory(task'[r]) /\ seen' = seen /\ task'[r].op = "update"
             /\ task'[r].org = x /\ task'[r].slug \notin Request
             /\ UNCHANGED <<orgVars, oauthVars>>
  <2> DEFINE t == [Asked("update") EXCEPT !.org = x, !.slug = s]
  <2>1. "update" \in Op \ BootOp
    BY Ops DEF BootOp
  <2>2. x \in OrgId \cup {None} /\ s \in Slug \cup {None}
    BY AccountAssumption DEF Slug
  <2>s. s \notin Request
    BY AccountAssumption, NotNull DEF Inserter
  <2>a. Plain(Asked("update"), "update")
    BY <2>1, AskedPlain
  <2>3. Plain(t, "update") /\ t.org = x /\ t.slug = s
    BY <2>2, <2>a DEF Plain, Task
  <2>4. InMemory(t)
    BY <2>2, <2>3 DEF InMemory, Plain
  <2>5. Begin(r, t) /\ UNCHANGED <<orgVars, oauthVars>>
    BY <1>2 DEF BeginUpdate
  <2> HIDE DEF t
  <2> QED BY <2>1, <2>s, <2>3, <2>4, <2>5, Asking DEF Plain
<1>3. ASSUME NEW x \in OrgId, NEW u \in User, BeginDelete(r, x, u)
      PROVE  /\ Begins(r) /\ InMemory(task'[r]) /\ seen' = seen /\ task'[r].op = "delete"
             /\ UNCHANGED <<orgVars, oauthVars>>
  <2> DEFINE t == [Asked("delete") EXCEPT !.org = x, !.user = u]
  <2>1. "delete" \in Op \ BootOp
    BY Ops DEF BootOp
  <2>2. x \in OrgId \cup {None} /\ u \in User \cup {None}
    OBVIOUS
  <2>a. Plain(Asked("delete"), "delete")
    BY <2>1, AskedPlain
  <2>3. Plain(t, "delete") /\ t.org = x
    BY <2>2, <2>a DEF Plain, Task
  <2>4. InMemory(t)
    BY <2>2, <2>3 DEF InMemory, Plain
  <2>5. Begin(r, t) /\ UNCHANGED <<orgVars, oauthVars>>
    BY <1>3 DEF BeginDelete
  <2> HIDE DEF t
  <2> QED BY <2>1, <2>3, <2>4, <2>5, Asking DEF Plain
<1>4. ASSUME BeginSignup(r)
      PROVE  /\ Begins(r) /\ InMemory(task'[r]) /\ seen' = seen /\ task'[r].op = "signup"
             /\ UNCHANGED <<orgVars, oauthVars>>
  <2> DEFINE t == [Asked("signup") EXCEPT !.user = NewUser]
  <2>1. "signup" \in Op \ BootOp
    BY Ops DEF BootOp
  <2>2. NewUser \in User \cup {None}
    BY AccountAssumption
  <2>a. Plain(Asked("signup"), "signup")
    BY <2>1, AskedPlain
  <2>3. Plain(t, "signup")
    BY <2>2, <2>a DEF Plain, Task
  <2>4. InMemory(t)
    BY <2>2, <2>3 DEF InMemory, Plain
  <2>5. Begin(r, t) /\ UNCHANGED <<orgVars, oauthVars>>
    BY <1>4 DEF BeginSignup
  <2> HIDE DEF t
  <2> QED BY <2>1, <2>3, <2>4, <2>5, Asking DEF Plain
<1>5. ASSUME NEW x \in OrgId, NEW u \in users, BeginJoin(r, x, u)
      PROVE  /\ Begins(r) /\ InMemory(task'[r]) /\ seen' = seen /\ task'[r].op = "join"
             /\ UNCHANGED <<orgVars, oauthVars>>
  <2> DEFINE t == [Asked("join") EXCEPT !.org = x, !.user = u]
  <2>1. "join" \in Op \ BootOp
    BY Ops DEF BootOp
  <2>2. x \in OrgId \cup {None} /\ u \in User \cup {None}
    BY DEF AccountTypeOK
  <2>a. Plain(Asked("join"), "join")
    BY <2>1, AskedPlain
  <2>3. Plain(t, "join")
    BY <2>2, <2>a DEF Plain, Task
  <2>4. InMemory(t)
    BY <2>2, <2>3 DEF InMemory, Plain
  <2>5. Begin(r, t) /\ UNCHANGED <<orgVars, oauthVars>>
    BY <1>5 DEF BeginJoin
  <2> HIDE DEF t
  <2> QED BY <2>1, <2>3, <2>4, <2>5, Asking DEF Plain
<1>6. ASSUME NEW m \in members, NEW o \in {"leave", "makeAdmin", "unmakeAdmin"},
             BeginMembership(r, o, m)
      PROVE  /\ Begins(r) /\ InMemory(task'[r]) /\ seen' = seen /\ task'[r].op = o
             /\ UNCHANGED <<orgVars, oauthVars>>
  <2> DEFINE t == [Asked(o) EXCEPT !.row = m]
  <2>1. o \in Op \ BootOp /\ m \in Membership
    BY <1>6, Ops, MemberTypes DEF BootOp
  <2>a. Plain(Asked(o), o)
    BY <2>1, AskedPlain
  <2>3. Plain(t, o) /\ t.row = m
    BY <2>1, <2>a DEF Plain, Task
  <2>4. InMemory(t)
    BY <1>6, <2>1, <2>3 DEF InMemory, Plain
  <2>5. Begin(r, t) /\ UNCHANGED <<orgVars, oauthVars>>
    BY <1>6 DEF BeginMembership
  <2> HIDE DEF t
  <2> QED BY <2>1, <2>3, <2>4, <2>5, Asking DEF Plain
<1>7. ASSUME NEW x \in OrgId, NEW u \in users, BeginChoose(r, u, x)
      PROVE  /\ Begins(r) /\ InMemory(task'[r]) /\ seen' = seen /\ task'[r].op = "choose"
             /\ UNCHANGED <<orgVars, oauthVars>>
  <2> DEFINE t == [Asked("choose") EXCEPT !.user = u, !.org = x]
  <2>1. "choose" \in Op \ BootOp
    BY Ops DEF BootOp
  <2>2. x \in OrgId /\ u \in User
    BY DEF AccountTypeOK
  <2>a. Plain(Asked("choose"), "choose")
    BY <2>1, AskedPlain
  <2>3. Plain(t, "choose") /\ t.org = x /\ t.user = u
    BY <2>2, <2>a DEF Plain, Task
  <2>4. InMemory(t)
    BY <2>2, <2>3 DEF InMemory, Plain
  <2>5. Begin(r, t) /\ UNCHANGED <<orgVars, oauthVars>>
    BY <1>7 DEF BeginChoose
  <2> HIDE DEF t
  <2> QED BY <2>1, <2>3, <2>4, <2>5, Asking DEF Plain
<1>8. ASSUME NEW m \in members, BeginQuit(r, m)
      PROVE  /\ Begins(r) /\ InMemory(task'[r]) /\ seen' = seen /\ task'[r].op = "quit"
             /\ UNCHANGED <<orgVars, oauthVars>>
  <2> DEFINE t == [Asked("quit") EXCEPT !.user = m.user, !.row = m]
  <2>1. "quit" \in Op \ BootOp
    BY Ops DEF BootOp
  <2>2. m \in Membership /\ m.user \in User
    BY MemberTypes
  <2>a. Plain(Asked("quit"), "quit")
    BY <2>1, AskedPlain
  <2>3. Plain(t, "quit") /\ t.row = m /\ t.user = m.user
    BY <2>2, <2>a DEF Plain, Task
  <2>4. InMemory(t)
    BY <2>2, <2>3 DEF InMemory, Plain
  <2>5. Begin(r, t) /\ UNCHANGED <<orgVars, oauthVars>>
    BY <1>8 DEF BeginQuit
  <2> HIDE DEF t
  <2> QED BY <2>1, <2>3, <2>4, <2>5, Asking DEF Plain
<1>9. \A o \in OrgId : Live(o) => orgs[o].owner \in User
  BY DEF Live, AccountTypeOK, Organization
<1> QED
  BY <1>1, <1>2, <1>3, <1>4, <1>5, <1>6, <1>7, <1>8, <1>9 DEF OrganizationArrive

LEMMA OAuthArrives ==
  ASSUME Typing, NEW r \in Request, OAuthArrive(r)
  PROVE  /\ Begins(r) /\ InMemory(task'[r]) /\ seen' = seen
         /\ task'[r].op \in {"register", "drop", "accept", "exchange", "refresh",
                             "credentials", "api", "info"}
         /\ task'[r].op = "drop" => task'[r].client \in oauth
         /\ task'[r].op = "exchange" => grants[task'[r].cred] # None
         /\ task'[r].op = "refresh" => task'[r].cred \in Refreshable
         /\ task'[r].op \in {"api", "info"} => task'[r].cred \in Received
         /\ UNCHANGED <<orgVars, oauthVars>>
<1> USE DEF Typing
<1>c. oauth \subseteq ClientId /\ Received \subseteq Inserter /\ Refreshable \subseteq Inserter
  BY DEF AccountTypeOK, Received, Refreshable
<1>1. ASSUME NEW m \in members, BeginRegister(r, m)
      PROVE  /\ Begins(r) /\ InMemory(task'[r]) /\ seen' = seen /\ task'[r].op = "register"
             /\ UNCHANGED <<orgVars, oauthVars>>
  <2> DEFINE t == [Asked("register") EXCEPT !.row = m]
  <2>1. "register" \in Op \ BootOp
    BY Ops DEF BootOp
  <2>2. m \in Membership
    BY MemberTypes
  <2>a. Plain(Asked("register"), "register")
    BY <2>1, AskedPlain
  <2>3. Plain(t, "register") /\ t.row = m
    BY <2>2, <2>a DEF Plain, Task
  <2>4. InMemory(t)
    BY <2>2, <2>3 DEF InMemory, Plain
  <2>5. Begin(r, t) /\ UNCHANGED <<orgVars, oauthVars>>
    BY <1>1 DEF BeginRegister
  <2> HIDE DEF t
  <2> QED BY <1>1, <2>1, <2>3, <2>4, <2>5, Asking DEF Plain
<1>2. ASSUME NEW c \in oauth, BeginDrop(r, c)
      PROVE  /\ Begins(r) /\ InMemory(task'[r]) /\ seen' = seen /\ task'[r].op = "drop"
             /\ UNCHANGED <<orgVars, oauthVars>>
             /\ task'[r].client \in oauth
  <2> DEFINE t == [Asked("drop") EXCEPT !.client = c]
  <2>1. "drop" \in Op \ BootOp
    BY Ops DEF BootOp
  <2>2. c \in ClientId
    BY <1>c
  <2>a. Plain(Asked("drop"), "drop")
    BY <2>1, AskedPlain
  <2>3. Plain(t, "drop") /\ t.client = c
    BY <2>2, <2>a DEF Plain, Task
  <2>4. InMemory(t)
    BY <2>2, <2>3 DEF InMemory, Plain
  <2>5. Begin(r, t) /\ UNCHANGED <<orgVars, oauthVars>>
    BY <1>2 DEF BeginDrop
  <2> HIDE DEF t
  <2> QED BY <1>2, <2>1, <2>3, <2>4, <2>5, Asking DEF Plain
<1>3. ASSUME NEW m \in members, NEW c \in oauth, BeginAccept(r, m, c)
      PROVE  /\ Begins(r) /\ InMemory(task'[r]) /\ seen' = seen /\ task'[r].op = "accept"
             /\ UNCHANGED <<orgVars, oauthVars>>
  <2> DEFINE t == [Asked("accept") EXCEPT !.org = m.org, !.user = m.user, !.client = c]
  <2>1. "accept" \in Op \ BootOp
    BY Ops DEF BootOp
  <2>2. m.org \in OrgId /\ m.user \in User /\ c \in ClientId
    BY <1>c, MemberTypes
  <2>a. Plain(Asked("accept"), "accept")
    BY <2>1, AskedPlain
  <2>3. Plain(t, "accept") /\ t.client = c
    BY <2>2, <2>a DEF Plain, Task
  <2>4. InMemory(t)
    BY <2>2, <2>3 DEF InMemory, Plain
  <2>5. Begin(r, t) /\ UNCHANGED <<orgVars, oauthVars>>
    BY <1>3 DEF BeginAccept
  <2> HIDE DEF t
  <2> QED BY <1>3, <2>1, <2>3, <2>4, <2>5, Asking DEF Plain
<1>4. ASSUME NEW k \in Inserter, NEW c \in oauth, grants[k] # None, BeginExchange(r, k, c)
      PROVE  /\ Begins(r) /\ InMemory(task'[r]) /\ seen' = seen /\ task'[r].op = "exchange"
             /\ UNCHANGED <<orgVars, oauthVars>>
             /\ grants[task'[r].cred] # None
  <2> DEFINE t == [Asked("exchange") EXCEPT !.cred = k, !.client = c]
  <2>1. "exchange" \in Op \ BootOp
    BY Ops DEF BootOp
  <2>2. k \in Inserter /\ c \in ClientId
    BY <1>c
  <2>a. Plain(Asked("exchange"), "exchange")
    BY <2>1, AskedPlain
  <2>3. Plain(t, "exchange") /\ t.cred = k /\ t.client = c
    BY <2>2, <2>a DEF Plain, Task
  <2>4. InMemory(t)
    BY <2>2, <2>3 DEF InMemory, Plain
  <2>5. Begin(r, t) /\ UNCHANGED <<orgVars, oauthVars>>
    BY <1>4 DEF BeginExchange
  <2> HIDE DEF t
  <2> QED BY <1>4, <2>1, <2>3, <2>4, <2>5, Asking DEF Plain
<1>5. ASSUME NEW k \in Refreshable, NEW c \in oauth, BeginRefresh(r, k, c)
      PROVE  /\ Begins(r) /\ InMemory(task'[r]) /\ seen' = seen /\ task'[r].op = "refresh"
             /\ UNCHANGED <<orgVars, oauthVars>>
             /\ task'[r].cred \in Refreshable
  <2> DEFINE t == [Asked("refresh") EXCEPT !.cred = k, !.client = c]
  <2>1. "refresh" \in Op \ BootOp
    BY Ops DEF BootOp
  <2>2. k \in Inserter /\ c \in ClientId
    BY <1>c
  <2>a. Plain(Asked("refresh"), "refresh")
    BY <2>1, AskedPlain
  <2>3. Plain(t, "refresh") /\ t.cred = k /\ t.client = c
    BY <2>2, <2>a DEF Plain, Task
  <2>4. InMemory(t)
    BY <2>2, <2>3 DEF InMemory, Plain
  <2>5. Begin(r, t) /\ UNCHANGED <<orgVars, oauthVars>>
    BY <1>5 DEF BeginRefresh
  <2> HIDE DEF t
  <2> QED BY <1>5, <2>1, <2>3, <2>4, <2>5, Asking DEF Plain
<1>6. ASSUME NEW c \in oauth, BeginCredentials(r, c)
      PROVE  /\ Begins(r) /\ InMemory(task'[r]) /\ seen' = seen /\ task'[r].op = "credentials"
             /\ UNCHANGED <<orgVars, oauthVars>>
  <2> DEFINE t == [Asked("credentials") EXCEPT !.client = c]
  <2>1. "credentials" \in Op \ BootOp
    BY Ops DEF BootOp
  <2>2. c \in ClientId
    BY <1>c
  <2>a. Plain(Asked("credentials"), "credentials")
    BY <2>1, AskedPlain
  <2>3. Plain(t, "credentials") /\ t.client = c
    BY <2>2, <2>a DEF Plain, Task
  <2>4. InMemory(t)
    BY <2>2, <2>3 DEF InMemory, Plain
  <2>5. Begin(r, t) /\ UNCHANGED <<orgVars, oauthVars>>
    BY <1>6 DEF BeginCredentials
  <2> HIDE DEF t
  <2> QED BY <1>6, <2>1, <2>3, <2>4, <2>5, Asking DEF Plain
<1>7. ASSUME NEW k \in Received, BeginApi(r, k)
      PROVE  /\ Begins(r) /\ InMemory(task'[r]) /\ seen' = seen /\ task'[r].op = "api"
             /\ UNCHANGED <<orgVars, oauthVars>>
             /\ task'[r].cred \in Received
  <2> DEFINE t == [Asked("api") EXCEPT !.cred = k]
  <2>1. "api" \in Op \ BootOp
    BY Ops DEF BootOp
  <2>2. k \in Inserter
    BY <1>c
  <2>a. Plain(Asked("api"), "api")
    BY <2>1, AskedPlain
  <2>3. Plain(t, "api") /\ t.cred = k
    BY <2>2, <2>a DEF Plain, Task
  <2>4. InMemory(t)
    BY <2>2, <2>3 DEF InMemory, Plain
  <2>5. Begin(r, t) /\ UNCHANGED <<orgVars, oauthVars>>
    BY <1>7 DEF BeginApi
  <2> HIDE DEF t
  <2> QED BY <1>7, <2>1, <2>3, <2>4, <2>5, Asking DEF Plain
<1>8. ASSUME NEW k \in Received, BeginInfo(r, k)
      PROVE  /\ Begins(r) /\ InMemory(task'[r]) /\ seen' = seen /\ task'[r].op = "info"
             /\ UNCHANGED <<orgVars, oauthVars>>
             /\ task'[r].cred \in Received
  <2> DEFINE t == [Asked("info") EXCEPT !.cred = k]
  <2>1. "info" \in Op \ BootOp
    BY Ops DEF BootOp
  <2>2. k \in Inserter
    BY <1>c
  <2>a. Plain(Asked("info"), "info")
    BY <2>1, AskedPlain
  <2>3. Plain(t, "info") /\ t.cred = k
    BY <2>2, <2>a DEF Plain, Task
  <2>4. InMemory(t)
    BY <2>2, <2>3 DEF InMemory, Plain
  <2>5. Begin(r, t) /\ UNCHANGED <<orgVars, oauthVars>>
    BY <1>8 DEF BeginInfo
  <2> HIDE DEF t
  <2> QED BY <1>8, <2>1, <2>3, <2>4, <2>5, Asking DEF Plain
<1> QED
  BY <1>1, <1>2, <1>3, <1>4, <1>5, <1>6, <1>7, <1>8 DEF OAuthArrive

LEMMA TailnetArrives ==
  ASSUME Typing, NEW r \in Request, TailnetArrive(r)
  PROVE  /\ Begins(r) /\ InMemory(task'[r]) /\ seen' = seen
         /\ task'[r].op \in {"tailnet", "authkey"}
         /\ task'[r].op = "authkey" => layers[task'[r].cred] # None
         /\ UNCHANGED <<orgVars, oauthVars, tailnetVars>>
<1> USE DEF Typing
<1>1. ASSUME NEW o \in OrgId, BeginTailnet(r, o)
      PROVE  /\ Begins(r) /\ InMemory(task'[r]) /\ seen' = seen /\ task'[r].op = "tailnet"
             /\ UNCHANGED <<orgVars, oauthVars, tailnetVars>>
  <2> DEFINE t == [Asked("tailnet") EXCEPT !.org = o]
  <2>1. "tailnet" \in Op \ BootOp
    BY Ops DEF BootOp
  <2>2. o \in OrgId
    OBVIOUS
  <2>a. Plain(Asked("tailnet"), "tailnet")
    BY <2>1, AskedPlain
  <2>3. Plain(t, "tailnet") /\ t.org = o
    BY <2>2, <2>a DEF Plain, Task
  <2>4. InMemory(t)
    BY <2>2, <2>3 DEF InMemory, Plain
  <2>5. Begin(r, t) /\ UNCHANGED <<orgVars, oauthVars, tailnetVars>>
    BY <1>1 DEF BeginTailnet
  <2> HIDE DEF t
  <2> QED BY <1>1, <2>1, <2>3, <2>4, <2>5, Asking DEF Plain
<1>2. ASSUME NEW u \in users, NEW l \in Inserter, layers[l] # None, BeginAuthKey(r, u, l)
      PROVE  /\ Begins(r) /\ InMemory(task'[r]) /\ seen' = seen /\ task'[r].op = "authkey"
             /\ UNCHANGED <<orgVars, oauthVars, tailnetVars>>
             /\ layers[task'[r].cred] # None
  <2> DEFINE t == [Asked("authkey") EXCEPT !.user = u, !.cred = l]
  <2>1. "authkey" \in Op \ BootOp
    BY Ops DEF BootOp
  <2>2. u \in User /\ l \in Inserter
    BY DEF AccountTypeOK
  <2>a. Plain(Asked("authkey"), "authkey")
    BY <2>1, AskedPlain
  <2>3. Plain(t, "authkey") /\ t.cred = l /\ t.user = u
    BY <2>2, <2>a DEF Plain, Task
  <2>4. InMemory(t)
    BY <2>2, <2>3 DEF InMemory, Plain
  <2>5. Begin(r, t) /\ UNCHANGED <<orgVars, oauthVars, tailnetVars>>
    BY <1>2 DEF BeginAuthKey
  <2> HIDE DEF t
  <2> QED BY <1>2, <2>1, <2>3, <2>4, <2>5, Asking DEF Plain
<1> QED
  BY <1>1, <1>2 DEF TailnetArrive

SocialOp == {"channel", "message", "comment", "stash", "restash", "unstash", "additems",
             "removeitems"}

\* What a request that keeps something is asked, and what it has left to do.
Brings(t, what, left) ==
  /\ t.op = "channel" => what \in PushToken /\ left = {}
  /\ t.op = "comment" => what \in MentionSets /\ left = what
  /\ t.op = "message" => left = what /\ \E v \in users \cup {Unknown} : left = {v}
  /\ t.op \in {"stash", "restash", "unstash"} => left = {}
  /\ t.op = "additems" => left \subseteq Key /\ left # {}
  /\ t.op = "removeitems" => left \subseteq items /\ left # {}
  /\ t.op \in {"stash", "restash", "unstash", "additems", "removeitems"} => what = None

BeginsSocial(r) ==
  /\ Begins(r) /\ InMemory(task'[r]) /\ seen' = seen
  /\ task'[r].op \in SocialOp
  /\ \E what, left :
       /\ Brings(task'[r], what, left)
       /\ asked' = [asked EXCEPT ![r] = what] /\ todo' = [todo EXCEPT ![r] = left]
  /\ UNCHANGED <<channels, comments, stashes, items, found, last, notified>>

LEMMA SocialArrives ==
  ASSUME Typing, SocialTypeOK, NEW r \in Request, SocialArrive(r)
  PROVE  BeginsSocial(r)
<1> USE DEF Typing
<1>b. ASSUME NEW o \in SocialOp, NEW t, Plain(t, o), InMemory(t), NEW what, NEW left,
             Brings(t, what, left), BeginSocial(r, t, what, left)
      PROVE  BeginsSocial(r)
  <2>1. o \in Op \ BootOp
    BY <1>b, Ops DEF SocialOp, BootOp
  <2>2. Begin(r, t)
    BY <1>b DEF BeginSocial
  <2>3. Begins(r) /\ InMemory(task'[r]) /\ seen' = seen /\ task'[r] = t
    BY <1>b, <2>1, <2>2, Asking
  <2> QED BY <1>b, <2>3 DEF BeginSocial, BeginsSocial, Plain
<1>o. SocialOp \subseteq Op
  BY Ops DEF SocialOp
<1>u. users \subseteq User /\ Request \subseteq Inserter
  BY DEF AccountTypeOK, Inserter
<1>1. ASSUME NEW u \in users, NEW token \in PushToken, BeginChannel(r, u, token)
      PROVE  BeginsSocial(r)
  <2> DEFINE t == [Asked("channel") EXCEPT !.user = u]
  <2>1. "channel" \in SocialOp
    BY DEF SocialOp
  <2>2. u \in User
    BY <1>u
  <2>a. Plain(Asked("channel"), "channel")
    BY <1>o, <2>1, AskedPlain
  <2>3. Plain(t, "channel") /\ t.user = u
    BY <2>2, <2>a DEF Plain, Task
  <2>4. InMemory(t)
    BY <2>2, <2>3 DEF InMemory, Plain
  <2>5. Brings(t, token, {})
    BY <2>3 DEF Brings, Plain
  <2>6. BeginSocial(r, t, token, {})
    BY <1>1 DEF BeginChannel
  <2> HIDE DEF t
  <2> QED BY <1>b, <2>1, <2>3, <2>4, <2>5, <2>6
<1>2. ASSUME NEW M \in MentionSets, NEW notify \in BOOLEAN, NEW p \in Request \cup {None},
             BeginComment(r, M, p, notify)
      PROVE  BeginsSocial(r)
  <2> DEFINE t == [Asked("comment") EXCEPT !.user = Member, !.cred = p, !.fresh = notify]
  <2>1. "comment" \in SocialOp
    BY DEF SocialOp
  <2>2. Member \in User /\ p \in Inserter \cup {None} /\ p \in Request \cup {None}
    BY <1>u, AccountAssumption
  <2>a. Plain(Asked("comment"), "comment")
    BY <1>o, <2>1, AskedPlain
  <2>3. Plain(t, "comment") /\ t.cred = p
    BY <2>2, <2>a DEF Plain, Task
  <2>4. InMemory(t)
    BY <2>2, <2>3 DEF InMemory, Plain
  <2>5. Brings(t, M, M)
    BY <2>3 DEF Brings, Plain
  <2>6. BeginSocial(r, t, M, M)
    BY <1>2 DEF BeginComment
  <2> HIDE DEF t
  <2> QED BY <1>b, <2>1, <2>3, <2>4, <2>5, <2>6
<1>3. ASSUME NEW u \in users, NEW v \in users \cup {Unknown}, BeginMessage(r, u, v)
      PROVE  BeginsSocial(r)
  <2> DEFINE t == [Asked("message") EXCEPT !.user = u]
  <2>1. "message" \in SocialOp
    BY DEF SocialOp
  <2>2. u \in User
    BY <1>u
  <2>a. Plain(Asked("message"), "message")
    BY <1>o, <2>1, AskedPlain
  <2>3. Plain(t, "message")
    BY <2>2, <2>a DEF Plain, Task
  <2>4. InMemory(t)
    BY <2>2, <2>3 DEF InMemory, Plain
  <2>5. Brings(t, {v}, {v})
    BY <2>3 DEF Brings, Plain
  <2>6. BeginSocial(r, t, {v}, {v})
    BY <1>3 DEF BeginMessage
  <2> HIDE DEF t
  <2> QED BY <1>b, <2>1, <2>3, <2>4, <2>5, <2>6
<1>4. ASSUME BeginStash(r, "stash", None, {})
      PROVE  BeginsSocial(r)
  <2> DEFINE t == [Asked("stash") EXCEPT !.org = None]
  <2>1. "stash" \in SocialOp
    BY DEF SocialOp
  <2>2. None \in OrgId \cup {None}
    OBVIOUS
  <2>a. Plain(Asked("stash"), "stash")
    BY <1>o, <2>1, AskedPlain
  <2>3. Plain(t, "stash")
    BY <2>2, <2>a DEF Plain, Task
  <2>4. InMemory(t)
    BY <2>2, <2>3 DEF InMemory, Plain
  <2>5. Brings(t, None, {})
    BY <2>3 DEF Brings, Plain
  <2>6. BeginSocial(r, t, None, {})
    BY <1>4 DEF BeginStash
  <2> HIDE DEF t
  <2> QED BY <1>b, <2>1, <2>3, <2>4, <2>5, <2>6
<1>5. ASSUME NEW s \in stashes, NEW o \in {"restash", "unstash"}, s \in Inserter,
             BeginStash(r, o, s, {})
      PROVE  BeginsSocial(r)
  <2> DEFINE t == [Asked(o) EXCEPT !.org = s]
  <2>1. o \in SocialOp
    BY DEF SocialOp
  <2>2. s \in OrgId /\ o \in {"restash", "unstash"} /\ s \in Inserter
    BY <1>5 DEF OrgId
  <2>a. Plain(Asked(o), o)
    BY <1>o, <2>1, AskedPlain
  <2>3. Plain(t, o) /\ t.org = s
    BY <2>2, <2>a DEF Plain, Task
  <2>4. InMemory(t)
    BY <2>2, <2>3 DEF InMemory, Plain
  <2>5. Brings(t, None, {})
    BY <2>2, <2>3 DEF Brings, Plain
  <2>6. BeginSocial(r, t, None, {})
    BY <1>5 DEF BeginStash
  <2> HIDE DEF t
  <2> QED BY <1>b, <2>1, <2>3, <2>4, <2>5, <2>6
<1>6. ASSUME NEW s \in Inserter, NEW K \in (SUBSET Key) \ {{}}, BeginStash(r, "additems", s, K)
      PROVE  BeginsSocial(r)
  <2> DEFINE t == [Asked("additems") EXCEPT !.org = s]
  <2>1. "additems" \in SocialOp
    BY DEF SocialOp
  <2>2. s \in OrgId /\ s \in Inserter
    BY DEF OrgId
  <2>a. Plain(Asked("additems"), "additems")
    BY <1>o, <2>1, AskedPlain
  <2>3. Plain(t, "additems") /\ t.org = s
    BY <2>2, <2>a DEF Plain, Task
  <2>4. InMemory(t)
    BY <2>2, <2>3 DEF InMemory, Plain
  <2>5. Brings(t, None, K)
    BY <2>3 DEF Brings, Plain
  <2>6. BeginSocial(r, t, None, K)
    BY <1>6 DEF BeginStash
  <2> HIDE DEF t
  <2> QED BY <1>b, <2>1, <2>3, <2>4, <2>5, <2>6
<1>7. ASSUME NEW I \in (SUBSET items) \ {{}}, BeginStash(r, "removeitems", None, I)
      PROVE  BeginsSocial(r)
  <2> DEFINE t == [Asked("removeitems") EXCEPT !.org = None]
  <2>1. "removeitems" \in SocialOp
    BY DEF SocialOp
  <2>2. None \in OrgId \cup {None}
    OBVIOUS
  <2>a. Plain(Asked("removeitems"), "removeitems")
    BY <1>o, <2>1, AskedPlain
  <2>3. Plain(t, "removeitems")
    BY <2>2, <2>a DEF Plain, Task
  <2>4. InMemory(t)
    BY <2>2, <2>3 DEF InMemory, Plain
  <2>5. Brings(t, None, I)
    BY <2>3 DEF Brings, Plain
  <2>6. BeginSocial(r, t, None, I)
    BY <1>7 DEF BeginStash
  <2> HIDE DEF t
  <2> QED BY <1>b, <2>1, <2>3, <2>4, <2>5, <2>6
<1> QED
  BY <1>1, <1>2, <1>3, <1>4, <1>5, <1>6, <1>7 DEF SocialArrive, SocialTypeOK

InventoryOp == {"device", "group", "profile", "upload", "edit", "remove", "enlist", "permit"}
ProfileKind == {"userProfile", "organizationProfile", "groupProfile"}

\* What a request about rows is asked.
Orders(op, o) ==
  /\ o \in Order
  /\ op \in {"device", "group", "profile", "upload"} => o.place \in Place /\ o.row = None
  /\ op = "device" => o.kind = "device"
  /\ op = "group" => o.kind = "group"
  /\ op = "profile" => o.kind \in ProfileKind
  /\ op = "upload" => o.kind = "file"
  /\ op \in {"edit", "remove", "enlist"} => o.row \in Inserter
  /\ op = "edit" /\ o.kind = "group" => FALSE
  /\ op = "enlist" => o.kind = "device" /\ o.group \in Inserter

BeginsInventory(r) ==
  /\ Begins(r) /\ InMemory(task'[r]) /\ seen' = seen
  /\ task'[r].op \in InventoryOp
  /\ \E o : Orders(task'[r].op, o) /\ order' = [order EXCEPT ![r] = o]
  /\ UNCHANGED <<rows, grouped, lists, kept, wrote>>

LEMMA InventoryArrives ==
  ASSUME Typing, NEW r \in Request, InventoryArrive(r)
  PROVE  BeginsInventory(r)
<1> USE DEF Typing
<1>b. ASSUME NEW op \in InventoryOp, NEW o, Orders(op, o), Ask(r, op, o)
      PROVE  BeginsInventory(r)
  <2>1. op \in Op \ BootOp
    BY <1>b, Ops DEF InventoryOp, BootOp
  <2>2. Begin(r, Asked(op))
    BY <1>b DEF Ask
  <2>3. Plain(Asked(op), op)
    BY <2>1, AskedPlain
  <2>4. InMemory(Asked(op))
    BY <1>b, <2>3 DEF InMemory, InventoryOp, Plain
  <2>5. Begins(r) /\ InMemory(task'[r]) /\ seen' = seen /\ task'[r] = Asked(op)
    BY <2>1, <2>2, <2>3, <2>4, Asking
  <2> QED BY <1>b, <2>3, <2>5 DEF Ask, BeginsInventory, Plain
<1>n. ASSUME NEW k \in Kind, NEW p \in Place
      PROVE  New(k, p) \in Order /\ New(k, p).place = p /\ New(k, p).row = None
             /\ New(k, p).kind = k
  BY DEF New, NoOrder, Order
<1>k. ASSUME NEW k \in Kind, NEW x \in Inserter
      PROVE  Of(k, x) \in Order /\ Of(k, x).row = x /\ Of(k, x).kind = k
  BY DEF Of, NoOrder, Order, Kind
<1>1. ASSUME NEW p \in Place,
             \/ CreateDevice(r, p) \/ CreateDeviceGroup(r, p) \/ CreateUserProfile(r, p)
             \/ CreateOrganizationProfile(r, p) \/ CreateGroupProfile(r, p)
             \/ RequestMediaUpload(r, p)
      PROVE  BeginsInventory(r)
  <2>1. ASSUME NEW op \in InventoryOp, NEW k \in Kind, Ask(r, op, New(k, p)),
               op \in {"device", "group", "profile", "upload"},
               op = "device" => k = "device", op = "group" => k = "group",
               op = "profile" => k \in ProfileKind, op = "upload" => k = "file"
        PROVE  BeginsInventory(r)
    <3>1. Orders(op, New(k, p))
      BY <1>n, <2>1 DEF Orders
    <3> QED BY <1>b, <2>1, <3>1
  <2>2. {"device", "group", "profile", "upload"} \subseteq InventoryOp
    BY DEF InventoryOp
  <2>3. CASE CreateDevice(r, p)
    BY <2>1, <2>2, <2>3 DEF CreateDevice, Kind
  <2>4. CASE CreateDeviceGroup(r, p)
    BY <2>1, <2>2, <2>4 DEF CreateDeviceGroup, Kind
  <2>5. CASE CreateUserProfile(r, p)
    BY <2>1, <2>2, <2>5 DEF CreateUserProfile, Kind, ProfileKind
  <2>6. CASE CreateOrganizationProfile(r, p)
    BY <2>1, <2>2, <2>6 DEF CreateOrganizationProfile, Kind, ProfileKind
  <2>7. CASE CreateGroupProfile(r, p)
    BY <2>1, <2>2, <2>7 DEF CreateGroupProfile, Kind, ProfileKind
  <2>8. CASE RequestMediaUpload(r, p)
    BY <2>1, <2>2, <2>8 DEF RequestMediaUpload, Kind
  <2> QED BY <1>1, <2>3, <2>4, <2>5, <2>6, <2>7, <2>8
<1>2. ASSUME NEW x \in Inserter,
             \/ UpdateDevice(r, x) \/ DeleteDevice(r, x) \/ DeleteDeviceGroup(r, x)
             \/ DeleteAlias(r, x) \/ DeleteIonscaleLayer(r, x)
             \/ UpdateUserProfile(r, x) \/ DeleteUserProfile(r, x)
             \/ UpdateOrganizationProfile(r, x) \/ DeleteOrganizationProfile(r, x)
             \/ UpdateGroupProfile(r, x)
      PROVE  BeginsInventory(r)
  <2>1. ASSUME NEW op \in {"edit", "remove"}, NEW k \in Kind, Ask(r, op, Of(k, x)),
               op = "edit" => k # "group"
        PROVE  BeginsInventory(r)
    <3>1. Orders(op, Of(k, x)) /\ op \in InventoryOp
      BY <1>k, <2>1 DEF Orders, InventoryOp
    <3> QED BY <1>b, <2>1, <3>1
  <2>2. \/ UpdateDevice(r, x) \/ UpdateUserProfile(r, x) \/ UpdateOrganizationProfile(r, x)
        \/ UpdateGroupProfile(r, x)
        => \E k \in Kind : k # "group" /\ Ask(r, "edit", Of(k, x))
    BY DEF UpdateDevice, UpdateUserProfile, UpdateOrganizationProfile, UpdateGroupProfile,
           Kind
  <2>3. \/ DeleteDevice(r, x) \/ DeleteDeviceGroup(r, x) \/ DeleteAlias(r, x)
        \/ DeleteIonscaleLayer(r, x) \/ DeleteUserProfile(r, x)
        \/ DeleteOrganizationProfile(r, x)
        => \E k \in Kind : Ask(r, "remove", Of(k, x))
    BY DEF DeleteDevice, DeleteDeviceGroup, DeleteAlias, DeleteIonscaleLayer,
           DeleteUserProfile, DeleteOrganizationProfile, Kind
  <2> QED BY <1>2, <2>1, <2>2, <2>3
<1>3. ASSUME NEW x \in Inserter, NEW g \in Inserter, AddDeviceToGroup(r, x, g)
      PROVE  BeginsInventory(r)
  <2> DEFINE o == [Of("device", x) EXCEPT !.group = g]
  <2>1. o \in Order /\ o.row = x /\ o.kind = "device" /\ o.group = g
    BY <1>k DEF Order, Kind
  <2>2. Orders("enlist", o)
    BY <2>1 DEF Orders
  <2>3. Ask(r, "enlist", o) /\ "enlist" \in InventoryOp
    BY <1>3 DEF AddDeviceToGroup, InventoryOp
  <2> QED BY <1>b, <2>2, <2>3
<1>4. ASSUME NEW x \in Inserter, NEW p \in Place, UpdateAlias(r, x, p)
      PROVE  BeginsInventory(r)
  <2> DEFINE o == [Of("alias", x) EXCEPT !.place = p]
  <2>1. o \in Order /\ o.row = x /\ o.kind = "alias"
    BY <1>k DEF Order, Kind
  <2>2. Orders("edit", o)
    BY <2>1 DEF Orders
  <2>3. Ask(r, "edit", o) /\ "edit" \in InventoryOp
    BY <1>4 DEF UpdateAlias, InventoryOp
  <2> QED BY <1>b, <2>2, <2>3
<1>5. ASSUME NEW L \in ListSets, UpdateServiceInstance(r, L)
      PROVE  BeginsInventory(r)
  <2> DEFINE o == [NoOrder EXCEPT !.lists = L]
  <2>1. o \in Order
    BY InventoryAssumption DEF NoOrder, Order, Kind
  <2>2. Orders("permit", o)
    BY <2>1 DEF Orders
  <2>3. Ask(r, "permit", o) /\ "permit" \in InventoryOp
    BY <1>5 DEF UpdateServiceInstance, InventoryOp
  <2> QED BY <1>b, <2>2, <2>3
<1> QED
  BY <1>1, <1>2, <1>3, <1>4, <1>5 DEF InventoryArrive

-----------------------------------------------------------------------------
(* The rows *)

OrgTypes ==
  /\ users \in SUBSET User
  /\ active \in [User -> OrgId \cup {None}]
  /\ \A u \in User : active[u] # None => u \in users /\ orgs[active[u]] # None
  /\ orgs \in [OrgId -> Organization \cup {None}]
  /\ \A o \in OrgId : orgs[o] # None => orgs[o].owner \in users
  /\ \A o, p \in OrgId :
       orgs[o] # None /\ orgs[p] # None /\ orgs[o].slug = orgs[p].slug => o = p

RowTypes ==
  /\ roled \in SUBSET OrgId /\ profiled \in SUBSET OrgId
  /\ members \in SUBSET Membership /\ admins \in SUBSET members
  /\ \A m \in members : orgs[m.org] # None /\ m.user \in users
  /\ \A m, n \in members : m.org = n.org /\ m.user = n.user => m = n

LayerTypes ==
  /\ layers \in [Inserter -> Layer \cup {None}]
  /\ \A l \in Inserter : layers[l] # None => orgs[layers[l].org] # None
  /\ authkeys \in [Inserter -> AuthKey \cup {None}]
  /\ \A k \in Inserter : authkeys[k] # None =>
       layers[authkeys[k].layer] # None /\ authkeys[k].creator \in users

ClientTypes ==
  /\ oauth \in SUBSET ClientId
  /\ fakts \in [ClientId -> members \cup {None}]
  /\ \A c \in ClientId : fakts[c] # None => c \in oauth
  /\ codes \in [Inserter -> [member : members, client : ClientId] \cup {None}]
  /\ tokens \in [Inserter -> Token \cup {None}]
  /\ \A t \in Inserter : tokens[t] # None => tokens[t].member \in members

SeenTypes == topic \in Topics /\ seen \in [Request -> Collected]

LEMMA Parts ==
  AccountTypeOK <=> /\ OrgTypes /\ RowTypes /\ LayerTypes /\ ClientTypes /\ SeenTypes
                    /\ \A r \in Request : task[r] \in Task
                    /\ past \in [Request -> SUBSET Request]
BY DEF AccountTypeOK, OrgTypes, RowTypes, LayerTypes, ClientTypes, SeenTypes

LEMMA PartsNext ==
  ASSUME Flow', OrgTypes', RowTypes', LayerTypes', ClientTypes', SeenTypes'
  PROVE  AccountTypeOK'
<1>1. (\A r \in Request : task[r] \in Task)' /\ (past \in [Request -> SUBSET Request])'
  BY DEF Flow
<1> QED
  BY <1>1 DEF AccountTypeOK, OrgTypes, RowTypes, LayerTypes, ClientTypes, SeenTypes

\* What keeps the foreign keys: the organizations and users they refer to.
Stay == /\ \A o \in OrgId : orgs[o] # None => orgs'[o] # None
        /\ users \subseteq users'

LEMMA OrgsStay ==
  ASSUME OrgTypes, UNCHANGED <<users, active, orgs>>
  PROVE  OrgTypes' /\ Stay
BY DEF OrgTypes, Stay

LEMMA RowsStay ==
  ASSUME RowTypes, Stay, UNCHANGED members,
         roled' \subseteq OrgId, profiled' \subseteq OrgId, admins' \subseteq members
  PROVE  RowTypes'
BY DEF RowTypes, Stay, Membership

LEMMA RowAdded ==
  ASSUME RowTypes, Stay, NEW m \in Membership, members' = members \cup {m},
         orgs'[m.org] # None, m.user \in users', RowsOf(m.org, m.user) \subseteq {m},
         roled' \subseteq OrgId, profiled' \subseteq OrgId, admins' \subseteq members'
  PROVE  RowTypes'
BY DEF RowTypes, Stay, RowsOf, Membership

LEMMA LayersStay ==
  ASSUME LayerTypes, Stay, UNCHANGED <<layers, authkeys>>
  PROVE  LayerTypes'
BY DEF LayerTypes, Stay, Layer

LEMMA ClientsStay ==
  ASSUME ClientTypes, members \subseteq members', UNCHANGED <<oauth, fakts, codes, tokens>>
  PROVE  ClientTypes'
BY DEF ClientTypes

\* Where the name of an organization comes from that was not there at the start,
\* and a slug that was made up.
Coined(q) == task[q].op = "create" /\ task[q].pc >= 2

Born(q) ==
  \/ Coined(q)
  \/ task[q].op = "signup" /\ task[q].pc >= 3
  \/ task[q].op \in {"choose", "quit"} /\ task[q].pc >= 5
  \/ task[q].op = "ensureusers" /\ task[q].pc >= 3
  \/ task[q].op \in {"ensureorganizations", "ensurememberships"}

Births ==
  /\ \A q \in Request : orgs[q] # None => Born(q)
  /\ \A q, r \in Request : task[r].op = "update" /\ task[r].org = q => Born(q)
  /\ \A q \in Request : \A o \in OrgId : orgs[o] # None /\ orgs[o].slug = q => Coined(q)
  /\ \A q, r \in Request : task[r].op = "update" /\ task[r].slug = q => Coined(q)

LEMMA MovesAge ==
  ASSUME Flow, NEW r \in Request, Moves(r), NEW q \in Request
  PROVE  (Coined(q) => Coined(q)') /\ (Born(q) => Born(q)')
<1>1. CASE q # r
  BY <1>1 DEF Moves, Coined, Born
<1>2. CASE q = r /\ r \in Boot
  <2>1. task[r].op \in BootOp /\ GoesOn(task'[r], task[r]) /\ task[r] \in Task
        /\ task'[r] \in Task
    BY <1>2 DEF Flow, Moves, Running
  <2> QED BY <1>2, <2>1 DEF GoesOn, BootOp, Coined, Born, Task
<1>3. CASE q = r /\ r \notin Boot
  <2>1. task'[r].op = task[r].op /\ task[r] \in Task /\ task'[r] \in Task
        /\ (task'[r].pc >= task[r].pc \/ task[r].op = "additems")
    BY <1>3 DEF Flow, Moves
  <2> QED BY <1>3, <2>1 DEF Coined, Born, Task
<1> QED BY <1>1, <1>2, <1>3

LEMMA BeginsAge ==
  ASSUME Flow, NEW r \in Request, Begins(r), NEW q \in Request
  PROVE  (Coined(q) => Coined(q)') /\ (Born(q) => Born(q)')
<1>1. task[r].op = None
  BY DEF Flow, Begins
<1>2. task[r].op \notin Op
  BY <1>1, TopicAssumption
<1> QED BY <1>2, Ops DEF Begins, Coined, Born

LEMMA CutsAge ==
  ASSUME Flow, NEW b \in Boot, Restart(b), NEW q \in Request
  PROVE  (Coined(q) => Coined(q)') /\ (Born(q) => Born(q)')
<1>1. task[b].op = None
  BY Cuts, AccountAssumption DEF Flow
<1>2. task[b].op \notin Op
  BY <1>1, TopicAssumption
<1> QED BY <1>2, Ops, Cuts DEF Remembers, Coined, Born

LEMMA NoRow ==
  /\ None \notin Organization /\ None \notin Membership /\ None \notin Code
  /\ None \notin Token /\ None \notin Claims /\ None \notin Layer /\ None \notin AuthKey
BY RowAssumption

LEMMA OrgWritten ==
  ASSUME OrgTypes, NEW o \in OrgId, NEW row \in Organization, WriteOrg(o, row),
         row.owner \in users, UNCHANGED <<users, active>>, ~SlugTaken(o, row.slug)
  PROVE  OrgTypes' /\ Stay
<1>1. row # None
  BY NoRow
<1> QED BY <1>1 DEF OrgTypes, Stay, WriteOrg, SlugTaken, Named, Organization

LEMMA MembersInserted ==
  ASSUME RowTypes, UNCHANGED <<users, active, orgs, roled, profiled, admins>>,
         NEW m \in Membership, members' = members \cup {m}, Live(m.org), m.user \in users,
         RowsOf(m.org, m.user) = {}
  PROVE  RowTypes' /\ members \subseteq members'
<1>1. Stay
  BY DEF Stay
<1>2. admins' \subseteq members' /\ roled' \subseteq OrgId /\ profiled' \subseteq OrgId
  BY DEF RowTypes
<1>3. orgs'[m.org] # None /\ m.user \in users' /\ RowsOf(m.org, m.user) \subseteq {m}
  BY DEF Live
<1> QED BY <1>1, <1>2, <1>3, RowAdded

\* Memberships that go take their clients, codes and tokens along.
LEMMA ClientsLeave ==
  ASSUME ClientTypes, NEW M, WithoutMembers(M), oauth' \subseteq oauth,
         \A c \in oauth \ oauth' : fakts[c] \in M
  PROVE  ClientTypes'
<1> USE DEF WithoutMembers
<1>1. oauth' \in SUBSET ClientId /\ fakts' \in [ClientId -> members' \cup {None}]
  BY DEF ClientTypes
<1>2. \A c \in ClientId : fakts'[c] # None => c \in oauth'
  BY DEF ClientTypes
<1>3. codes' \in [Inserter -> [member : members', client : ClientId] \cup {None}]
  <2>1. ASSUME NEW k \in Inserter
        PROVE  codes'[k] \in [member : members', client : ClientId] \cup {None}
    <3>1. CASE codes[k] # None /\ codes[k].member \notin M
      <4>1. codes[k] \in [member : members, client : ClientId]
        BY <3>1 DEF ClientTypes
      <4> QED BY <3>1, <4>1
    <3>2. CASE ~(codes[k] # None /\ codes[k].member \notin M)
      BY <3>2
    <3> QED BY <3>1, <3>2
  <2> QED BY <2>1
<1>4. tokens' \in [Inserter -> Token \cup {None}]
  BY DEF ClientTypes
<1>5. \A t \in Inserter : tokens'[t] # None => tokens'[t].member \in members'
  BY DEF ClientTypes
<1> QED BY <1>1, <1>2, <1>3, <1>4, <1>5 DEF ClientTypes

\* Erasing what was collected leaves nothing that refers to it.
LEMMA OrganizationsErased ==
  ASSUME AccountTypeOK, NEW r \in Request, EraseOrg(r), CoversRows(seen[r]),
         orgs' = [o \in OrgId |-> IF o \in seen[r].orgs THEN None ELSE orgs[o]],
         roled' = roled \ seen[r].orgs, profiled' = profiled \ seen[r].orgs,
         users' = users \ seen[r].users,
         active' = [u \in User |-> IF u \in seen[r].users THEN None ELSE active[u]],
         layers' = [l \in Inserter |-> IF l \in seen[r].layers THEN None ELSE layers[l]],
         authkeys' = [k \in Inserter |-> IF k \in seen[r].authkeys THEN None ELSE authkeys[k]],
         oauth' = oauth \ ClientsOfOrganization(seen[r].orgs),
         WithoutMembers(members \cap seen[r].members)
  PROVE  OrgTypes' /\ RowTypes' /\ LayerTypes' /\ ClientTypes'
<1> DEFINE c == seen[r]
           P == c.orgs
<1>t. OrgTypes /\ RowTypes /\ LayerTypes /\ ClientTypes
  BY Parts
<1>1. ActiveIn(P) \subseteq c.users /\ OwnedBy(c.users) \subseteq P
      /\ LayersOf(P) \subseteq c.layers /\ KeysWith(c.layers, c.users) \subseteq c.authkeys
      /\ \A m \in members : m.org \in P \/ m.user \in c.users => m \in c.members
  BY DEF CoversRows
<1>2. OrgTypes'
  <2>1. \A u \in User : active'[u] # None => u \in users' /\ orgs'[active'[u]] # None
    BY <1>t, <1>1 DEF OrgTypes, ActiveIn
  <2>2. \A o \in OrgId : orgs'[o] # None => orgs'[o].owner \in users'
    BY <1>t, <1>1, NotNull DEF OrgTypes, OwnedBy, Live
  <2> QED BY <1>t, <2>1, <2>2 DEF OrgTypes
<1>3. RowTypes'
  BY <1>t, <1>1 DEF RowTypes, WithoutMembers, Membership
<1>4. LayerTypes'
  <2>1. \A l \in Inserter : layers'[l] # None => orgs'[layers'[l].org] # None
    BY <1>t, <1>1 DEF LayerTypes, LayersOf, Layer
  <2>2. \A k \in Inserter : authkeys'[k] # None =>
          layers'[authkeys'[k].layer] # None /\ authkeys'[k].creator \in users'
    BY <1>t, <1>1 DEF LayerTypes, KeysWith, AuthKey
  <2>3. layers' \in [Inserter -> Layer \cup {None}]
    BY <1>t DEF LayerTypes
  <2>4. authkeys' \in [Inserter -> AuthKey \cup {None}]
    BY <1>t DEF LayerTypes
  <2> QED BY <2>1, <2>2, <2>3, <2>4 DEF LayerTypes
<1>5. ClientTypes'
  <2>1. \A k \in oauth \ oauth' : fakts[k] \in members \cap c.members
    BY <1>t, <1>1 DEF ClientsOfOrganization, ClientTypes
  <2>2. oauth' \subseteq oauth
    OBVIOUS
  <2> QED BY <1>t, <2>1, <2>2, ClientsLeave
<1> QED BY <1>2, <1>3, <1>4, <1>5

LEMMA OrganizationTypes ==
  ASSUME Typing, Births, NEW r \in Request, Running(r), OrganizationStep(r)
  PROVE  OrgTypes' /\ RowTypes' /\ LayerTypes' /\ ClientTypes' /\ SeenTypes'
<1> USE DEF Typing
<1>t. OrgTypes /\ RowTypes /\ LayerTypes /\ ClientTypes /\ SeenTypes
  BY Parts
<1>k. task[r] \in Task /\ InMemory(task[r]) /\ Placed(task[r])
  BY DEF Flow, Running
<1>r. r \in Inserter /\ r \in OrgId /\ r \in Slug
  BY DEF Inserter, OrgId, Slug
<1>s. ASSUME seen' = seen
      PROVE  SeenTypes'
  BY <1>t, <1>s, OrganizationMoves DEF SeenTypes, Moves
<1>f. ASSUME UNCHANGED <<users, active, orgs, members, layers, authkeys>>,
             UNCHANGED <<oauth, fakts, codes, tokens>>,
             roled' \subseteq OrgId, profiled' \subseteq OrgId, admins' \subseteq members,
             seen' = seen
      PROVE  OrgTypes' /\ RowTypes' /\ LayerTypes' /\ ClientTypes' /\ SeenTypes'
  BY <1>t, <1>f, <1>s, OrgsStay, RowsStay, LayersStay, ClientsStay
<1>l. roled \subseteq OrgId /\ profiled \subseteq OrgId /\ admins \subseteq members
  BY <1>t DEF RowTypes
<1>i. ASSUME InsertMember(r), UNCHANGED <<baseVars, orgs, roled, profiled, admins, held, oauthVars>>
      PROVE  OrgTypes' /\ RowTypes' /\ LayerTypes' /\ ClientTypes' /\ SeenTypes'
  <2> DEFINE m == [org |-> task[r].org, user |-> task[r].user, by |-> r]
  <2>1. m \in Membership /\ Live(m.org) /\ m.user \in users /\ RowsOf(m.org, m.user) = {}
    BY <1>k, <1>r, <1>t, <1>i DEF InsertMember, Live, Membership, OrgTypes, Task
  <2>2. members' = members \cup {m} /\ seen' = seen
    BY <1>i DEF InsertMember, Joined
  <2>3. UNCHANGED <<users, active, orgs, roled, profiled, admins, layers, authkeys>>
        /\ UNCHANGED <<oauth, fakts, codes, tokens>>
    BY <1>i DEF baseVars, oauthVars
  <2> HIDE DEF m
  <2>4. RowTypes' /\ members \subseteq members'
    BY <1>t, <2>1, <2>2, <2>3, MembersInserted
  <2> QED BY <1>t, <1>s, <2>2, <2>3, <2>4, OrgsStay, LayersStay, ClientsStay
<1>j. ASSUME UNCHANGED <<baseVars, orgs, roled, profiled, members, admins, held, oauthVars>>,
             seen' = seen
      PROVE  OrgTypes' /\ RowTypes' /\ LayerTypes' /\ ClientTypes' /\ SeenTypes'
  BY <1>j, <1>f, <1>l DEF baseVars, oauthVars
<1>o. ASSUME NEW o \in OrgId, NEW row \in Organization, WriteOrg(o, row),
             row.owner \in users, ~SlugTaken(o, row.slug), seen' = seen,
             UNCHANGED <<baseVars, roled, profiled, members, admins, oauthVars>>
      PROVE  OrgTypes' /\ RowTypes' /\ LayerTypes' /\ ClientTypes' /\ SeenTypes'
  <2>1. UNCHANGED <<users, active, layers, authkeys>> /\ UNCHANGED <<oauth, fakts, codes, tokens>>
    BY <1>o DEF baseVars, oauthVars
  <2>2. OrgTypes' /\ Stay
    BY <1>t, <1>o, <2>1, OrgWritten
  <2>3. RowTypes' /\ LayerTypes' /\ ClientTypes'
    BY <1>t, <1>l, <1>o, <2>1, <2>2, RowsStay, LayersStay, ClientsStay
  <2> QED BY <1>s, <1>o, <2>2, <2>3
<1>1. CASE EnsureRoles(r)
  <2>1. roled' \subseteq OrgId
    BY <1>1, <1>l, <1>k DEF EnsureRoles, Live, Task
  <2> QED BY <1>1, <1>f, <1>l, <2>1 DEF EnsureRoles, Proceed, FailUnkept, Fail, baseVars, oauthVars
<1>2. CASE EnsureOwner(r)
  <2>1. CASE InsertMember(r)
    BY <1>2, <1>i, <2>1 DEF EnsureOwner
  <2>2. CASE \E m \in RowsOf(task[r].org, task[r].user) : FoundRow(r, m)
    BY <1>2, <1>j, <2>2 DEF EnsureOwner, FoundRow
  <2>3. CASE CannotInsert(r)
    BY <1>2, <1>j, <2>3 DEF EnsureOwner, CannotInsert, FailUnkept, Fail
  <2> QED BY <1>2, <2>1, <2>2, <2>3 DEF EnsureOwner
<1>3. CASE UpsertMember(r)
  <2>1. CASE InsertMember(r)
    BY <1>3, <1>i, <2>1 DEF UpsertMember
  <2>2. CASE \E m \in RowsOf(task[r].org, task[r].user) : FoundRow(r, m)
    BY <1>3, <1>j, <2>2 DEF UpsertMember, FoundRow
  <2>3. CASE CannotInsert(r) \/ (Fail(r) /\ UNCHANGED <<members, unkept>>)
    BY <1>3, <1>j, <2>3 DEF UpsertMember, CannotInsert, FailUnkept, Fail
  <2> QED BY <1>3, <2>1, <2>2, <2>3 DEF UpsertMember
<1>4. CASE GiveAdmin(r)
  <2>1. admins' \subseteq members
    BY <1>4, <1>l DEF GiveAdmin
  <2> QED BY <1>4, <1>f, <1>l, <2>1 DEF GiveAdmin, Proceed, FailUnkept, Fail, baseVars, oauthVars
<1>5. CASE SaveMember(r)
  <2> DEFINE m == task[r].row
             writes == \/ m \in members
                       \/ Live(m.org) /\ m.user \in users /\ RowsOf(m.org, m.user) = {}
  <2>1. UNCHANGED <<baseVars, orgs, roled, profiled, admins, held, oauthVars>> /\ seen' = seen
    BY <1>5 DEF SaveMember, Proceed, FailUnkept, Fail
  <2>2. CASE m \notin members /\ Live(m.org) /\ m.user \in users /\ RowsOf(m.org, m.user) = {}
    <3>1. m \in Membership
      <4>1. At(r, "save")
        BY <1>5 DEF SaveMember
      <4>2. InPlace(task[r].op, task[r].pc, "save")
        BY <1>k, <4>1, AtPlace
      <4>3. m \in Membership
        BY <1>k, <4>2 DEF InMemory, InPlace
      <4> QED BY <4>3
    <3>2. members' = members \cup {m}
      BY <1>5, <2>2 DEF SaveMember
    <3>3. UNCHANGED <<users, active, orgs, roled, profiled, admins, layers, authkeys>>
          /\ UNCHANGED <<oauth, fakts, codes, tokens>>
      BY <2>1 DEF baseVars, oauthVars
    <3> HIDE DEF m
    <3>4. RowTypes' /\ members \subseteq members'
      BY <1>t, <2>2, <3>1, <3>2, <3>3, MembersInserted
    <3> QED BY <1>t, <1>s, <2>1, <3>3, <3>4, OrgsStay, LayersStay, ClientsStay
  <2>3. CASE ~(m \notin members /\ Live(m.org) /\ m.user \in users /\ RowsOf(m.org, m.user) = {})
    <3>1. members' = members
      BY <1>5, <2>3 DEF SaveMember
    <3> QED BY <1>j, <2>1, <3>1
  <2> QED BY <2>2, <2>3
<1>6. CASE CreateProfile(r)
  <2>1. profiled' \subseteq OrgId
    BY <1>6, <1>l, <1>k DEF CreateProfile, Live, Task
  <2> QED BY <1>6, <1>f, <1>l, <2>1 DEF CreateProfile, Proceed, Fail, baseVars, oauthVars
<1>7. CASE InsertOrg(r)
  <2>1. At(r, "insert")
    BY <1>7 DEF InsertOrg
  <2>2. task[r].pc = 1
    BY <1>k, <2>1, AtPlace DEF InPlace
  <2>3. CASE task[r].user \in users
    <3> DEFINE row == [slug |-> r, owner |-> task[r].user]
    <3>1. row \in Organization /\ row.owner \in users /\ WriteOrg(r, row) /\ seen' = seen
      BY <1>7, <1>r, <1>t, <2>3 DEF InsertOrg, Organization, OrgTypes
    <3>2. ~SlugTaken(r, row.slug)
      BY <2>2 DEF Births, Coined, SlugTaken, Named
    <3> QED BY <1>7, <1>r, <1>o, <3>1, <3>2 DEF InsertOrg
  <2>4. CASE task[r].user \notin users
    BY <1>7, <1>j, <2>4 DEF InsertOrg, Fail
  <2> QED BY <2>3, <2>4
<1>8. CASE ReadOrg(r)
  BY <1>8, <1>j DEF ReadOrg, Fail, orgVars
<1>9. CASE WriteBack(r)
  <2>1. At(r, "write")
    BY <1>9 DEF WriteBack
  <2>2. task[r].op = "update" /\ task[r].pc = 2
    BY <1>k, <2>1, AtPlace DEF InPlace
  <2>3. task[r].org \in OrgId /\ task[r].slug \in Slug
    BY <1>k, <2>2 DEF InMemory
  <2>4. CASE ~(SlugTaken(task[r].org, task[r].slug) \/ task[r].user \notin users)
    <3> DEFINE row == [slug |-> task[r].slug, owner |-> task[r].user]
    <3>1. row \in Organization /\ row.owner \in users /\ WriteOrg(task[r].org, row)
          /\ seen' = seen /\ ~SlugTaken(task[r].org, row.slug)
      BY <1>9, <1>t, <2>3, <2>4 DEF WriteBack, Organization, OrgTypes
    <3> QED BY <1>9, <1>o, <2>3, <3>1 DEF WriteBack
  <2>5. CASE SlugTaken(task[r].org, task[r].slug) \/ task[r].user \notin users
    BY <1>9, <1>j, <2>5 DEF WriteBack, Fail
  <2> QED BY <2>4, <2>5
<1>10. CASE CheckOwner(r)
  BY <1>10, <1>j DEF CheckOwner, Proceed, Fail, orgVars
<1>11. CASE CollectRows(r)
  <2> DEFINE G == UsersWith(task[r].org)
             P == {task[r].org} \cup OwnedBy(G)
             c == [users |-> G, orgs |-> P, roled |-> P \cap roled,
                   members |-> {m \in members : m.org \in P \/ m.user \in G},
                   layers |-> LayersOf(P), authkeys |-> KeysWith(LayersOf(P), G)]
  <2>1. At(r, "collect") /\ seen' = [seen EXCEPT ![r] = c]
        /\ UNCHANGED <<orgVars, oauthVars>>
    BY <1>11 DEF CollectRows
  <2>2. task[r].org \in OrgId
    BY <1>k, <2>1, AtPlace DEF InPlace, InMemory
  <2>3. G \subseteq User /\ P \subseteq OrgId
    BY <1>t, <2>2 DEF UsersWith, OwnedBy, OrgTypes
  <2>4. c \in Collected
    <3>1. {m \in members : m.org \in P \/ m.user \in G} \subseteq Membership
      BY <1>t DEF RowTypes
    <3>2. LayersOf(P) \subseteq Inserter /\ KeysWith(LayersOf(P), G) \subseteq Inserter
      BY DEF LayersOf, KeysWith
    <3> HIDE DEF G, P
    <3> QED BY <1>l, <2>3, <3>1, <3>2 DEF Collected
  <2> HIDE DEF c
  <2>5. SeenTypes'
    BY <1>t, <2>1, <2>4, OrganizationMoves DEF SeenTypes, Moves
  <2> QED BY <1>t, <1>l, <2>1, <2>5, OrgsStay, RowsStay, LayersStay, ClientsStay
          DEF orgVars, baseVars, oauthVars
<1>12. CASE EraseOrg(r)
  <2>1. seen' = seen
    BY <1>12 DEF EraseOrg, Proceed, Fail
  <2>2. CASE UNCHANGED <<baseVars, orgs, roled, profiled, members, admins, oauth,
                         fakts, codes, tokens>>
    BY <1>f, <1>l, <2>1, <2>2 DEF baseVars
  <2>3. CASE ~UNCHANGED <<baseVars, orgs, roled, profiled, members, admins, oauth,
                          fakts, codes, tokens>>
    BY <1>12, <1>s, <2>1, <2>3, OrganizationsErased DEF EraseOrg
  <2> QED BY <2>2, <2>3
<1>13. CASE InsertUser(r)
  <2>1. /\ users \subseteq users' /\ users' \subseteq User /\ seen' = seen
        /\ UNCHANGED <<active, chose, layers, authkeys, orgs, roled, profiled, members, admins,
                       unkept, held, oauthVars>>
    BY <1>13, <1>t, AccountAssumption DEF InsertUser, OrgTypes, Fail
  <2>2. OrgTypes' /\ Stay
    BY <1>t, <2>1 DEF OrgTypes, Stay
  <2> QED BY <1>t, <1>l, <1>s, <2>1, <2>2, RowsStay, LayersStay, ClientsStay DEF oauthVars
<1>14. CASE HomeOrganization(r)
  <2> DEFINE u == task[r].user
             m == [org |-> r, user |-> u, by |-> r]
  <2>1. At(r, "home") /\ seen' = seen /\ UNCHANGED <<baseVars, unkept, oauthVars>>
    BY <1>14 DEF HomeOrganization, Fail
  <2>2. CASE UNCHANGED <<orgs, held, roled, profiled, members, admins>>
    BY <1>j, <2>1, <2>2
  <2>3. CASE /\ Named(u) = {} /\ u \in users
             /\ WriteOrg(r, [slug |-> u, owner |-> u])
             /\ roled' = roled \cup {r} /\ profiled' = profiled \cup {r}
             /\ members' = members \cup {m} /\ admins' = admins \cup {m}
    <3>1. [slug |-> u, owner |-> u] \in Organization /\ m \in Membership
      BY <1>r, <1>t, <2>3 DEF Organization, Membership, OrgTypes, Slug
    <3>2. UNCHANGED <<users, active, layers, authkeys>> /\ UNCHANGED <<oauth, fakts, codes, tokens>>
      BY <2>1 DEF baseVars, oauthVars
    <3>3. OrgTypes' /\ Stay
      <4> DEFINE row == [slug |-> u, owner |-> u]
      <4>1. ~SlugTaken(r, row.slug) /\ row.owner \in users /\ WriteOrg(r, row)
        BY <2>3 DEF SlugTaken
      <4> QED BY <1>r, <1>t, <3>1, <3>2, <4>1, OrgWritten
    <3>4. orgs[r] = None
      <4>1. InPlace(task[r].op, task[r].pc, "home")
        BY <1>k, <2>1, AtPlace
      <4>2. ~Born(r)
        BY <4>1 DEF Born, Coined, InPlace
      <4> QED BY <4>2 DEF Births
    <3>5. RowsOf(m.org, m.user) \subseteq {m}
      BY <1>t, <3>4 DEF RowsOf, RowTypes
    <3>6. orgs'[m.org] # None /\ m.user \in users'
      BY <1>t, <1>r, <2>3, <3>1, <3>2, NoRow DEF WriteOrg, OrgTypes
    <3>7. roled' \subseteq OrgId /\ profiled' \subseteq OrgId /\ admins' \subseteq members'
      BY <1>r, <1>l, <2>3
    <3>8. members' = members \cup {m} /\ members \subseteq members'
      BY <2>3
    <3> HIDE DEF m
    <3> QED BY <1>t, <1>s, <2>1, <3>1, <3>2, <3>3, <3>5, <3>6, <3>7, <3>8, RowAdded, LayersStay,
               ClientsStay
  <2> QED BY <1>14, <2>2, <2>3 DEF HomeOrganization
<1>15. CASE Join(r)
  <2>1. CASE InsertMember(r)
    BY <1>15, <1>i, <2>1 DEF Join
  <2>2. CASE \E m \in RowsOf(task[r].org, task[r].user) : FoundRow(r, m)
    BY <1>15, <1>j, <2>2 DEF Join, FoundRow
  <2>3. CASE Fail(r) /\ UNCHANGED <<members, unkept>>
    BY <1>15, <1>j, <2>3 DEF Join, Fail
  <2> QED BY <1>15, <2>1, <2>2, <2>3 DEF Join
<1>16. CASE Leave(r)
  <2> DEFINE m == task[r].row
  <2>1. seen' = seen /\ UNCHANGED <<baseVars, orgs, roled, profiled, oauth>>
    BY <1>16 DEF Leave, Proceed, Fail
  <2>2. CASE WithoutMembers({m})
    <3>1. OrgTypes' /\ Stay /\ LayerTypes'
      BY <1>t, <2>1, OrgsStay, LayersStay DEF baseVars
    <3>2. RowTypes'
      BY <1>t, <2>1, <2>2 DEF RowTypes, WithoutMembers, Membership, baseVars
    <3>3. ClientTypes'
      BY <1>t, <2>1, <2>2, ClientsLeave
    <3> QED BY <1>s, <2>1, <3>1, <3>2, <3>3
  <2>3. CASE UNCHANGED <<members, admins, fakts, codes, tokens, unkept, loose>>
    BY <1>f, <1>l, <2>1, <2>3 DEF baseVars
  <2> QED BY <1>16, <2>2, <2>3 DEF Leave
<1>17. CASE ReadMember(r)
  BY <1>17, <1>j DEF ReadMember, Proceed, Fail, orgVars
<1>18. CASE SetRoles(r)
  <2>1. admins' \subseteq members /\ seen' = seen
        /\ UNCHANGED <<baseVars, orgs, roled, profiled, members, held, oauthVars>>
    BY <1>18, <1>l DEF SetRoles, Proceed, Fail
  <2> QED BY <1>f, <1>l, <2>1 DEF baseVars, oauthVars
<1>19. CASE ReadUser(r)
  BY <1>19, <1>j DEF ReadUser, Fail, orgVars
<1>20. CASE ChooseOrg(r)
  BY <1>20, <1>j DEF ChooseOrg, Proceed, Fail, orgVars
<1>21. CASE SaveUser(r)
  <2> DEFINE u == task[r].user
             o == task[r].org
  <2>1. /\ At(r, "saveuser") /\ seen' = seen /\ UNCHANGED <<layers, authkeys>>
        /\ UNCHANGED <<orgs, roled, profiled, members, admins, unkept, held, oauthVars>>
    BY <1>21 DEF SaveUser, Proceed, Fail, baseVars
  <2>2. u \in User /\ o \in OrgId \cup {None}
    BY <1>k, <2>1, AtPlace DEF InPlace, InMemory, Task
  <2>3. CASE UNCHANGED baseVars
    BY <1>j, <2>1, <2>3
  <2>4. CASE /\ (o = None \/ Live(o)) /\ users' = users \cup {u}
             /\ active' = [active EXCEPT ![u] = o]
    <3>1. OrgTypes' /\ Stay
      BY <1>t, <2>1, <2>2, <2>4 DEF OrgTypes, Stay, Live
    <3> QED BY <1>t, <1>l, <1>s, <2>1, <3>1, RowsStay, LayersStay, ClientsStay DEF oauthVars
  <2> QED BY <1>21, <2>3, <2>4 DEF SaveUser
<1>22. CASE EnsureOrg(r)
  <2>1. CASE users = {} /\ Fail(r) /\ UNCHANGED <<orgs, held, unkept>>
    BY <1>22, <1>j, <2>1 DEF EnsureOrg, Fail
  <2>2. ASSUME NEW o \in (IF Named(ConfSlug) = {} THEN {Configured(r)} ELSE Named(ConfSlug)),
               NEW u \in (IF ConfOwner \in users THEN {ConfOwner} ELSE users),
               WriteOrg(o, [slug |-> ConfSlug, owner |-> u]), UNCHANGED seen
        PROVE  OrgTypes' /\ RowTypes' /\ LayerTypes' /\ ClientTypes' /\ SeenTypes'
    <3> DEFINE row == [slug |-> ConfSlug, owner |-> u]
    <3>1. At(r, "organize") /\ UNCHANGED <<baseVars, roled, profiled, members, admins, oauthVars>>
      BY <1>22 DEF EnsureOrg
    <3>2. r \in Boot
      BY <1>k, <3>1, AtPlace DEF InPlace, Flow, Running, BootOp
    <3>3. o \in OrgId /\ u \in users
      BY <2>2, <3>2 DEF Named, OrgId
    <3>4. row \in Organization /\ row.owner \in users
      BY <1>t, <3>3 DEF Organization, Slug, OrgTypes
    <3>5. ~SlugTaken(o, row.slug)
      BY <1>t, <2>2, <3>3 DEF SlugTaken, Named, OrgTypes
    <3>6. WriteOrg(o, row)
      BY <2>2
    <3> HIDE DEF row
    <3> QED BY <1>o, <2>2, <3>1, <3>3, <3>4, <3>5, <3>6
  <2> QED BY <1>22, <2>1, <2>2 DEF EnsureOrg
<1>23. CASE FindMember(r)
  BY <1>23, <1>j DEF FindMember, orgVars
<1> QED
  BY <1>1, <1>2, <1>3, <1>4, <1>5, <1>6, <1>7, <1>8, <1>9, <1>10, <1>11, <1>12, <1>13,
     <1>14, <1>15, <1>16, <1>17, <1>18, <1>19, <1>20, <1>21, <1>22, <1>23
     DEF OrganizationStep, SignalStep

\* What was recorded stays recorded.
LEMMA RecordedOn ==
  ASSUME Flow, Recorded, NEW r \in Request, Moves(r),
         grants' \in [Inserter -> Code \cup {None}], claims' \in [Inserter -> Claims \cup {None}],
         \A k \in Inserter : claims[k] # None => claims'[k] # None,
         \A q \in Request : InMemory(task[q])
  PROVE  Recorded'
<1>1. ASSUME NEW q \in Request, task'[q].op \in {"refresh", "api", "info"}
      PROVE  claims'[task'[q].cred] # None
  <2>1. task'[q].op = task[q].op /\ task'[q].cred = task[q].cred
    BY <1>1 DEF Moves, BootOp
  <2>2. task[q].cred \in Inserter /\ claims[task[q].cred] # None
    BY <1>1, <2>1 DEF Recorded, InMemory
  <2> QED BY <2>1, <2>2
<1> QED BY <1>1 DEF Recorded

LEMMA OAuthTypes ==
  ASSUME Typing, NEW r \in Request, Running(r), OAuthStep(r)
  PROVE  /\ OrgTypes' /\ RowTypes' /\ LayerTypes' /\ ClientTypes' /\ SeenTypes'
         /\ Recorded' /\ UNCHANGED orgVars
<1> USE DEF Typing
<1>t. OrgTypes /\ RowTypes /\ LayerTypes /\ ClientTypes /\ SeenTypes
  BY Parts
<1>k. task[r] \in Task /\ InMemory(task[r]) /\ Placed(task[r])
  BY DEF Flow, Running
<1>r. r \in Inserter /\ r \in ClientId
  BY DEF Inserter, ClientId
<1>m. Moves(r)
  BY OAuthMoves
<1>g. grants \in [Inserter -> Code \cup {None}] /\ claims \in [Inserter -> Claims \cup {None}]
  BY DEF Recorded
<1>s. ASSUME UNCHANGED orgVars, seen' = seen
      PROVE  OrgTypes' /\ RowTypes' /\ LayerTypes' /\ SeenTypes'
  <2>1. UNCHANGED <<users, active, orgs>> /\ UNCHANGED members /\ UNCHANGED <<layers, authkeys>>
        /\ UNCHANGED <<roled, profiled, admins>>
    BY <1>s DEF orgVars, baseVars
  <2>2. roled' \subseteq OrgId /\ profiled' \subseteq OrgId /\ admins' \subseteq members
    BY <1>t, <2>1 DEF RowTypes
  <2>3. SeenTypes'
    BY <1>t, <1>s, <1>m DEF SeenTypes, Moves
  <2> QED BY <1>t, <2>1, <2>2, <2>3, OrgsStay, RowsStay, LayersStay
<1>j. ASSUME UNCHANGED <<orgVars, oauthVars>>, seen' = seen
      PROVE  /\ OrgTypes' /\ RowTypes' /\ LayerTypes' /\ ClientTypes' /\ SeenTypes'
             /\ Recorded' /\ UNCHANGED orgVars
  <2>1. members \subseteq members' /\ UNCHANGED <<oauth, fakts, codes, tokens>>
        /\ UNCHANGED <<grants, claims>>
    BY <1>j DEF oauthVars, orgVars
  <2>2. ClientTypes'
    BY <1>t, <2>1, ClientsStay
  <2>3. Recorded'
    BY <1>g, <1>m, <2>1, RecordedOn
  <2> QED BY <1>j, <1>s, <2>2, <2>3
<1>c. ASSUME UNCHANGED <<orgVars, grants, claims>>, seen' = seen, ClientTypes'
      PROVE  /\ OrgTypes' /\ RowTypes' /\ LayerTypes' /\ ClientTypes' /\ SeenTypes'
             /\ Recorded' /\ UNCHANGED orgVars
  BY <1>c, <1>g, <1>m, <1>s, RecordedOn
<1>1. CASE RegisterClient(r)
  <2>1. UNCHANGED <<orgVars, codes, tokens, loose, grants, claims>> /\ seen' = seen
    BY <1>1 DEF RegisterClient, Proceed, Fail
  <2>2. ClientTypes'
    BY <1>1, <1>t, <1>r, <2>1 DEF RegisterClient, ClientTypes, orgVars
  <2> QED BY <1>c, <2>1, <2>2
<1>2. CASE DropClient(r)
  <2>1. /\ UNCHANGED <<orgVars, oauth, codes, tokens, grants, claims>> /\ seen' = seen
        /\ fakts' = [fakts EXCEPT ![task[r].client] = None] /\ members' = members
    BY <1>2 DEF DropClient, Proceed, orgVars
  <2>2. ClientTypes'
    BY <1>t, <2>1 DEF ClientTypes
  <2> QED BY <1>c, <2>1, <2>2
<1>3. CASE FindMembership(r)
  BY <1>3, <1>j DEF FindMembership, Fail
<1>4. CASE IssueCode(r)
  <2> DEFINE k == [member |-> task[r].row, client |-> task[r].client]
  <2>1. /\ UNCHANGED <<orgVars, oauth, fakts, tokens, loose, claims>> /\ seen' = seen
        /\ At(r, "issue") /\ members' = members
    BY <1>4 DEF IssueCode, Proceed, Fail, orgVars
  <2>2. task[r].client \in ClientId
    BY <1>k, <2>1, AtPlace DEF InPlace, InMemory
  <2>3. CASE UNCHANGED <<codes, grants>>
    BY <1>j, <2>1, <2>3 DEF oauthVars
  <2>4. CASE /\ k.member \in members
             /\ codes' = [codes EXCEPT ![r] = k] /\ grants' = [grants EXCEPT ![r] = k]
    <3>1. k \in [member : members, client : ClientId] /\ k \in Code
      BY <1>t, <2>2, <2>4 DEF Code, RowTypes
    <3> HIDE DEF k
    <3>2. ClientTypes'
      BY <1>t, <1>r, <2>1, <2>4, <3>1 DEF ClientTypes
    <3>3. grants' \in [Inserter -> Code \cup {None}]
      BY <1>g, <2>4, <3>1
    <3>4. Recorded'
      BY <1>g, <1>m, <2>1, <3>3, RecordedOn
    <3> QED BY <1>s, <2>1, <3>2, <3>4
  <2> QED BY <1>4, <2>3, <2>4 DEF IssueCode
<1>5. CASE QueryCode(r)
  BY <1>5, <1>j DEF QueryCode, Fail
<1>6. CASE SaveToken(r)
  <2> DEFINE m == task[r].row
             n == [member |-> m, client |-> task[r].client, revoked |-> FALSE,
                   from |-> task[r].cred]
             c == ClaimsOf(m, task[r].client)
  <2>1. /\ UNCHANGED <<orgVars, oauth, fakts, codes, loose, grants>> /\ seen' = seen
        /\ At(r, "token") /\ members' = members
    BY <1>6 DEF SaveToken, Proceed, Fail, orgVars
  <2>2. task[r].client \in ClientId /\ task[r].cred \in Inserter \cup {None}
    BY <1>k, <2>1, AtPlace DEF InPlace, InMemory, Task
  <2>3. CASE UNCHANGED <<tokens, claims>>
    BY <1>j, <2>1, <2>3 DEF oauthVars
  <2>4. CASE /\ m \in members
             /\ tokens' = [tokens EXCEPT ![r] = n] /\ claims' = [claims EXCEPT ![r] = c]
    <3>1. m \in Membership /\ orgs[m.org].slug \in Slug
      BY <2>4, MemberTypes DEF AccountTypeOK, Organization
    <3>2. n \in Token /\ n.member = m
      BY <2>2, <3>1 DEF Token
    <3>3. c \in Claims
      BY <2>2, <3>1 DEF ClaimsOf, Claims, Membership
    <3> HIDE DEF n, c
    <3>4. ClientTypes'
      BY <1>t, <1>r, <2>1, <2>4, <3>2 DEF ClientTypes
    <3>5. claims' \in [Inserter -> Claims \cup {None}]
          /\ \A k \in Inserter : claims[k] # None => claims'[k] # None
      BY <1>g, <1>r, <2>4, <3>3, NoRow
    <3>6. Recorded'
      BY <1>g, <1>m, <2>1, <3>5, RecordedOn
    <3> QED BY <1>s, <2>1, <3>4, <3>6
  <2> QED BY <1>6, <2>3, <2>4 DEF SaveToken
<1>7. CASE SpendCode(r)
  <2>1. /\ UNCHANGED <<orgVars, oauth, fakts, tokens, loose, grants, claims>> /\ seen' = seen
        /\ codes' = [codes EXCEPT ![task[r].cred] = None] /\ members' = members
    BY <1>7 DEF SpendCode, Proceed, orgVars
  <2>2. ClientTypes'
    BY <1>t, <2>1 DEF ClientTypes
  <2> QED BY <1>c, <2>1, <2>2
<1>8. CASE QueryRefreshToken(r)
  BY <1>8, <1>j DEF QueryRefreshToken, Fail
<1>9. CASE RevokeToken(r)
  <2> DEFINE t == task[r].cred
             old == [member |-> task[r].row, client |-> task[r].client, revoked |-> TRUE,
                     from |-> IF t = Old THEN None ELSE task[t].cred]
  <2>1. /\ UNCHANGED <<orgVars, oauth, fakts, codes, loose, grants, claims>> /\ seen' = seen
        /\ At(r, "revoke") /\ members' = members
    BY <1>9 DEF RevokeToken, Proceed, Fail, orgVars
  <2>2. task[r].client \in ClientId /\ t \in Inserter
    BY <1>k, <2>1, AtPlace DEF InPlace, InMemory
  <2>3. CASE tokens' = tokens
    BY <1>j, <2>1, <2>3 DEF oauthVars
  <2>4. CASE task[r].row \in members /\ tokens' = [tokens EXCEPT ![t] = old]
    <3>1. task[r].row \in Membership
      BY <1>t, <2>4 DEF RowTypes
    <3>2. (IF t = Old THEN None ELSE task[t].cred) \in Inserter \cup {None}
      BY <2>2 DEF Inserter, Flow, Task
    <3>3. old \in Token /\ old.member \in members
      BY <2>2, <2>4, <3>1, <3>2 DEF Token
    <3> HIDE DEF old, t
    <3>4. ClientTypes'
      BY <1>t, <2>1, <2>2, <2>4, <3>3 DEF ClientTypes
    <3> QED BY <1>c, <2>1, <3>4
  <2> QED BY <1>9, <2>3, <2>4 DEF RevokeToken
<1>10. CASE ResolveMembership(r)
  BY <1>10, <1>j DEF ResolveMembership, Fail
<1>11. CASE ExpandOrganization(r)
  BY <1>11, <1>j DEF ExpandOrganization, Fail
<1>12. CASE ExpandClient(r)
  BY <1>12, <1>j DEF ExpandClient, Fail
<1>13. CASE ExpandMembership(r)
  BY <1>13, <1>j DEF ExpandMembership, Fail
<1>14. CASE ValidateToken(r)
  BY <1>14, <1>j DEF ValidateToken, Fail
<1>15. CASE DescribeUser(r)
  BY <1>15, <1>j DEF DescribeUser, Fail
<1> QED
  BY <1>1, <1>2, <1>3, <1>4, <1>5, <1>6, <1>7, <1>8, <1>9, <1>10, <1>11, <1>12, <1>13,
     <1>14, <1>15 DEF OAuthStep

LEMMA TailnetTypes ==
  ASSUME Typing, TailnetTypeOK, NEW r \in Request, Running(r), TailnetStep(r)
  PROVE  /\ OrgTypes' /\ RowTypes' /\ LayerTypes' /\ ClientTypes' /\ SeenTypes'
         /\ Recorded' /\ TailnetTypeOK' /\ UNCHANGED <<orgs, oauthVars, members, active>>
<1> USE DEF Typing
<1>t. OrgTypes /\ RowTypes /\ LayerTypes /\ ClientTypes /\ SeenTypes
  BY Parts
<1>k. task[r] \in Task /\ InMemory(task[r]) /\ Placed(task[r])
  BY DEF Flow, Running
<1>r. r \in Inserter
  BY DEF Inserter
<1>m. Moves(r)
  BY TailnetMoves
<1>s. ASSUME UNCHANGED <<users, active, orgs, roled, profiled, members, admins, oauthVars>>,
             seen' = seen
      PROVE  /\ OrgTypes' /\ RowTypes' /\ ClientTypes' /\ SeenTypes' /\ Recorded' /\ Stay
             /\ UNCHANGED <<orgs, oauthVars, members, active>>
  <2>1. roled' \subseteq OrgId /\ profiled' \subseteq OrgId /\ admins' \subseteq members
    BY <1>t, <1>s DEF RowTypes
  <2>2. SeenTypes'
    BY <1>t, <1>s, <1>m DEF SeenTypes, Moves
  <2>3. UNCHANGED <<oauth, fakts, codes, tokens>> /\ UNCHANGED <<grants, claims>>
        /\ UNCHANGED <<users, active, orgs>> /\ members \subseteq members' /\ UNCHANGED members
    BY <1>s DEF oauthVars
  <2>4. Recorded'
    BY <1>m, <2>3, RecordedOn DEF Recorded
  <2> QED BY <1>s, <1>t, <2>1, <2>2, <2>3, <2>4, OrgsStay, RowsStay, ClientsStay
<1>j. ASSUME UNCHANGED <<orgVars, oauthVars>>, TailnetTypeOK', seen' = seen
      PROVE  /\ OrgTypes' /\ RowTypes' /\ LayerTypes' /\ ClientTypes' /\ SeenTypes'
             /\ Recorded' /\ TailnetTypeOK' /\ UNCHANGED <<orgs, oauthVars, members, active>>
  <2>1. UNCHANGED <<users, active, orgs, roled, profiled, members, admins, oauthVars>>
        /\ UNCHANGED <<layers, authkeys>>
    BY <1>j DEF orgVars, baseVars
  <2> QED BY <1>j, <1>s, <1>t, <2>1, LayersStay
<1>u. ASSUME UNCHANGED tailnetVars
      PROVE  TailnetTypeOK'
  BY <1>u DEF TailnetTypeOK, tailnetVars
<1>1. CASE CreateTailnet(r)
  <2>1. At(r, "create") /\ UNCHANGED <<orgVars, oauthVars, issued>> /\ seen' = seen
    BY <1>1 DEF CreateTailnet, Proceed, Fail
  <2>2. task[r].slug \in Slug /\ task[r].org \in OrgId
    BY <1>k, <2>1, AtPlace DEF InPlace, InMemory
  <2>3. TailnetTypeOK'
    BY <1>1, <2>1, <2>2 DEF CreateTailnet, TailnetTypeOK
  <2> QED BY <1>j, <2>1, <2>3
<1>2. CASE InsertLayer(r)
  <2> DEFINE layer == [org |-> task[r].org, tailnet |-> task[r].slug]
  <2>1. /\ At(r, "layer") /\ seen' = seen
        /\ UNCHANGED <<users, active, chose, authkeys, orgs, roled, profiled, members, admins,
                       unkept, held, oauthVars, tailnetVars>>
    BY <1>2 DEF InsertLayer, Proceed, Fail
  <2>2. layer \in Layer /\ layer.org \in OrgId
    BY <1>k, <2>1, AtPlace DEF InPlace, InMemory, Layer
  <2>3. CASE layers' = layers
    BY <1>s, <1>t, <1>u, <2>1, <2>3, LayersStay
  <2>4. CASE Live(layer.org) /\ layers' = [layers EXCEPT ![r] = layer]
    <3> HIDE DEF layer
    <3>1. LayerTypes'
      BY <1>r, <1>t, <2>1, <2>2, <2>4, NoRow DEF LayerTypes, Live, AuthKey
    <3> QED BY <1>s, <1>u, <2>1, <3>1
  <2> QED BY <1>2, <2>3, <2>4 DEF InsertLayer
<1>3. CASE PushPolicy(r)
  BY <1>3, <1>j, <1>u DEF PushPolicy, Proceed, Fail
<1>4. CASE ReadLayer(r)
  BY <1>4, <1>j, <1>u DEF ReadLayer, Fail
<1>5. CASE CheckMember(r)
  BY <1>5, <1>j, <1>u DEF CheckMember, Proceed, Fail
<1>6. CASE MintKey(r)
  <2>1. At(r, "mint") /\ UNCHANGED <<orgVars, oauthVars, tailnets>> /\ seen' = seen
    BY <1>6 DEF MintKey, Proceed, Fail
  <2>2. [tailnet |-> task[r].slug, org |-> task[r].org] \in IssuedKey
    BY <1>k, <2>1, AtPlace DEF InPlace, InMemory, IssuedKey
  <2>3. TailnetTypeOK'
    BY <1>6, <2>1, <2>2 DEF MintKey, TailnetTypeOK
  <2> QED BY <1>j, <2>1, <2>3
<1>7. CASE StoreKey(r)
  <2> DEFINE key == [layer |-> task[r].cred, creator |-> task[r].user]
  <2>1. /\ At(r, "store") /\ seen' = seen
        /\ UNCHANGED <<users, active, chose, layers, orgs, roled, profiled, members, admins,
                       unkept, held, oauthVars, tailnetVars>>
    BY <1>7 DEF StoreKey, Proceed, Fail
  <2>2. key \in AuthKey
    BY <1>k, <2>1, AtPlace DEF InPlace, InMemory, AuthKey
  <2>3. CASE authkeys' = authkeys
    BY <1>s, <1>t, <1>u, <2>1, <2>3, LayersStay
  <2>4. CASE /\ layers[key.layer] # None /\ key.creator \in users
             /\ authkeys' = [authkeys EXCEPT ![r] = key]
    <3> HIDE DEF key
    <3>1. LayerTypes'
      BY <1>r, <1>t, <2>1, <2>2, <2>4 DEF LayerTypes
    <3> QED BY <1>s, <1>u, <2>1, <3>1
  <2> QED BY <1>7, <2>3, <2>4 DEF StoreKey
<1> QED
  BY <1>1, <1>2, <1>3, <1>4, <1>5, <1>6, <1>7 DEF TailnetStep

\* Whose steps are whose; the organization a tailnet is created for is read as
\* one that is updated.
OrganizationOp ==
  BootOp \cup {"create", "update", "delete", "signup", "join", "leave", "choose", "quit",
               "makeAdmin", "unmakeAdmin"}
OAuthOp == {"register", "drop", "accept", "exchange", "refresh", "credentials", "api", "info"}
TailnetOp == {"tailnet", "authkey"}

LEMMA Groups ==
  ASSUME Flow, NEW r \in Request, Running(r)
  PROVE  /\ OrganizationStep(r) => \/ task[r].op \in OrganizationOp
                                   \/ task[r].op = "tailnet" /\ task[r].pc = 1 /\ ReadOrg(r)
         /\ OAuthStep(r) => task[r].op \in OAuthOp
         /\ TailnetStep(r) => task[r].op \in TailnetOp
         /\ SocialStep(r) => task[r].op \in SocialOp
         /\ InventoryStep(r) => task[r].op \in InventoryOp
<1>p. Placed(task[r])
  BY DEF Flow, Running
<1>a. ASSUME NEW s, At(r, s)
      PROVE  InPlace(task[r].op, task[r].pc, s)
  BY <1>p, <1>a, AtPlace
<1>1. ASSUME OrganizationStep(r)
      PROVE  \/ task[r].op \in OrganizationOp
             \/ task[r].op = "tailnet" /\ task[r].pc = 1 /\ ReadOrg(r)
  <2>1. CASE ReadOrg(r)
    <3>1. InPlace(task[r].op, task[r].pc, "read")
      BY <1>a, <2>1 DEF ReadOrg
    <3> QED BY <2>1, <3>1 DEF InPlace, OrganizationOp
  <2>2. CASE ~ReadOrg(r)
    <3>1. PICK s \in {"roles", "ensure", "upsert", "admin", "save", "profile", "insert",
                      "write", "own", "collect", "erase", "user", "home", "join", "leave", "row",
                      "set", "account", "choose", "saveuser", "organize", "find"} : At(r, s)
      <4>1. CASE SignalStep(r)
        BY <4>1 DEF SignalStep, EnsureRoles, EnsureOwner, UpsertMember, GiveAdmin, SaveMember,
                    CreateProfile
      <4>2. CASE \/ InsertOrg(r) \/ WriteBack(r) \/ CheckOwner(r) \/ CollectRows(r)
                 \/ EraseOrg(r) \/ InsertUser(r) \/ HomeOrganization(r)
        BY <4>2 DEF InsertOrg, WriteBack, CheckOwner, CollectRows, EraseOrg, InsertUser,
                    HomeOrganization
      <4>3. CASE \/ Join(r) \/ Leave(r) \/ ReadMember(r) \/ SetRoles(r)
                 \/ ReadUser(r) \/ ChooseOrg(r) \/ SaveUser(r) \/ EnsureOrg(r) \/ FindMember(r)
        BY <4>3 DEF Join, Leave, ReadMember, SetRoles, ReadUser, ChooseOrg, SaveUser, EnsureOrg,
                    FindMember
      <4> QED BY <1>1, <2>2, <4>1, <4>2, <4>3 DEF OrganizationStep
    <3>2. InPlace(task[r].op, task[r].pc, s)
      BY <1>a, <3>1
    <3> QED BY <3>2 DEF InPlace, OrganizationOp, BootOp
  <2> QED BY <2>1, <2>2
<1>2. ASSUME OAuthStep(r)
      PROVE  task[r].op \in OAuthOp
  <2>1. PICK s \in {"register", "drop", "member", "issue", "query", "token", "spend", "active",
                    "revoke", "resolve", "organization", "client", "membership", "validate",
                    "describe"} : At(r, s)
    BY <1>2 DEF OAuthStep, RegisterClient, DropClient, FindMembership, IssueCode, QueryCode,
                SaveToken, SpendCode, QueryRefreshToken, RevokeToken, ResolveMembership,
                ExpandOrganization, ExpandClient, ExpandMembership, ValidateToken, DescribeUser
  <2>2. InPlace(task[r].op, task[r].pc, s)
    BY <1>a, <2>1
  <2> QED BY <2>2 DEF InPlace, OAuthOp
<1>3. ASSUME TailnetStep(r)
      PROVE  task[r].op \in TailnetOp
  <2>1. PICK s \in {"create", "layer", "push", "layerrow", "ofmember", "mint", "store"} : At(r, s)
    BY <1>3 DEF TailnetStep, CreateTailnet, InsertLayer, PushPolicy, ReadLayer, CheckMember,
                MintKey, StoreKey
  <2>2. InPlace(task[r].op, task[r].pc, s)
    BY <1>a, <2>1
  <2> QED BY <2>2 DEF InPlace, TailnetOp
<1>4. ASSUME SocialStep(r)
      PROVE  task[r].op \in SocialOp
  <2>1. PICK s \in {"look", "put", "comment", "lookup", "notify", "attach", "target", "stash",
                    "stashrow", "stashsave", "unstash", "finditem", "putitem", "removeitem"} :
          At(r, s)
    BY <1>4 DEF SocialStep, LookForChannel, PutChannel, InsertComment, LookUpMentions,
                NotifyMention, AttachMentions, ResolveTarget, CreateStash, ReadStash, SaveStash,
                DeleteStash, FindItem, PutItem, RemoveItem
  <2>2. InPlace(task[r].op, task[r].pc, s)
    BY <1>a, <2>1
  <2> QED BY <2>2 DEF InPlace, SocialOp
<1>5. ASSUME InventoryStep(r)
      PROVE  task[r].op \in InventoryOp
  <2>1. PICK s \in {"putdevice", "putfile", "insertrow", "readrow", "saverow", "deleterow",
                    "readgroup", "addpair", "allowedGroups", "allowedUsers", "deniedGroups",
                    "deniedUsers"} : At(r, s)
    BY <1>5 DEF InventoryStep, PutDevice, PutFile, InsertRow, ReadRow, SaveRow, DeleteRow,
                ReadGroup, AddPair, SetList, List, Lists
  <2>2. InPlace(task[r].op, task[r].pc, s)
    BY <1>a, <2>1
  <2> QED BY <2>2 DEF InPlace, InventoryOp
<1> QED BY <1>1, <1>2, <1>3, <1>4, <1>5

-----------------------------------------------------------------------------
(* Channels, comments and stashes *)

\* What requests about them have found by the step they are at.
SocialFacts ==
  \A r \in Request :
    /\ task[r].op = "channel" => asked[r] \in PushToken
    /\ task[r].op = "channel" /\ task[r].pc = 2 => found[r] \in Channel \cup {None}
    /\ task[r].op = "comment" => asked[r] \in SUBSET (User \cup {Unknown})
    /\ task[r].op = "comment" /\ task[r].pc >= 2 => comments[r] # None
    /\ task[r].op = "comment" /\ task[r].pc >= 3 => todo[r] \subseteq User
    /\ task[r].op = "message" /\ task[r].pc >= 2 => todo[r] \subseteq User
    /\ task[r].op = "additems" => todo[r] \subseteq Key
    /\ task[r].op = "additems" /\ task[r].pc = 3 => found[r] \in Item

LEMMA NoSocialRow ==
  None \notin PushToken /\ None \notin Channel /\ None \notin Item /\ None \notin Comment
BY SocialAssumption

LEMMA SocialStays ==
  ASSUME SocialTypeOK, UNCHANGED socialVars
  PROVE  SocialTypeOK'
BY DEF SocialTypeOK, socialVars

LEMMA SocialFactsStay ==
  ASSUME Flow, SocialFacts, NEW r \in Request, Moves(r), task[r].op \notin SocialOp,
         UNCHANGED socialVars
  PROVE  SocialFacts'
<1>1. ASSUME NEW q \in Request, task'[q].op \in SocialOp
      PROVE  task'[q] = task[q]
  <2>1. CASE q = r
    BY <1>1, <2>1 DEF Moves, SocialOp, BootOp
  <2> QED BY <2>1 DEF Moves
<1> QED BY <1>1 DEF SocialFacts, SocialOp, socialVars

\* A request that is no boot's goes on, or fails.
LEMMA Proceeds ==
  ASSUME Flow, NEW r \in Request \ Boot, Running(r), Proceed(r)
  PROVE  /\ Moves(r) /\ seen' = seen /\ Remembers(task'[r], task[r])
         /\ IF task[r].pc < Len(Program[task[r].op])
              THEN task'[r].pc = task[r].pc + 1 /\ task'[r].status = "running"
              ELSE task'[r].pc = task[r].pc /\ task'[r].status = "done"
<1>1. Keeps(task[r], task[r]) /\ Go(r, task[r])
  BY DEF Proceed, Keeps, Flow
<1> QED BY <1>1, Advance DEF Proceed

LEMMA Fails ==
  ASSUME Flow, NEW r \in Request \ Boot, Running(r), Fail(r)
  PROVE  /\ Moves(r) /\ seen' = seen /\ Remembers(task'[r], task[r])
         /\ task'[r].pc = task[r].pc /\ task'[r].status = "failed"
BY Refusal

\* What is to be shown of a request's own step.
SocialFactsOf(r) ==
  /\ task[r].op = "channel" => asked[r] \in PushToken
  /\ task[r].op = "channel" /\ task[r].pc = 2 => found[r] \in Channel \cup {None}
  /\ task[r].op = "comment" => asked[r] \in SUBSET (User \cup {Unknown})
  /\ task[r].op = "comment" /\ task[r].pc >= 2 => comments[r] # None
  /\ task[r].op = "comment" /\ task[r].pc >= 3 => todo[r] \subseteq User
  /\ task[r].op = "message" /\ task[r].pc >= 2 => todo[r] \subseteq User
  /\ task[r].op = "additems" => todo[r] \subseteq Key
  /\ task[r].op = "additems" /\ task[r].pc = 3 => found[r] \in Item

LEMMA SocialFactsOn ==
  ASSUME Flow, SocialFacts, NEW r \in Request, Moves(r), SocialFactsOf(r)',
         \A q \in Request \ {r} : /\ asked'[q] = asked[q] /\ todo'[q] = todo[q]
                                  /\ found'[q] = found[q]
                                  /\ comments[q] # None => comments'[q] # None
  PROVE  SocialFacts'
BY DEF SocialFacts, SocialFactsOf, Moves

LEMMA SocialTypes ==
  ASSUME Typing, SocialTypeOK, SocialFacts, NEW r \in Request, Running(r), SocialStep(r)
  PROVE  SocialTypeOK' /\ SocialFacts'
<1> USE DEF Typing
<1>k. /\ task[r] \in Task /\ InMemory(task[r]) /\ Placed(task[r]) /\ task[r].op \in SocialOp
  BY Groups DEF Flow, Running
<1>b. r \notin Boot
  BY <1>k DEF Flow, Running, SocialOp, BootOp
<1>m. Moves(r)
  BY SocialMoves
<1>a. ASSUME NEW s, At(r, s)
      PROVE  InPlace(task[r].op, task[r].pc, s)
  BY <1>k, <1>a, AtPlace
<1>f. SocialFactsOf(r)
  BY DEF SocialFacts, SocialFactsOf
<1>p. ASSUME Proceed(r)
      PROVE  /\ task'[r].op = task[r].op /\ task'[r].user = task[r].user
             /\ task'[r].pc = task[r].pc \/ task'[r].pc = task[r].pc + 1
  BY <1>b, <1>p, Proceeds DEF Remembers
<1>x. ASSUME Fail(r)
      PROVE  task'[r].op = task[r].op /\ task'[r].pc = task[r].pc
  BY <1>b, <1>x, Fails DEF Remembers
<1>1. CASE LookForChannel(r)
  <2>1. /\ At(r, "look")
        /\ UNCHANGED <<channels, comments, stashes, items, todo, asked, last, notified>>
    BY <1>1 DEF LookForChannel
  <2>2. task[r].op = "channel" /\ task[r].pc = 1
    BY <1>a, <2>1 DEF InPlace
  <2>3. ChannelsOf(task[r].user) \subseteq Channel
    BY DEF ChannelsOf
  <2>4. \/ UNCHANGED found /\ Fail(r)
        \/ \E c \in Channel \cup {None} : Find(r, c) /\ Proceed(r)
    BY <1>1, <2>3 DEF LookForChannel
  <2>5. CASE UNCHANGED found /\ Fail(r)
    <3>1. SocialFactsOf(r)'
      BY <1>f, <1>x, <2>1, <2>2, <2>5 DEF SocialFactsOf
    <3> QED BY <1>m, <2>1, <2>5, <3>1, SocialFactsOn, SocialStays DEF socialVars
  <2>6. ASSUME NEW c \in Channel \cup {None}, Find(r, c), Proceed(r)
        PROVE  SocialTypeOK' /\ SocialFacts'
    <3>1. found' = [found EXCEPT ![r] = c]
      BY <2>6 DEF Find
    <3>2. SocialTypeOK'
      BY <2>1, <3>1 DEF SocialTypeOK
    <3>3. SocialFactsOf(r)'
      BY <1>f, <1>p, <2>1, <2>2, <2>6, <3>1 DEF SocialFactsOf, SocialTypeOK
    <3>4. \A q \in Request \ {r} : found'[q] = found[q]
      BY <3>1 DEF SocialTypeOK
    <3> QED BY <1>m, <2>1, <3>2, <3>3, <3>4, SocialFactsOn
  <2> QED BY <2>4, <2>5, <2>6
<1>2. CASE PutChannel(r)
  <2>1. At(r, "put") /\ UNCHANGED <<comments, stashes, items, todo, found, asked, notified>>
    BY <1>2 DEF PutChannel
  <2>2. task[r].op = "channel" /\ task[r].pc = 2
    BY <1>a, <2>1 DEF InPlace
  <2>3. task'[r].op = "channel"
    BY <1>b, <1>m, <2>2 DEF Moves
  <2>4. SocialFactsOf(r)'
    BY <1>f, <2>1, <2>2, <2>3 DEF SocialFactsOf
  <2>5. SocialFacts'
    BY <1>m, <2>1, <2>4, SocialFactsOn
  <2>6. CASE UNCHANGED <<channels, last>>
    BY <2>1, <2>5, <2>6, SocialStays DEF socialVars
  <2>7. ASSUME NEW c \in Channel, PutToken(r, c), ~TakenByOther(r, c)
        PROVE  SocialTypeOK'
    <3>1. channels' = [channels EXCEPT ![c] = asked[r]] /\ last' = [last EXCEPT ![c] = r]
      BY <2>7 DEF PutToken
    <3>2. asked[r] \in PushToken /\ \A d \in Channel \ {c} : channels[d] # asked[r]
      BY <1>f, <2>2, <2>7 DEF SocialFactsOf, TakenByOther
    <3> QED BY <2>1, <3>1, <3>2 DEF SocialTypeOK
  <2>8. [user |-> task[r].user, by |-> r] \in Channel
    BY <1>k, <2>2 DEF InMemory, Channel, Inserter
  <2>9. found[r] # None => found[r] \in Channel
    BY <1>f, <2>2 DEF SocialFactsOf
  <2>10. ChannelsOf(task[r].user) \subseteq Channel
    BY DEF ChannelsOf
  <2>11. UNCHANGED <<channels, last>> \/ \E c \in Channel : PutToken(r, c) /\ ~TakenByOther(r, c)
    BY <1>2, <2>8, <2>9, <2>10 DEF PutChannel, CannotPut
  <2> QED BY <2>5, <2>6, <2>7, <2>11
<1>3. CASE InsertComment(r)
  <2> DEFINE parent == task[r].cred
             new == [parent |-> parent, mentions |-> {}]
  <2>1. /\ At(r, "comment")
        /\ UNCHANGED <<channels, stashes, items, todo, found, asked, last, notified>>
    BY <1>3 DEF InsertComment
  <2>2. task[r].op = "comment" /\ task[r].pc = 1
    BY <1>a, <2>1 DEF InPlace
  <2>3. CASE Fail(r) /\ UNCHANGED comments
    <3>1. SocialFactsOf(r)'
      BY <1>f, <1>x, <2>1, <2>3 DEF SocialFactsOf
    <3> QED BY <1>m, <2>1, <2>3, <3>1, SocialFactsOn, SocialStays DEF socialVars
  <2>4. CASE /\ parent = None \/ comments[parent] # None
             /\ comments' = [comments EXCEPT ![r] = new] /\ Proceed(r)
    <3>1. parent \in Request \cup {None}
      BY <1>k, <2>2 DEF InMemory
    <3>2. new \in Comment /\ new.parent = parent
      BY <3>1 DEF Comment
    <3> HIDE DEF new, parent
    <3>3. comments'[r] = new /\ new # None /\ \A q \in Request \ {r} : comments'[q] = comments[q]
      BY <2>4, <3>2, NoSocialRow DEF SocialTypeOK
    <3>4. comments' \in [Request -> Comment \cup {None}]
      BY <2>4, <3>2 DEF SocialTypeOK
    <3>5. \A q \in Request : comments'[q] # None /\ comments'[q].parent # None =>
            comments'[comments'[q].parent] # None
      BY <2>4, <3>1, <3>2, <3>3 DEF SocialTypeOK, Comment
    <3>6. SocialTypeOK'
      BY <2>1, <3>4, <3>5 DEF SocialTypeOK
    <3>7. SocialFactsOf(r)'
      BY <1>f, <1>p, <2>1, <2>2, <2>4, <3>3 DEF SocialFactsOf
    <3> QED BY <1>m, <2>1, <3>3, <3>6, <3>7, SocialFactsOn
  <2> QED BY <1>3, <2>3, <2>4 DEF InsertComment
<1>4. CASE LookUpMentions(r)
  <2>1. /\ At(r, "lookup") /\ UNCHANGED <<channels, comments, stashes, items, found, asked, last>>
        /\ UNCHANGED notified
        /\ todo' = [todo EXCEPT ![r] = IF task[r].fresh THEN todo[r] ELSE {}]
        /\ IF todo[r] \subseteq users THEN Proceed(r) ELSE Fail(r)
    BY <1>4 DEF LookUpMentions, Left
  <2>2. task[r].op = "comment" /\ task[r].pc = 2
    BY <1>a, <2>1 DEF InPlace
  <2>3. SocialTypeOK'
    BY <2>1 DEF SocialTypeOK
  <2>4. todo'[r] \subseteq todo[r] /\ \A q \in Request \ {r} : todo'[q] = todo[q]
    BY <2>1 DEF SocialTypeOK
  <2>5. todo[r] \subseteq users => todo'[r] \subseteq User
    BY <2>4 DEF AccountTypeOK
  <2>6. SocialFactsOf(r)'
    BY <1>f, <1>p, <1>x, <2>1, <2>2, <2>5 DEF SocialFactsOf
  <2> QED BY <1>m, <2>1, <2>3, <2>4, <2>6, SocialFactsOn
<1>5. CASE NotifyMention(r)
  <2>1. At(r, "notify") /\ UNCHANGED <<channels, comments, stashes, items, found, asked, last>>
    BY <1>5 DEF NotifyMention
  <2>2. \/ task[r].op = "message" /\ task[r].pc = 2
        \/ task[r].op = "comment" /\ task[r].pc = 3
    <3>1. InPlace(task[r].op, task[r].pc, "notify")
      BY <1>a, <2>1
    <3> QED BY <3>1 DEF InPlace
  <2>3. todo[r] \subseteq User
    BY <1>f, <2>2 DEF SocialFactsOf
  <2>4. CASE todo[r] = {} /\ Proceed(r) /\ UNCHANGED <<todo, notified>>
    <3>1. SocialFactsOf(r)'
      BY <1>f, <1>p, <2>1, <2>2, <2>3, <2>4 DEF SocialFactsOf
    <3> QED BY <1>m, <2>1, <2>4, <3>1, SocialFactsOn, SocialStays DEF socialVars
  <2>5. ASSUME NEW u \in todo[r], Push(r, u), Left(r, todo[r] \ {u}), UNCHANGED taskVars
        PROVE  SocialTypeOK' /\ SocialFacts'
    <3>1. todo' = [todo EXCEPT ![r] = todo[r] \ {u}]
      BY <2>5 DEF Left
    <3>2. notified' \in [Request -> SUBSET User]
      BY <2>3, <2>5 DEF Push, SocialTypeOK
    <3>3. todo' \in [Request -> SUBSET Listed]
      BY <3>1 DEF SocialTypeOK
    <3>4. SocialTypeOK'
      BY <2>1, <3>2, <3>3 DEF SocialTypeOK
    <3>5. SocialFactsOf(r)'
      BY <1>f, <2>1, <2>2, <2>3, <2>5, <3>1 DEF SocialFactsOf, SocialTypeOK, taskVars
    <3> QED BY <1>m, <2>1, <3>1, <3>4, <3>5, SocialFactsOn DEF SocialTypeOK
  <2> QED BY <1>5, <2>4, <2>5 DEF NotifyMention
<1>6. CASE AttachMentions(r)
  <2>1. /\ At(r, "attach") /\ comments' = [comments EXCEPT ![r].mentions = asked[r]] /\ Proceed(r)
        /\ UNCHANGED <<channels, stashes, items, todo, found, asked, last, notified>>
    BY <1>6 DEF AttachMentions
  <2>2. task[r].op = "comment" /\ task[r].pc = 4
    BY <1>a, <2>1 DEF InPlace
  <2>3. comments[r] \in Comment /\ asked[r] \in SUBSET (User \cup {Unknown})
    BY <1>f, <2>2 DEF SocialFactsOf, SocialTypeOK
  <2>4. PICK M \in SUBSET (User \cup {Unknown}) : M = asked[r]
    BY <2>3
  <2> DEFINE new == [comments[r] EXCEPT !.mentions = M]
  <2>5. new \in Comment /\ new.parent = comments[r].parent
    BY <2>3 DEF Comment
  <2>6. comments' = [comments EXCEPT ![r] = new]
    BY <2>1, <2>4 DEF SocialTypeOK
  <2> HIDE DEF new
  <2>7. comments'[r] = new /\ new # None /\ \A q \in Request \ {r} : comments'[q] = comments[q]
    BY <2>5, <2>6, NoSocialRow DEF SocialTypeOK
  <2>8. comments' \in [Request -> Comment \cup {None}]
    BY <2>5, <2>6 DEF SocialTypeOK
  <2>9. \A q \in Request : comments'[q] # None /\ comments'[q].parent # None =>
          comments'[comments'[q].parent] # None
    BY <2>3, <2>5, <2>7, NoSocialRow DEF SocialTypeOK, Comment
  <2>10. SocialTypeOK'
    BY <2>1, <2>8, <2>9 DEF SocialTypeOK
  <2>11. SocialFactsOf(r)'
    BY <1>f, <1>p, <2>1, <2>2, <2>7 DEF SocialFactsOf
  <2> QED BY <1>m, <2>1, <2>7, <2>10, <2>11, SocialFactsOn
<1>7. CASE ResolveTarget(r)
  <2>1. At(r, "target") /\ UNCHANGED socialVars
    BY <1>7 DEF ResolveTarget
  <2>2. task[r].op = "message" /\ task[r].pc = 1
    BY <1>a, <2>1 DEF InPlace
  <2>3. users \subseteq User
    BY DEF AccountTypeOK
  <2>4. Fail(r) \/ (todo[r] \subseteq User /\ Proceed(r))
    BY <1>7, <2>3 DEF ResolveTarget
  <2>5. SocialFactsOf(r)'
    BY <1>f, <1>p, <1>x, <2>1, <2>2, <2>4 DEF SocialFactsOf, socialVars
  <2> QED BY <1>m, <2>1, <2>5, SocialFactsOn, SocialStays DEF socialVars
<1>8. CASE CreateStash(r)
  <2>1. /\ At(r, "stash") /\ Proceed(r) /\ stashes' = stashes \cup {r}
        /\ UNCHANGED <<channels, comments, items, todo, found, asked, last, notified>>
    BY <1>8 DEF CreateStash
  <2>2. task[r].op = "stash"
    BY <1>a, <2>1 DEF InPlace
  <2>3. SocialTypeOK'
    BY <2>1 DEF SocialTypeOK, Inserter
  <2>4. SocialFactsOf(r)'
    BY <1>p, <2>1, <2>2 DEF SocialFactsOf
  <2> QED BY <1>m, <2>1, <2>3, <2>4, SocialFactsOn
<1>9. CASE ReadStash(r)
  <2>1. At(r, "stashrow") /\ UNCHANGED socialVars /\ (Proceed(r) \/ Fail(r))
    BY <1>9 DEF ReadStash
  <2>2. task[r].op \in {"restash", "unstash", "additems"} /\ task[r].pc = 1
    BY <1>a, <2>1 DEF InPlace
  <2>3. SocialFactsOf(r)'
    BY <1>f, <1>p, <1>x, <2>1, <2>2 DEF SocialFactsOf, socialVars
  <2> QED BY <1>m, <2>1, <2>3, SocialFactsOn, SocialStays DEF socialVars
<1>10. CASE SaveStash(r)
  <2>1. /\ At(r, "stashsave") /\ Proceed(r) /\ stashes' = stashes \cup {task[r].org}
        /\ UNCHANGED <<channels, comments, items, todo, found, asked, last, notified>>
    BY <1>10 DEF SaveStash
  <2>2. task[r].op = "restash"
    BY <1>a, <2>1 DEF InPlace
  <2>3. task[r].org \in Inserter
    BY <1>k, <2>2 DEF InMemory
  <2>4. SocialTypeOK'
    BY <2>1, <2>3 DEF SocialTypeOK
  <2>5. SocialFactsOf(r)'
    BY <1>p, <2>1, <2>2 DEF SocialFactsOf
  <2> QED BY <1>m, <2>1, <2>4, <2>5, SocialFactsOn
<1>11. CASE DeleteStash(r)
  <2>1. /\ At(r, "unstash") /\ Fail(r) /\ stashes' = stashes \ {task[r].org}
        /\ items' = {i \in items : i.stash # task[r].org}
        /\ UNCHANGED <<channels, comments, todo, found, asked, last, notified>>
    BY <1>11 DEF DeleteStash
  <2>2. task[r].op = "unstash"
    BY <1>a, <2>1 DEF InPlace
  <2>3. SocialTypeOK'
    BY <2>1 DEF SocialTypeOK
  <2>4. SocialFactsOf(r)'
    BY <1>x, <2>1, <2>2 DEF SocialFactsOf
  <2> QED BY <1>m, <2>1, <2>3, <2>4, SocialFactsOn
<1>12. CASE FindItem(r)
  <2>1. /\ At(r, "finditem")
        /\ UNCHANGED <<channels, comments, stashes, items, todo, asked, last, notified>>
    BY <1>12 DEF FindItem
  <2>2. task[r].op = "additems" /\ task[r].pc = 2
    BY <1>a, <2>1 DEF InPlace
  <2>3. ASSUME NEW k \in todo[r]
        PROVE  [stash |-> task[r].org, key |-> k, by |-> r] \in Item
    BY <1>k, <1>f, <2>2 DEF InMemory, SocialFactsOf, Item, Inserter
  <2>4. \/ \E i \in Item : Find(r, i) /\ Proceed(r)
        \/ UNCHANGED found /\ Fail(r)
    BY <1>12, <2>3 DEF FindItem, SocialTypeOK
  <2>5. CASE UNCHANGED found /\ Fail(r)
    <3>1. SocialFactsOf(r)'
      BY <1>f, <1>x, <2>1, <2>2, <2>5 DEF SocialFactsOf
    <3> QED BY <1>m, <2>1, <2>5, <3>1, SocialFactsOn, SocialStays DEF socialVars
  <2>6. ASSUME NEW i \in Item, Find(r, i), Proceed(r)
        PROVE  SocialTypeOK' /\ SocialFacts'
    <3>1. found' = [found EXCEPT ![r] = i]
      BY <2>6 DEF Find
    <3>2. SocialTypeOK'
      BY <2>1, <3>1 DEF SocialTypeOK
    <3>3. SocialFactsOf(r)'
      BY <1>f, <1>p, <2>1, <2>2, <2>6, <3>1 DEF SocialFactsOf, SocialTypeOK
    <3>4. \A q \in Request \ {r} : found'[q] = found[q]
      BY <3>1 DEF SocialTypeOK
    <3> QED BY <1>m, <2>1, <3>2, <3>3, <3>4, SocialFactsOn
  <2> QED BY <2>4, <2>5, <2>6
<1>13. CASE PutItem(r)
  <2>1. At(r, "putitem") /\ UNCHANGED <<channels, comments, stashes, found, asked, last, notified>>
    BY <1>13 DEF PutItem
  <2>2. task[r].op = "additems" /\ task[r].pc = 3
    BY <1>a, <2>1 DEF InPlace
  <2>3. found[r] \in Item /\ todo[r] \subseteq Key
    BY <1>f, <2>2 DEF SocialFactsOf
  <2>4. task'[r].op = "additems"
    BY <1>b, <1>m, <2>2 DEF Moves
  <2>5. CASE UNCHANGED <<items, todo>>
    <3>1. SocialFactsOf(r)'
      BY <1>f, <2>1, <2>3, <2>4, <2>5 DEF SocialFactsOf
    <3> QED BY <1>m, <2>1, <2>5, <3>1, SocialFactsOn, SocialStays DEF socialVars
  <2>6. CASE /\ found[r].stash \in stashes /\ items' = items \cup {found[r]}
             /\ todo' = [todo EXCEPT ![r] = todo[r] \ {found[r].key}]
    <3>1. SocialTypeOK'
      <4>1. items' \in SUBSET Item /\ \A i \in items' : i.stash \in stashes'
        BY <2>1, <2>3, <2>6 DEF SocialTypeOK
      <4>2. todo' \in [Request -> SUBSET Listed]
        BY <2>6 DEF SocialTypeOK
      <4> QED BY <2>1, <4>1, <4>2 DEF SocialTypeOK
    <3>2. todo'[r] \subseteq Key /\ \A q \in Request \ {r} : todo'[q] = todo[q]
      BY <2>3, <2>6 DEF SocialTypeOK
    <3>3. SocialFactsOf(r)'
      BY <2>1, <2>3, <2>4, <3>2 DEF SocialFactsOf
    <3> QED BY <1>m, <2>1, <3>1, <3>2, <3>3, SocialFactsOn
  <2> QED BY <1>13, <2>5, <2>6 DEF PutItem, Left
<1>14. CASE RemoveItem(r)
  <2>1. /\ At(r, "removeitem")
        /\ UNCHANGED <<channels, comments, stashes, found, asked, last, notified>>
    BY <1>14 DEF RemoveItem
  <2>2. task[r].op = "removeitems"
    BY <1>a, <2>1 DEF InPlace
  <2>3. task'[r].op = "removeitems"
    BY <1>b, <1>m, <2>2 DEF Moves
  <2>4. SocialFactsOf(r)'
    BY <2>3 DEF SocialFactsOf
  <2>5. CASE UNCHANGED <<items, todo>>
    BY <1>m, <2>1, <2>4, <2>5, SocialFactsOn, SocialStays DEF socialVars
  <2>6. ASSUME NEW i \in items, items' = items \ {i}, todo' = [todo EXCEPT ![r] = todo[r] \ {i}]
        PROVE  SocialTypeOK' /\ SocialFacts'
    <3>1. SocialTypeOK'
      BY <2>1, <2>6 DEF SocialTypeOK
    <3>2. \A q \in Request \ {r} : todo'[q] = todo[q]
      BY <2>6 DEF SocialTypeOK
    <3> QED BY <1>m, <2>1, <2>4, <3>1, <3>2, SocialFactsOn
  <2> QED BY <1>14, <2>5, <2>6 DEF RemoveItem, Left
<1> QED
  BY <1>1, <1>2, <1>3, <1>4, <1>5, <1>6, <1>7, <1>8, <1>9, <1>10, <1>11, <1>12, <1>13,
     <1>14 DEF SocialStep

-----------------------------------------------------------------------------
(* Devices, aliases, profiles, files and lists *)

\* Rows that may not be alike are not; this bounds how many there are of a place.
OneEach ==
  \A k \in Kind, p \in Place : Unique(k) => \A x, y \in Like(k, p) : x = y

InventoryRows ==
  /\ rows \in [Kind -> [Inserter -> Place \cup {None}]]
  /\ OneEach
  /\ grouped \subseteq {x \in Inserter : Has("device", x)} \X {g \in Inserter : Has("group", g)}
  /\ lists \in [List -> Inserter]
  /\ order \in [Request -> Order]
  /\ kept \in [Request -> Place \cup {None}]
  /\ wrote \in [Kind -> [Inserter -> Inserter]]

LEMMA AtMostOne ==
  ASSUME NEW S, \A x, y \in S : x = y
  PROVE  Cardinality(S) <= 1
<1>1. CASE S = {}
  BY <1>1, FS_EmptySet
<1>2. ASSUME NEW x \in S
      PROVE  Cardinality(S) <= 1
  <2>1. S = {x}
    OBVIOUS
  <2>2. Cardinality({x}) = 1
    BY FS_Singleton
  <2> QED BY <2>1, <2>2
<1> QED BY <1>1, <1>2

LEMMA RowsTyped ==
  ASSUME InventoryRows
  PROVE  InventoryTypeOK
<1>1. ASSUME NEW k \in Kind, NEW p \in Place, Unique(k)
      PROVE  Cardinality(Like(k, p)) <= 1
  <2>1. \A x, y \in Like(k, p) : x = y
    BY <1>1 DEF InventoryRows, OneEach
  <2> HIDE DEF Like
  <2> QED BY <2>1, AtMostOne
<1> QED BY <1>1 DEF InventoryRows, InventoryTypeOK

\* What is to be shown of a request's own step: what it was asked, and what it
\* has found by the step it is at.
InventoryFactsOf(r) ==
  /\ task[r].op \in {"device", "group", "profile", "upload"} => order[r].place \in Place
  /\ task[r].op \in {"device", "enlist"} => order[r].kind = "device"
  /\ task[r].op = "upload" => order[r].kind = "file"
  /\ task[r].op \in {"edit", "remove", "enlist"} => order[r].row \in Inserter
  /\ task[r].op = "enlist" => order[r].group \in Inserter
  /\ task[r].op = "edit" /\ task[r].pc = 2 => kept[r] \in Place
  /\ task[r].op = "enlist" /\ task[r].pc >= 3 => kept[r] \in Place
  /\ task[r].op \in {"device", "group", "profile", "upload"} /\ task[r].status = "done" =>
       order[r].row \in Inserter

InventoryFacts == \A r \in Request : InventoryFactsOf(r)

LEMMA InventoryFactsOn ==
  ASSUME Flow, InventoryFacts, NEW r \in Request, Moves(r), InventoryFactsOf(r)',
         \A q \in Request \ {r} : order'[q] = order[q] /\ kept'[q] = kept[q]
  PROVE  InventoryFacts'
BY DEF InventoryFacts, InventoryFactsOf, Moves

LEMMA InventoryFactsStay ==
  ASSUME Flow, InventoryFacts, NEW r \in Request, Moves(r), task[r].op \notin InventoryOp,
         UNCHANGED inventoryVars
  PROVE  InventoryFacts'
<1>1. InventoryFactsOf(r)'
  BY DEF InventoryFactsOf, Moves, InventoryOp, BootOp
<1> QED BY <1>1, InventoryFactsOn DEF inventoryVars

LEMMA InventoryStays ==
  ASSUME InventoryRows, UNCHANGED inventoryVars
  PROVE  InventoryRows'
BY DEF InventoryRows, inventoryVars, OneEach, Like, Has

\* A row that is written, and nothing but it.
LEMMA RowWritten ==
  ASSUME InventoryRows, NEW r \in Request, NEW k \in Kind, NEW x \in Inserter,
         NEW p \in Place \cup {None}, Write(r, k, x, p)
  PROVE  /\ rows' \in [Kind -> [Inserter -> Place \cup {None}]]
         /\ wrote' \in [Kind -> [Inserter -> Inserter]]
         /\ rows'[k][x] = p /\ wrote'[k][x] = r
         /\ \A j \in Kind, y \in Inserter :
              j # k \/ y # x => rows'[j][y] = rows[j][y] /\ wrote'[j][y] = wrote[j][y]
BY DEF InventoryRows, Write, Inserter

\* A row that is not deleted stays what devices and groups refer to.
LEMMA RowPut ==
  ASSUME InventoryRows, NEW r \in Request, NEW k \in Kind, NEW x \in Inserter,
         NEW p \in Place, Write(r, k, x, p), ~Clash(k, x, p),
         UNCHANGED <<grouped, lists, kept>>, order' \in [Request -> Order]
  PROVE  InventoryRows'
<1>w. /\ rows' \in [Kind -> [Inserter -> Place \cup {None}]]
      /\ wrote' \in [Kind -> [Inserter -> Inserter]]
      /\ rows'[k][x] = p
      /\ \A j \in Kind, y \in Inserter : j # k \/ y # x => rows'[j][y] = rows[j][y]
  BY RowWritten
<1>p. p # None
  BY InventoryAssumption
<1>1. OneEach'
  BY <1>w DEF InventoryRows, OneEach, Like, Clash, Unique
<1>2. \A j \in Kind, y \in Inserter : Has(j, y) => Has(j, y)'
  BY <1>w, <1>p DEF Has
<1>3. "device" \in Kind /\ "group" \in Kind
  BY DEF Kind
<1>4. grouped' \subseteq {y \in Inserter : Has("device", y)}' \X {g \in Inserter : Has("group", g)}'
  BY <1>2, <1>3 DEF InventoryRows
<1> QED BY <1>w, <1>1, <1>4 DEF InventoryRows

LEMMA RowsAlone ==
  ASSUME InventoryRows, UNCHANGED <<rows, wrote>>,
         grouped' \subseteq {x \in Inserter : Has("device", x)} \X
                            {g \in Inserter : Has("group", g)},
         lists' \in [List -> Inserter], order' \in [Request -> Order],
         kept' \in [Request -> Place \cup {None}]
  PROVE  InventoryRows'
BY DEF InventoryRows, OneEach, Like, Has

LEMMA OnRowOrder ==
  ASSUME InventoryRows, NEW r \in Request, NEW x \in Inserter, OnRow(r, x)
  PROVE  /\ order' \in [Request -> Order]
         /\ order'[r].row = x /\ order'[r].kind = order[r].kind
         /\ order'[r].place = order[r].place /\ order'[r].group = order[r].group
         /\ \A q \in Request \ {r} : order'[q] = order[q]
<1> DEFINE o == [order[r] EXCEPT !.row = x]
<1>1. o \in Order /\ o.row = x /\ o.kind = order[r].kind /\ o.place = order[r].place
      /\ o.group = order[r].group
  BY DEF InventoryRows, Order
<1>2. order' = [order EXCEPT ![r] = o]
  BY DEF OnRow, InventoryRows
<1> HIDE DEF o
<1> QED BY <1>1, <1>2 DEF InventoryRows

LEMMA InventoryTypes ==
  ASSUME Typing, InventoryRows, InventoryFacts, NEW r \in Request, Running(r), InventoryStep(r)
  PROVE  InventoryRows' /\ InventoryFacts'
<1> USE DEF Typing
<1>k. /\ task[r] \in Task /\ Placed(task[r]) /\ task[r].op \in InventoryOp
  BY Groups DEF Flow, Running
<1>b. r \notin Boot
  BY <1>k DEF Flow, Running, InventoryOp, BootOp
<1>m. Moves(r)
  BY InventoryMoves
<1>a. ASSUME NEW s, At(r, s)
      PROVE  InPlace(task[r].op, task[r].pc, s)
  BY <1>k, <1>a, AtPlace
<1>f. InventoryFactsOf(r)
  BY DEF InventoryFacts
<1>o. /\ order \in [Request -> Order] /\ order[r] \in Order /\ order[r].kind \in Kind
      /\ lists \in [List -> Inserter] /\ kept \in [Request -> Place \cup {None}]
      /\ grouped \subseteq {x \in Inserter : Has("device", x)} \X {g \in Inserter : Has("group", g)}
  BY DEF InventoryRows, Order
<1>r. r \in Inserter
  BY DEF Inserter
<1>p. ASSUME Proceed(r)
      PROVE  /\ task'[r].op = task[r].op
             /\ task'[r].pc = task[r].pc \/ task'[r].pc = task[r].pc + 1
             /\ task[r].pc < Len(Program[task[r].op]) => task'[r].status = "running"
             /\ ~(task[r].pc < Len(Program[task[r].op])) => task'[r].pc = task[r].pc
  BY <1>b, <1>p, Proceeds DEF Remembers
<1>x. ASSUME Fail(r)
      PROVE  /\ task'[r].op = task[r].op /\ task'[r].pc = task[r].pc
             /\ task'[r].status = "failed"
  BY <1>b, <1>x, Fails DEF Remembers
<1>s. ASSUME UNCHANGED <<rows, grouped, lists, order, wrote>>,
             \A q \in Request \ {r} : kept'[q] = kept[q], InventoryFactsOf(r)',
             kept' \in [Request -> Place \cup {None}]
      PROVE  InventoryRows' /\ InventoryFacts'
  BY <1>m, <1>o, <1>s, RowsAlone, InventoryFactsOn
<1>1. CASE PutDevice(r)
  <2> DEFINE p == order[r].place
             same == Like("device", order[r].place)
  <2>1. At(r, "putdevice") /\ Proceed(r) /\ UNCHANGED <<grouped, lists, kept>>
    BY <1>1 DEF PutDevice
  <2>2. task[r].op = "device" /\ p \in Place /\ order[r].kind = "device"
    BY <1>a, <1>f, <2>1 DEF InPlace, InventoryFactsOf
  <2>3. "device" \in Kind
    BY DEF Kind
  <2>4. PICK x \in (IF same = {} THEN {r} ELSE same) : OnRow(r, x) /\ Write(r, "device", x, p)
    BY <1>1 DEF PutDevice
  <2>5. x \in Inserter /\ ~Clash("device", x, p)
    BY <1>r, <2>2, <2>3 DEF Like, Clash, Unique, InventoryRows, OneEach
  <2>6. /\ order' \in [Request -> Order] /\ order'[r].row = x /\ order'[r].kind = order[r].kind
        /\ order'[r].place = p /\ \A q \in Request \ {r} : order'[q] = order[q]
    BY <2>4, <2>5, OnRowOrder
  <2> HIDE DEF p, same
  <2>7. InventoryRows'
    BY <2>1, <2>2, <2>3, <2>4, <2>5, <2>6, RowPut
  <2>8. InventoryFactsOf(r)'
    BY <1>p, <2>1, <2>2, <2>5, <2>6 DEF InventoryFactsOf
  <2> QED BY <1>m, <2>1, <2>6, <2>7, <2>8, InventoryFactsOn
<1>2. CASE PutFile(r)
  <2> DEFINE p == order[r].place
             same == Like("file", order[r].place)
  <2>1. At(r, "putfile") /\ Proceed(r) /\ UNCHANGED <<grouped, lists, kept>>
    BY <1>2 DEF PutFile
  <2>2. task[r].op = "upload" /\ p \in Place /\ order[r].kind = "file"
    BY <1>a, <1>f, <2>1 DEF InPlace, InventoryFactsOf
  <2>3. "file" \in Kind
    BY DEF Kind
  <2>4. PICK x \in Inserter :
          OnRow(r, x) /\ \/ x = r /\ same = {} /\ Write(r, "file", r, p)
                         \/ UNCHANGED <<rows, wrote>>
    BY <1>2, <1>r DEF PutFile, Like
  <2>5. /\ order' \in [Request -> Order] /\ order'[r].row = x /\ order'[r].kind = order[r].kind
        /\ order'[r].place = p /\ \A q \in Request \ {r} : order'[q] = order[q]
    BY <2>4, OnRowOrder
  <2>6. same = {} => ~Clash("file", r, p)
    BY DEF Clash
  <2> HIDE DEF p, same
  <2>7. ASSUME UNCHANGED <<rows, wrote>>
        PROVE  InventoryRows'
    BY <1>o, <2>1, <2>5, <2>7, RowsAlone
  <2>8. ASSUME same = {}, Write(r, "file", r, p)
        PROVE  InventoryRows'
    BY <1>r, <2>1, <2>2, <2>3, <2>5, <2>6, <2>8, RowPut
  <2>9. InventoryFactsOf(r)'
    BY <1>p, <2>1, <2>2, <2>5 DEF InventoryFactsOf
  <2> QED BY <1>m, <2>1, <2>4, <2>5, <2>7, <2>8, <2>9, InventoryFactsOn
<1>3. CASE InsertRow(r)
  <2> DEFINE p == order[r].place
             k == order[r].kind
  <2>1. At(r, "insertrow") /\ UNCHANGED <<grouped, lists, kept>> /\ OnRow(r, r)
    BY <1>3 DEF InsertRow
  <2>2. task[r].op \in {"group", "profile"} /\ p \in Place /\ k \in Kind
    BY <1>a, <1>f, <1>o, <2>1 DEF InPlace, InventoryFactsOf
  <2>3. \/ Fail(r) /\ UNCHANGED <<rows, wrote>>
        \/ ~Clash(k, r, p) /\ Write(r, k, r, p) /\ Proceed(r)
    BY <1>3 DEF InsertRow, Refused
  <2>4. /\ order' \in [Request -> Order] /\ order'[r].row = r /\ order'[r].place = p
        /\ \A q \in Request \ {r} : order'[q] = order[q]
    BY <1>r, <2>1, OnRowOrder
  <2> HIDE DEF p, k
  <2>5. CASE Fail(r) /\ UNCHANGED <<rows, wrote>>
    <3>1. InventoryRows'
      BY <1>o, <2>1, <2>4, <2>5, RowsAlone
    <3>2. InventoryFactsOf(r)'
      BY <1>x, <1>r, <2>2, <2>4, <2>5 DEF InventoryFactsOf
    <3> QED BY <1>m, <2>1, <2>4, <3>1, <3>2, InventoryFactsOn
  <2>6. CASE ~Clash(k, r, p) /\ Write(r, k, r, p) /\ Proceed(r)
    <3>1. InventoryRows'
      BY <1>r, <2>1, <2>2, <2>4, <2>6, RowPut
    <3>2. InventoryFactsOf(r)'
      BY <1>p, <1>r, <2>2, <2>4, <2>6 DEF InventoryFactsOf
    <3> QED BY <1>m, <2>1, <2>4, <3>1, <3>2, InventoryFactsOn
  <2> QED BY <2>3, <2>5, <2>6
<1>4. CASE ReadRow(r)
  <2> DEFINE k == order[r].kind
             x == order[r].row
  <2>1. /\ At(r, "readrow") /\ UNCHANGED <<rows, grouped, lists, order, wrote>>
        /\ kept' = [kept EXCEPT ![r] = rows[k][x]]
        /\ IF Has(k, x) THEN Proceed(r) ELSE Fail(r)
    BY <1>4 DEF ReadRow
  <2>2. \/ task[r].op \in {"edit", "remove"} /\ task[r].pc = 1
        \/ task[r].op = "enlist" /\ task[r].pc = 2
    <3>1. InPlace(task[r].op, task[r].pc, "readrow")
      BY <1>a, <2>1
    <3> QED BY <3>1 DEF InPlace
  <2>3. k \in Kind /\ x \in Inserter /\ rows[k][x] \in Place \cup {None}
    BY <1>f, <1>o, <2>2 DEF InventoryFactsOf, InventoryRows
  <2>4. kept' \in [Request -> Place \cup {None}] /\ kept'[r] = rows[k][x]
        /\ \A q \in Request \ {r} : kept'[q] = kept[q]
    BY <1>o, <2>1, <2>3
  <2>5. CASE Has(k, x) /\ Proceed(r)
    <3>1. kept'[r] \in Place
      BY <2>3, <2>4, <2>5 DEF Has
    <3> HIDE DEF k, x
    <3>2. InventoryFactsOf(r)'
      BY <1>f, <1>p, <2>1, <2>2, <2>5, <3>1 DEF InventoryFactsOf
    <3> QED BY <1>s, <2>1, <2>4, <3>2
  <2>6. CASE Fail(r)
    <3> HIDE DEF k, x
    <3>1. InventoryFactsOf(r)'
      BY <1>f, <1>x, <2>1, <2>2, <2>6 DEF InventoryFactsOf
    <3> QED BY <1>s, <2>1, <2>4, <3>1
  <2> QED BY <2>1, <2>5, <2>6
<1>5. CASE SaveRow(r)
  <2> DEFINE k == order[r].kind
             x == order[r].row
             p == IF order[r].place = None THEN kept[r] ELSE order[r].place
  <2>1. At(r, "saverow") /\ UNCHANGED <<grouped, lists, order, kept>>
    BY <1>5 DEF SaveRow
  <2>2. \/ task[r].op = "edit" /\ task[r].pc = 2
        \/ task[r].op = "enlist" /\ task[r].pc = 4
    <3>1. InPlace(task[r].op, task[r].pc, "saverow")
      BY <1>a, <2>1
    <3> QED BY <3>1 DEF InPlace
  <2>3. k \in Kind /\ x \in Inserter /\ p \in Place
    BY <1>f, <1>o, <2>2 DEF InventoryFactsOf, Order
  <2>4. \/ Fail(r) /\ UNCHANGED <<rows, wrote>>
        \/ ~Clash(k, x, p) /\ Write(r, k, x, p) /\ Proceed(r)
    BY <1>5 DEF SaveRow, Refused
  <2> HIDE DEF k, x, p
  <2>5. InventoryRows'
    <3>1. CASE UNCHANGED <<rows, wrote>>
      BY <1>o, <2>1, <3>1, RowsAlone
    <3>2. CASE ~Clash(k, x, p) /\ Write(r, k, x, p)
      BY <1>o, <2>1, <2>3, <3>2, RowPut
    <3> QED BY <2>4, <3>1, <3>2
  <2>6. task'[r].op = task[r].op /\ task'[r].pc = task[r].pc
    <3>1. Len(Program[task[r].op]) = task[r].pc
      <4>1. Len(Program["edit"]) = 2 /\ Len(Program["enlist"]) = 4
        BY Lengths
      <4> QED BY <2>2, <4>1, Zenon
    <3>2. ~(task[r].pc < Len(Program[task[r].op]))
      <4>1. PICK n \in 0..9 : n = task[r].pc /\ n = Len(Program[task[r].op])
        BY <1>k, <3>1 DEF Task
      <4> QED BY <4>1
    <3> QED BY <1>p, <1>x, <2>4, <3>2
  <2>7. InventoryFactsOf(r)'
    BY <1>f, <2>1, <2>2, <2>6 DEF InventoryFactsOf
  <2> QED BY <1>m, <2>1, <2>5, <2>7, InventoryFactsOn
<1>6. CASE DeleteRow(r)
  <2> DEFINE k == order[r].kind
             x == order[r].row
  <2>1. /\ At(r, "deleterow") /\ Proceed(r) /\ UNCHANGED <<lists, order, kept>>
        /\ grouped' = {dg \in grouped : ~(k = "device" /\ dg[1] = x)
                                     /\ ~(k = "group" /\ dg[2] = x)}
    BY <1>6 DEF DeleteRow
  <2>2. task[r].op = "remove"
    BY <1>a, <2>1 DEF InPlace
  <2>3. k \in Kind /\ x \in Inserter
    BY <1>f, <1>o, <2>2 DEF InventoryFactsOf
  <2>4. UNCHANGED <<rows, wrote>> \/ Write(r, k, x, None)
    BY <1>6 DEF DeleteRow
  <2> HIDE DEF k, x
  <2>5. ASSUME UNCHANGED <<rows, wrote>>
        PROVE  InventoryRows'
    <3>1. grouped' \subseteq grouped
      BY <2>1
    <3> QED BY <1>o, <2>1, <2>5, <3>1, RowsAlone
  <2>6. ASSUME Write(r, k, x, None)
        PROVE  InventoryRows'
    <3>1. /\ rows' \in [Kind -> [Inserter -> Place \cup {None}]]
          /\ wrote' \in [Kind -> [Inserter -> Inserter]]
          /\ rows'[k][x] = None
          /\ \A j \in Kind, y \in Inserter : j # k \/ y # x => rows'[j][y] = rows[j][y]
      BY <2>3, <2>6, RowWritten
    <3>2. OneEach'
      <4>1. ASSUME NEW j \in Kind, NEW p \in Place
            PROVE  Like(j, p)' \subseteq Like(j, p)
        BY <3>1, InventoryAssumption DEF Like
      <4> QED BY <4>1 DEF InventoryRows, OneEach, Unique
    <3>3. "device" \in Kind /\ "group" \in Kind
      BY DEF Kind
    <3>4. grouped' \subseteq {y \in Inserter : Has("device", y)}' \X
                             {g \in Inserter : Has("group", g)}'
      BY <1>o, <2>1, <3>1, <3>3 DEF Has
    <3> QED BY <1>o, <2>1, <3>1, <3>2, <3>4 DEF InventoryRows
  <2>7. InventoryFactsOf(r)'
    BY <1>f, <1>p, <2>1, <2>2 DEF InventoryFactsOf
  <2> QED BY <1>m, <2>1, <2>4, <2>5, <2>6, <2>7, InventoryFactsOn
<1>7. CASE ReadGroup(r)
  <2>1. At(r, "readgroup") /\ UNCHANGED inventoryVars /\ (Proceed(r) \/ Fail(r))
    BY <1>7 DEF ReadGroup
  <2>2. task[r].op = "enlist" /\ task[r].pc = 1
    BY <1>a, <2>1 DEF InPlace
  <2>3. InventoryFactsOf(r)'
    BY <1>f, <1>p, <1>x, <2>1, <2>2 DEF InventoryFactsOf, inventoryVars
  <2> QED BY <1>o, <1>s, <2>1, <2>3 DEF inventoryVars
<1>8. CASE AddPair(r)
  <2> DEFINE x == order[r].row
             g == order[r].group
  <2>1. /\ At(r, "addpair") /\ UNCHANGED <<rows, lists, order, kept, wrote>>
        /\ Proceed(r) \/ Fail(r)
        /\ grouped' = grouped \/ (/\ Has("device", x) /\ Has("group", g)
                                  /\ grouped' = grouped \cup {<<x, g>>})
    BY <1>8 DEF AddPair
  <2>2. task[r].op = "enlist" /\ task[r].pc = 3
    BY <1>a, <2>1 DEF InPlace
  <2>3. x \in Inserter /\ g \in Inserter
    BY <1>f, <2>2 DEF InventoryFactsOf
  <2> HIDE DEF x, g
  <2>4. InventoryRows'
    BY <1>o, <2>1, <2>3, RowsAlone
  <2>5. InventoryFactsOf(r)'
    BY <1>f, <1>p, <1>x, <2>1, <2>2 DEF InventoryFactsOf
  <2> QED BY <1>m, <2>1, <2>4, <2>5, InventoryFactsOn
<1>9. CASE SetList(r)
  <2>1. PICK l \in List :
          /\ At(r, l) /\ Proceed(r) /\ UNCHANGED <<rows, grouped, order, kept, wrote>>
          /\ lists' = lists \/ lists' = [lists EXCEPT ![l] = r]
    BY <1>9 DEF SetList
  <2>2. task[r].op = "permit"
    BY <1>a, <2>1 DEF InPlace, List, Lists
  <2>3. InventoryRows'
    BY <1>o, <1>r, <2>1, RowsAlone
  <2>4. InventoryFactsOf(r)'
    BY <1>p, <2>1, <2>2 DEF InventoryFactsOf
  <2> QED BY <1>m, <2>1, <2>3, <2>4, InventoryFactsOn
<1> QED
  BY <1>1, <1>2, <1>3, <1>4, <1>5, <1>6, <1>7, <1>8, <1>9 DEF InventoryStep

-----------------------------------------------------------------------------
(* The names of organizations, and slugs that were made up *)

LEMMA BirthsOn ==
  ASSUME Typing, Births, NEW r \in Request, Moves(r),
         \A o \in OrgId : orgs'[o] # None =>
           \/ orgs[o] # None /\ orgs'[o].slug = orgs[o].slug
           \/ /\ o \in Request => Born(o)'
              /\ \A q \in Request : orgs'[o].slug = q => Coined(q)',
         \A q \in Request :
           task[r].op = "update" /\ task[r].pc = 1 /\ task'[r].slug = q => Coined(q)'
  PROVE  Births'
<1>a. ASSUME NEW q \in Request
      PROVE  (Coined(q) => Coined(q)') /\ (Born(q) => Born(q)')
  BY MovesAge DEF Typing
<1>b. Request \subseteq OrgId
  BY DEF OrgId, Inserter
<1>u. ASSUME NEW q \in Request, task'[q].op = "update"
      PROVE  /\ task[q].op = "update" /\ task'[q].org = task[q].org
             /\ task'[q].slug = task[q].slug \/ (q = r /\ task[r].pc = 1)
  BY <1>u DEF Moves, BootOp
<1>1. \A q \in Request : orgs'[q] # None => Born(q)'
  BY <1>a, <1>b DEF Births
<1>2. \A q \in Request :
        \A p \in Request : task'[q].op = "update" /\ task'[q].org = p => Born(p)'
  BY <1>a, <1>u DEF Births
<1>3. \A q \in Request : \A o \in OrgId : orgs'[o] # None /\ orgs'[o].slug = q => Coined(q)'
  BY <1>a DEF Births
<1>4. \A q \in Request :
        \A p \in Request : task'[q].op = "update" /\ task'[q].slug = p => Coined(p)'
  BY <1>a, <1>u DEF Births
<1> HIDE DEF Births, Born, Coined
<1> QED BY <1>1, <1>2, <1>3, <1>4 DEF Births

LEMMA BirthsStay ==
  ASSUME Typing, Births, UNCHANGED orgs,
         \A q \in Request : (Coined(q) => Coined(q)') /\ (Born(q) => Born(q)'),
         \A q \in Request : task'[q].op = "update" =>
           \/ task[q].op = "update" /\ task'[q].org = task[q].org /\ task'[q].slug = task[q].slug
           \/ Live(task'[q].org) /\ task'[q].org \in OrgId /\ task'[q].slug \notin Request
  PROVE  Births'
<1>1. \A q \in Request : orgs'[q] # None => Born(q)'
  BY DEF Births
<1>2. \A q \in Request :
        \A p \in Request : task'[q].op = "update" /\ task'[q].org = p => Born(p)'
  BY DEF Births, Live
<1>3. \A q \in Request : \A o \in OrgId : orgs'[o] # None /\ orgs'[o].slug = q => Coined(q)'
  BY DEF Births
<1>4. \A q \in Request :
        \A p \in Request : task'[q].op = "update" /\ task'[q].slug = p => Coined(p)'
  BY DEF Births
<1> HIDE DEF Births, Born, Coined
<1> QED BY <1>1, <1>2, <1>3, <1>4 DEF Births

LEMMA BirthsMove ==
  ASSUME Typing, Births, NEW r \in Request, Running(r), OrganizationStep(r)
  PROVE  Births'
<1> USE DEF Typing
<1>m. Moves(r)
  BY OrganizationMoves
<1>k. task[r] \in Task /\ InMemory(task[r]) /\ Placed(task[r])
  BY DEF Flow, Running
<1>p. ASSUME NEW s, At(r, s)
      PROVE  InPlace(task[r].op, task[r].pc, s)
  BY <1>k, <1>p, AtPlace
<1>a. ASSUME NEW q \in Request
      PROVE  (Coined(q) => Coined(q)') /\ (Born(q) => Born(q)')
  BY <1>m, MovesAge
<1>o. orgs \in [OrgId -> Organization \cup {None}]
  BY DEF AccountTypeOK
<1>n. r \in OrgId /\ r \in Slug
  BY DEF OrgId, Inserter, Slug
<1>j. ASSUME UNCHANGED orgs, ~At(r, "read")
      PROVE  Births'
  <2>1. ~(task[r].op = "update" /\ task[r].pc = 1)
    BY <1>j DEF At, Program
  <2> QED BY <1>m, <1>j, <2>1, BirthsOn
<1>w. ASSUME NEW o \in OrgId, NEW row \in Organization, WriteOrg(o, row),
             o \in Request => Born(o)', \A q \in Request : row.slug = q => Coined(q)',
             ~At(r, "read")
      PROVE  Births'
  <2>1. ~(task[r].op = "update" /\ task[r].pc = 1)
    BY <1>w DEF At, Program
  <2>2. orgs' = [orgs EXCEPT ![o] = row]
    BY <1>w DEF WriteOrg
  <2>3. \A p \in OrgId : p # o => orgs'[p] = orgs[p]
    BY <1>o, <2>2
  <2>4. orgs'[o] = row
    BY <1>o, <2>2
  <2> QED BY <1>m, <1>w, <2>1, <2>3, <2>4, BirthsOn
<1>1. CASE SignalStep(r)
  BY <1>1, <1>j DEF SignalStep, EnsureRoles, EnsureOwner, UpsertMember, GiveAdmin, SaveMember,
                    CreateProfile, At
<1>2. CASE InsertOrg(r)
  <2> DEFINE row == [slug |-> r, owner |-> task[r].user]
  <2>1. At(r, "insert") /\ ~At(r, "read") /\ Running(r)
    BY <1>2 DEF InsertOrg, At
  <2>2. CASE UNCHANGED orgs
    BY <1>j, <2>1, <2>2
  <2>3. CASE /\ task[r].user \in users /\ WriteOrg(r, row)
             /\ Go(r, [task[r] EXCEPT !.org = r, !.fresh = TRUE])
    <3>1. task[r].op = "create" /\ task[r].pc = 1
      BY <1>p, <2>1 DEF InPlace
    <3> DEFINE t == [task[r] EXCEPT !.org = r, !.fresh = TRUE]
    <3>2. Keeps(t, task[r])
      BY <1>k, <1>n, <3>1 DEF Keeps, Task
    <3>3. t.op = "create" /\ t.pc = 1
      BY <1>k, <3>1 DEF Task
    <3>4. Go(r, t)
      BY <2>3
    <3>5. task'[r].pc = 2 /\ task'[r].op = "create"
      <4> HIDE DEF t
      <4>1. Len(Program[t.op]) = 9
        BY <3>3, Lengths, Zenon
      <4>2. t.pc < Len(Program[t.op])
        BY <3>3, <4>1
      <4> QED BY <2>1, <3>2, <3>3, <3>4, <4>2, Advance DEF Remembers
    <3>6. Coined(r)'
      BY <3>5 DEF Coined
    <3>7. Born(r)'
      BY <3>6 DEF Born
    <3>8. row \in Organization /\ row.slug = r
      BY <1>n, <2>3 DEF Organization, AccountTypeOK
    <3> QED BY <1>w, <1>n, <2>1, <2>3, <3>6, <3>7, <3>8
  <2> QED BY <1>2, <2>2, <2>3 DEF InsertOrg
<1>3. CASE ReadOrg(r)
  <2>1. At(r, "read") /\ UNCHANGED orgs
    BY <1>3 DEF ReadOrg, orgVars
  <2>2. ASSUME NEW q \in Request, task[r].op = "update", task[r].pc = 1, task'[r].slug = q
        PROVE  Coined(q)'
    <3>b. r \notin Boot
      BY <1>k, <2>2 DEF Flow, Running, BootOp
    <3>0. task[r].org \in OrgId
      BY <1>k, <2>2 DEF InMemory
    <3>1. CASE Fail(r)
      BY <1>a, <2>2, <3>b, <3>1, Fails DEF Remembers, Births
    <3>2. CASE Live(task[r].org) /\ ~Fail(r)
      <4> DEFINE s == IF task[r].slug = None THEN orgs[task[r].org].slug ELSE task[r].slug
                 t == [task[r] EXCEPT !.user = orgs[task[r].org].owner, !.slug = s]
      <4>0. orgs[task[r].org] \in Organization
        BY <1>o, <3>0, <3>2 DEF Live
      <4>1. s \in Slug /\ orgs[task[r].org].owner \in User
        BY <1>k, <4>0 DEF Organization, Task
      <4>2. Keeps(t, task[r]) /\ t.slug = s
        BY <1>k, <2>2, <4>1 DEF Keeps, Task
      <4>3. Go(r, t)
        BY <1>3, <3>2 DEF ReadOrg
      <4>4. task'[r].slug = s
        <5> HIDE DEF t, s
        <5>1. Remembers(task'[r], t)
          BY <3>b, <4>2, <4>3, Advance
        <5> QED BY <4>2, <5>1 DEF Remembers
      <4> QED BY <1>a, <2>2, <3>0, <3>2, <4>4 DEF Births, Live
    <3> QED BY <1>3, <3>1, <3>2 DEF ReadOrg
  <2> QED BY <1>m, <2>1, <2>2, BirthsOn
<1>4. CASE WriteBack(r)
  <2> DEFINE row == [slug |-> task[r].slug, owner |-> task[r].user]
  <2>1. At(r, "write") /\ ~At(r, "read")
    BY <1>4 DEF WriteBack, At
  <2>2. CASE UNCHANGED orgs
    BY <1>j, <2>1, <2>2
  <2>3. CASE task[r].user \in users /\ WriteOrg(task[r].org, row)
    <3>1. task[r].op = "update" /\ task[r].pc = 2
      BY <1>p, <2>1 DEF InPlace
    <3>2. task[r].org \in OrgId /\ row \in Organization /\ row.slug = task[r].slug
      BY <1>k, <2>3, <3>1 DEF Organization, AccountTypeOK, InMemory
    <3>3. PICK o \in OrgId : o = task[r].org
      BY <3>2
    <3>5. o \in Request => Born(o)'
      BY <1>a, <3>1, <3>3 DEF Births
    <3>4. \A q \in Request : row.slug = q => Coined(q)'
      BY <1>a, <3>1, <3>2 DEF Births
    <3> HIDE DEF row
    <3> QED BY <1>w, <2>1, <2>3, <3>2, <3>3, <3>4, <3>5
  <2> QED BY <1>4, <2>2, <2>3 DEF WriteBack
<1>5. CASE CheckOwner(r) \/ CollectRows(r) \/ InsertUser(r) \/ Join(r) \/ Leave(r) \/ ReadMember(r)
  BY <1>5, <1>j DEF CheckOwner, CollectRows, InsertUser, Join, Leave, ReadMember, At, orgVars
<1>6. CASE SetRoles(r) \/ ReadUser(r) \/ ChooseOrg(r) \/ SaveUser(r) \/ FindMember(r)
  BY <1>6, <1>j DEF SetRoles, ReadUser, ChooseOrg, SaveUser, FindMember, At, orgVars
<1>7. CASE EraseOrg(r)
  <2>1. At(r, "erase") /\ ~At(r, "read")
    BY <1>7 DEF EraseOrg, At
  <2>2. UNCHANGED orgs \/ orgs' = [o \in OrgId |-> IF o \in seen[r].orgs THEN None ELSE orgs[o]]
    BY <1>7 DEF EraseOrg
  <2>3. \A o \in OrgId : orgs'[o] # None => orgs[o] # None /\ orgs'[o] = orgs[o]
    BY <2>2
  <2>4. ~(task[r].op = "update" /\ task[r].pc = 1)
    BY <2>1 DEF At, Program
  <2> QED BY <1>m, <2>3, <2>4, BirthsOn
<1>8. CASE HomeOrganization(r)
  <2> DEFINE u == task[r].user
             row == [slug |-> u, owner |-> u]
  <2>1. At(r, "home") /\ ~At(r, "read")
    BY <1>8 DEF HomeOrganization, At
  <2>2. CASE UNCHANGED orgs
    BY <1>j, <2>1, <2>2
  <2>3. CASE u \in users /\ WriteOrg(r, row) /\ Go(r, [task[r] EXCEPT !.org = r])
    <3>1. \/ task[r].op \in {"signup", "ensureusers"} /\ task[r].pc = 2
          \/ task[r].op \in {"choose", "quit"} /\ task[r].pc = 4
      <4>1. InPlace(task[r].op, task[r].pc, "home")
        BY <1>p, <2>1
      <4> QED BY <4>1 DEF InPlace
    <3> DEFINE t == [task[r] EXCEPT !.org = r]
    <3>2. Keeps(t, task[r]) /\ t.op = task[r].op /\ t.pc = task[r].pc
      BY <1>k, <1>n, <3>1 DEF Keeps, Task
    <3>4. Go(r, t)
      BY <2>3
    <3>5. task'[r].pc = task[r].pc + 1 /\ task'[r].op = task[r].op
      <4> HIDE DEF t
      <4>1. \/ Len(Program[t.op]) = 5 /\ t.pc = 2
            \/ Len(Program[t.op]) = 7 /\ t.pc = 4
        BY <3>1, <3>2, Lengths, Zenon
      <4>2. t.pc < Len(Program[t.op])
        BY <4>1
      <4> QED BY <2>1, <3>2, <3>4, <4>2, Advance DEF Remembers
    <3>6. Born(r)'
      BY <3>1, <3>5 DEF Born
    <3>7. row \in Organization /\ row.slug = u /\ u \notin Request
      BY <2>3, AccountAssumption DEF Organization, AccountTypeOK, Slug, Inserter
    <3> QED BY <1>w, <1>n, <2>1, <2>3, <3>6, <3>7
  <2> QED BY <1>8, <2>2, <2>3 DEF HomeOrganization
<1>9. CASE EnsureOrg(r)
  <2>1. At(r, "organize") /\ ~At(r, "read")
    BY <1>9 DEF EnsureOrg, At
  <2>2. CASE UNCHANGED orgs
    BY <1>j, <2>1, <2>2
  <2>3. ASSUME NEW o \in (IF Named(ConfSlug) = {} THEN {Configured(r)} ELSE Named(ConfSlug)),
               NEW u \in User, WriteOrg(o, [slug |-> ConfSlug, owner |-> u])
        PROVE  Births'
    <3> DEFINE row == [slug |-> ConfSlug, owner |-> u]
    <3>1. row \in Organization /\ row.slug = ConfSlug /\ ConfSlug \notin Request
      BY AccountAssumption DEF Organization, Slug
    <3>2. r \in Boot
      BY <1>k, <1>p, <2>1 DEF InPlace, Flow, Running, BootOp
    <3>3. o \in OrgId /\ (o \in Request => orgs[o] # None)
      BY <2>3, <3>2, AccountAssumption DEF OrgId, Inserter, Named
    <3>4. o \in Request => Born(o)'
      BY <1>a, <3>3 DEF Births
    <3> HIDE DEF row
    <3> QED BY <1>w, <2>1, <2>3, <3>1, <3>3, <3>4 DEF row
  <2>4. ConfOwner \in User /\ users \subseteq User
    BY AccountAssumption DEF AccountTypeOK
  <2> QED BY <1>9, <2>2, <2>3, <2>4 DEF EnsureOrg
<1> QED
  BY <1>1, <1>2, <1>3, <1>4, <1>5, <1>6, <1>7, <1>8, <1>9 DEF OrganizationStep

-----------------------------------------------------------------------------
(* Types *)

\* What every step of the server keeps.
ServerInv ==
  /\ Typing /\ Births /\ TailnetTypeOK
  /\ SocialTypeOK /\ SocialFacts
  /\ InventoryRows /\ InventoryFacts

LEMMA ServerBegins ==
  ASSUME ServerInit
  PROVE  ServerInv
<1> USE DEF ServerInit
<1>n. None \notin Op /\ NoTask.op = None /\ NoTask.status = "new" /\ NoTask \in Task
  BY TopicAssumption DEF NoTask, Task, Status
<1>t. \A r \in Request : task[r] = NoTask
  BY DEF AccountInit
<1>o. \A r \in Request : task[r].op \notin Op
  BY <1>n, <1>t
<1>x. Old \in Inserter /\ Old \in OrgId /\ Old \in ClientId /\ ConfSlug \in Slug
      /\ Founder \in User \ {NewUser} /\ Member \in User \ {NewUser} /\ Founder # Member
      /\ OpenId \in ClientId /\ Old \notin Request /\ ConfSlug \notin Request
  BY AccountAssumption DEF Inserter, OrgId, ClientId, Slug
<1>1. Flow
  <2>1. task \in [Request -> Task] /\ past \in [Request -> SUBSET Request]
    BY <1>n DEF AccountInit
  <2> QED BY <1>n, <1>t, <2>1 DEF Flow, Running, AccountInit
<1>m. FoundingMember \in Membership /\ OtherMember \in Membership /\ FoundingMember # OtherMember
      /\ FoundingMember.org = Old /\ FoundingMember.user = Founder
      /\ OtherMember.org = Old /\ OtherMember.user = Member
  BY <1>x DEF FoundingMember, OtherMember, Membership
<1>2. AccountTypeOK
  <2>1. OrgTypes
    <3> DEFINE row == [slug |-> ConfSlug, owner |-> Founder]
    <3>1. row \in Organization /\ row.owner = Founder
      BY <1>x DEF Organization
    <3>2. orgs = [o \in OrgId |-> IF o = Old THEN row ELSE None]
      BY DEF AccountInit
    <3> HIDE DEF row
    <3> QED BY <1>x, <3>1, <3>2 DEF OrgTypes, AccountInit
  <2>2. RowTypes
    <3>1. members = {FoundingMember, OtherMember} /\ admins = {FoundingMember}
          /\ roled = {Old} /\ profiled = {Old} /\ users = User \ {NewUser}
      BY DEF AccountInit
    <3>2. orgs[Old] # None
      BY <1>x, NoRow DEF AccountInit, Organization
    <3> QED BY <1>x, <1>m, <3>1, <3>2 DEF RowTypes
  <2>3. LayerTypes
    <3> DEFINE layer == [org |-> Old, tailnet |-> ConfSlug]
    <3>1. layer \in Layer /\ layer.org = Old
      BY <1>x DEF Layer
    <3>2. layers = [l \in Inserter |-> IF l = Old THEN layer ELSE None]
          /\ authkeys = [k \in Inserter |-> None]
      BY DEF AccountInit
    <3>3. orgs[Old] # None
      BY <1>x, NoRow DEF AccountInit, Organization
    <3> HIDE DEF layer
    <3> QED BY <1>x, <3>1, <3>2, <3>3 DEF LayerTypes
  <2>4. ClientTypes
    <3> DEFINE code == [member |-> OtherMember, client |-> Old]
               token == [member |-> OtherMember, client |-> Old, revoked |-> FALSE, from |-> None]
    <3>1. code \in [member : members, client : ClientId] /\ OtherMember \in members
      BY <1>x DEF AccountInit
    <3>2. token \in Token /\ token.member = OtherMember
      BY <1>x, <1>m DEF Token
    <3>3. /\ oauth = {Old, OpenId}
          /\ fakts = [c \in ClientId |-> IF c = Old THEN OtherMember ELSE None]
          /\ codes = [k \in Inserter |-> IF k = Old THEN code ELSE None]
          /\ tokens = [k \in Inserter |-> IF k = Old THEN token ELSE None]
      BY DEF AccountInit
    <3> HIDE DEF code, token
    <3> QED BY <1>x, <3>1, <3>2, <3>3 DEF ClientTypes
  <2>5. SeenTypes
    BY DEF SeenTypes, AccountInit, Collected, Nothing
  <2> QED BY <1>1, <2>1, <2>2, <2>3, <2>4, <2>5, Parts DEF Flow
<1>3. Recorded
  <2> DEFINE code == [member |-> OtherMember, client |-> Old]
             claim == [user |-> Member, slug |-> ConfSlug, client |-> Old, org |-> Old]
  <2>1. code \in Code /\ claim \in Claims
    BY <1>x, <1>m DEF Code, Claims
  <2>2. grants = [k \in Inserter |-> IF k = Old THEN code ELSE None]
        /\ claims = [t \in Inserter |-> IF t = Old THEN claim ELSE None]
    BY DEF AccountInit
  <2> HIDE DEF code, claim
  <2> QED BY <1>o, <2>1, <2>2, Ops DEF Recorded
<1>4. \A r \in Request : InMemory(task[r])
  BY <1>o, Ops DEF InMemory
<1>5. Births
  <2>1. \A q \in Request : orgs[q] = None
    BY <1>x DEF AccountInit, OrgId, Inserter
  <2>2. \A o \in OrgId : orgs[o] # None => orgs[o].slug = ConfSlug
    BY DEF AccountInit
  <2> QED BY <1>x, <1>o, <2>1, <2>2, Ops DEF Births
<1>6. TailnetTypeOK
  BY <1>x DEF TailnetTypeOK, TailnetInit
<1>7. SocialTypeOK
  <2>1. OldToken \in PushToken /\ OldToken # None
    BY SocialAssumption
  <2> USE DEF SocialInit
  <2>2. channels \in [Channel -> PushToken \cup {None}]
        /\ last \in [Channel -> Request \cup {None}]
    BY <2>1
  <2>3. \A c \in Channel : channels[c] # None => c = MembersChannel
    BY <2>1
  <2>4. comments \in [Request -> Comment \cup {None}] /\ \A r \in Request : comments[r] = None
    OBVIOUS
  <2>5. stashes \in SUBSET Inserter /\ items = {}
    BY <1>x
  <2>6. todo \in [Request -> SUBSET Listed] /\ notified \in [Request -> SUBSET User]
    <3>1. {} \in SUBSET Listed /\ {} \in SUBSET User
      OBVIOUS
    <3>2. todo = [r \in Request |-> {}] /\ notified = [r \in Request |-> {}]
      OBVIOUS
    <3> HIDE DEF SocialInit
    <3> QED BY <3>1, <3>2
  <2>7. found \in [Request -> Channel \cup Item \cup {None}]
        /\ asked \in [Request -> PushToken \cup (SUBSET Listed) \cup {None}]
    <3>1. /\ found = [r \in Request |-> None] /\ asked = [r \in Request |-> None]
          /\ None \in Channel \cup Item \cup {None}
          /\ None \in PushToken \cup (SUBSET Listed) \cup {None}
      OBVIOUS
    <3> HIDE DEF SocialInit
    <3> QED BY <3>1
  <2> QED BY <2>2, <2>3, <2>4, <2>5, <2>6, <2>7 DEF SocialTypeOK
<1>8. SocialFacts
  BY <1>o, Ops DEF SocialFacts
<1>9. InventoryRows
  <2>1. NoOrder \in Order
    BY DEF NoOrder, Order, Kind
  <2>2. rows = [k \in Kind |-> [x \in Inserter |-> IF x = Old /\ k # "file" THEN Known ELSE None]]
    BY DEF InventoryInit
  <2>3. Known \in Place /\ None \notin Place
    BY InventoryAssumption
  <2>4. OneEach
    BY <2>2, <2>3 DEF OneEach, Like
  <2>5. "device" \in Kind /\ "group" \in Kind
    BY DEF Kind
  <2>6. Has("device", Old) /\ Has("group", Old)
    BY <1>x, <2>2, <2>3, <2>5 DEF Has
  <2>7. rows \in [Kind -> [Inserter -> Place \cup {None}]]
    BY <2>2, <2>3
  <2> QED BY <1>x, <2>1, <2>4, <2>6, <2>7 DEF InventoryRows, InventoryInit
<1>10. InventoryFacts
  BY <1>o, Ops DEF InventoryFacts, InventoryFactsOf
<1> QED BY <1>1, <1>2, <1>3, <1>4, <1>5, <1>6, <1>7, <1>8, <1>9, <1>10 DEF ServerInv, Typing

\* An arrival changes nothing but the tasks and what it asks.
LEMMA Arriving ==
  ASSUME ServerInv, NEW r \in Request, Begins(r), InMemory(task'[r]), seen' = seen,
         UNCHANGED <<orgVars, oauthVars>>,
         task'[r].op \in {"refresh", "api", "info"} => claims[task'[r].cred] # None,
         task'[r].op = "update" => Live(task'[r].org) /\ task'[r].slug \notin Request
  PROVE  Typing' /\ Births'
<1> USE DEF ServerInv, Typing
<1>1. Flow'
  BY FlowBegins
<1>t. OrgTypes /\ RowTypes /\ LayerTypes /\ ClientTypes /\ SeenTypes
  BY Parts
<1>2. AccountTypeOK'
  <2>1. UNCHANGED <<users, active, orgs, roled, profiled, members, admins, layers, authkeys>>
        /\ UNCHANGED <<oauth, fakts, codes, tokens>>
    BY DEF orgVars, baseVars, oauthVars
  <2>2. OrgTypes' /\ RowTypes' /\ LayerTypes' /\ ClientTypes'
    BY <1>t, <2>1 DEF OrgTypes, RowTypes, LayerTypes, ClientTypes
  <2>3. SeenTypes'
    BY <1>t DEF SeenTypes, Begins
  <2> QED BY <1>1, <2>2, <2>3, PartsNext
<1>o. \A q \in Request : task'[q] = task[q] \/ q = r
  BY DEF Begins
<1>3. Recorded'
  <2>1. UNCHANGED <<grants, claims>>
    BY DEF oauthVars
  <2> QED BY <1>o, <2>1 DEF Recorded
<1>4. \A q \in Request : InMemory(task'[q])
  BY <1>o
<1>5. Births'
  <2>1. UNCHANGED orgs
    BY DEF orgVars
  <2>2. \A q \in Request : (Coined(q) => Coined(q)') /\ (Born(q) => Born(q)')
    BY BeginsAge
  <2>3. task'[r].op = "update" => task'[r].org \in OrgId
    BY DEF InMemory
  <2> QED BY <1>o, <2>1, <2>2, <2>3, BirthsStay
<1> QED BY <1>1, <1>2, <1>3, <1>4, <1>5

LEMMA Arrived ==
  ASSUME ServerInv, NEW r \in Request, Arrive(r)
  PROVE  ServerInv'
<1>1. CASE /\ OrganizationArrive(r) \/ OAuthArrive(r)
           /\ UNCHANGED <<tailnetVars, socialVars, inventoryVars>>
  <2>1. /\ Begins(r) /\ InMemory(task'[r]) /\ seen' = seen /\ UNCHANGED <<orgVars, oauthVars>>
        /\ task'[r].op \in {"refresh", "api", "info"} => claims[task'[r].cred] # None
        /\ task'[r].op = "update" => Live(task'[r].org) /\ task'[r].slug \notin Request
        /\ task'[r].op \notin SocialOp \cup InventoryOp
    <3>1. CASE OrganizationArrive(r)
      BY <3>1, OrganizationArrives DEF ServerInv, SocialOp, InventoryOp
    <3>2. CASE OAuthArrive(r)
      BY <3>2, OAuthArrives DEF ServerInv, Refreshable, Received, SocialOp, InventoryOp
    <3> QED BY <1>1, <3>1, <3>2
  <2>2. Typing' /\ Births'
    BY <2>1, Arriving
  <2>3. SocialFacts' /\ InventoryFacts'
    BY <1>1, <2>1 DEF ServerInv, SocialFacts, InventoryFacts, InventoryFactsOf, Begins, SocialOp,
                      InventoryOp, socialVars, inventoryVars
  <2> QED
    BY <1>1, <2>2, <2>3, SocialStays, InventoryStays DEF ServerInv, TailnetTypeOK, tailnetVars
<1>2. CASE TailnetArrive(r) /\ UNCHANGED <<socialVars, inventoryVars>>
  <2>1. /\ Begins(r) /\ InMemory(task'[r]) /\ seen' = seen
        /\ task'[r].op \in {"tailnet", "authkey"}
        /\ UNCHANGED <<orgVars, oauthVars, tailnetVars>>
    BY <1>2, TailnetArrives DEF ServerInv
  <2>2. Typing' /\ Births'
    BY <2>1, Arriving
  <2>3. SocialFacts' /\ InventoryFacts'
    BY <1>2, <2>1 DEF ServerInv, SocialFacts, InventoryFacts, InventoryFactsOf, Begins, socialVars,
                      inventoryVars
  <2> QED
    BY <1>2, <2>1, <2>2, <2>3, SocialStays, InventoryStays
    DEF ServerInv, TailnetTypeOK, tailnetVars
<1>3. CASE SocialArrive(r) /\ UNCHANGED <<orgVars, oauthVars, tailnetVars, inventoryVars>>
  <2>1. BeginsSocial(r)
    BY <1>3, SocialArrives DEF ServerInv
  <2>2. /\ Begins(r) /\ InMemory(task'[r]) /\ seen' = seen /\ task'[r].op \in SocialOp
        /\ UNCHANGED <<channels, comments, stashes, items, found, last, notified>>
    BY <2>1 DEF BeginsSocial
  <2>3. PICK what, left :
          /\ Brings(task'[r], what, left)
          /\ asked' = [asked EXCEPT ![r] = what] /\ todo' = [todo EXCEPT ![r] = left]
    BY <2>1 DEF BeginsSocial
  <2>4. Typing' /\ Births'
    BY <1>3, <2>2, Arriving DEF SocialOp
  <2>5. /\ what \in PushToken \cup (SUBSET Listed) \cup {None} /\ left \in SUBSET Listed
        /\ task'[r].op = "comment" => what \in SUBSET (User \cup {Unknown})
    <3>1. users \subseteq User /\ items \subseteq Item
      BY DEF ServerInv, Typing, AccountTypeOK, SocialTypeOK
    <3>2. task'[r].op \in {"channel", "message", "comment", "stash", "restash", "unstash",
                           "additems", "removeitems"}
      BY <2>2 DEF SocialOp
    <3>3. left \in SUBSET Listed
      <4>1. CASE task'[r].op \in {"channel", "stash", "restash", "unstash"}
        BY <2>3, <4>1 DEF Brings
      <4>2. CASE task'[r].op \in {"comment", "message"}
        BY <2>3, <3>1, <4>2, SocialAssumption DEF Brings, Listed
      <4>3. CASE task'[r].op \in {"additems", "removeitems"}
        BY <2>3, <3>1, <4>3 DEF Brings, Listed
      <4> QED BY <3>2, <4>1, <4>2, <4>3
    <3>4. what \in PushToken \cup (SUBSET Listed) \cup {None}
      <4>1. CASE task'[r].op = "channel"
        BY <2>3, <4>1 DEF Brings
      <4>2. CASE task'[r].op \in {"comment", "message"}
        <5>1. what = left
          BY <2>3, <4>2 DEF Brings
        <5> QED BY <3>3, <5>1
      <4>3. CASE task'[r].op \in {"stash", "restash", "unstash", "additems", "removeitems"}
        <5>1. what = None
          BY <2>3, <4>3 DEF Brings
        <5> QED BY <5>1
      <4> QED BY <3>2, <4>1, <4>2, <4>3
    <3>5. task'[r].op = "comment" => what \in SUBSET (User \cup {Unknown})
      BY <2>3, SocialAssumption DEF Brings
    <3> QED BY <3>3, <3>4, <3>5
  <2>6. SocialTypeOK'
    BY <2>2, <2>3, <2>5 DEF SocialTypeOK, ServerInv
  <2>7. SocialFacts'
    <3>1. SocialFactsOf(r)'
      BY <2>2, <2>3, <2>5 DEF SocialFactsOf, Begins, Brings, ServerInv, SocialTypeOK
    <3>2. \A q \in Request \ {r} : /\ asked'[q] = asked[q] /\ todo'[q] = todo[q]
                                   /\ task'[q] = task[q]
      BY <2>2, <2>3 DEF ServerInv, SocialTypeOK, Begins
    <3> QED BY <2>2, <3>1, <3>2 DEF SocialFacts, SocialFactsOf, ServerInv
  <2>8. InventoryFacts'
    BY <1>3, <2>2 DEF ServerInv, InventoryFacts, InventoryFactsOf, Begins, SocialOp, inventoryVars
  <2> QED
    BY <1>3, <2>4, <2>6, <2>7, <2>8, InventoryStays DEF ServerInv, TailnetTypeOK, tailnetVars
<1>4. CASE InventoryArrive(r) /\ UNCHANGED <<orgVars, oauthVars, tailnetVars, socialVars>>
  <2>1. BeginsInventory(r)
    BY <1>4, InventoryArrives DEF ServerInv
  <2>2. /\ Begins(r) /\ InMemory(task'[r]) /\ seen' = seen /\ task'[r].op \in InventoryOp
        /\ UNCHANGED <<rows, grouped, lists, kept, wrote>>
    BY <2>1 DEF BeginsInventory
  <2>3. PICK o : Orders(task'[r].op, o) /\ order' = [order EXCEPT ![r] = o]
    BY <2>1 DEF BeginsInventory
  <2>4. Typing' /\ Births'
    BY <1>4, <2>2, Arriving DEF InventoryOp
  <2>5. order' \in [Request -> Order] /\ order'[r] = o
        /\ \A q \in Request \ {r} : order'[q] = order[q]
    BY <2>3 DEF ServerInv, InventoryRows, Orders
  <2>6. InventoryRows'
    BY <2>2, <2>5, RowsAlone DEF ServerInv, InventoryRows
  <2>7. InventoryFacts'
    <3>1. InventoryFactsOf(r)'
      BY <2>2, <2>3, <2>5 DEF InventoryFactsOf, Begins, Orders, InventoryOp
    <3>2. \A q \in Request \ {r} : task'[q] = task[q]
      BY <2>2 DEF Begins
    <3> QED BY <2>2, <2>5, <3>1, <3>2 DEF InventoryFacts, InventoryFactsOf, ServerInv
  <2>8. SocialFacts'
    BY <1>4, <2>2 DEF ServerInv, SocialFacts, Begins, InventoryOp, socialVars
  <2> QED
    BY <1>4, <2>4, <2>6, <2>7, <2>8, SocialStays DEF ServerInv, TailnetTypeOK, tailnetVars
<1> QED BY <1>1, <1>2, <1>3, <1>4 DEF Arrive

LEMMA InMemoryOn ==
  ASSUME Typing, NEW r \in Request, Moves(r), InMemory(task'[r])
  PROVE  \A q \in Request : InMemory(task'[q])
BY DEF Typing, Moves

\* Steps of the other groups leave organizations and what they are named by.
LEMMA BirthsAside ==
  ASSUME Typing, Births, NEW r \in Request, Moves(r), UNCHANGED orgs, task[r].op # "update"
  PROVE  Births'
BY BirthsOn

\* Steps that change no organization, client, code or token keep their types.
LEMMA OthersMove ==
  ASSUME Typing, NEW r \in Request, Moves(r), InMemory(task'[r]), seen' = seen,
         UNCHANGED <<orgVars, oauthVars>>
  PROVE  Typing'
<1> USE DEF Typing
<1>1. Flow'
  BY FlowMoves
<1>t. OrgTypes /\ RowTypes /\ LayerTypes /\ ClientTypes /\ SeenTypes
  BY Parts
<1>2. AccountTypeOK'
  <2>1. UNCHANGED <<users, active, orgs, roled, profiled, members, admins, layers, authkeys>>
        /\ UNCHANGED <<oauth, fakts, codes, tokens>>
    BY DEF orgVars, baseVars, oauthVars
  <2>2. OrgTypes' /\ RowTypes' /\ LayerTypes' /\ ClientTypes'
    BY <1>t, <2>1 DEF OrgTypes, RowTypes, LayerTypes, ClientTypes
  <2>3. SeenTypes'
    BY <1>t DEF SeenTypes, Moves
  <2> QED BY <1>1, <2>2, <2>3, PartsNext
<1>3. Recorded'
  BY RecordedOn DEF oauthVars, Recorded
<1> QED BY <1>1, <1>2, <1>3, InMemoryOn

LEMMA StepsOver ==
  ASSUME ServerInv, NEW r \in Request, Step(r)
  PROVE  ServerInv' /\ Moves(r)
<1> USE DEF ServerInv
<1>0. Running(r) /\ Flow
  BY DEF Step, Typing
<1>s. ASSUME Typing', Births', TailnetTypeOK', Moves(r), UNCHANGED <<socialVars, inventoryVars>>,
             task[r].op \notin SocialOp \cup InventoryOp
      PROVE  ServerInv' /\ Moves(r)
  BY <1>0, <1>s, SocialStays, SocialFactsStay, InventoryStays, InventoryFactsStay
<1>1. CASE OrganizationStep(r) /\ UNCHANGED <<tailnetVars, socialVars, inventoryVars>>
  <2>1. Moves(r) /\ InMemory(task'[r])
    BY <1>0, <1>1, OrganizationMoves
  <2>2. OrgTypes' /\ RowTypes' /\ LayerTypes' /\ ClientTypes' /\ SeenTypes'
    BY <1>0, <1>1, OrganizationTypes
  <2>3. Flow'
    BY <1>0, <2>1, FlowMoves
  <2>4. AccountTypeOK'
    BY <2>2, <2>3, PartsNext
  <2>5. UNCHANGED <<grants, claims>>
    BY <1>1 DEF OrganizationStep, SignalStep, EnsureRoles, EnsureOwner, UpsertMember, GiveAdmin,
       SaveMember, CreateProfile, InsertOrg, ReadOrg, WriteBack, CheckOwner, CollectRows, EraseOrg,
       InsertUser, HomeOrganization, Join, Leave, ReadMember, SetRoles, ReadUser, ChooseOrg,
       SaveUser, EnsureOrg, FindMember, oauthVars
  <2>6. Recorded'
    BY <1>0, <2>1, <2>5, RecordedOn DEF Typing, Recorded
  <2>7. Typing'
    BY <2>1, <2>3, <2>4, <2>6, InMemoryOn DEF Typing
  <2>8. Births'
    BY <1>0, <1>1, BirthsMove
  <2>9. task[r].op \notin SocialOp \cup InventoryOp
    BY <1>0, <1>1, Groups DEF OrganizationOp, BootOp, SocialOp, InventoryOp
  <2> QED BY <1>s, <1>1, <2>1, <2>7, <2>8, <2>9 DEF TailnetTypeOK, tailnetVars
<1>2. CASE OAuthStep(r) /\ UNCHANGED <<tailnetVars, socialVars, inventoryVars>>
  <2>1. Moves(r) /\ InMemory(task'[r])
    BY <1>0, <1>2, OAuthMoves
  <2>2. OrgTypes' /\ RowTypes' /\ LayerTypes' /\ ClientTypes' /\ SeenTypes' /\ Recorded'
        /\ UNCHANGED orgs
    BY <1>0, <1>2, OAuthTypes DEF orgVars
  <2>3. Flow'
    BY <1>0, <2>1, FlowMoves
  <2>4. AccountTypeOK'
    BY <2>2, <2>3, PartsNext
  <2>7. Typing'
    BY <2>1, <2>2, <2>3, <2>4, InMemoryOn DEF Typing
  <2>9. task[r].op \notin SocialOp \cup InventoryOp /\ task[r].op # "update"
    BY <1>0, <1>2, Groups DEF OAuthOp, SocialOp, InventoryOp
  <2>8. Births'
    BY <2>1, <2>2, <2>9, BirthsAside
  <2> QED BY <1>s, <1>2, <2>1, <2>7, <2>8, <2>9 DEF TailnetTypeOK, tailnetVars
<1>3. CASE TailnetStep(r) /\ UNCHANGED <<socialVars, inventoryVars>>
  <2>1. Moves(r) /\ InMemory(task'[r])
    BY <1>0, <1>3, TailnetMoves
  <2>2. OrgTypes' /\ RowTypes' /\ LayerTypes' /\ ClientTypes' /\ SeenTypes' /\ Recorded'
        /\ TailnetTypeOK' /\ UNCHANGED orgs
    BY <1>0, <1>3, TailnetTypes
  <2>3. Flow'
    BY <1>0, <2>1, FlowMoves
  <2>4. AccountTypeOK'
    BY <2>2, <2>3, PartsNext
  <2>7. Typing'
    BY <2>1, <2>2, <2>3, <2>4, InMemoryOn DEF Typing
  <2>9. task[r].op \notin SocialOp \cup InventoryOp /\ task[r].op # "update"
    BY <1>0, <1>3, Groups DEF TailnetOp, SocialOp, InventoryOp
  <2>8. Births'
    BY <2>1, <2>2, <2>9, BirthsAside
  <2> QED BY <1>s, <1>3, <2>1, <2>2, <2>7, <2>8, <2>9
<1>4. CASE SocialStep(r) /\ UNCHANGED <<orgVars, oauthVars, tailnetVars, inventoryVars>>
  <2>0. seen' = seen
    BY <1>4 DEF SocialStep, LookForChannel, PutChannel, PutToken, CannotPut, InsertComment,
       LookUpMentions, NotifyMention, AttachMentions, ResolveTarget, CreateStash, ReadStash,
       SaveStash, DeleteStash, FindItem, PutItem, RemoveItem, Proceed, Fail, taskVars
  <2>1. Moves(r) /\ InMemory(task'[r]) /\ seen' = seen
    BY <1>0, <1>4, <2>0, SocialMoves
  <2>2. Typing'
    BY <1>4, <2>1, OthersMove
  <2>3. task[r].op \in SocialOp
    BY <1>0, <1>4, Groups
  <2>4. UNCHANGED orgs /\ task[r].op # "update" /\ task[r].op \notin InventoryOp
    BY <1>4, <2>3 DEF orgVars, SocialOp, InventoryOp
  <2>5. Births'
    BY <2>1, <2>4, BirthsAside
  <2>6. SocialTypeOK' /\ SocialFacts'
    BY <1>0, <1>4, SocialTypes
  <2>7. InventoryRows' /\ InventoryFacts'
    BY <1>0, <1>4, <2>1, <2>4, InventoryStays, InventoryFactsStay
  <2> QED BY <1>4, <2>1, <2>2, <2>5, <2>6, <2>7 DEF TailnetTypeOK, tailnetVars
<1>5. CASE InventoryStep(r) /\ UNCHANGED <<orgVars, oauthVars, tailnetVars, socialVars>>
  <2>0. seen' = seen
    BY <1>5 DEF InventoryStep, PutDevice, PutFile, InsertRow, Refused, ReadRow, SaveRow, DeleteRow,
       ReadGroup, AddPair, SetList, Proceed, Fail
  <2>1. Moves(r) /\ InMemory(task'[r]) /\ seen' = seen
    BY <1>0, <1>5, <2>0, InventoryMoves
  <2>2. Typing'
    BY <1>5, <2>1, OthersMove
  <2>3. task[r].op \in InventoryOp
    BY <1>0, <1>5, Groups
  <2>4. UNCHANGED orgs /\ task[r].op # "update" /\ task[r].op \notin SocialOp
    BY <1>5, <2>3 DEF orgVars, SocialOp, InventoryOp
  <2>5. Births'
    BY <2>1, <2>4, BirthsAside
  <2>6. InventoryRows' /\ InventoryFacts'
    BY <1>0, <1>5, InventoryTypes
  <2>7. SocialTypeOK' /\ SocialFacts'
    BY <1>0, <1>5, <2>1, <2>4, SocialStays, SocialFactsStay
  <2> QED BY <1>5, <2>1, <2>2, <2>5, <2>6, <2>7 DEF TailnetTypeOK, tailnetVars
<1> QED BY <1>1, <1>2, <1>3, <1>4, <1>5 DEF Step

LEMMA Restarted ==
  ASSUME ServerInv, NEW b \in Boot, Restart(b),
         UNCHANGED <<tailnetVars, socialVars, inventoryVars>>
  PROVE  ServerInv'
<1> USE DEF ServerInv, Typing
<1>b. b \in Request
  BY AccountAssumption
<1>c. /\ task' \in [Request -> Task] /\ task'[b] = Asked("ensureusers")
      /\ \A q \in Request \ {b} :
           IF Running(q)
             THEN /\ Remembers(task'[q], task[q]) /\ task'[q].pc = task[q].pc
                  /\ task'[q].status = "cut"
             ELSE task'[q] = task[q]
      /\ topic' = topic /\ seen' = seen /\ task[b].status = "new"
  BY Cuts
<1>a. /\ Asked("ensureusers").op = "ensureusers" /\ Asked("ensureusers").pc = 1
      /\ Asked("ensureusers").status = "running"
  BY Beginning, Ops
<1>o. ASSUME NEW q \in Request, q # b
      PROVE  /\ Remembers(task'[q], task[q]) /\ task'[q].pc = task[q].pc
             /\ task'[q].status \in {task[q].status, "cut"}
  BY <1>c, <1>o DEF Remembers
<1>u. UNCHANGED <<users, active, orgs, roled, profiled, members, admins, layers, authkeys>>
      /\ UNCHANGED <<oauth, fakts, codes, tokens, grants, claims>>
  BY DEF Restart, baseVars, oauthVars
<1>1. Flow'
  BY FlowCuts
<1>2. AccountTypeOK'
  <2>1. OrgTypes /\ RowTypes /\ LayerTypes /\ ClientTypes /\ SeenTypes
    BY Parts
  <2>2. OrgTypes' /\ RowTypes' /\ LayerTypes' /\ ClientTypes'
    BY <1>u, <2>1 DEF OrgTypes, RowTypes, LayerTypes, ClientTypes
  <2>3. SeenTypes'
    BY <1>c, <2>1 DEF SeenTypes
  <2> QED BY <1>1, <2>2, <2>3, PartsNext
<1>3. Recorded'
  BY <1>a, <1>b, <1>c, <1>o, <1>u DEF Recorded, Remembers
<1>4. \A q \in Request : InMemory(task'[q])
  <2>1. InMemory(task'[b])
    BY <1>c, FreshMemory DEF BootOp
  <2> QED BY <1>o, <2>1, SameMemory
<1>5. Births'
  <2>1. \A q \in Request : (Coined(q) => Coined(q)') /\ (Born(q) => Born(q)')
    BY CutsAge
  <2> QED BY <1>a, <1>b, <1>c, <1>o, <1>u, <2>1, BirthsStay DEF Remembers
<1>6. SocialFacts'
  BY <1>a, <1>b, <1>c, <1>o DEF SocialFacts, Remembers, socialVars
<1>7. InventoryFacts'
  BY <1>a, <1>b, <1>c, <1>o DEF InventoryFacts, InventoryFactsOf, Remembers, inventoryVars
<1> QED
  BY <1>1, <1>2, <1>3, <1>4, <1>5, <1>6, <1>7, SocialStays, InventoryStays
  DEF TailnetTypeOK, tailnetVars

LEMMA ServerGoesOn ==
  ASSUME ServerInv, [ServerNext]_serverVars
  PROVE  ServerInv'
<1>1. CASE UNCHANGED serverVars
  BY <1>1 DEF serverVars, accountVars, orgVars, baseVars, oauthVars, taskVars, tailnetVars,
       socialVars, inventoryVars, ServerInv, Typing, Flow, Running, Ended, AccountTypeOK, Recorded,
       Births, Born, Coined, TailnetTypeOK, SocialTypeOK, SocialFacts, InventoryRows, OneEach, Like,
       Has, InventoryFacts, InventoryFactsOf
<1> QED BY <1>1, Arrived, StepsOver, Restarted DEF ServerNext

LEMMA ServerHolds == ServerSpec => []ServerInv
<1>1. ServerInit => ServerInv
  BY ServerBegins
<1>2. ServerInv /\ [ServerNext]_serverVars => ServerInv'
  BY ServerGoesOn
<1> QED BY <1>1, <1>2, PTL DEF ServerSpec

\* However requests, commands of the boot and deletions come between each
\* other's statements, the rows keep their foreign keys and unique constraints:
\* no organization, membership, layer, token or item refers to a row that is
\* gone, and no two organizations share a slug.
THEOREM ServerTyped == ServerSpec => []ServerTypeOK
<1>1. ServerInv => ServerTypeOK
  BY RowsTyped DEF ServerInv, Typing, ServerTypeOK
<1> QED BY <1>1, ServerHolds, PTL

=============================================================================
