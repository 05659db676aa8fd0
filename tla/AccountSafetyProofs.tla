--------------------------- MODULE AccountSafetyProofs ---------------------------
(***************************************************************************)
(* What the account side of the server keeps however its requests come     *)
(* between each other's statements: proofs of the properties of            *)
(* AccountServer, on the types of its rows (AccountProofs).                *)
(***************************************************************************)
EXTENDS AccountProofs

-----------------------------------------------------------------------------
(* The steps of the server *)

LEMMA GoesTo ==
  ASSUME Flow, NEW r \in Request \ Boot, Running(r), NEW t, Keeps(t, task[r]), Go(r, t)
  PROVE  /\ Moves(r) /\ Remembers(task'[r], t)
         /\ IF task[r].pc < Len(Program[task[r].op])
              THEN task'[r].pc = task[r].pc + 1 /\ task'[r].status = "running"
              ELSE task'[r].pc = task[r].pc /\ task'[r].status = "done"
BY Advance DEF Keeps

\* The same for programs of n steps.
LEMMA ProceedsOf ==
  ASSUME Flow, NEW r \in Request \ Boot, Running(r), Proceed(r),
         NEW n \in 1..9, Len(Program[task[r].op]) = n
  PROVE  /\ Moves(r) /\ Remembers(task'[r], task[r])
         /\ IF task[r].pc < n THEN task'[r].pc = task[r].pc + 1 /\ task'[r].status = "running"
                              ELSE task'[r].pc = task[r].pc /\ task'[r].status = "done"
BY Proceeds

LEMMA GoesToOf ==
  ASSUME Flow, NEW r \in Request \ Boot, Running(r), NEW t, Keeps(t, task[r]), Go(r, t),
         NEW n \in 1..9, Len(Program[task[r].op]) = n
  PROVE  /\ Moves(r) /\ Remembers(task'[r], t)
         /\ IF task[r].pc < n THEN task'[r].pc = task[r].pc + 1 /\ task'[r].status = "running"
                              ELSE task'[r].pc = task[r].pc /\ task'[r].status = "done"
BY GoesTo

\* An arrival writes no row.
LEMMA Arrivals ==
  ASSUME ServerInv, NEW r \in Request, Arrive(r)
  PROVE  /\ Begins(r) /\ InMemory(task'[r])
         /\ UNCHANGED <<orgVars, oauthVars, tailnetVars>>
         /\ UNCHANGED <<channels, comments, stashes, items, found, last, notified>>
         /\ UNCHANGED <<rows, grouped, lists, kept, wrote>>
         /\ \A q \in Request \ {r} : /\ todo'[q] = todo[q] /\ asked'[q] = asked[q]
                                     /\ order'[q] = order[q]
         /\ \/ OrganizationArrive(r) \/ OAuthArrive(r) \/ TailnetArrive(r)
            \/ BeginsSocial(r) \/ BeginsInventory(r)
<1> USE DEF ServerInv
<1>1. CASE /\ OrganizationArrive(r) \/ OAuthArrive(r)
           /\ UNCHANGED <<tailnetVars, socialVars, inventoryVars>>
  <2>1. Begins(r) /\ InMemory(task'[r]) /\ UNCHANGED <<orgVars, oauthVars>>
    <3>1. CASE OrganizationArrive(r)
      BY <3>1, OrganizationArrives
    <3>2. CASE OAuthArrive(r)
      BY <3>2, OAuthArrives DEF Refreshable, Received
    <3> QED BY <1>1, <3>1, <3>2
  <2> QED BY <1>1, <2>1 DEF socialVars, inventoryVars
<1>2. CASE TailnetArrive(r) /\ UNCHANGED <<socialVars, inventoryVars>>
  <2>1. Begins(r) /\ InMemory(task'[r]) /\ UNCHANGED <<orgVars, oauthVars, tailnetVars>>
    BY <1>2, TailnetArrives
  <2> QED BY <1>2, <2>1 DEF socialVars, inventoryVars
<1>3. CASE SocialArrive(r) /\ UNCHANGED <<orgVars, oauthVars, tailnetVars, inventoryVars>>
  <2>1. BeginsSocial(r)
    BY <1>3, SocialArrives
  <2>2. \A q \in Request \ {r} : todo'[q] = todo[q] /\ asked'[q] = asked[q]
    BY <2>1 DEF BeginsSocial, SocialTypeOK
  <2> QED BY <1>3, <2>1, <2>2 DEF BeginsSocial, inventoryVars
<1>4. CASE InventoryArrive(r) /\ UNCHANGED <<orgVars, oauthVars, tailnetVars, socialVars>>
  <2>1. BeginsInventory(r)
    BY <1>4, InventoryArrives
  <2>2. \A q \in Request \ {r} : order'[q] = order[q]
    BY <2>1 DEF BeginsInventory, InventoryRows
  <2> QED BY <1>4, <2>1, <2>2 DEF BeginsInventory, socialVars
<1> QED BY <1>1, <1>2, <1>3, <1>4 DEF Arrive

\* A task that is left as it is, or that fails or is cut.
Stands(q) ==
  \/ task'[q] = task[q]
  \/ /\ Running(q) /\ task'[q].status \in {"cut", "failed"}
     /\ Remembers(task'[q], task[q]) /\ task'[q].pc = task[q].pc

\* A task that is left as it is, or cut.
Kept(q) ==
  \/ task'[q] = task[q]
  \/ /\ Running(q) /\ task'[q].status = "cut"
     /\ Remembers(task'[q], task[q]) /\ task'[q].pc = task[q].pc

LEMMA OthersStand ==
  ASSUME NEW r \in Request, Moves(r) \/ Begins(r)
  PROVE  \A q \in Request \ {r} : Stands(q)
BY DEF Moves, Begins, Stands

\* What a boot does.
LEMMA Boots ==
  ASSUME Flow, NEW b \in Boot, Restart(b)
  PROVE  /\ b \in Request /\ task[b].status = "new" /\ task[b].op = None
         /\ task'[b].op = "ensureusers" /\ task'[b].status = "running" /\ task'[b].pc = 1
         /\ \A q \in Request \ {b} : Stands(q) /\ Kept(q) /\ ~Running(q)'
         /\ UNCHANGED <<baseVars, orgs, roled, profiled, members, admins, held, oauthVars>>
         /\ UNCHANGED <<topic, seen, troubled>>
<1>b. b \in Request
  BY AccountAssumption
<1>a. /\ Asked("ensureusers").op = "ensureusers" /\ Asked("ensureusers").pc = 1
      /\ Asked("ensureusers").status = "running"
  BY Beginning, Ops
<1>1. /\ task'[b] = Asked("ensureusers") /\ task[b].status = "new"
      /\ \A q \in Request \ {b} :
           IF Running(q)
             THEN /\ Remembers(task'[q], task[q]) /\ task'[q].pc = task[q].pc
                  /\ task'[q].status = "cut"
             ELSE task'[q] = task[q]
  BY Cuts
<1>2. task[b].op = None
  BY <1>b, <1>1 DEF Flow
<1>3. \A q \in Request \ {b} : Stands(q) /\ Kept(q) /\ ~Running(q)'
  BY <1>1 DEF Stands, Kept, Running
<1> QED BY <1>b, <1>a, <1>1, <1>2, <1>3 DEF Restart

\* The steps of each group leave the rows of the others.
LEMMA StepKinds ==
  ASSUME ServerInv, NEW r \in Request, Step(r)
  PROVE  /\ Running(r) /\ Moves(r) /\ Placed(task[r]) /\ task[r] \in Task
         /\ \A s : At(r, s) => InPlace(task[r].op, task[r].pc, s)
         /\ \/ OrganizationStep(r) /\ UNCHANGED <<tailnetVars, socialVars, inventoryVars>>
            \/ OAuthStep(r) /\ UNCHANGED <<tailnetVars, socialVars, inventoryVars>>
            \/ TailnetStep(r) /\ UNCHANGED <<socialVars, inventoryVars>>
            \/ SocialStep(r) /\ UNCHANGED <<orgVars, oauthVars, tailnetVars, inventoryVars>>
            \/ InventoryStep(r) /\ UNCHANGED <<orgVars, oauthVars, tailnetVars, socialVars>>
<1>1. Running(r) /\ Moves(r)
  BY StepsOver DEF Step
<1>2. Placed(task[r]) /\ task[r] \in Task
  BY <1>1 DEF ServerInv, Typing, Flow, Running
<1>3. \A s : At(r, s) => InPlace(task[r].op, task[r].pc, s)
  BY <1>2, AtPlace
<1> QED BY <1>1, <1>2, <1>3 DEF Step

-----------------------------------------------------------------------------
(* What booting takes, and the clients of organizations that go *)

BootTakesNothing ==
  (\E b \in Boot : Running(b)) =>
    /\ members \subseteq members' /\ admins \subseteq admins'
    /\ \A k \in Inserter : codes[k] = codes'[k] /\ tokens[k] = tokens'[k]

LEMMA BootSteps ==
  ASSUME ServerInv, NEW b \in Boot, Running(b), NEW r \in Request, Step(r)
  PROVE  BootTakesNothing
<1>1. r = b /\ task[r].op \in BootOp
  BY AccountAssumption, StepKinds DEF ServerInv, Typing, Flow, Running
<1>2. OrganizationStep(r) /\ task[r].op # "tailnet"
  BY <1>1, StepKinds, Groups
     DEF BootOp, OAuthOp, TailnetOp, SocialOp, InventoryOp, ServerInv, Typing
<1>3. ASSUME NEW s \in {"erase", "leave", "set"}
      PROVE  ~At(r, s)
  <2>1. At(r, s) => InPlace(task[r].op, task[r].pc, s)
    BY StepKinds
  <2> QED BY <1>1, <2>1 DEF InPlace, BootOp
<1>4. ~EraseOrg(r) /\ ~Leave(r) /\ ~SetRoles(r)
  BY <1>3 DEF EraseOrg, Leave, SetRoles
<1>5. UNCHANGED <<codes, tokens>>
  BY <1>2, <1>4 DEF OrganizationStep, SignalStep, EnsureRoles, EnsureOwner, UpsertMember, GiveAdmin,
     SaveMember, CreateProfile, InsertOrg, ReadOrg, WriteBack, CheckOwner, CollectRows,
     InsertUser, HomeOrganization, Join, ReadMember, ReadUser, ChooseOrg, SaveUser, EnsureOrg,
     FindMember, oauthVars
<1>6. admins \subseteq admins'
  BY <1>2, <1>4 DEF OrganizationStep, SignalStep, EnsureRoles, EnsureOwner, UpsertMember, GiveAdmin,
     SaveMember, CreateProfile, InsertOrg, ReadOrg, WriteBack, CheckOwner, CollectRows,
     InsertUser, HomeOrganization, Join, ReadMember, ReadUser, ChooseOrg, SaveUser, EnsureOrg,
     FindMember, orgVars
<1>7. members \subseteq members'
  BY <1>2, <1>4 DEF OrganizationStep, SignalStep, EnsureRoles, EnsureOwner, UpsertMember, GiveAdmin,
     SaveMember, CreateProfile, InsertOrg, ReadOrg, WriteBack, CheckOwner, CollectRows,
     InsertUser, HomeOrganization, Join, ReadMember, ReadUser, ChooseOrg, SaveUser, EnsureOrg,
     FindMember, orgVars, FoundRow, InsertMember, CannotInsert, Joined
<1> QED BY <1>5, <1>6, <1>7 DEF BootTakesNothing

\* While run.sh's commands run, alone, no membership, role, code or token goes.
THEOREM BootLeavesMembers == ServerSpec => BootKeepsMembers
<1>1. ServerInv /\ [ServerNext]_serverVars => [BootTakesNothing]_serverVars
  <2> SUFFICES ASSUME ServerInv, ServerNext
               PROVE  BootTakesNothing
    OBVIOUS
  <2>1. ASSUME NEW r \in Request, Arrive(r)
        PROVE  BootTakesNothing
    BY <2>1, Arrivals DEF BootTakesNothing, orgVars, oauthVars
  <2>2. ASSUME NEW r \in Request, Step(r)
        PROVE  BootTakesNothing
    <3>1. CASE \E b \in Boot : Running(b)
      BY <2>2, <3>1, BootSteps
    <3> QED BY <3>1 DEF BootTakesNothing
  <2>3. ASSUME NEW b \in Boot, Restart(b)
        PROVE  BootTakesNothing
    BY <2>3 DEF Restart, BootTakesNothing, oauthVars
  <2> QED BY <2>1, <2>2, <2>3 DEF ServerNext
<1> QED BY <1>1, ServerHolds, PTL DEF ServerSpec, BootKeepsMembers, BootTakesNothing

LEMMA ClientsGoOn ==
  ASSUME ServerInv, ClientsGoWithOrganization, [ServerNext]_serverVars
  PROVE  ClientsGoWithOrganization'
<1> USE DEF ClientsGoWithOrganization
<1>u. ASSUME UNCHANGED oauthVars
      PROVE  ClientsGoWithOrganization'
  BY <1>u DEF oauthVars
<1>t. /\ oauth \in SUBSET ClientId /\ members \in SUBSET Membership
      /\ fakts \in [ClientId -> members \cup {None}]
  BY DEF ServerInv, Typing, AccountTypeOK
<1>1. ASSUME NEW r \in Request, Step(r)
      PROVE  ClientsGoWithOrganization'
  <2>1. CASE OAuthStep(r)
    <3>1. CASE RegisterClient(r)
      <4>1. CASE UNCHANGED <<oauth, fakts, loose>>
        BY <4>1
      <4>2. CASE /\ task[r].row \in members /\ oauth' = oauth \cup {r}
                 /\ fakts' = [fakts EXCEPT ![r] = task[r].row] /\ loose' = loose
        <5>1. task[r].row # None /\ r \in ClientId
          BY <1>t, <4>2, NoRow DEF ClientId, Inserter
        <5> QED BY <1>t, <4>2, <5>1
      <4> QED BY <3>1, <4>1, <4>2 DEF RegisterClient
    <3>2. CASE DropClient(r)
      BY <1>t, <3>2 DEF DropClient
    <3>3. CASE ~RegisterClient(r) /\ ~DropClient(r)
      <4>1. UNCHANGED <<oauth, fakts, loose>>
        BY <2>1, <3>3 DEF OAuthStep, FindMembership, IssueCode, QueryCode, SaveToken, SpendCode,
           QueryRefreshToken, RevokeToken, ResolveMembership, ExpandOrganization, ExpandClient,
           ExpandMembership, ValidateToken, DescribeUser, oauthVars
      <4> QED BY <4>1
    <3> QED BY <3>1, <3>2, <3>3
  <2>2. CASE OrganizationStep(r)
    <3>1. CASE EraseOrg(r)
      <4> DEFINE c == seen[r]
                 gone == ClientsOfOrganization(c.orgs)
      <4>1. CASE UNCHANGED <<oauth, fakts, loose>>
        BY <4>1
      <4>2. CASE /\ oauth' = oauth \ gone
                 /\ WithoutMembers(members \cap c.members)
                 /\ loose' = loose \cup {k \in oauth : /\ fakts[k] \in c.members
                                                      /\ fakts[k].org \notin c.orgs}
        <5>1. SUFFICES ASSUME NEW k \in oauth', fakts'[k] = None, fakts[k] # None
                       PROVE  k \in loose'
          BY <4>2
        <5>2. k \in oauth /\ k \in ClientId /\ k \notin gone
          BY <1>t, <4>2, <5>1
        <5>3. fakts[k] \in members \cap c.members
          BY <4>2, <5>1, <5>2 DEF WithoutMembers
        <5>4. fakts[k].org \notin c.orgs
          BY <5>1, <5>2 DEF ClientsOfOrganization
        <5> QED BY <4>2, <5>2, <5>3, <5>4
      <4> QED BY <3>1, <4>1, <4>2 DEF EraseOrg
    <3>2. CASE Leave(r)
      <4> DEFINE m == task[r].row
      <4>1. CASE UNCHANGED <<oauth, fakts, loose>>
        BY <4>1
      <4>2. CASE /\ oauth' = oauth /\ WithoutMembers({m})
                 /\ loose' = loose \cup {k \in ClientId : fakts[k] = m}
        BY <1>t, <4>2 DEF WithoutMembers
      <4> QED BY <3>2, <4>1, <4>2 DEF Leave
    <3>3. CASE ~EraseOrg(r) /\ ~Leave(r)
      BY <1>u, <2>2, <3>3 DEF OrganizationStep, SignalStep, EnsureRoles, EnsureOwner, UpsertMember,
         GiveAdmin, SaveMember, CreateProfile, InsertOrg, ReadOrg, WriteBack, CheckOwner,
         CollectRows, InsertUser, HomeOrganization, Join, ReadMember, SetRoles, ReadUser, ChooseOrg,
         SaveUser, EnsureOrg, FindMember
    <3> QED BY <3>1, <3>2, <3>3
  <2>3. CASE TailnetStep(r)
    BY <1>u, <2>3 DEF TailnetStep, CreateTailnet, InsertLayer, PushPolicy, ReadLayer, CheckMember,
       MintKey, StoreKey
  <2> QED BY <1>1, <1>u, <2>1, <2>2, <2>3, StepKinds
<1>2. ASSUME NEW r \in Request, Arrive(r)
      PROVE  ClientsGoWithOrganization'
  BY <1>2, <1>u, Arrivals
<1>3. ASSUME NEW b \in Boot, Restart(b)
      PROVE  ClientsGoWithOrganization'
  BY <1>3, <1>u DEF Restart
<1>4. CASE UNCHANGED serverVars
  BY <1>4, <1>u DEF serverVars, accountVars
<1> QED BY <1>1, <1>2, <1>3, <1>4 DEF ServerNext

\* However registrations, deletions and departures interleave, an OAuth client
\* whose fakts client is gone was not left behind by its organization.
THEOREM NoClientLeftBehind == ServerSpec => []ClientsGoWithOrganization
<1>1. ServerInit => ClientsGoWithOrganization
  <2> SUFFICES ASSUME ServerInit
               PROVE  ClientsGoWithOrganization
    OBVIOUS
  <2>1. OtherMember # None
    BY AccountAssumption, NoRow DEF OtherMember, Membership, OrgId, Inserter
  <2>2. Old \in ClientId /\ OpenId \in ClientId
    BY DEF ClientId, Inserter
  <2> QED BY <2>1, <2>2 DEF ServerInit, AccountInit, ClientsGoWithOrganization
<1>2. ServerInv /\ ClientsGoWithOrganization /\ [ServerNext]_serverVars
        => ClientsGoWithOrganization'
  BY ClientsGoOn
<1> QED BY <1>1, <1>2, ServerHolds, PTL DEF ServerSpec

-----------------------------------------------------------------------------
(* What tokens, and the requests that bring them, are of *)

GrantOp == {"exchange", "refresh", "credentials"}

\* A token t for the membership m and the client c is what t was granted for.
OfGrant(t, m, c) ==
  /\ claims[t] # None
  /\ claims[t].user = m.user /\ claims[t].org = m.org /\ claims[t].client = c
  /\ t \in Request /\ task[t].op = "exchange" =>
       m = grants[task[t].cred].member /\ c = grants[task[t].cred].client
  /\ t \in Request /\ task[t].op = "refresh" =>
       LET old == claims[task[t].cred]
       IN  old.client = c /\ old.user = m.user /\ old.org = m.org

TokenRows ==
  /\ \A t \in Inserter : tokens[t] # None => OfGrant(t, tokens[t].member, tokens[t].client)
  /\ \A k \in Inserter : codes[k] # None => codes[k] = grants[k]
  /\ \A t \in Inserter : claims[t] # None => <<claims[t].slug, claims[t].org>> \in held
  /\ \A o \in OrgId : orgs[o] # None => <<orgs[o].slug, o>> \in held

\* Codes are granted and claims are made once, and what a request has read of
\* them stays true.
TokenFactsOf(r) ==
  LET t == task[r]
  IN  /\ claims[r] # None => t.op \in GrantOp /\ (t.status = "running" => t.pc >= 3)
      /\ grants[r] # None => t.op = "accept" /\ t.status # "running"
      /\ t.op = "exchange" => grants[t.cred] # None
      /\ t.op = "exchange" /\ t.pc >= 2 =>
           t.row = grants[t.cred].member /\ t.client = grants[t.cred].client
      /\ t.op = "refresh" /\ t.pc >= 2 => OfGrant(t.cred, t.row, t.client)
      /\ t.op = "info" /\ t.pc >= 2 =>
           t.row.user = claims[t.cred].user /\ t.row.org = claims[t.cred].org
      /\ t.op = "info" /\ t.status = "done" => t.pc = 2 /\ t.org = t.row.org
      /\ t.op = "api" /\ t.pc >= 2 =>
           t.user = claims[t.cred].user /\ <<claims[t.cred].slug, t.org>> \in held
      /\ t.op = "api" /\ t.status = "done" =>
           t.pc = 3 /\ t.row.user = t.user /\ t.row.org = t.org

TokenFacts == TokenRows /\ \A r \in Request : TokenFactsOf(r)

\* What was granted, claimed or held stays so.
Lasts ==
  /\ \A t \in Inserter : claims[t] # None => claims'[t] = claims[t]
  /\ \A k \in Inserter : grants[k] # None => grants'[k] = grants[k]
  /\ held \subseteq held'

\* The requests behind grants are no boots, and keep to what they were about.
LEMMA CredLasts ==
  ASSUME Flow, NEW q \in Request, task[q].op \in HttpOp,
         \/ Stands(q)
         \/ Moves(q)
  PROVE  task'[q].op = task[q].op /\ task'[q].cred = task[q].cred
<1>1. CASE Stands(q)
  BY <1>1 DEF Stands, Remembers
<1>2. CASE Moves(q)
  <2>1. task[q].op \notin BootOp
    BY DEF HttpOp, Commands, BootOp
  <2> QED BY <1>2, <2>1 DEF Moves, Flow, Running
<1> QED BY <1>1, <1>2

LEMMA OfGrantStays ==
  ASSUME ServerInv, TokenFacts, Lasts, NEW t \in Inserter, NEW m, NEW c, OfGrant(t, m, c),
         \A q \in Request : task[q].op \in GrantOp =>
           task'[q].op = task[q].op /\ task'[q].cred = task[q].cred
  PROVE  OfGrant(t, m, c)'
<1>1. claims'[t] = claims[t]
  BY DEF OfGrant, Lasts
<1>2. CASE t \in Request
  <2>1. task[t].op \in GrantOp /\ task'[t].op = task[t].op /\ task'[t].cred = task[t].cred
    BY <1>2 DEF OfGrant, TokenFacts, TokenFactsOf
  <2>2. InMemory(task[t])
    BY <1>2 DEF ServerInv, Typing
  <2>3. task[t].op = "exchange" => grants'[task[t].cred] = grants[task[t].cred]
    BY <1>2, <2>2 DEF TokenFacts, TokenFactsOf, Lasts, InMemory
  <2>4. task[t].op = "refresh" => claims'[task[t].cred] = claims[task[t].cred]
    BY <1>2, <2>2 DEF ServerInv, Typing, Recorded, Lasts, InMemory
  <2> QED BY <1>1, <1>2, <2>1, <2>3, <2>4 DEF OfGrant
<1>3. CASE t \notin Request
  BY <1>1, <1>3 DEF OfGrant
<1> QED BY <1>2, <1>3

\* A request whose task stands keeps its facts.
LEMMA TokenFactsStand ==
  ASSUME ServerInv, TokenFacts, Lasts, NEW q \in Request, Stands(q),
         claims'[q] = claims[q], grants'[q] = grants[q],
         \A p \in Request : task[p].op \in GrantOp =>
           task'[p].op = task[p].op /\ task'[p].cred = task[p].cred
  PROVE  TokenFactsOf(q)'
<1> DEFINE s == task[q]
           t == task'[q]
<1>m. InMemory(s) /\ s \in Task
  BY DEF ServerInv, Typing, Flow
<1>1. /\ t.op = s.op /\ t.cred = s.cred /\ t.row = s.row /\ t.client = s.client /\ t.pc = s.pc
      /\ t.org = s.org /\ t.user = s.user
      /\ t.status = "running" => s.status = "running"
      /\ t.status = "done" => s.status = "done"
  BY DEF Stands, Remembers
<1>2. s.op = "exchange" => grants'[s.cred] = grants[s.cred] /\ grants[s.cred] # None
  BY <1>m DEF TokenFacts, TokenFactsOf, Lasts, InMemory
<1>3. s.op \in {"refresh", "api", "info"} => claims'[s.cred] = claims[s.cred]
  BY <1>m DEF ServerInv, Typing, Recorded, Lasts, InMemory
<1>4. s.op = "refresh" /\ s.pc >= 2 => OfGrant(task[q].cred, task[q].row, task[q].client)'
  <2>1. SUFFICES ASSUME s.op = "refresh", s.pc >= 2
                 PROVE  OfGrant(task[q].cred, task[q].row, task[q].client)'
    OBVIOUS
  <2>2. PICK k, m, c : k = s.cred /\ k \in Inserter /\ m = s.row /\ c = s.client
    BY <1>m, <2>1 DEF InMemory
  <2>3. OfGrant(k, m, c)
    BY <2>1, <2>2 DEF TokenFacts, TokenFactsOf
  <2>4. OfGrant(k, m, c)'
    BY <2>2, <2>3, OfGrantStays
  <2>5. task'[q].cred = k /\ task'[q].row = m /\ task'[q].client = c
    BY <1>1, <2>2
  <2> HIDE DEF s, t
  <2> QED BY <2>4, <2>5 DEF OfGrant
<1>f. TokenFactsOf(q)
  BY DEF TokenFacts
<1>h. held \subseteq held'
  BY DEF Lasts
<1> HIDE DEF s, t
<1>5. /\ claims'[q] # None => t.op \in GrantOp /\ (t.status = "running" => t.pc >= 3)
      /\ grants'[q] # None => t.op = "accept" /\ t.status # "running"
      /\ t.op = "exchange" => grants'[t.cred] # None
      /\ t.op = "exchange" /\ t.pc >= 2 =>
           t.row = grants'[t.cred].member /\ t.client = grants'[t.cred].client
      /\ t.op = "info" /\ t.pc >= 2 =>
           t.row.user = claims'[t.cred].user /\ t.row.org = claims'[t.cred].org
      /\ t.op = "info" /\ t.status = "done" => t.pc = 2 /\ t.org = t.row.org
      /\ t.op = "api" /\ t.pc >= 2 =>
           t.user = claims'[t.cred].user /\ <<claims'[t.cred].slug, t.org>> \in held'
      /\ t.op = "api" /\ t.status = "done" =>
           t.pc = 3 /\ t.row.user = t.user /\ t.row.org = t.org
  BY <1>1, <1>2, <1>3, <1>f, <1>h DEF TokenFactsOf, s
<1>6. task'[q].op = "refresh" /\ task'[q].pc >= 2
        => OfGrant(task[q].cred, task[q].row, task[q].client)'
  BY <1>1, <1>4 DEF t
<1>7. (task[q].op = "refresh" /\ task[q].pc >= 2
         => OfGrant(task[q].cred, task[q].row, task[q].client))'
  BY <1>6
<1> HIDE DEF OfGrant
<1> QED BY <1>5, <1>7 DEF TokenFactsOf, t

LEMMA TokenRowsOn ==
  ASSUME ServerInv, TokenFacts, Lasts,
         \A p \in Request : task[p].op \in GrantOp =>
           task'[p].op = task[p].op /\ task'[p].cred = task[p].cred,
         \A t \in Inserter : tokens'[t] # None =>
           \E m, c : /\ tokens'[t].member = m /\ tokens'[t].client = c
                     /\ OfGrant(t, m, c) \/ OfGrant(t, m, c)',
         \A k \in Inserter : codes'[k] # None => codes'[k] = grants'[k],
         \A t \in Inserter : claims'[t] # None =>
           claims'[t] = claims[t] \/ <<claims'[t].slug, claims'[t].org>> \in held',
         \A o \in OrgId : orgs'[o] # None =>
           orgs'[o] = orgs[o] \/ <<orgs'[o].slug, o>> \in held'
  PROVE  TokenRows'
<1>1. ASSUME NEW t \in Inserter, tokens'[t] # None
      PROVE  OfGrant(t, tokens[t].member, tokens[t].client)'
  <2>1. PICK m, c : /\ tokens'[t].member = m /\ tokens'[t].client = c
                    /\ OfGrant(t, m, c) \/ OfGrant(t, m, c)'
    BY <1>1
  <2>2. OfGrant(t, m, c)'
    BY <2>1, OfGrantStays
  <2> QED BY <2>1, <2>2 DEF OfGrant
<1>2. \A t \in Inserter : claims'[t] # None => <<claims'[t].slug, claims'[t].org>> \in held'
  BY DEF TokenFacts, TokenRows, Lasts
<1>3. \A o \in OrgId : orgs'[o] # None => <<orgs'[o].slug, o>> \in held'
  BY DEF TokenFacts, TokenRows, Lasts
<1> HIDE DEF OfGrant
<1>4. (\A t \in Inserter : tokens[t] # None => OfGrant(t, tokens[t].member, tokens[t].client))'
  BY <1>1
<1> QED BY <1>2, <1>3, <1>4 DEF TokenRows

\* Steps of other requests than those about codes and tokens.
LEMMA TokenFactsAside ==
  ASSUME ServerInv, TokenFacts, NEW r \in Request, Moves(r), task[r].op \notin OAuthOp,
         UNCHANGED <<grants, claims>>, held \subseteq held',
         \A k \in Inserter : codes'[k] \in {codes[k], None} /\ tokens'[k] \in {tokens[k], None},
         \A o \in OrgId : orgs'[o] # None =>
           orgs'[o] = orgs[o] \/ <<orgs'[o].slug, o>> \in held'
  PROVE  TokenFacts'
<1>1. Lasts
  BY DEF Lasts
<1>2. task'[r].op \notin OAuthOp
  BY DEF Moves, OAuthOp, BootOp
<1>3. \A p \in Request : task[p].op \in GrantOp =>
        task'[p].op = task[p].op /\ task'[p].cred = task[p].cred
  BY DEF Moves, GrantOp, OAuthOp
<1>4. TokenRows'
  <2>1. \A t \in Inserter : tokens'[t] # None =>
          \E m, c : /\ tokens'[t].member = m /\ tokens'[t].client = c
                    /\ OfGrant(t, m, c) \/ OfGrant(t, m, c)'
    BY DEF TokenFacts, TokenRows
  <2>2. \A k \in Inserter : codes'[k] # None => codes'[k] = grants'[k]
    BY DEF TokenFacts, TokenRows
  <2> QED BY <1>1, <1>3, <2>1, <2>2, TokenRowsOn
<1>5. TokenFactsOf(r)'
  BY <1>2 DEF TokenFacts, TokenFactsOf, OAuthOp, GrantOp
<1>6. \A q \in Request \ {r} : TokenFactsOf(q)'
  BY <1>1, <1>3, OthersStand, TokenFactsStand
<1> QED BY <1>4, <1>5, <1>6 DEF TokenFacts

\* Codes and tokens go with memberships.
LEMMA CodesOnlyGo ==
  ASSUME NEW r, OrganizationStep(r)
  PROVE  \A k \in Inserter : codes'[k] \in {codes[k], None} /\ tokens'[k] \in {tokens[k], None}
<1>1. CASE \E M : WithoutMembers(M)
  BY <1>1 DEF WithoutMembers
<1>2. CASE UNCHANGED <<codes, tokens>>
  BY <1>2
<1> QED BY <1>1, <1>2 DEF OrganizationStep, SignalStep, EnsureRoles, EnsureOwner, UpsertMember,
   GiveAdmin, SaveMember, CreateProfile, InsertOrg, ReadOrg, WriteBack, CheckOwner, CollectRows,
   EraseOrg, InsertUser, HomeOrganization, Join, Leave, ReadMember, SetRoles, ReadUser, ChooseOrg,
   SaveUser, EnsureOrg, FindMember, oauthVars

LEMMA TokensOfOrganizations ==
  ASSUME ServerInv, TokenFacts, NEW r \in Request, Step(r), OrganizationStep(r)
  PROVE  TokenFacts'
<1>1. Moves(r) /\ task[r].op \notin OAuthOp
  BY StepKinds, Groups DEF OrganizationOp, OAuthOp, BootOp, ServerInv, Typing
<1>t. /\ members \in SUBSET Membership
      /\ codes \in [Inserter -> [member : members, client : ClientId] \cup {None}]
      /\ orgs \in [OrgId -> Organization \cup {None}]
  BY DEF ServerInv, Typing, AccountTypeOK
<1>2. UNCHANGED <<grants, claims>>
  BY DEF OrganizationStep, SignalStep, EnsureRoles, EnsureOwner, UpsertMember, GiveAdmin,
     SaveMember, CreateProfile, InsertOrg, ReadOrg, WriteBack, CheckOwner, CollectRows, EraseOrg,
     InsertUser, HomeOrganization, Join, Leave, ReadMember, SetRoles, ReadUser, ChooseOrg,
     SaveUser, EnsureOrg, FindMember, oauthVars
<1>3. \A k \in Inserter : codes'[k] \in {codes[k], None} /\ tokens'[k] \in {tokens[k], None}
  BY CodesOnlyGo
<1>4. /\ held \subseteq held'
      /\ \A o \in OrgId : orgs'[o] # None =>
           orgs'[o] = orgs[o] \/ <<orgs'[o].slug, o>> \in held'
  <2>1. CASE \E o \in OrgId : \E row : WriteOrg(o, row)
    <3>1. PICK o \in OrgId : \E row : WriteOrg(o, row)
      BY <2>1
    <3> QED BY <1>t, <3>1 DEF WriteOrg
  <2>2. CASE UNCHANGED <<orgs, held>>
    BY <2>2
  <2>3. CASE EraseOrg(r)
    BY <2>3 DEF EraseOrg
  <2>4. CASE ~EraseOrg(r)
    <3>1. r \in OrgId /\ (r \in Boot => Configured(r) \in OrgId)
      BY DEF OrgId, Inserter
    <3>2. CASE WriteBack(r)
      <4>1. task[r].org \in OrgId
        <5>1. InPlace(task[r].op, task[r].pc, "write") /\ InMemory(task[r])
          BY <3>2, StepKinds DEF WriteBack, ServerInv, Typing
        <5> QED BY <5>1 DEF InPlace, InMemory
      <4> QED BY <2>1, <2>2, <3>2, <4>1 DEF WriteBack
    <3>3. CASE EnsureOrg(r)
      <4>1. r \in Boot
        <5>1. InPlace(task[r].op, task[r].pc, "organize") /\ Flow /\ Running(r)
          BY <3>3, StepKinds DEF EnsureOrg, ServerInv, Typing
        <5> QED BY <5>1 DEF InPlace, Flow, Running, BootOp
      <4> QED BY <2>1, <2>2, <3>1, <3>3, <4>1 DEF EnsureOrg, Named
    <3>4. CASE InsertOrg(r) \/ HomeOrganization(r)
      BY <2>1, <2>2, <3>1, <3>4 DEF InsertOrg, HomeOrganization
    <3>5. CASE ~WriteBack(r) /\ ~EnsureOrg(r) /\ ~InsertOrg(r) /\ ~HomeOrganization(r)
      BY <2>2, <2>4, <3>5 DEF OrganizationStep, SignalStep, EnsureRoles, EnsureOwner, UpsertMember,
         GiveAdmin, SaveMember, CreateProfile, ReadOrg, CheckOwner, CollectRows, InsertUser, Join,
         Leave, ReadMember, SetRoles, ReadUser, ChooseOrg, SaveUser, FindMember, orgVars
    <3> QED BY <3>2, <3>3, <3>4, <3>5
  <2> QED BY <2>3, <2>4
<1> QED BY <1>1, <1>2, <1>3, <1>4, TokenFactsAside

\* A step of a request about codes and tokens that grants nothing: what is to
\* be shown is what it has read itself.
LEMMA TokensRead ==
  ASSUME ServerInv, TokenFacts, NEW r \in Request, Moves(r), r \notin Boot,
         UNCHANGED <<grants, claims, held, orgs>>,
         \A k \in Inserter : codes'[k] \in {codes[k], None},
         \A t \in Inserter : tokens'[t] # None =>
           \E m, c : /\ tokens'[t].member = m /\ tokens'[t].client = c
                     /\ OfGrant(t, m, c) \/ OfGrant(t, m, c)',
         TokenFactsOf(r)' \/ Stands(r)
  PROVE  TokenFacts'
<1>1. Lasts
  BY DEF Lasts
<1>2. \A p \in Request : task[p].op \in GrantOp =>
        task'[p].op = task[p].op /\ task'[p].cred = task[p].cred
  BY DEF Moves
<1>3. TokenRows'
  <2>1. \A k \in Inserter : codes'[k] # None => codes'[k] = grants'[k]
    BY DEF TokenFacts, TokenRows
  <2>2. \A t \in Inserter : claims'[t] # None => claims'[t] = claims[t]
    OBVIOUS
  <2>3. \A o \in OrgId : orgs'[o] # None => orgs'[o] = orgs[o]
    OBVIOUS
  <2> QED BY <1>1, <1>2, <2>1, <2>2, <2>3, TokenRowsOn
<1>4. \A q \in Request : Stands(q) => TokenFactsOf(q)'
  BY <1>1, <1>2, TokenFactsStand
<1>5. \A q \in Request \ {r} : TokenFactsOf(q)'
  BY <1>4, OthersStand
<1> QED BY <1>3, <1>4, <1>5 DEF TokenFacts

LEMMA TokensOfOAuth ==
  ASSUME ServerInv, TokenFacts, NEW r \in Request, Step(r), OAuthStep(r)
  PROVE  TokenFacts'
<1> DEFINE s == task[r]
           t == task'[r]
<1>k. /\ Running(r) /\ Moves(r) /\ Flow /\ s \in Task /\ InMemory(s) /\ Recorded
      /\ r \in Inserter /\ s.status = "running"
  BY StepKinds DEF ServerInv, Typing, Running, Inserter
<1>o. s.op \in OAuthOp
  BY <1>k, Groups
<1>b. r \in Request \ Boot
  BY <1>k, <1>o DEF Flow, BootOp, OAuthOp
<1>a. \A x : At(r, x) => InPlace(s.op, s.pc, x)
  BY StepKinds
<1>m. t.op = s.op /\ t.cred = s.cred
  BY <1>b, <1>k DEF Moves
<1>f. TokenFactsOf(r) /\ TokenRows
  BY DEF TokenFacts
<1>u. UNCHANGED orgVars /\ UNCHANGED <<held, orgs>>
  BY <1>k, OAuthTypes DEF ServerInv, orgVars
<1>t. ClientTypes /\ RowTypes
  BY Parts DEF ServerInv, Typing
<1>c. grants \in [Inserter -> Code \cup {None}] /\ claims \in [Inserter -> Claims \cup {None}]
  BY <1>k DEF Recorded
<1>w. \A k \in Inserter : tokens[k] # None =>
        \E m, c : /\ tokens[k].member = m /\ tokens[k].client = c
                  /\ OfGrant(k, m, c) \/ OfGrant(k, m, c)'
  BY <1>f DEF TokenRows

\* Refusals, and steps that only read.
<1>r. ASSUME UNCHANGED oauthVars, TokenFactsOf(r)' \/ Stands(r)
      PROVE  TokenFacts'
  <2>1. UNCHANGED <<grants, claims, codes, tokens>>
    BY <1>r DEF oauthVars
  <2>2. (\A k \in Inserter : codes'[k] \in {codes[k], None})
        /\ \A k \in Inserter : tokens'[k] # None =>
             \E m, c : /\ tokens'[k].member = m /\ tokens'[k].client = c
                       /\ OfGrant(k, m, c) \/ OfGrant(k, m, c)'
    BY <1>w, <2>1
  <2> HIDE DEF OfGrant
  <2> QED BY <1>b, <1>k, <1>u, <1>r, <2>1, <2>2, TokensRead
<1>e. ASSUME Fail(r)
      PROVE  Stands(r)
  BY <1>b, <1>e, <1>k, Fails DEF Stands
<1>q. ASSUME s.op \in {"register", "drop"}
      PROVE  (claims'[r] = claims[r] /\ grants'[r] = grants[r]) => TokenFactsOf(r)'
  BY <1>f, <1>m, <1>q DEF TokenFactsOf, GrantOp
<1>1. CASE RegisterClient(r)
  <2>1. s.op = "register" /\ UNCHANGED <<grants, claims, codes, tokens>>
    BY <1>1, <1>a DEF RegisterClient, InPlace
  <2>2. TokenFactsOf(r)'
    BY <1>q, <2>1
  <2> QED BY <1>b, <1>k, <1>u, <1>w, <2>1, <2>2, TokensRead
<1>2. CASE DropClient(r)
  <2>1. s.op = "drop" /\ UNCHANGED <<grants, claims, codes, tokens>>
    BY <1>2, <1>a DEF DropClient, InPlace
  <2>2. TokenFactsOf(r)'
    BY <1>q, <2>1
  <2> QED BY <1>b, <1>k, <1>u, <1>w, <2>1, <2>2, TokensRead
<1>3. CASE FindMembership(r)
  <2>1. s.op = "accept" /\ UNCHANGED oauthVars /\ UNCHANGED <<grants, claims>>
    BY <1>3, <1>a DEF FindMembership, InPlace, oauthVars
  <2>2. grants[r] = None /\ claims[r] = None
    BY <1>f, <1>k, <2>1 DEF TokenFactsOf, GrantOp
  <2>3. TokenFactsOf(r)'
    BY <1>m, <2>1, <2>2 DEF TokenFactsOf
  <2> QED BY <1>r, <2>1, <2>3
<1>4. CASE IssueCode(r)
  <2> DEFINE k == [member |-> s.row, client |-> s.client]
  <2>1. s.op = "accept" /\ At(r, "issue")
        /\ UNCHANGED <<orgVars, oauth, fakts, tokens, loose, claims>>
    BY <1>4, <1>a DEF IssueCode, InPlace
  <2>2. grants[r] = None /\ claims[r] = None
    BY <1>f, <1>k, <2>1 DEF TokenFactsOf, GrantOp
  <2>3. CASE Fail(r) /\ UNCHANGED <<codes, grants>>
    BY <1>e, <1>r, <2>1, <2>3 DEF oauthVars
  <2>4. CASE /\ s.row \in members /\ Proceed(r)
             /\ codes' = [codes EXCEPT ![r] = k] /\ grants' = [grants EXCEPT ![r] = k]
    <3>1. k # None
      BY <1>a, <1>k, <1>t, <2>1, <2>4, NoRow DEF InPlace, InMemory, RowTypes, Code
    <3> HIDE DEF k
    <3>2. Lasts
      BY <1>c, <1>u, <2>1, <2>2, <2>4 DEF Lasts
    <3>3. \A p \in Request : task[p].op \in GrantOp =>
            task'[p].op = task[p].op /\ task'[p].cred = task[p].cred
      BY <1>b, <1>k DEF Moves
    <3>4. \A j \in Inserter : codes'[j] # None => codes'[j] = grants'[j]
      BY <1>c, <1>f, <1>k, <1>t, <2>4 DEF TokenRows, ClientTypes
    <3>5. TokenRows'
      <4>1. \A j \in Inserter : claims'[j] # None => claims'[j] = claims[j]
        BY <2>1
      <4>2. \A o \in OrgId : orgs'[o] # None => orgs'[o] = orgs[o]
        BY <1>u
      <4>3. \A j \in Inserter : tokens'[j] # None =>
              \E m, c : /\ tokens'[j].member = m /\ tokens'[j].client = c
                        /\ OfGrant(j, m, c) \/ OfGrant(j, m, c)'
        BY <1>w, <2>1
      <4> HIDE DEF OfGrant
      <4> QED BY <3>2, <3>3, <3>4, <4>1, <4>2, <4>3, TokenRowsOn
    <3>6. \A q \in Request \ {r} : TokenFactsOf(q)'
      <4>1. \A q \in Request \ {r} : /\ claims'[q] = claims[q] /\ grants'[q] = grants[q]
                                     /\ Stands(q)
        BY <1>c, <1>k, <2>1, <2>4, OthersStand DEF Inserter
      <4> QED BY <3>2, <3>3, <4>1, TokenFactsStand
    <3>7. t.status # "running"
      <4>1. Len(Program[s.op]) = 2 /\ s.pc = 2
        BY <1>a, <2>1, Lengths DEF InPlace
      <4> QED BY <1>b, <1>k, <2>4, <4>1, ProceedsOf
    <3>8. TokenFactsOf(r)'
      BY <1>m, <2>1, <2>2, <3>7 DEF TokenFactsOf
    <3> QED BY <3>5, <3>6, <3>8 DEF TokenFacts
  <2> QED BY <1>4, <2>3, <2>4 DEF IssueCode
<1>5. CASE QueryCode(r)
  <2> DEFINE k == s.cred
             n == [s EXCEPT !.row = codes[k].member]
  <2>1. s.op = "exchange" /\ s.pc = 1 /\ k \in Inserter /\ UNCHANGED oauthVars
        /\ UNCHANGED <<grants, claims>>
    BY <1>5, <1>a, <1>k DEF QueryCode, InPlace, InMemory, oauthVars
  <2>2. grants[r] = None /\ claims[r] = None /\ grants[k] # None
    BY <1>f, <1>k, <2>1 DEF TokenFactsOf, GrantOp
  <2>3. CASE Fail(r)
    BY <1>e, <1>r, <2>1, <2>3
  <2>4. CASE codes[k] # None /\ codes[k].client = s.client /\ Go(r, n)
    <3>1. codes[k] = grants[k] /\ codes[k].member \in Membership
      BY <1>f, <1>t, <2>1, <2>4 DEF TokenRows, ClientTypes, RowTypes
    <3>2. Keeps(n, s) /\ n.row = codes[k].member /\ n.client = s.client
      BY <1>k, <2>1, <3>1 DEF Keeps, Task
    <3>3. Remembers(t, n)
      BY <1>b, <1>k, <2>4, <3>2, GoesTo
    <3>4. t.row = grants[k].member /\ t.client = grants[k].client
      BY <2>4, <3>1, <3>2, <3>3 DEF Remembers
    <3>5. TokenFactsOf(r)'
      BY <1>m, <2>1, <2>2, <3>4 DEF TokenFactsOf
    <3> QED BY <1>r, <2>1, <3>5
  <2> QED BY <1>5, <2>3, <2>4 DEF QueryCode
<1>7. CASE SpendCode(r)
  <2>1. /\ s.op = "exchange" /\ s.pc = 3 /\ s.cred \in Inserter /\ Proceed(r)
        /\ UNCHANGED <<grants, claims, tokens>>
        /\ codes' = [codes EXCEPT ![s.cred] = None]
    BY <1>7, <1>a, <1>k DEF SpendCode, InPlace, InMemory
  <2>2. Remembers(t, s) /\ t.pc = 3
    <3>1. Len(Program[s.op]) = 3
      BY <2>1, Lengths
    <3> QED BY <1>b, <1>k, <2>1, <3>1, ProceedsOf
  <2>3. \A k \in Inserter : codes'[k] \in {codes[k], None}
    BY <1>t, <2>1 DEF ClientTypes
  <2>4. TokenFactsOf(r)'
    BY <1>f, <2>1, <2>2 DEF TokenFactsOf, Remembers, GrantOp
  <2> QED BY <1>b, <1>k, <1>u, <1>w, <2>1, <2>3, <2>4, TokensRead
<1>8. CASE QueryRefreshToken(r)
  <2> DEFINE k == s.cred
             n == [s EXCEPT !.row = tokens[k].member]
  <2>1. s.op = "refresh" /\ s.pc = 1 /\ k \in Inserter /\ UNCHANGED oauthVars
        /\ UNCHANGED <<grants, claims>>
    BY <1>8, <1>a, <1>k DEF QueryRefreshToken, InPlace, InMemory, oauthVars
  <2>2. grants[r] = None /\ claims[r] = None
    BY <1>f, <1>k, <2>1 DEF TokenFactsOf, GrantOp
  <2>3. CASE Fail(r)
    BY <1>e, <1>r, <2>1, <2>3
  <2>4. CASE tokens[k] # None /\ tokens[k].client = s.client /\ Go(r, n)
    <3>1. OfGrant(k, tokens[k].member, tokens[k].client) /\ tokens[k].member \in Membership
      BY <1>f, <1>t, <2>1, <2>4 DEF TokenRows, ClientTypes, RowTypes
    <3>2. Keeps(n, s) /\ n.row = tokens[k].member /\ n.client = s.client
      BY <1>k, <2>1, <3>1 DEF Keeps, Task
    <3>3. Remembers(t, n) /\ t.pc = 2
      <4>1. Len(Program[s.op]) = 3
        BY <2>1, Lengths
      <4> QED BY <1>b, <1>k, <2>1, <2>4, <3>2, <4>1, GoesToOf
    <3>4. PICK j, m, c : j = k /\ m = tokens[k].member /\ c = s.client
      OBVIOUS
    <3>5. OfGrant(j, m, c)
      BY <2>4, <3>1, <3>4
    <3>6. OfGrant(j, m, c)'
      <4>1. Lasts
        BY <1>u, <2>1 DEF Lasts
      <4>2. \A p \in Request : task[p].op \in GrantOp =>
              task'[p].op = task[p].op /\ task'[p].cred = task[p].cred
        BY <1>b, <1>k DEF Moves
      <4> QED BY <2>1, <3>4, <3>5, <4>1, <4>2, OfGrantStays
    <3>7. task'[r].cred = j /\ task'[r].row = m /\ task'[r].client = c
      BY <1>m, <3>2, <3>3, <3>4 DEF Remembers
    <3>8. OfGrant(task[r].cred, task[r].row, task[r].client)'
      BY <3>6, <3>7 DEF OfGrant
    <3> HIDE DEF OfGrant
    <3>9. TokenFactsOf(r)'
      BY <1>m, <2>1, <2>2, <3>8 DEF TokenFactsOf
    <3> QED BY <1>r, <2>1, <3>9
  <2> QED BY <1>8, <2>3, <2>4 DEF QueryRefreshToken
<1>10. CASE ResolveMembership(r)
  <2>1. s.op = "credentials" /\ s.pc = 1 /\ UNCHANGED oauthVars /\ UNCHANGED <<grants, claims>>
    BY <1>10, <1>a DEF ResolveMembership, InPlace, oauthVars
  <2>2. grants[r] = None /\ claims[r] = None
    BY <1>f, <1>k, <2>1 DEF TokenFactsOf, GrantOp
  <2>3. TokenFactsOf(r)'
    BY <1>m, <2>1, <2>2 DEF TokenFactsOf
  <2> QED BY <1>r, <2>1, <2>3
<1>6. CASE SaveToken(r)
  <2> DEFINE m == s.row
             n == [member |-> m, client |-> s.client, revoked |-> FALSE, from |-> s.cred]
             c == ClaimsOf(m, s.client)
  <2>1. s.op \in GrantOp /\ s.pc = 2
        /\ UNCHANGED <<orgVars, oauth, fakts, codes, loose, grants>>
    BY <1>6, <1>a DEF SaveToken, InPlace, GrantOp
  <2>2. grants[r] = None /\ claims[r] = None
    BY <1>f, <1>k, <2>1 DEF TokenFactsOf, GrantOp
  <2>3. CASE Fail(r) /\ UNCHANGED <<tokens, claims>>
    BY <1>e, <1>r, <2>1, <2>3 DEF oauthVars
  <2>4. CASE /\ m \in members /\ Proceed(r)
             /\ tokens' = [tokens EXCEPT ![r] = n] /\ claims' = [claims EXCEPT ![r] = c]
    <3>m. m \in Membership /\ orgs[m.org] # None /\ m.org \in OrgId
      BY <1>t, <2>4 DEF RowTypes, Membership
    <3>c. /\ c.user = m.user /\ c.org = m.org /\ c.client = s.client
          /\ c.slug = orgs[m.org].slug
      BY DEF ClaimsOf
    <3>n. n.member = m /\ n.client = s.client
      OBVIOUS
    <3>p. Remembers(t, s) /\ (t.status = "running" => t.pc = 3) /\ t.pc >= 2
      <4>1. CASE s.op = "credentials"
        <5>1. Len(Program[s.op]) = 2
          BY <4>1, Lengths
        <5> QED BY <1>b, <1>k, <2>1, <2>4, <5>1, ProceedsOf
      <4>2. CASE s.op \in {"exchange", "refresh"}
        <5>1. Len(Program[s.op]) = 3
          BY <4>2, Lengths
        <5> QED BY <1>b, <1>k, <2>1, <2>4, <5>1, ProceedsOf
      <4> QED BY <2>1, <4>1, <4>2 DEF GrantOp
    <3>x. claims'[r] = c /\ tokens'[r] = n
          /\ \A k \in Inserter \ {r} : claims'[k] = claims[k] /\ tokens'[k] = tokens[k]
      BY <1>c, <1>k, <1>t, <2>4 DEF ClientTypes
    <3> HIDE DEF n, c
    <3>1. Lasts
      BY <1>u, <2>1, <2>2, <3>x DEF Lasts
    <3>2. \A p \in Request : task[p].op \in GrantOp =>
            task'[p].op = task[p].op /\ task'[p].cred = task[p].cred
      BY <1>b, <1>k DEF Moves
    <3>3. s.op = "refresh" => /\ s.cred \in Inserter /\ s.cred # r
                              /\ claims'[s.cred] = claims[s.cred]
                              /\ OfGrant(s.cred, m, s.client)
      BY <1>f, <1>k, <2>1, <2>2, <3>x DEF TokenFactsOf, Recorded, InMemory
    <3>4. claims'[r] # None
      <4>1. c \in Claims
        <5>1. ServerInv'
          BY StepsOver
        <5>2. claims'[r] \in Claims \cup {None}
          BY <1>k, <5>1 DEF ServerInv, Typing, Recorded
        <5>3. orgs[m.org].slug \in Slug /\ m.user \in User /\ s.client \in ClientId
          BY <1>k, <1>t, <2>1, <3>m, Parts
             DEF ServerInv, Typing, OrgTypes, Organization, Membership, InMemory, GrantOp
        <5> QED BY <3>m, <5>3 DEF c, ClaimsOf, Claims
      <4> QED BY <3>x, <4>1, NoRow
    <3>5. PICK j, a : j = m /\ a = s.client
      OBVIOUS
    <3>6. OfGrant(r, j, a)'
      <4>1. claims'[r].user = j.user /\ claims'[r].org = j.org /\ claims'[r].client = a
        BY <3>c, <3>x, <3>5
      <4>2. task'[r].op = "exchange" =>
              j = grants'[task'[r].cred].member /\ a = grants'[task'[r].cred].client
        BY <1>f, <1>m, <2>1, <3>5 DEF TokenFactsOf
      <4>3. task'[r].op = "refresh" =>
              /\ claims'[task'[r].cred].client = a /\ claims'[task'[r].cred].user = j.user
              /\ claims'[task'[r].cred].org = j.org
        BY <1>m, <3>3, <3>5 DEF OfGrant
      <4> QED BY <3>4, <4>1, <4>2, <4>3 DEF OfGrant
    <3>7. TokenRows'
      <4>1. \A k \in Inserter : tokens'[k] # None =>
              \E i, b : /\ tokens'[k].member = i /\ tokens'[k].client = b
                        /\ OfGrant(k, i, b) \/ OfGrant(k, i, b)'
        <5>1. ASSUME NEW k \in Inserter \ {r}, tokens'[k] # None
              PROVE  \E i, b : /\ tokens'[k].member = i /\ tokens'[k].client = b
                               /\ OfGrant(k, i, b) \/ OfGrant(k, i, b)'
          BY <1>w, <3>x, <5>1
        <5>2. /\ tokens'[r].member = j /\ tokens'[r].client = a
              /\ OfGrant(r, j, a) \/ OfGrant(r, j, a)'
          BY <3>n, <3>x, <3>5, <3>6
        <5> HIDE DEF OfGrant
        <5> QED BY <5>1, <5>2
      <4>2. \A k \in Inserter : codes'[k] # None => codes'[k] = grants'[k]
        BY <1>f, <2>1 DEF TokenRows
      <4>3. \A k \in Inserter : claims'[k] # None =>
              claims'[k] = claims[k] \/ <<claims'[k].slug, claims'[k].org>> \in held'
        BY <1>f, <1>u, <3>c, <3>m, <3>x DEF TokenRows
      <4>4. \A o \in OrgId : orgs'[o] # None => orgs'[o] = orgs[o]
        BY <1>u
      <4> HIDE DEF OfGrant
      <4> QED BY <3>1, <3>2, <4>1, <4>2, <4>3, <4>4, TokenRowsOn
    <3>8. \A q \in Request \ {r} : TokenFactsOf(q)'
      <4>1. \A q \in Request \ {r} : /\ claims'[q] = claims[q] /\ grants'[q] = grants[q]
                                     /\ Stands(q)
        BY <1>k, <2>1, <3>x, OthersStand DEF Inserter
      <4> QED BY <3>1, <3>2, <4>1, TokenFactsStand
    <3>9. TokenFactsOf(r)'
      <4>1. s.op = "refresh" => OfGrant(task[r].cred, task[r].row, task[r].client)'
        <5>1. SUFFICES ASSUME s.op = "refresh"
                       PROVE  OfGrant(task[r].cred, task[r].row, task[r].client)'
          OBVIOUS
        <5>2. PICK k : k = s.cred
          OBVIOUS
        <5>3. OfGrant(k, j, a)'
          BY <3>1, <3>2, <3>3, <3>5, <5>1, <5>2, OfGrantStays
        <5>4. task'[r].cred = k /\ task'[r].row = j /\ task'[r].client = a
          BY <1>m, <3>p, <3>5, <5>2 DEF Remembers
        <5> QED BY <5>3, <5>4 DEF OfGrant
      <4> HIDE DEF OfGrant
      <4> QED BY <1>f, <1>m, <2>1, <2>2, <3>p, <4>1 DEF TokenFactsOf, Remembers, GrantOp
    <3> QED BY <3>7, <3>8, <3>9 DEF TokenFacts
  <2> QED BY <1>6, <2>3, <2>4 DEF SaveToken
<1>9. CASE RevokeToken(r)
  <2> DEFINE k == s.cred
             old == [member |-> s.row, client |-> s.client, revoked |-> TRUE,
                     from |-> IF k = Old THEN None ELSE task[k].cred]
  <2>1. /\ s.op = "refresh" /\ s.pc = 3 /\ k \in Inserter
        /\ UNCHANGED <<orgVars, oauth, fakts, codes, loose, grants, claims>>
        /\ UNCHANGED <<grants, claims, codes>>
    BY <1>9, <1>a, <1>k DEF RevokeToken, InPlace, InMemory
  <2>2. CASE Fail(r) /\ tokens' = tokens
    BY <1>e, <1>r, <2>1, <2>2 DEF oauthVars
  <2>3. CASE s.row \in members /\ tokens' = [tokens EXCEPT ![k] = old] /\ Proceed(r)
    <3>1. PICK j, m, c : j = k /\ m = s.row /\ c = s.client
      OBVIOUS
    <3>2. OfGrant(j, m, c)
      BY <1>f, <2>1, <3>1 DEF TokenFactsOf
    <3>3. OfGrant(j, m, c)'
      <4>1. Lasts
        BY <1>u, <2>1 DEF Lasts
      <4>2. \A p \in Request : task[p].op \in GrantOp =>
              task'[p].op = task[p].op /\ task'[p].cred = task[p].cred
        BY <1>b, <1>k DEF Moves
      <4> QED BY <2>1, <3>1, <3>2, <4>1, <4>2, OfGrantStays
    <3>4. \A i \in Inserter : tokens'[i] # None =>
            \E a, b : /\ tokens'[i].member = a /\ tokens'[i].client = b
                      /\ OfGrant(i, a, b) \/ OfGrant(i, a, b)'
      <4>1. ASSUME NEW i \in Inserter, i # k, tokens'[i] # None
            PROVE  \E a, b : /\ tokens'[i].member = a /\ tokens'[i].client = b
                             /\ OfGrant(i, a, b) \/ OfGrant(i, a, b)'
        <5>1. tokens'[i] = tokens[i]
          BY <1>t, <2>3, <4>1 DEF ClientTypes
        <5> QED BY <1>w, <4>1, <5>1
      <4>2. tokens'[k].member = m /\ tokens'[k].client = c
        BY <1>t, <2>1, <2>3, <3>1 DEF ClientTypes
      <4> HIDE DEF OfGrant
      <4> QED BY <3>1, <3>2, <4>1, <4>2
    <3>5. Remembers(t, s) /\ t.pc = 3
      <4>1. Len(Program[s.op]) = 3
        BY <2>1, Lengths
      <4> QED BY <1>b, <1>k, <2>1, <2>3, <4>1, ProceedsOf
    <3>6. TokenFactsOf(r)'
      <4>1. task'[r].cred = j /\ task'[r].row = m /\ task'[r].client = c
        BY <1>m, <3>1, <3>5 DEF Remembers
      <4>2. OfGrant(task[r].cred, task[r].row, task[r].client)'
        BY <3>3, <4>1 DEF OfGrant
      <4> HIDE DEF OfGrant
      <4> QED BY <1>f, <1>m, <2>1, <3>5, <4>2 DEF TokenFactsOf, GrantOp
    <3> HIDE DEF OfGrant
    <3> QED BY <1>b, <1>k, <1>u, <2>1, <3>4, <3>6, TokensRead
  <2> QED BY <1>9, <2>2, <2>3 DEF RevokeToken
<1>v. ASSUME s.op \in {"api", "info"}
      PROVE  /\ s.cred \in Inserter /\ claims[s.cred] # None
             /\ grants[r] = None /\ claims[r] = None
  BY <1>f, <1>k, <1>v DEF TokenFactsOf, GrantOp, InMemory, Recorded
<1>11. CASE ExpandOrganization(r)
  <2>1. s.op = "api" /\ s.pc = 1 /\ UNCHANGED oauthVars /\ UNCHANGED <<grants, claims>>
    BY <1>11, <1>a DEF ExpandOrganization, InPlace, oauthVars
  <2>2. CASE Fail(r)
    BY <1>e, <1>r, <2>1, <2>2
  <2>3. ASSUME NEW o \in Named(claims[s.cred].slug),
               Go(r, [s EXCEPT !.org = o, !.user = claims[s.cred].user])
        PROVE  TokenFacts'
    <3> DEFINE n == [s EXCEPT !.org = o, !.user = claims[s.cred].user]
    <3>1. o \in OrgId /\ orgs[o] # None /\ orgs[o].slug = claims[s.cred].slug
      BY DEF Named
    <3>2. claims[s.cred].user \in User
      BY <1>c, <1>v, <2>1 DEF Claims
    <3>3. Keeps(n, s) /\ n.org = o /\ n.user = claims[s.cred].user
      BY <1>k, <2>1, <3>1, <3>2 DEF Keeps, Task
    <3>4. Remembers(t, n) /\ t.pc = 2 /\ t.status = "running"
      <4>1. Len(Program[s.op]) = 3
        BY <2>1, Lengths
      <4> QED BY <1>b, <1>k, <2>1, <2>3, <3>3, <4>1, GoesToOf
    <3>5. t.org = o /\ t.user = claims[s.cred].user /\ <<claims[s.cred].slug, o>> \in held
      BY <1>f, <3>1, <3>3, <3>4 DEF Remembers, TokenRows
    <3>6. TokenFactsOf(r)'
      BY <1>m, <1>u, <1>v, <2>1, <3>4, <3>5 DEF TokenFactsOf
    <3> QED BY <1>r, <2>1, <3>6
  <2> QED BY <1>11, <2>2, <2>3 DEF ExpandOrganization
<1>12. CASE ExpandClient(r)
  <2> DEFINE c == claims[s.cred].client
             n == [s EXCEPT !.client = c]
  <2>1. s.op = "api" /\ s.pc = 2 /\ UNCHANGED oauthVars /\ UNCHANGED <<grants, claims>>
    BY <1>12, <1>a DEF ExpandClient, InPlace, oauthVars
  <2>2. CASE Fail(r)
    BY <1>e, <1>r, <2>1, <2>2
  <2>3. CASE Go(r, n)
    <3>1. c \in ClientId
      BY <1>c, <1>v, <2>1 DEF Claims
    <3>2. Keeps(n, s) /\ n.org = s.org /\ n.user = s.user
      BY <1>k, <2>1, <3>1 DEF Keeps, Task
    <3>3. Remembers(t, n) /\ t.pc = 3 /\ t.status = "running"
      <4>1. Len(Program[s.op]) = 3
        BY <2>1, Lengths
      <4> QED BY <1>b, <1>k, <2>1, <2>3, <3>2, <4>1, GoesToOf
    <3>4. TokenFactsOf(r)'
      BY <1>f, <1>m, <1>u, <1>v, <2>1, <3>2, <3>3 DEF TokenFactsOf, Remembers
    <3> QED BY <1>r, <2>1, <3>4
  <2> QED BY <1>12, <2>2, <2>3 DEF ExpandClient
<1>13. CASE ExpandMembership(r)
  <2>1. s.op = "api" /\ s.pc = 3 /\ UNCHANGED oauthVars /\ UNCHANGED <<grants, claims>>
    BY <1>13, <1>a DEF ExpandMembership, InPlace, oauthVars
  <2>2. CASE Fail(r)
    BY <1>e, <1>r, <2>1, <2>2
  <2>3. ASSUME NEW m \in RowsOf(s.org, s.user), Go(r, [s EXCEPT !.row = m])
        PROVE  TokenFacts'
    <3> DEFINE n == [s EXCEPT !.row = m]
    <3>1. m \in Membership /\ m.org = s.org /\ m.user = s.user
      BY <1>t DEF RowsOf, RowTypes
    <3>2. Keeps(n, s) /\ n.org = s.org /\ n.user = s.user /\ n.row = m
      BY <1>k, <2>1, <3>1 DEF Keeps, Task
    <3>3. Remembers(t, n) /\ t.pc = 3
      <4>1. Len(Program[s.op]) = 3
        BY <2>1, Lengths
      <4> QED BY <1>b, <1>k, <2>1, <2>3, <3>2, <4>1, GoesToOf
    <3>4. TokenFactsOf(r)'
      BY <1>f, <1>m, <1>u, <1>v, <2>1, <3>1, <3>2, <3>3 DEF TokenFactsOf, Remembers
    <3> QED BY <1>r, <2>1, <3>4
  <2> QED BY <1>13, <2>2, <2>3 DEF ExpandMembership
<1>14. CASE ValidateToken(r)
  <2> DEFINE n == [s EXCEPT !.row = tokens[s.cred].member]
  <2>1. s.op = "info" /\ s.pc = 1 /\ UNCHANGED oauthVars /\ UNCHANGED <<grants, claims>>
    BY <1>14, <1>a DEF ValidateToken, InPlace, oauthVars
  <2>2. CASE Fail(r)
    BY <1>e, <1>r, <2>1, <2>2
  <2>3. CASE tokens[s.cred] # None /\ Go(r, n)
    <3>1. tokens[s.cred].member \in Membership
          /\ OfGrant(s.cred, tokens[s.cred].member, tokens[s.cred].client)
      BY <1>f, <1>t, <1>v, <2>1, <2>3 DEF TokenRows, ClientTypes, RowTypes
    <3>2. Keeps(n, s) /\ n.row = tokens[s.cred].member
      BY <1>k, <2>1, <3>1 DEF Keeps, Task
    <3>3. Remembers(t, n) /\ t.pc = 2 /\ t.status = "running"
      <4>1. Len(Program[s.op]) = 2
        BY <2>1, Lengths
      <4> QED BY <1>b, <1>k, <2>1, <2>3, <3>2, <4>1, GoesToOf
    <3>4. t.row.user = claims[s.cred].user /\ t.row.org = claims[s.cred].org
      BY <3>1, <3>2, <3>3 DEF Remembers, OfGrant
    <3>5. TokenFactsOf(r)'
      BY <1>m, <1>v, <2>1, <3>3, <3>4 DEF TokenFactsOf
    <3> QED BY <1>r, <2>1, <3>5
  <2> QED BY <1>14, <2>2, <2>3 DEF ValidateToken
<1>15. CASE DescribeUser(r)
  <2> DEFINE m == s.row
             n == [s EXCEPT !.user = m.user, !.org = m.org, !.slug = orgs[m.org].slug]
  <2>1. s.op = "info" /\ s.pc = 2 /\ UNCHANGED oauthVars /\ UNCHANGED <<grants, claims>>
    BY <1>15, <1>a DEF DescribeUser, InPlace, oauthVars
  <2>2. CASE Fail(r)
    BY <1>e, <1>r, <2>1, <2>2
  <2>3. CASE m \in members /\ Go(r, n)
    <3>1. m.user \in User /\ m.org \in OrgId /\ orgs[m.org].slug \in Slug
      BY <1>t, <2>3, Parts DEF ServerInv, Typing, RowTypes, Membership, OrgTypes, Organization
    <3>2. Keeps(n, s) /\ n.row = s.row /\ n.org = m.org
      BY <1>k, <2>1, <3>1 DEF Keeps, Task
    <3>3. Remembers(t, n) /\ t.pc = 2
      <4>1. Len(Program[s.op]) = 2
        BY <2>1, Lengths
      <4> QED BY <1>b, <1>k, <2>1, <2>3, <3>2, <4>1, GoesToOf
    <3>4. TokenFactsOf(r)'
      BY <1>f, <1>m, <1>v, <2>1, <3>2, <3>3 DEF TokenFactsOf, Remembers
    <3> QED BY <1>r, <2>1, <3>4
  <2> QED BY <1>15, <2>2, <2>3 DEF DescribeUser
<1> QED
  BY <1>1, <1>2, <1>3, <1>4, <1>5, <1>6, <1>7, <1>8, <1>9, <1>10, <1>11, <1>12, <1>13, <1>14,
     <1>15 DEF OAuthStep

LEMMA TokensGoOn ==
  ASSUME ServerInv, TokenFacts, [ServerNext]_serverVars
  PROVE  TokenFacts'
<1>u. ASSUME UNCHANGED <<grants, claims, codes, tokens, held, orgs>>
      PROVE  /\ Lasts /\ UNCHANGED <<grants, claims>> /\ held \subseteq held'
             /\ \A k \in Inserter : /\ codes'[k] \in {codes[k], None}
                                    /\ tokens'[k] \in {tokens[k], None}
             /\ \A o \in OrgId : orgs'[o] # None =>
                  orgs'[o] = orgs[o] \/ <<orgs'[o].slug, o>> \in held'
  BY <1>u DEF Lasts
<1>n. ASSUME UNCHANGED <<grants, claims, codes, tokens, held, orgs>>,
             \A p \in Request : task[p].op \in GrantOp =>
               task'[p].op = task[p].op /\ task'[p].cred = task[p].cred
      PROVE  TokenRows'
  <2>1. \A t \in Inserter : tokens'[t] # None =>
          \E m, c : /\ tokens'[t].member = m /\ tokens'[t].client = c
                    /\ OfGrant(t, m, c) \/ OfGrant(t, m, c)'
    BY <1>n DEF TokenFacts, TokenRows
  <2>2. \A k \in Inserter : codes'[k] # None => codes'[k] = grants'[k]
    BY <1>n DEF TokenFacts, TokenRows
  <2>3. \A t \in Inserter : claims'[t] = claims[t]
    BY <1>n
  <2> QED BY <1>u, <1>n, <2>1, <2>2, <2>3, TokenRowsOn
<1>1. ASSUME NEW r \in Request, Step(r)
      PROVE  TokenFacts'
  <2>1. CASE OrganizationStep(r)
    BY <1>1, <2>1, TokensOfOrganizations
  <2>2. CASE OAuthStep(r)
    BY <1>1, <2>2, TokensOfOAuth
  <2>3. ASSUME task[r].op \notin OAuthOp, UNCHANGED <<grants, claims, codes, tokens, held, orgs>>
        PROVE  TokenFacts'
    BY <1>1, <1>u, <2>3, StepKinds, TokenFactsAside
  <2>4. CASE TailnetStep(r)
    <3>1. UNCHANGED <<grants, claims, codes, tokens, held, orgs>>
      BY <2>4 DEF TailnetStep, CreateTailnet, InsertLayer, PushPolicy, ReadLayer, CheckMember,
         MintKey, StoreKey, orgVars, oauthVars
    <3>2. task[r].op \notin OAuthOp
      BY <1>1, <2>4, StepKinds, Groups DEF ServerInv, Typing, TailnetOp, OAuthOp
    <3> QED BY <2>3, <3>1, <3>2
  <2>5. CASE SocialStep(r) /\ UNCHANGED <<orgVars, oauthVars>>
    <3>1. task[r].op \notin OAuthOp
      BY <1>1, <2>5, StepKinds, Groups DEF ServerInv, Typing, SocialOp, OAuthOp
    <3> QED BY <2>3, <2>5, <3>1 DEF orgVars, oauthVars
  <2>6. CASE InventoryStep(r) /\ UNCHANGED <<orgVars, oauthVars>>
    <3>1. task[r].op \notin OAuthOp
      BY <1>1, <2>6, StepKinds, Groups DEF ServerInv, Typing, InventoryOp, OAuthOp
    <3> QED BY <2>3, <2>6, <3>1 DEF orgVars, oauthVars
  <2> QED BY <1>1, <2>1, <2>2, <2>4, <2>5, <2>6, StepKinds
<1>2. ASSUME NEW r \in Request, Arrive(r)
      PROVE  TokenFacts'
  <2>1. /\ Begins(r) /\ UNCHANGED <<grants, claims, codes, tokens, held, orgs>>
        /\ task[r].op = None /\ task'[r].pc = 1 /\ task'[r].status = "running"
    BY <1>2, Arrivals DEF orgVars, oauthVars, Begins, ServerInv, Typing, Flow
  <2>2. task[r].op \notin GrantOp /\ task[r].op # "accept"
    BY <2>1, TopicAssumption, Ops DEF GrantOp
  <2>3. \A p \in Request : task[p].op \in GrantOp =>
          task'[p].op = task[p].op /\ task'[p].cred = task[p].cred
    BY <2>1, <2>2 DEF Begins
  <2>4. task'[r].op = "exchange" => grants'[task'[r].cred] # None
    <3>1. CASE OAuthArrive(r)
      BY <2>1, <3>1, OAuthArrives DEF ServerInv
    <3>2. CASE ~OAuthArrive(r)
      BY <1>2, <3>2, Arrivals, OrganizationArrives, TailnetArrives
         DEF BeginsSocial, BeginsInventory, SocialOp, InventoryOp, ServerInv
    <3> QED BY <3>1, <3>2
  <2>5. TokenFactsOf(r)'
    <3>1. claims'[r] = None /\ grants'[r] = None
      BY <2>1, <2>2 DEF TokenFacts, TokenFactsOf
    <3>2. ~(task'[r].pc >= 2) /\ task'[r].status \notin {"done"}
      BY <2>1
    <3> QED BY <2>4, <3>1, <3>2 DEF TokenFactsOf
  <2>6. \A q \in Request \ {r} : TokenFactsOf(q)'
    BY <1>u, <2>1, <2>3, OthersStand, TokenFactsStand
  <2> QED BY <1>n, <2>1, <2>3, <2>5, <2>6 DEF TokenFacts
<1>3. ASSUME NEW b \in Boot, Restart(b)
      PROVE  TokenFacts'
  <2>1. /\ UNCHANGED <<grants, claims, codes, tokens, held, orgs>>
        /\ b \in Request /\ task[b].op = None /\ task'[b].op = "ensureusers"
        /\ \A q \in Request \ {b} : Stands(q)
    BY <1>3, Boots DEF oauthVars, ServerInv, Typing
  <2>2. task[b].op \notin GrantOp /\ task[b].op # "accept"
    BY <2>1, TopicAssumption, Ops DEF GrantOp
  <2>3. \A p \in Request : task[p].op \in GrantOp =>
          task'[p].op = task[p].op /\ task'[p].cred = task[p].cred
    BY <2>1, <2>2 DEF Stands, Remembers
  <2>5. TokenFactsOf(b)'
    BY <2>1, <2>2 DEF TokenFacts, TokenFactsOf
  <2>6. \A q \in Request \ {b} : TokenFactsOf(q)'
    BY <1>u, <2>1, <2>3, TokenFactsStand
  <2> QED BY <1>n, <2>1, <2>3, <2>5, <2>6 DEF TokenFacts
<1>4. CASE UNCHANGED serverVars
  BY <1>4 DEF serverVars, accountVars, orgVars, oauthVars, taskVars, TokenFacts, TokenRows, OfGrant,
     TokenFactsOf
<1> QED BY <1>1, <1>2, <1>3, <1>4 DEF ServerNext

LEMMA TokensBegin ==
  ASSUME ServerInit
  PROVE  TokenFacts
<1> USE DEF ServerInit
<1>t. \A r \in Request : task[r].op \notin Op
  BY TopicAssumption DEF AccountInit, NoTask
<1>x. Old \notin Request /\ Old \in Inserter /\ Old \in OrgId
  BY AccountAssumption DEF Inserter, OrgId
<1>1. \A r \in Request : TokenFactsOf(r)
  BY <1>t, <1>x, Ops DEF TokenFactsOf, AccountInit, Inserter
<1>2. TokenRows
  <2>1. \A t \in Inserter : tokens[t] # None => OfGrant(t, tokens[t].member, tokens[t].client)
    <3>1. SUFFICES OfGrant(Old, tokens[Old].member, tokens[Old].client)
      BY DEF AccountInit
    <3>2. claims[Old] # None
      <4>1. ServerInv
        BY ServerBegins
      <4>2. [user |-> Member, slug |-> ConfSlug, client |-> Old, org |-> Old] \in Claims
        BY <1>x, AccountAssumption DEF Claims, Slug, ClientId
      <4> QED BY <1>x, <4>2, NoRow DEF AccountInit
    <3> QED BY <1>x, <3>2 DEF OfGrant, AccountInit, OtherMember
  <2> QED BY <1>x, <2>1 DEF TokenRows, AccountInit
<1> QED BY <1>1, <1>2 DEF TokenFacts

LEMMA TokensHold == ServerSpec => []TokenFacts
<1>1. ServerInit => TokenFacts
  BY TokensBegin
<1>2. ServerInv /\ TokenFacts /\ [ServerNext]_serverVars => TokenFacts'
  BY TokensGoOn
<1> QED BY <1>1, <1>2, ServerHolds, PTL DEF ServerSpec

\* An API request acts as the token's user, as a member of the organization it
\* found by the slug the token carries, which is the token's own unless another
\* has had that slug; user_info tells of the token's own.
THEOREM ContextsFitTokens == ServerSpec => []ContextFitsToken
<1>1. ServerInv /\ TokenFacts => ContextFitsToken
  <2> SUFFICES ASSUME ServerInv, TokenFacts, NEW r \in Request,
                      task[r].op \in {"api", "info"}, task[r].status = "done"
               PROVE  LET c == claims[task[r].cred]
                      IN  /\ task[r].row.user = c.user /\ task[r].row.org = task[r].org
                          /\ task[r].op = "info" \/ HeldByOne(c.slug) => task[r].org = c.org
    BY DEF ContextFitsToken
  <2> DEFINE t == task[r]
             c == claims[t.cred]
  <2>1. TokenFactsOf(r) /\ t.cred \in Inserter /\ c # None
    BY DEF TokenFacts, ServerInv, Typing, InMemory, Recorded
  <2>2. CASE t.op = "info"
    BY <2>1, <2>2 DEF TokenFactsOf
  <2>3. CASE t.op = "api"
    <3>1. <<c.slug, t.org>> \in held /\ <<c.slug, c.org>> \in held
          /\ t.row.user = t.user /\ t.row.org = t.org /\ t.user = c.user
      BY <2>1, <2>3 DEF TokenFactsOf, TokenFacts, TokenRows
    <3>2. HeldByOne(c.slug) => t.org = c.org
      <4>1. PICK s, o, p : s = c.slug /\ o = t.org /\ p = c.org
        OBVIOUS
      <4>2. HeldByOne(s) => <<s, o>> = <<s, p>>
        BY <3>1, <4>1 DEF HeldByOne
      <4> QED BY <4>1, <4>2
    <3> QED BY <2>3, <3>1, <3>2
  <2> QED BY <2>2, <2>3
<1> QED BY <1>1, ServerHolds, TokensHold, PTL

-----------------------------------------------------------------------------
(* Tailnets, layers and keys *)

\* The request has inserted its layer, if it could.
Laid(r) == task[r].op = "tailnet" /\ task[r].pc >= 4

\* A layer is inserted once, and a key handed out and recorded once; tailnets
\* stay what they were created for.
TailnetFactsOf(r) ==
  LET t == task[r]
  IN  /\ layers[r] # None => Laid(r)
      /\ issued[r] # None => t.op = "authkey" /\ tailnets[issued[r].tailnet] = issued[r].org
      /\ authkeys[r] # None =>
           /\ t.op = "authkey" /\ t.pc >= 4 /\ issued[r] # None
           /\ issued[r].tailnet = layers[authkeys[r].layer].tailnet
      /\ t.op = "tailnet" /\ t.pc >= 3 => tailnets[t.slug] = t.org
      /\ t.op = "authkey" /\ t.cred \in Request => Laid(t.cred)
      /\ t.op = "authkey" /\ t.pc >= 2 =>
           /\ tailnets[t.slug] = t.org
           /\ layers[t.cred] # None => layers[t.cred].tailnet = t.slug
      /\ t.op = "authkey" /\ t.pc >= 4 => issued[r] # None /\ issued[r].tailnet = t.slug

TailnetFacts ==
  /\ \A l \in Inserter : layers[l] # None => tailnets[layers[l].tailnet] = layers[l].org
  /\ \A r \in Request : TailnetFactsOf(r)

\* What a step leaves of tailnets and layers.
TailnetsLast ==
  /\ \A s \in Slug : tailnets[s] # None => tailnets'[s] = tailnets[s]
  /\ \A l \in Inserter :
       layers'[l] \in {layers[l], None} \/ (l \in Request /\ ~Laid(l))
  /\ \A l \in Request : Laid(l) => task'[l].op = "tailnet" /\ task'[l].pc >= 4

LEMMA TailnetsStand ==
  ASSUME ServerInv, ServerInv', TailnetFacts, TailnetsLast, NEW q \in Request, Stands(q),
         issued'[q] = issued[q], layers'[q] \in {layers[q], None},
         authkeys'[q] \in {authkeys[q], None}
  PROVE  TailnetFactsOf(q)'
<1> DEFINE s == task[q]
           t == task'[q]
<1>i. q \in Inserter
  BY DEF Inserter
<1>1. /\ t.op = s.op /\ t.cred = s.cred /\ t.slug = s.slug /\ t.org = s.org /\ t.pc = s.pc
  BY DEF Stands, Remembers
<1>f. TailnetFactsOf(q) /\ InMemory(s) /\ s \in Task
  BY DEF TailnetFacts, ServerInv, Typing, Flow
<1>t. /\ layers \in [Inserter -> Layer \cup {None}]
      /\ authkeys \in [Inserter -> AuthKey \cup {None}]
      /\ issued \in [Request -> IssuedKey \cup {None}]
      /\ authkeys'[q] # None => layers'[authkeys'[q].layer] # None
  BY <1>i DEF ServerInv, Typing, AccountTypeOK, TailnetTypeOK
<1>n. None \notin OrgId /\ None \notin Layer /\ None \notin AuthKey
  BY NotNull, NoRow
<1> HIDE DEF s, t
<1>2. layers'[q] # None => Laid(q)'
  BY <1>f DEF TailnetFactsOf, TailnetsLast, Laid
<1>3. issued'[q] # None => t.op = "authkey" /\ tailnets'[issued'[q].tailnet] = issued'[q].org
  BY <1>1, <1>f, <1>t, <1>n DEF TailnetFactsOf, TailnetsLast, IssuedKey, s
<1>4. authkeys'[q] # None =>
        /\ t.op = "authkey" /\ t.pc >= 4 /\ issued'[q] # None
        /\ issued'[q].tailnet = layers'[authkeys'[q].layer].tailnet
  <2>1. SUFFICES ASSUME authkeys'[q] # None
                 PROVE  /\ t.op = "authkey" /\ t.pc >= 4 /\ issued'[q] # None
                        /\ issued'[q].tailnet = layers'[authkeys'[q].layer].tailnet
    OBVIOUS
  <2>2. PICK l : l = authkeys[q].layer
    OBVIOUS
  <2>3. authkeys'[q] = authkeys[q] /\ authkeys[q] # None /\ l \in Inserter /\ layers'[l] # None
    BY <1>i, <1>t, <2>1, <2>2 DEF AuthKey
  <2>4. layers[l] # None
    BY <1>i, <2>2, <2>3 DEF ServerInv, Typing, AccountTypeOK
  <2>5. l \in Request => Laid(l)
    BY <2>4 DEF TailnetFacts, TailnetFactsOf
  <2>6. layers'[l] = layers[l]
    BY <2>3, <2>5 DEF TailnetsLast
  <2> QED BY <1>1, <1>f, <2>2, <2>3, <2>6 DEF TailnetFactsOf, s
<1>5. t.op = "tailnet" /\ t.pc >= 3 => tailnets'[t.slug] = t.org
  BY <1>1, <1>f, <1>n DEF TailnetFactsOf, TailnetsLast, InMemory, s, Task
<1>6. t.op = "authkey" /\ t.cred \in Request =>
         task'[t.cred].op = "tailnet" /\ task'[t.cred].pc >= 4
  BY <1>1, <1>f DEF TailnetFactsOf, TailnetsLast, s
<1>7. t.op = "authkey" /\ t.pc >= 2 =>
        /\ tailnets'[t.slug] = t.org
        /\ layers'[t.cred] # None => layers'[t.cred].tailnet = t.slug
  BY <1>1, <1>f, <1>n DEF TailnetFactsOf, TailnetsLast, InMemory, s, Task
<1>8. t.op = "authkey" /\ t.pc >= 4 => issued'[q] # None /\ issued'[q].tailnet = t.slug
  BY <1>1, <1>f DEF TailnetFactsOf, s
<1> QED BY <1>2, <1>3, <1>4, <1>5, <1>6, <1>7, <1>8 DEF TailnetFactsOf, Laid, t

\* Steps and arrivals that neither create nor insert anything here.
LEMMA TailnetsAside ==
  ASSUME ServerInv, ServerInv', TailnetFacts, UNCHANGED tailnetVars,
         \A l \in Inserter : /\ layers'[l] \in {layers[l], None}
                             /\ authkeys'[l] \in {authkeys[l], None},
         NEW r \in Request, \A q \in Request \ {r} : Stands(q),
         Laid(r) => task'[r].op = "tailnet" /\ task'[r].pc >= 4,
         TailnetFactsOf(r)' \/ Stands(r)
  PROVE  TailnetFacts'
<1>1. TailnetsLast
  BY DEF TailnetsLast, tailnetVars, Stands, Remembers, Laid
<1>2. \A q \in Request : issued'[q] = issued[q] /\ layers'[q] \in {layers[q], None}
                         /\ authkeys'[q] \in {authkeys[q], None}
  BY DEF tailnetVars, Inserter
<1>3. \A q \in Request : Stands(q) => TailnetFactsOf(q)'
  BY <1>1, <1>2, TailnetsStand
<1>4. \A l \in Inserter : layers'[l] # None => tailnets'[layers'[l].tailnet] = layers'[l].org
  BY DEF TailnetFacts, tailnetVars
<1> QED BY <1>3, <1>4 DEF TailnetFacts

\* Steps of other requests than those about tailnets, and reading the
\* organization whose tailnet is to be created.
LEMMA TailnetFactsAside ==
  ASSUME ServerInv, ServerInv', TailnetFacts, NEW r \in Request, Moves(r),
         UNCHANGED tailnetVars,
         \A l \in Inserter : /\ layers'[l] \in {layers[l], None}
                             /\ authkeys'[l] \in {authkeys[l], None},
         \/ task[r].op \notin TailnetOp
         \/ /\ task[r].op = "tailnet" /\ task[r].pc < 3
            /\ task'[r].op = "tailnet" /\ task'[r].pc < 3
  PROVE  TailnetFacts'
<1>1. \A q \in Request \ {r} : Stands(q)
  BY OthersStand
<1>2. r \in Inserter
  BY DEF Inserter
<1>3. CASE task[r].op \notin TailnetOp
  <2>1. ~Laid(r) /\ task'[r].op \notin TailnetOp
    BY <1>3 DEF Laid, TailnetOp, Moves, BootOp
  <2>2. layers[r] = None /\ issued[r] = None /\ authkeys[r] = None
    BY <1>3, <2>1 DEF TailnetFacts, TailnetFactsOf, TailnetOp
  <2>3. layers'[r] = None /\ issued'[r] = None /\ authkeys'[r] = None
    BY <1>2, <2>2 DEF tailnetVars
  <2>4. TailnetFactsOf(r)'
    BY <2>1, <2>3 DEF TailnetFactsOf, TailnetOp
  <2> QED BY <1>1, <2>1, <2>4, TailnetsAside
<1>4. CASE /\ task[r].op = "tailnet" /\ task[r].pc < 3
           /\ task'[r].op = "tailnet" /\ task'[r].pc < 3
  <2>0. task[r].pc \in 0..9 /\ task'[r].pc \in 0..9
    BY DEF Moves, ServerInv, Typing, Flow, Task
  <2>1. ~Laid(r) /\ ~(task'[r].pc >= 3)
    BY <1>4, <2>0 DEF Laid
  <2>2. layers[r] = None /\ issued[r] = None /\ authkeys[r] = None
    BY <1>4, <2>1 DEF TailnetFacts, TailnetFactsOf
  <2>3. layers'[r] = None /\ issued'[r] = None /\ authkeys'[r] = None
    BY <1>2, <2>2 DEF tailnetVars
  <2>4. TailnetFactsOf(r)'
    BY <1>4, <2>1, <2>3 DEF TailnetFactsOf
  <2> QED BY <1>1, <2>1, <2>4, TailnetsAside
<1> QED BY <1>3, <1>4

LEMMA TailnetsOfOrganizations ==
  ASSUME ServerInv, ServerInv', TailnetFacts, NEW r \in Request, Step(r), OrganizationStep(r),
         UNCHANGED tailnetVars
  PROVE  TailnetFacts'
<1>1. Moves(r) /\ Flow /\ Running(r) /\ task[r] \in Task
  BY StepKinds DEF ServerInv, Typing
<1>t. /\ layers \in [Inserter -> Layer \cup {None}]
      /\ authkeys \in [Inserter -> AuthKey \cup {None}]
  BY DEF ServerInv, Typing, AccountTypeOK
<1>2. \A l \in Inserter : /\ layers'[l] \in {layers[l], None}
                          /\ authkeys'[l] \in {authkeys[l], None}
  <2>1. CASE EraseOrg(r)
    BY <2>1, <1>t DEF EraseOrg, baseVars
  <2>2. CASE UNCHANGED <<layers, authkeys>>
    BY <2>2
  <2>3. CASE ~EraseOrg(r)
    <3>1. UNCHANGED <<layers, authkeys>>
      BY <2>3 DEF OrganizationStep, SignalStep, EnsureRoles, EnsureOwner, UpsertMember, GiveAdmin,
         SaveMember, CreateProfile, InsertOrg, ReadOrg, WriteBack, CheckOwner, CollectRows,
         InsertUser, HomeOrganization, Join, Leave, ReadMember, SetRoles, ReadUser, ChooseOrg,
         SaveUser, EnsureOrg, FindMember, orgVars, baseVars
    <3> QED BY <2>2, <3>1
  <2> QED BY <2>1, <2>3
<1>3. CASE task[r].op \in OrganizationOp
  <2>1. task[r].op \notin TailnetOp
    BY <1>3 DEF OrganizationOp, TailnetOp, BootOp
  <2> QED BY <1>1, <1>2, <2>1, TailnetFactsAside
<1>4. CASE task[r].op = "tailnet" /\ task[r].pc = 1 /\ ReadOrg(r)
  <2>1. r \in Request \ Boot
    BY <1>1, <1>4 DEF Flow, Running, BootOp
  <2>2. CASE Fail(r)
    BY <1>1, <1>2, <1>4, <2>1, <2>2, Fails, TailnetFactsAside DEF Remembers
  <2>3. CASE ~Fail(r)
    <3> DEFINE o == task[r].org
               n == [task[r] EXCEPT !.user = orgs[o].owner,
                       !.slug = IF task[r].slug = None THEN orgs[o].slug ELSE task[r].slug]
    <3>1. Live(o) /\ Go(r, n) /\ o \in OrgId
      BY <1>4, <2>3 DEF ReadOrg, ServerInv, Typing, InMemory
    <3>2. orgs[o] \in Organization
      BY <3>1, Parts DEF Live, ServerInv, Typing, OrgTypes
    <3>3. Keeps(n, task[r])
      BY <1>1, <1>4, <3>1, <3>2 DEF Keeps, Task, Organization
    <3>4. Len(Program[task[r].op]) = 4
      BY <1>4, Lengths
    <3> HIDE DEF n
    <3>5. Remembers(task'[r], n) /\ task'[r].pc = 2 /\ n.op = "tailnet"
      BY <1>1, <1>4, <2>1, <3>1, <3>3, <3>4, GoesToOf DEF Keeps
    <3> QED BY <1>1, <1>2, <1>4, <3>5, TailnetFactsAside DEF Remembers
  <2> QED BY <2>2, <2>3
<1> QED BY <1>1, <1>3, <1>4, Groups

\* A request about tailnets creates, inserts, mints and stores what it has in
\* memory, each once.
LEMMA TailnetsOfTailnets ==
  ASSUME ServerInv, ServerInv', TailnetFacts, NEW r \in Request, Step(r), TailnetStep(r)
  PROVE  TailnetFacts'
<1> DEFINE s == task[r]
           t == task'[r]
<1>k. /\ Running(r) /\ Moves(r) /\ Flow /\ s \in Task /\ InMemory(s)
      /\ r \in Inserter /\ s.op \in TailnetOp
  BY StepKinds, Groups DEF ServerInv, Typing, Inserter
<1>b. r \in Request \ Boot
  BY <1>k DEF Flow, Running, BootOp, TailnetOp
<1>a. \A x : At(r, x) => InPlace(s.op, s.pc, x)
  BY StepKinds
<1>o. \A q \in Request \ {r} : Stands(q)
  BY <1>k, OthersStand
<1>m. t.op = s.op /\ t.cred = s.cred /\ t.pc >= s.pc
  BY <1>b, <1>k DEF Moves, TailnetOp
<1>n. Len(Program[s.op]) = 4
  BY <1>k, Lengths DEF TailnetOp
<1>e. ASSUME Fail(r)
      PROVE  Stands(r)
  BY <1>b, <1>e, <1>k, Fails DEF Stands
<1>p. ASSUME Proceed(r)
      PROVE  /\ Remembers(t, s)
             /\ IF s.pc < 4 THEN t.pc = s.pc + 1 ELSE t.pc = s.pc
  BY <1>b, <1>k, <1>n, <1>p, ProceedsOf
<1>f. TailnetFactsOf(r)
  BY DEF TailnetFacts
<1>t. /\ layers \in [Inserter -> Layer \cup {None}]
      /\ authkeys \in [Inserter -> AuthKey \cup {None}]
      /\ tailnets \in [Slug -> OrgId \cup {None}]
      /\ issued \in [Request -> IssuedKey \cup {None}]
  BY DEF ServerInv, Typing, AccountTypeOK, TailnetTypeOK
<1>l. Laid(r) => t.op = "tailnet" /\ t.pc >= 4
  BY <1>k, <1>m DEF Laid, Moves, Flow, Task

\* Steps that only read, or refuse.
<1>r. ASSUME UNCHANGED <<layers, authkeys, tailnets, issued>>, TailnetFactsOf(r)' \/ Stands(r)
      PROVE  TailnetFacts'
  BY <1>l, <1>o, <1>r, TailnetsAside DEF tailnetVars
<1>g. ASSUME TailnetsLast,
             \A q \in Request \ {r} : /\ issued'[q] = issued[q]
                                      /\ layers'[q] = layers[q] /\ authkeys'[q] = authkeys[q],
             TailnetFactsOf(r)',
             \A l \in Inserter : layers'[l] # None => tailnets'[layers'[l].tailnet] = layers'[l].org
      PROVE  TailnetFacts'
  <2>1. \A q \in Request \ {r} : TailnetFactsOf(q)'
    BY <1>g, <1>o, TailnetsStand
  <2> QED BY <1>g, <2>1 DEF TailnetFacts
<1>i. \A q \in Request : Laid(q) => task'[q].op = "tailnet" /\ task'[q].pc >= 4
  BY <1>l, <1>o DEF Laid, Stands, Remembers
<1>1. CASE CreateTailnet(r)
  <2>1. /\ s.op = "tailnet" /\ s.pc = 2 /\ UNCHANGED <<layers, authkeys, issued>>
    BY <1>1, <1>a DEF CreateTailnet, InPlace, orgVars, baseVars
  <2>2. s.slug \in Slug /\ s.org \in OrgId /\ s.org # None
    BY <1>k, <2>1, NotNull DEF InMemory
  <2>3. CASE Fail(r) /\ UNCHANGED tailnets
    BY <1>e, <1>r, <2>1, <2>3
  <2>4. CASE /\ tailnets[s.slug] = None /\ Proceed(r)
             /\ tailnets' = [tailnets EXCEPT ![s.slug] = s.org]
    <3>1. Remembers(t, s) /\ t.pc = 3
      BY <1>p, <2>1, <2>4
    <3>2. TailnetsLast
      BY <1>i, <1>t, <2>1, <2>2, <2>4 DEF TailnetsLast
    <3>3. layers'[r] = None /\ issued'[r] = None /\ authkeys'[r] = None
      BY <1>f, <2>1 DEF TailnetFactsOf, Laid
    <3>4. tailnets'[t.slug] = t.org
      BY <1>t, <2>2, <2>4, <3>1 DEF Remembers
    <3>5. TailnetFactsOf(r)'
      BY <1>m, <2>1, <3>3, <3>4 DEF TailnetFactsOf
    <3>6. \A l \in Inserter : layers'[l] # None => tailnets'[layers'[l].tailnet] = layers'[l].org
      <4>1. \A l \in Inserter : layers[l] # None =>
              tailnets[layers[l].tailnet] = layers[l].org /\ layers[l].org # None
              /\ layers[l].tailnet \in Slug
        BY <1>t, NotNull DEF TailnetFacts, Layer
      <4> QED BY <2>1, <3>2, <4>1 DEF TailnetsLast
    <3> QED BY <1>g, <2>1, <3>2, <3>5, <3>6
  <2> QED BY <1>1, <2>3, <2>4 DEF CreateTailnet
<1>2. CASE InsertLayer(r)
  <2> DEFINE layer == [org |-> s.org, tailnet |-> s.slug]
  <2>1. /\ s.op = "tailnet" /\ s.pc = 3 /\ UNCHANGED <<authkeys, issued, tailnets>>
    BY <1>2, <1>a DEF InsertLayer, InPlace, tailnetVars
  <2>2. CASE Fail(r) /\ UNCHANGED layers
    BY <1>e, <1>r, <2>1, <2>2
  <2>3. CASE layers' = [layers EXCEPT ![r] = layer] /\ Proceed(r)
    <3>1. Remembers(t, s) /\ t.pc = 4 /\ t.op = "tailnet"
      BY <1>p, <2>1, <2>3 DEF Remembers
    <3>2. tailnets[s.slug] = s.org
      BY <1>f, <2>1 DEF TailnetFactsOf
    <3>3. \A l \in Inserter : l # r => layers'[l] = layers[l]
      BY <1>t, <2>3
    <3>4. layers'[r].tailnet = s.slug /\ layers'[r].org = s.org
      BY <1>k, <1>t, <2>3
    <3>5. ~Laid(r)
      BY <2>1 DEF Laid
    <3>6. TailnetsLast
      BY <1>i, <2>1, <3>3, <3>5 DEF TailnetsLast
    <3>7. issued'[r] = None /\ authkeys'[r] = None
      BY <1>f, <2>1 DEF TailnetFactsOf
    <3>8. TailnetFactsOf(r)'
      BY <2>1, <3>1, <3>2, <3>7 DEF TailnetFactsOf, Laid, Remembers
    <3>9. \A l \in Inserter : layers'[l] # None => tailnets'[layers'[l].tailnet] = layers'[l].org
      BY <2>1, <3>2, <3>3, <3>4 DEF TailnetFacts
    <3>10. \A q \in Request \ {r} : /\ issued'[q] = issued[q]
                                    /\ layers'[q] = layers[q] /\ authkeys'[q] = authkeys[q]
      BY <2>1, <3>3 DEF Inserter
    <3> QED BY <1>g, <3>6, <3>8, <3>9, <3>10
  <2> QED BY <1>2, <2>2, <2>3 DEF InsertLayer
<1>3. CASE PushPolicy(r)
  <2>1. /\ s.op = "tailnet" /\ s.pc = 4 /\ UNCHANGED <<layers, authkeys, issued, tailnets>>
    BY <1>3, <1>a DEF PushPolicy, InPlace, tailnetVars, orgVars, baseVars
  <2>2. CASE Fail(r)
    BY <1>e, <1>r, <2>1, <2>2
  <2>3. CASE Proceed(r)
    <3>1. Remembers(t, s) /\ t.pc = 4
      BY <1>p, <2>1, <2>3
    <3>2. TailnetFactsOf(r)'
      BY <1>f, <2>1, <3>1 DEF TailnetFactsOf, Laid, Remembers
    <3> QED BY <1>r, <2>1, <3>2
  <2> QED BY <1>3, <2>2, <2>3 DEF PushPolicy
<1>4. CASE ReadLayer(r)
  <2> DEFINE l == s.cred
             n == [s EXCEPT !.org = layers[l].org, !.slug = layers[l].tailnet]
  <2>1. /\ s.op = "authkey" /\ s.pc = 1 /\ UNCHANGED <<layers, authkeys, issued, tailnets>>
        /\ l \in Inserter
    BY <1>4, <1>a, <1>k DEF ReadLayer, InPlace, InMemory, tailnetVars, orgVars, baseVars
  <2>2. CASE Fail(r)
    BY <1>e, <1>r, <2>1, <2>2
  <2>3. CASE layers[l] # None /\ Go(r, n)
    <3>1. layers[l] \in Layer /\ layers[l].org \in OrgId /\ layers[l].tailnet \in Slug
      BY <1>t, <2>1, <2>3 DEF Layer
    <3>2. Keeps(n, s) /\ n.cred = l /\ n.org = layers[l].org /\ n.slug = layers[l].tailnet
      BY <1>k, <2>1, <3>1 DEF Keeps, Task
    <3> HIDE DEF n
    <3>3. Remembers(t, n) /\ t.pc = 2
      BY <1>b, <1>k, <1>n, <2>1, <2>3, <3>2, GoesToOf
    <3>4. tailnets[layers[l].tailnet] = layers[l].org
      BY <2>1, <2>3 DEF TailnetFacts
    <3>5. issued[r] = issued[r] /\ authkeys[r] = None /\ layers[r] = None
      BY <1>f, <2>1 DEF TailnetFactsOf, Laid
    <3>6. t.op = "authkey" /\ t.cred = l /\ t.org = layers[l].org /\ t.slug = layers[l].tailnet
      BY <1>m, <2>1, <3>2, <3>3 DEF Remembers
    <3>7. TailnetFactsOf(r)'
      <4>1. l \in Request => task'[l].op = "tailnet" /\ task'[l].pc >= 4
        BY <1>f, <1>i, <2>1 DEF TailnetFactsOf, Laid
      <4> QED BY <1>f, <2>1, <3>3, <3>4, <3>5, <3>6, <4>1 DEF TailnetFactsOf, Laid
    <3> QED BY <1>r, <2>1, <3>7
  <2> QED BY <1>4, <2>2, <2>3 DEF ReadLayer
<1>5. CASE CheckMember(r)
  <2>1. /\ s.op = "authkey" /\ s.pc = 2 /\ UNCHANGED <<layers, authkeys, issued, tailnets>>
    BY <1>5, <1>a DEF CheckMember, InPlace, tailnetVars, orgVars, baseVars
  <2>2. CASE Fail(r)
    BY <1>e, <1>r, <2>1, <2>2
  <2>3. CASE Proceed(r)
    <3>1. Remembers(t, s) /\ t.pc = 3
      BY <1>p, <2>1, <2>3
    <3>2. layers'[r] = None /\ authkeys'[r] = None
      BY <1>f, <2>1 DEF TailnetFactsOf, Laid
    <3>3. TailnetFactsOf(r)'
      <4>1. s.cred \in Request => task'[s.cred].op = "tailnet" /\ task'[s.cred].pc >= 4
        BY <1>f, <1>i, <2>1 DEF TailnetFactsOf, Laid
      <4> QED BY <1>f, <1>m, <2>1, <3>1, <3>2, <4>1 DEF TailnetFactsOf, Laid, Remembers
    <3> QED BY <1>r, <2>1, <3>3
  <2> QED BY <1>5, <2>2, <2>3 DEF CheckMember
<1>6. CASE MintKey(r)
  <2> DEFINE key == [tailnet |-> s.slug, org |-> s.org]
  <2>1. /\ s.op = "authkey" /\ s.pc = 3 /\ UNCHANGED <<layers, authkeys, tailnets>>
    BY <1>6, <1>a DEF MintKey, InPlace, orgVars, baseVars
  <2>2. CASE Fail(r) /\ UNCHANGED issued
    BY <1>e, <1>r, <2>1, <2>2
  <2>3. CASE issued' = [issued EXCEPT ![r] = key] /\ Proceed(r)
    <3>1. Remembers(t, s) /\ t.pc = 4
      BY <1>p, <2>1, <2>3
    <3>2. layers'[r] = None /\ authkeys'[r] = None
      BY <1>f, <2>1 DEF TailnetFactsOf, Laid
    <3>3. /\ issued'[r].tailnet = s.slug /\ issued'[r].org = s.org /\ issued'[r] # None
      <4>1. key \in IssuedKey
        BY <1>k, <2>1 DEF InMemory, IssuedKey
      <4>2. issued'[r] = key
        BY <1>t, <2>3
      <4>3. key # None
        BY <4>1, KeyAssumption
      <4> QED BY <4>2, <4>3
    <3>4. TailnetFactsOf(r)'
      <4>1. s.cred \in Request => task'[s.cred].op = "tailnet" /\ task'[s.cred].pc >= 4
        BY <1>f, <1>i, <2>1 DEF TailnetFactsOf, Laid
      <4> QED BY <1>f, <1>m, <2>1, <3>1, <3>2, <3>3, <4>1 DEF TailnetFactsOf, Laid, Remembers
    <3>5. TailnetsLast
      BY <1>i, <2>1 DEF TailnetsLast
    <3>6. \A q \in Request \ {r} : /\ issued'[q] = issued[q]
                                   /\ layers'[q] = layers[q] /\ authkeys'[q] = authkeys[q]
      BY <1>t, <2>1, <2>3
    <3>7. \A l \in Inserter : layers'[l] # None => tailnets'[layers'[l].tailnet] = layers'[l].org
      BY <2>1 DEF TailnetFacts
    <3> QED BY <1>g, <3>4, <3>5, <3>6, <3>7
  <2> QED BY <1>6, <2>2, <2>3 DEF MintKey
<1>7. CASE StoreKey(r)
  <2> DEFINE key == [layer |-> s.cred, creator |-> s.user]
  <2>1. /\ s.op = "authkey" /\ s.pc = 4 /\ UNCHANGED <<layers, issued, tailnets>>
    BY <1>7, <1>a DEF StoreKey, InPlace, tailnetVars
  <2>2. CASE Fail(r) /\ UNCHANGED authkeys
    BY <1>e, <1>r, <2>1, <2>2
  <2>3. CASE layers[s.cred] # None /\ authkeys' = [authkeys EXCEPT ![r] = key] /\ Proceed(r)
    <3>1. Remembers(t, s) /\ t.pc = 4
      BY <1>p, <2>1, <2>3
    <3>2. authkeys'[r].layer = s.cred
      BY <1>k, <1>t, <2>3
    <3>3. layers'[r] = None /\ issued'[r] # None /\ issued'[r].tailnet = layers'[s.cred].tailnet
      BY <1>f, <2>1, <2>3 DEF TailnetFactsOf, Laid
    <3>4. TailnetFactsOf(r)'
      <4>1. s.cred \in Request => task'[s.cred].op = "tailnet" /\ task'[s.cred].pc >= 4
        BY <1>f, <1>i, <2>1 DEF TailnetFactsOf, Laid
      <4> QED BY <1>f, <1>m, <2>1, <3>1, <3>2, <3>3, <4>1 DEF TailnetFactsOf, Laid, Remembers
    <3>5. TailnetsLast
      BY <1>i, <2>1 DEF TailnetsLast
    <3>6. \A q \in Request \ {r} : /\ issued'[q] = issued[q]
                                   /\ layers'[q] = layers[q] /\ authkeys'[q] = authkeys[q]
      BY <1>t, <2>1, <2>3 DEF Inserter
    <3>7. \A l \in Inserter : layers'[l] # None => tailnets'[layers'[l].tailnet] = layers'[l].org
      BY <2>1 DEF TailnetFacts
    <3> QED BY <1>g, <3>4, <3>5, <3>6, <3>7
  <2> QED BY <1>7, <2>2, <2>3 DEF StoreKey
<1> QED BY <1>1, <1>2, <1>3, <1>4, <1>5, <1>6, <1>7 DEF TailnetStep

LEMMA TailnetsGoOn ==
  ASSUME ServerInv, TailnetFacts, [ServerNext]_serverVars
  PROVE  TailnetFacts'
<1>u. ASSUME UNCHANGED <<layers, authkeys, tailnets, issued>>
      PROVE  /\ UNCHANGED tailnetVars
             /\ \A l \in Inserter : /\ layers'[l] \in {layers[l], None}
                                    /\ authkeys'[l] \in {authkeys[l], None}
  BY <1>u DEF tailnetVars
<1>1. ASSUME NEW r \in Request, Step(r)
      PROVE  TailnetFacts'
  <2>1. ServerInv'
    BY <1>1, StepsOver
  <2>2. CASE OrganizationStep(r) /\ UNCHANGED tailnetVars
    BY <1>1, <2>1, <2>2, TailnetsOfOrganizations
  <2>3. CASE TailnetStep(r)
    BY <1>1, <2>1, <2>3, TailnetsOfTailnets
  <2>4. ASSUME task[r].op \notin TailnetOp, UNCHANGED <<layers, authkeys, tailnets, issued>>
        PROVE  TailnetFacts'
    BY <1>1, <1>u, <2>1, <2>4, StepKinds, TailnetFactsAside
  <2>5. CASE OAuthStep(r) /\ UNCHANGED tailnetVars
    <3>1. task[r].op \notin TailnetOp /\ UNCHANGED orgVars
      BY <1>1, <2>5, StepKinds, Groups, OAuthTypes DEF ServerInv, Typing, TailnetOp, OAuthOp
    <3> QED BY <2>4, <2>5, <3>1 DEF orgVars, baseVars, tailnetVars
  <2>6. CASE SocialStep(r) /\ UNCHANGED <<orgVars, tailnetVars>>
    <3>1. task[r].op \notin TailnetOp
      BY <1>1, <2>6, StepKinds, Groups DEF ServerInv, Typing, TailnetOp, SocialOp
    <3> QED BY <2>4, <2>6, <3>1 DEF orgVars, baseVars, tailnetVars
  <2>7. CASE InventoryStep(r) /\ UNCHANGED <<orgVars, tailnetVars>>
    <3>1. task[r].op \notin TailnetOp
      BY <1>1, <2>7, StepKinds, Groups DEF ServerInv, Typing, TailnetOp, InventoryOp
    <3> QED BY <2>4, <2>7, <3>1 DEF orgVars, baseVars, tailnetVars
  <2> QED BY <1>1, <2>2, <2>3, <2>5, <2>6, <2>7, StepKinds
<1>a. ASSUME NEW r \in Request, task[r].op = None, task'[r].pc = 1,
             UNCHANGED <<layers, authkeys, tailnets, issued>>,
             task'[r].op = "authkey" => layers[task'[r].cred] # None,
             ServerInv', \A q \in Request \ {r} : Stands(q)
      PROVE  TailnetFacts'
  <2>1. task[r].op \notin TailnetOp
    BY <1>a, TopicAssumption, Ops DEF TailnetOp
  <2>2. layers[r] = None /\ issued[r] = None /\ authkeys[r] = None /\ ~Laid(r)
    BY <2>1 DEF TailnetFacts, TailnetFactsOf, Laid, TailnetOp
  <2>3. layers'[r] = None /\ issued'[r] = None /\ authkeys'[r] = None
        /\ ~(task'[r].pc >= 2) /\ ~(task'[r].pc >= 3) /\ ~(task'[r].pc >= 4)
    BY <1>a, <2>2
  <2>4. ASSUME task'[r].op = "authkey", task'[r].cred \in Request
        PROVE  task'[task'[r].cred].op = "tailnet" /\ task'[task'[r].cred].pc >= 4
    <3>1. PICK q \in Request : q = task'[r].cred
      BY <2>4
    <3>2. Laid(q)
      BY <1>a, <2>4, <3>1 DEF TailnetFacts, TailnetFactsOf
    <3>3. q # r
      BY <2>2, <3>2
    <3>4. task'[q].op = "tailnet" /\ task'[q].pc >= 4
      BY <1>a, <3>2, <3>3 DEF Laid, Stands, Remembers
    <3> QED BY <3>1, <3>4
  <2>5. TailnetFactsOf(r)'
    BY <2>3, <2>4 DEF TailnetFactsOf, Laid
  <2> QED BY <1>a, <1>u, <2>2, <2>5, TailnetsAside
<1>2. ASSUME NEW r \in Request, Arrive(r)
      PROVE  TailnetFacts'
  <2>1. /\ Begins(r) /\ UNCHANGED <<layers, authkeys, tailnets, issued>>
        /\ task[r].op = None /\ task'[r].pc = 1
    BY <1>2, Arrivals DEF orgVars, baseVars, tailnetVars, Begins, ServerInv, Typing, Flow
  <2>2. task'[r].op = "authkey" => layers[task'[r].cred] # None
    <3>1. CASE TailnetArrive(r)
      BY <3>1, TailnetArrives DEF ServerInv
    <3>2. CASE ~TailnetArrive(r)
      BY <1>2, <3>2, Arrivals, OrganizationArrives, OAuthArrives
         DEF BeginsSocial, BeginsInventory, SocialOp, InventoryOp, ServerInv
    <3> QED BY <3>1, <3>2
  <2>3. ServerInv'
    BY <1>2, Arrived
  <2>4. \A q \in Request \ {r} : Stands(q)
    BY <2>1, OthersStand
  <2> QED BY <1>a, <2>1, <2>2, <2>3, <2>4
<1>3. ASSUME NEW b \in Boot, Restart(b), UNCHANGED <<tailnetVars, socialVars, inventoryVars>>
      PROVE  TailnetFacts'
  <2>1. /\ b \in Request /\ task[b].op = None /\ task'[b].op = "ensureusers" /\ task'[b].pc = 1
        /\ UNCHANGED <<layers, authkeys, tailnets, issued>>
        /\ \A q \in Request \ {b} : Stands(q)
    BY <1>3, Boots DEF baseVars, tailnetVars, ServerInv, Typing
  <2>2. ServerInv'
    BY <1>3, Restarted
  <2> QED BY <1>a, <2>1, <2>2
<1>4. CASE UNCHANGED serverVars
  BY <1>4 DEF serverVars, accountVars, orgVars, baseVars, taskVars, tailnetVars, TailnetFacts,
     TailnetFactsOf, Laid
<1> QED BY <1>1, <1>2, <1>3, <1>4 DEF ServerNext

LEMMA TailnetsBegin ==
  ASSUME ServerInit
  PROVE  TailnetFacts
<1> USE DEF ServerInit
<1>1. \A r \in Request : task[r].op \notin Op /\ r # Old
  BY TopicAssumption, AccountAssumption DEF AccountInit, NoTask
<1>2. \A r \in Request : layers[r] = None /\ authkeys[r] = None /\ issued[r] = None
  BY <1>1 DEF AccountInit, TailnetInit, Inserter
<1>3. \A r \in Request : TailnetFactsOf(r)
  BY <1>1, <1>2, Ops DEF TailnetFactsOf
<1>4. ConfSlug \in Slug
  BY DEF Slug
<1>5. \A l \in Inserter : layers[l] # None => tailnets[layers[l].tailnet] = layers[l].org
  BY <1>4 DEF AccountInit, TailnetInit
<1> QED BY <1>3, <1>5 DEF TailnetFacts

LEMMA TailnetsHold == ServerSpec => []TailnetFacts
<1>1. ServerInit => TailnetFacts
  BY TailnetsBegin
<1>2. ServerInv /\ TailnetFacts /\ [ServerNext]_serverVars => TailnetFacts'
  BY TailnetsGoOn
<1> QED BY <1>1, <1>2, ServerHolds, PTL DEF ServerSpec

\* Tokens are of the membership and the client that were accepted, layers and
\* keys of the tailnet of their organization, whichever requests and boots came
\* between the steps that made them, and whoever took the slug over.
THEOREM GrantsAreKept == ServerSpec => []TokensFitTheirGrant
<1>1. ServerInv /\ TokenFacts /\ TailnetFacts => TokensFitTheirGrant
  <2> SUFFICES ASSUME ServerInv, TokenFacts, TailnetFacts
               PROVE  TokensFitTheirGrant
    OBVIOUS
  <2>1. ASSUME NEW r \in Request, tokens[r] # None
        PROVE  \/ /\ task[r].op = "exchange"
                  /\ tokens[r].member = grants[task[r].cred].member
                  /\ tokens[r].client = grants[task[r].cred].client
               \/ /\ task[r].op = "refresh"
                  /\ claims[task[r].cred].client = tokens[r].client
                  /\ claims[task[r].cred].user = tokens[r].member.user
                  /\ claims[task[r].cred].org = tokens[r].member.org
               \/ task[r].op = "credentials"
    <3>1. OfGrant(r, tokens[r].member, tokens[r].client)
      BY <2>1 DEF TokenFacts, TokenRows, Inserter
    <3>2. task[r].op \in GrantOp
      BY <3>1 DEF OfGrant, TokenFacts, TokenFactsOf
    <3> QED BY <3>1, <3>2 DEF OfGrant, GrantOp
  <2>2. \A l \in Inserter : layers[l] # None => tailnets[layers[l].tailnet] = layers[l].org
    BY DEF TailnetFacts
  <2>3. \A r \in Request : issued[r] # None => tailnets[issued[r].tailnet] = issued[r].org
    BY DEF TailnetFacts, TailnetFactsOf
  <2>4. \A k \in Request : authkeys[k] # None =>
          issued[k] # None /\ issued[k].tailnet = layers[authkeys[k].layer].tailnet
    BY DEF TailnetFacts, TailnetFactsOf
  <2> QED BY <2>1, <2>2, <2>3, <2>4 DEF TokensFitTheirGrant
<1> QED BY <1>1, ServerHolds, TokensHold, TailnetsHold, PTL

-----------------------------------------------------------------------------
(* Requests that are done, and credentials that are spent *)

\* A request that is done has been through its program.
Finished == \A r \in Request \ Boot : task[r].status = "done" => Through(task[r])

LEMMA FinishedHolds == ServerSpec => []Finished
<1>1. ServerInit => Finished
  BY DEF ServerInit, AccountInit, NoTask, Finished
<1>2. ServerInv /\ Finished /\ [ServerNext]_serverVars => Finished'
  <2> SUFFICES ASSUME ServerInv, Finished, [ServerNext]_serverVars
               PROVE  Finished'
    OBVIOUS
  <2>1. ASSUME NEW r \in Request, Step(r)
        PROVE  Finished'
    BY <2>1, StepsOver DEF Finished, Moves
  <2>2. ASSUME NEW r \in Request, Arrive(r)
        PROVE  Finished'
    BY <2>2, Arrivals DEF Finished, Begins
  <2>3. ASSUME NEW b \in Boot, Restart(b)
        PROVE  Finished'
    <3>1. /\ task'[b].status = "running"
          /\ \A q \in Request \ {b} : task'[q] = task[q] \/ task'[q].status \in {"cut", "failed"}
      BY <2>3, Boots DEF Stands, ServerInv, Typing
    <3> QED BY <3>1 DEF Finished
  <2>4. CASE UNCHANGED serverVars
    BY <2>4 DEF serverVars, accountVars, taskVars, Finished, Through
  <2> QED BY <2>1, <2>2, <2>3, <2>4 DEF ServerNext
<1> QED BY <1>1, <1>2, ServerHolds, PTL DEF ServerSpec

\* A code, or a refresh token, that was answered for.
Spent(r) ==
  /\ task[r].op = "exchange" => codes[task[r].cred] = None
  /\ task[r].op = "refresh" => tokens[task[r].cred] = None \/ tokens[task[r].cred].revoked

\* Requests with the credential of another that has spent it.
After(r, q) ==
  /\ task[r].cred = task[q].cred
  /\ \/ task[r].op = "exchange" /\ task[q].op = "exchange"
     \/ task[r].op = "refresh" /\ task[q].op \in {"refresh", "info"}

\* A request that has found its credential as it was had begun before any
\* other that spent it was through.
SpentFacts ==
  /\ \A r \in Request : task[r].status = "done" => Spent(r)
  /\ \A r, q \in Request :
       r # q /\ task[r].status = "done" /\ After(r, q) /\ task[q].pc >= 2 => r \notin past[q]

\* Credentials that are answered for do not come back.
SpentLasts ==
  /\ \A k \in Inserter : grants[k] # None => codes'[k] \in {codes[k], None}
  /\ \A k \in Inserter : claims[k] # None =>
       tokens'[k] \in {tokens[k], None} \/ tokens'[k].revoked

LEMMA SpentStays ==
  ASSUME ServerInv, TokenFacts, SpentFacts, SpentLasts, NEW q \in Request,
         task[q].status = "done", task'[q] = task[q]
  PROVE  Spent(q)'
<1>1. CASE task[q].op = "exchange"
  <2>1. PICK k : k = task[q].cred
    OBVIOUS
  <2>2. k \in Inserter /\ grants[k] # None /\ codes[k] = None
    BY <1>1, <2>1 DEF SpentFacts, Spent, TokenFacts, TokenFactsOf, ServerInv, Typing, InMemory
  <2> QED BY <1>1, <2>1, <2>2 DEF Spent, SpentLasts
<1>2. CASE task[q].op = "refresh"
  <2>1. PICK k : k = task[q].cred
    OBVIOUS
  <2>2. k \in Inserter /\ claims[k] # None /\ (tokens[k] = None \/ tokens[k].revoked)
    BY <1>2, <2>1 DEF SpentFacts, Spent, ServerInv, Typing, InMemory, Recorded
  <2> QED BY <1>2, <2>1, <2>2 DEF Spent, SpentLasts
<1> QED BY <1>1, <1>2 DEF Spent

LEMMA SpentOn ==
  ASSUME ServerInv, TokenFacts, SpentFacts, SpentLasts, NEW r \in Request, Moves(r),
         task'[r].status = "done" => Spent(r)',
         \A q \in Request : After(q, r) /\ task[r].pc < 2 /\ task'[r].pc >= 2 => ~Spent(q)
  PROVE  SpentFacts'
<1>m. /\ Flow /\ Running(r) /\ past' = past /\ \A q \in Request \ {r} : task'[q] = task[q]
      /\ task[r].pc \in 0..9
  BY DEF ServerInv, Typing, Flow, Moves, Task
<1>1. \A q \in Request : task'[q].status = "done" => Spent(q)'
  BY <1>m, SpentStays
<1>2. ASSUME NEW p \in Request, NEW q \in Request, p # q,
             task'[p].status = "done", After(p, q)', task'[q].pc >= 2
      PROVE  p \notin past'[q]
  <2>1. CASE p = r
    <3>1. p \notin Ended
      BY <1>m, <2>1 DEF Running, Ended
    <3> QED BY <1>m, <3>1 DEF Flow
  <2>2. CASE p # r /\ q # r
    BY <1>m, <1>2, <2>2 DEF SpentFacts, After
  <2>3. CASE p # r /\ q = r
    <3>1. task'[r].op \notin BootOp
      BY <1>2, <2>3 DEF After, BootOp
    <3>2. task'[r].op = task[r].op /\ task'[r].cred = task[r].cred
      BY <3>1 DEF Moves
    <3>3. After(p, q) /\ task[p].status = "done"
      BY <1>m, <1>2, <2>3, <3>2 DEF After
    <3>4. Spent(p)
      BY <3>3 DEF SpentFacts
    <3>5. task[r].pc >= 2
      BY <1>m, <1>2, <2>3, <3>3, <3>4
    <3> QED BY <1>m, <1>2, <2>3, <3>3, <3>5 DEF SpentFacts
  <2> QED BY <2>1, <2>2, <2>3
<1> QED BY <1>1, <1>2 DEF SpentFacts

LEMMA SpentOfOAuth ==
  ASSUME ServerInv, TokenFacts, SpentFacts, NEW r \in Request, Step(r), OAuthStep(r)
  PROVE  SpentFacts'
<1> DEFINE s == task[r]
           t == task'[r]
<1>k. /\ Running(r) /\ Moves(r) /\ Flow /\ s \in Task /\ InMemory(s)
      /\ r \in Inserter /\ s.op \in OAuthOp /\ s.status = "running"
  BY StepKinds, Groups DEF ServerInv, Typing, Inserter, Running
<1>b. r \in Request \ Boot
  BY <1>k DEF Flow, BootOp, OAuthOp
<1>a. \A x : At(r, x) => InPlace(s.op, s.pc, x)
  BY StepKinds
<1>m. t.op = s.op /\ t.cred = s.cred
  BY <1>b, <1>k DEF Moves
<1>e. Fail(r) => t.status = "failed" /\ t.pc = s.pc
  BY <1>b, <1>k, Fails
<1>f. TokenFactsOf(r)
  BY DEF TokenFacts
<1>c. /\ grants \in [Inserter -> Code \cup {None}] /\ claims \in [Inserter -> Claims \cup {None}]
      /\ codes \in [Inserter -> [member : members, client : ClientId] \cup {None}]
      /\ tokens \in [Inserter -> Token \cup {None}]
  BY DEF ServerInv, Typing, Recorded, AccountTypeOK
<1>w. UNCHANGED <<codes, tokens>> => SpentLasts
  BY DEF SpentLasts
<1>d. t.status = "done" => /\ s.op \in {"exchange", "refresh"} => t.pc = 3
  <2>1. t.status = "done" => Through(t)
    BY <1>b, <1>k DEF Moves
  <2> QED BY <1>m, <2>1, Lengths DEF Through
<1>x. ASSUME s.op \notin {"exchange", "refresh", "info"}, SpentLasts
      PROVE  SpentFacts'
  <2>1. Spent(r)'
    BY <1>m, <1>x DEF Spent
  <2>2. \A q \in Request : ~After(q, r)
    BY <1>x DEF After
  <2> QED BY <1>k, <1>x, <2>1, <2>2, SpentOn
<1>y. ASSUME t.status # "done", SpentLasts,
             \A q \in Request : After(q, r) /\ s.pc < 2 /\ t.pc >= 2 => ~Spent(q)
      PROVE  SpentFacts'
  BY <1>k, <1>y, SpentOn
<1>1. CASE IssueCode(r)
  <2>1. s.op = "accept" /\ grants[r] = None
    BY <1>1, <1>a, <1>f, <1>k DEF IssueCode, InPlace, TokenFactsOf
  <2>2. SpentLasts
    BY <1>1, <1>c, <2>1 DEF IssueCode, SpentLasts
  <2> QED BY <1>x, <2>1, <2>2
<1>2. CASE QueryCode(r)
  <2>1. s.op = "exchange" /\ s.pc = 1 /\ UNCHANGED <<codes, tokens>>
    BY <1>2, <1>a DEF QueryCode, InPlace, oauthVars
  <2>2. CASE Fail(r)
    <3>1. ~(t.pc >= 2) /\ t.status # "done"
      BY <1>e, <2>1, <2>2
    <3> QED BY <1>w, <1>y, <2>1, <3>1
  <2>3. CASE codes[s.cred] # None
    <3>1. \A q \in Request : After(q, r) => ~Spent(q)
      BY <2>1, <2>3 DEF After, Spent
    <3>2. CASE Fail(r)
      BY <2>2, <3>2
    <3>3. CASE Go(r, [s EXCEPT !.row = codes[s.cred].member])
      <4> DEFINE n == [s EXCEPT !.row = codes[s.cred].member]
      <4>1. codes[s.cred].member \in Membership
        BY <1>c, <1>k, <2>1, <2>3 DEF InMemory, ServerInv, Typing, AccountTypeOK
      <4>2. Keeps(n, s)
        BY <1>k, <2>1, <4>1 DEF Keeps, Task
      <4>3. Len(Program[s.op]) = 3
        BY <2>1, Lengths
      <4> HIDE DEF n
      <4>4. t.status = "running"
        BY <1>b, <1>k, <2>1, <3>3, <4>2, <4>3, GoesToOf DEF n
      <4> QED BY <1>w, <1>y, <2>1, <3>1, <4>4
    <3> QED BY <1>2, <3>2, <3>3 DEF QueryCode
  <2> QED BY <1>2, <2>2, <2>3 DEF QueryCode
<1>3. CASE SaveToken(r)
  <2>1. s.pc = 2 /\ claims[r] = None /\ UNCHANGED codes
    BY <1>3, <1>a, <1>f, <1>k DEF SaveToken, InPlace, TokenFactsOf
  <2>2. SpentLasts
    BY <1>3, <1>c, <2>1 DEF SaveToken, SpentLasts
  <2>3. CASE s.op \in {"exchange", "refresh"}
    <3>1. Len(Program[s.op]) = 3
      BY <2>3, Lengths
    <3>2. t.status # "done"
      BY <1>3, <1>b, <1>e, <1>k, <2>1, <3>1, ProceedsOf DEF SaveToken
    <3> QED BY <1>y, <2>1, <2>2, <3>2
  <2>4. CASE s.op \notin {"exchange", "refresh"}
    <3>1. s.op # "info"
      BY <1>3, <1>a DEF SaveToken, InPlace
    <3> QED BY <1>x, <2>2, <2>4, <3>1
  <2> QED BY <2>3, <2>4
<1>4. CASE SpendCode(r)
  <2>1. s.op = "exchange" /\ s.pc = 3 /\ UNCHANGED tokens
        /\ codes' = [codes EXCEPT ![s.cred] = None]
    BY <1>4, <1>a DEF SpendCode, InPlace
  <2>2. SpentLasts
    BY <1>c, <2>1 DEF SpentLasts
  <2>3. Spent(r)'
    <3>1. codes'[s.cred] = None
      BY <1>c, <1>k, <2>1 DEF InMemory
    <3> QED BY <1>m, <2>1, <3>1 DEF Spent
  <2>4. ~(s.pc < 2)
    BY <2>1
  <2> QED BY <1>k, <2>2, <2>3, <2>4, SpentOn
<1>5. CASE QueryRefreshToken(r)
  <2>1. s.op = "refresh" /\ s.pc = 1 /\ UNCHANGED <<codes, tokens>>
    BY <1>5, <1>a DEF QueryRefreshToken, InPlace, oauthVars
  <2>2. CASE Fail(r)
    <3>1. ~(t.pc >= 2) /\ t.status # "done"
      BY <1>e, <2>1, <2>2
    <3> QED BY <1>w, <1>y, <2>1, <3>1
  <2>3. CASE /\ tokens[s.cred] # None /\ ~tokens[s.cred].revoked
             /\ Go(r, [s EXCEPT !.row = tokens[s.cred].member])
    <3> DEFINE n == [s EXCEPT !.row = tokens[s.cred].member]
    <3>1. \A q \in Request : After(q, r) => ~Spent(q)
      BY <2>1, <2>3 DEF After, Spent
    <3>2. tokens[s.cred].member \in Membership
      BY <1>c, <1>k, <2>1, <2>3 DEF InMemory, ServerInv, Typing, AccountTypeOK
    <3>3. Keeps(n, s)
      BY <1>k, <2>1, <3>2 DEF Keeps, Task
    <3>4. Len(Program[s.op]) = 3
      BY <2>1, Lengths
    <3> HIDE DEF n
    <3>5. t.status = "running"
      BY <1>b, <1>k, <2>1, <2>3, <3>3, <3>4, GoesToOf DEF n
    <3> QED BY <1>w, <1>y, <2>1, <3>1, <3>5
  <2> QED BY <1>5, <2>2, <2>3 DEF QueryRefreshToken
<1>6. CASE RevokeToken(r)
  <2> DEFINE old == [member |-> s.row, client |-> s.client, revoked |-> TRUE,
                     from |-> IF s.cred = Old THEN None ELSE task[s.cred].cred]
  <2>1. s.op = "refresh" /\ s.pc = 3 /\ s.cred \in Inserter /\ UNCHANGED codes /\ ~(s.pc < 2)
    BY <1>6, <1>a, <1>k DEF RevokeToken, InPlace, InMemory
  <2>2. CASE Fail(r) /\ UNCHANGED tokens
    BY <1>e, <1>w, <1>y, <2>1, <2>2
  <2>3. CASE tokens' = [tokens EXCEPT ![s.cred] = old]
    <3>1. tokens'[s.cred].revoked /\ \A k \in Inserter \ {s.cred} : tokens'[k] = tokens[k]
      BY <1>c, <2>1, <2>3
    <3>2. SpentLasts
      BY <2>1, <3>1 DEF SpentLasts
    <3>3. Spent(r)'
      BY <1>m, <2>1, <3>1 DEF Spent
    <3> QED BY <1>k, <2>1, <3>2, <3>3, SpentOn
  <2> QED BY <1>6, <2>2, <2>3 DEF RevokeToken
<1>7. CASE ValidateToken(r)
  <2>1. s.op = "info" /\ s.pc = 1 /\ UNCHANGED <<codes, tokens>>
    BY <1>7, <1>a DEF ValidateToken, InPlace, oauthVars
  <2>2. Spent(r)'
    BY <1>m, <2>1 DEF Spent
  <2>3. CASE Fail(r)
    <3>1. ~(t.pc >= 2)
      BY <1>e, <2>1, <2>3
    <3> QED BY <1>k, <1>w, <2>1, <2>2, <3>1, SpentOn
  <2>4. CASE tokens[s.cred] # None /\ ~tokens[s.cred].revoked
    <3>1. \A q \in Request : After(q, r) => ~Spent(q)
      BY <2>1, <2>4 DEF After, Spent
    <3> QED BY <1>k, <1>w, <2>1, <2>2, <3>1, SpentOn
  <2> QED BY <1>7, <2>3, <2>4 DEF ValidateToken
<1>8. CASE DescribeUser(r)
  <2>1. s.op = "info" /\ s.pc = 2 /\ UNCHANGED <<codes, tokens>> /\ ~(s.pc < 2)
    BY <1>8, <1>a DEF DescribeUser, InPlace, oauthVars
  <2>2. Spent(r)'
    BY <1>m, <2>1 DEF Spent
  <2> QED BY <1>k, <1>w, <2>1, <2>2, SpentOn
<1>9. CASE \/ RegisterClient(r) \/ DropClient(r) \/ FindMembership(r) \/ ResolveMembership(r)
           \/ ExpandOrganization(r) \/ ExpandClient(r) \/ ExpandMembership(r)
  <2>1. s.op \notin {"exchange", "refresh", "info"}
    BY <1>9, <1>a DEF RegisterClient, DropClient, FindMembership, ResolveMembership,
       ExpandOrganization, ExpandClient, ExpandMembership, InPlace
  <2>2. UNCHANGED <<codes, tokens>>
    BY <1>9 DEF RegisterClient, DropClient, FindMembership, ResolveMembership,
       ExpandOrganization, ExpandClient, ExpandMembership, oauthVars
  <2> QED BY <1>w, <1>x, <2>1, <2>2
<1> QED BY <1>1, <1>2, <1>3, <1>4, <1>5, <1>6, <1>7, <1>8, <1>9 DEF OAuthStep

LEMMA SpentGoesOn ==
  ASSUME ServerInv, TokenFacts, SpentFacts, [ServerNext]_serverVars
  PROVE  SpentFacts'
<1>1. ASSUME NEW r \in Request, Step(r)
      PROVE  SpentFacts'
  <2>1. CASE OAuthStep(r)
    BY <1>1, <2>1, SpentOfOAuth
  <2>2. ASSUME task[r].op \notin OAuthOp, SpentLasts
        PROVE  SpentFacts'
    <3>1. Moves(r)
      BY <1>1, StepsOver
    <3>2. task'[r].op \notin OAuthOp
      BY <2>2, <3>1 DEF Moves, OAuthOp, BootOp
    <3>3. Spent(r)' /\ \A q \in Request : ~After(q, r)
      BY <2>2, <3>2 DEF Spent, After, OAuthOp
    <3> QED BY <2>2, <3>1, <3>3, SpentOn
  <2>3. UNCHANGED <<codes, tokens>> => SpentLasts
    BY DEF SpentLasts
  <2>4. CASE OrganizationStep(r)
    <3>1. SpentLasts
      BY <2>4, CodesOnlyGo DEF SpentLasts
    <3>2. task[r].op \notin OAuthOp
      BY <1>1, <2>4, StepKinds, Groups DEF ServerInv, Typing, OrganizationOp, BootOp, OAuthOp
    <3> QED BY <2>2, <3>1, <3>2
  <2>5. CASE TailnetStep(r)
    <3>1. task[r].op \notin OAuthOp /\ UNCHANGED oauthVars
      BY <1>1, <2>5, StepKinds, Groups, TailnetTypes DEF ServerInv, Typing, TailnetOp, OAuthOp
    <3> QED BY <2>2, <2>3, <3>1 DEF oauthVars
  <2>6. CASE SocialStep(r) /\ UNCHANGED oauthVars
    <3>1. task[r].op \notin OAuthOp
      BY <1>1, <2>6, StepKinds, Groups DEF ServerInv, Typing, SocialOp, OAuthOp
    <3> QED BY <2>2, <2>3, <2>6, <3>1 DEF oauthVars
  <2>7. CASE InventoryStep(r) /\ UNCHANGED oauthVars
    <3>1. task[r].op \notin OAuthOp
      BY <1>1, <2>7, StepKinds, Groups DEF ServerInv, Typing, InventoryOp, OAuthOp
    <3> QED BY <2>2, <2>3, <2>7, <3>1 DEF oauthVars
  <2> QED BY <1>1, <2>1, <2>4, <2>5, <2>6, <2>7, StepKinds
<1>2. ASSUME NEW r \in Request, ~(task'[r].pc >= 2), task'[r].status = "running",
             UNCHANGED <<codes, tokens, grants, claims>>,
             \A q \in Request \ {r} : Stands(q) /\ past'[q] = past[q]
      PROVE  SpentFacts'
  <2>1. SpentLasts
    BY <1>2 DEF SpentLasts
  <2>2. ASSUME NEW q \in Request, task'[q].status = "done"
        PROVE  q # r /\ task'[q] = task[q] /\ Spent(q)'
    BY <1>2, <2>1, <2>2, SpentStays DEF Stands
  <2>3. ASSUME NEW p \in Request, NEW q \in Request, p # q,
               task'[p].status = "done", After(p, q)', task'[q].pc >= 2
        PROVE  p \notin past'[q]
    <3>1. q # r /\ task'[p] = task[p]
      BY <1>2, <2>2, <2>3
    <3>2. task[q].op = task'[q].op /\ task[q].cred = task'[q].cred /\ task[q].pc = task'[q].pc
      BY <1>2, <3>1 DEF Stands, Remembers
    <3> QED BY <1>2, <2>3, <3>1, <3>2 DEF After, SpentFacts
  <2> QED BY <2>2, <2>3 DEF SpentFacts
<1>3. ASSUME NEW r \in Request, Arrive(r)
      PROVE  SpentFacts'
  <2>1. Begins(r) /\ UNCHANGED oauthVars
    BY <1>3, Arrivals
  <2>2. \A q \in Request \ {r} : Stands(q) /\ past'[q] = past[q]
    BY <2>1, OthersStand DEF Begins, ServerInv, Typing, Flow
  <2> QED BY <1>2, <2>1, <2>2 DEF Begins, oauthVars
<1>4. ASSUME NEW b \in Boot, Restart(b)
      PROVE  SpentFacts'
  <2>1. /\ b \in Request /\ task'[b].status = "running" /\ task'[b].pc = 1 /\ UNCHANGED oauthVars
        /\ \A q \in Request \ {b} : Stands(q)
    BY <1>4, Boots DEF ServerInv, Typing
  <2>2. \A q \in Request \ {b} : past'[q] = past[q]
    BY <1>4 DEF Restart, ServerInv, Typing, Flow
  <2> QED BY <1>2, <2>1, <2>2 DEF oauthVars
<1>5. CASE UNCHANGED serverVars
  BY <1>5 DEF serverVars, accountVars, oauthVars, taskVars, SpentFacts, Spent, After
<1> QED BY <1>1, <1>3, <1>4, <1>5 DEF ServerNext

LEMMA SpentHolds == ServerSpec => []SpentFacts
<1>1. ServerInit => SpentFacts
  BY DEF ServerInit, AccountInit, NoTask, SpentFacts
<1>2. ServerInv /\ TokenFacts /\ SpentFacts /\ [ServerNext]_serverVars => SpentFacts'
  BY SpentGoesOn
<1> QED BY <1>1, <1>2, ServerHolds, TokensHold, PTL DEF ServerSpec

\* Of two requests with one code, or one refresh token, that both were answered,
\* neither had ended when the other began; and a token whose refresh was
\* answered is not told of any more.
THEOREM CodesAreSpent == ServerSpec => []CredentialsAreSpent
<1>1. ServerInv /\ Finished /\ SpentFacts => CredentialsAreSpent
  <2> SUFFICES ASSUME ServerInv, Finished, SpentFacts
               PROVE  CredentialsAreSpent
    OBVIOUS
  <2>1. ASSUME NEW q \in Request, task[q].status = "done",
               task[q].op \in {"exchange", "refresh", "info"}
        PROVE  task[q].pc >= 2
    <3>1. q \notin Boot
      BY <2>1 DEF ServerInv, Typing, Flow, BootOp
    <3>2. Through(task[q])
      BY <2>1, <3>1 DEF Finished
    <3>3. Len(Program[task[q].op]) \in {2, 3}
      BY <2>1, Lengths
    <3> HIDE DEF Program
    <3>4. task[q].pc \in {2, 3}
      BY <2>1, <3>2, <3>3 DEF Through
    <3> QED BY <3>4
  <2> QED BY <2>1 DEF CredentialsAreSpent, SpentFacts, After, Overlap
<1> QED BY <1>1, ServerHolds, FinishedHolds, SpentHolds, PTL

-----------------------------------------------------------------------------
(* Notifications and mentions *)

\* A request that another's step, or one that is not about channels, comments
\* or stashes, leaves as it is.
Elsewhere(q) ==
  \/ Kept(q) /\ todo'[q] = todo[q] /\ asked'[q] = asked[q] /\ past'[q] = past[q]
  \/ BeginsSocial(q)
  \/ /\ task[q].op \notin SocialOp /\ task'[q].op \notin SocialOp
     /\ todo'[q] = todo[q] /\ asked'[q] = asked[q]

LEMMA SocialAside ==
  ASSUME ServerInv, [ServerNext]_serverVars,
         \A r \in Request : ~(Step(r) /\ SocialStep(r))
  PROVE  /\ UNCHANGED <<channels, comments, stashes, items, found, last, notified>>
         /\ \A q \in Request : Elsewhere(q)
<1>1. ASSUME NEW r \in Request, Step(r)
      PROVE  /\ UNCHANGED <<channels, comments, stashes, items, found, last, notified>>
             /\ \A q \in Request : Elsewhere(q)
  <2>1. Moves(r) /\ UNCHANGED socialVars /\ task[r].op \notin SocialOp
    BY <1>1, StepKinds, Groups
       DEF ServerInv, Typing, OrganizationOp, BootOp, OAuthOp, TailnetOp, InventoryOp, SocialOp
  <2>2. task'[r].op \notin SocialOp
    BY <2>1 DEF Moves, BootOp, SocialOp
  <2> QED BY <2>1, <2>2 DEF Elsewhere, Kept, Moves, socialVars
<1>2. ASSUME NEW r \in Request, Arrive(r)
      PROVE  /\ UNCHANGED <<channels, comments, stashes, items, found, last, notified>>
             /\ \A q \in Request : Elsewhere(q)
  <2>1. /\ Begins(r) /\ UNCHANGED <<channels, comments, stashes, items, found, last, notified>>
        /\ \A q \in Request \ {r} : todo'[q] = todo[q] /\ asked'[q] = asked[q]
    BY <1>2, Arrivals
  <2>2. \A q \in Request \ {r} : Elsewhere(q)
    BY <2>1 DEF Elsewhere, Kept, Begins, ServerInv, Typing, Flow
  <2>3. Elsewhere(r)
    <3>1. task[r].op \notin SocialOp
      BY <2>1, TopicAssumption, Ops DEF Begins, ServerInv, Typing, Flow, SocialOp
    <3>2. CASE SocialArrive(r)
      <4>1. BeginsSocial(r)
        BY <3>2, SocialArrives DEF ServerInv
      <4> QED BY <4>1 DEF Elsewhere
    <3>3. CASE ~SocialArrive(r)
      <4>1. UNCHANGED socialVars
        BY <1>2, <3>3 DEF Arrive
      <4>2. task'[r].op \notin SocialOp
        BY <1>2, <3>3, OrganizationArrives, OAuthArrives, TailnetArrives, InventoryArrives
           DEF Arrive, BeginsInventory, InventoryOp, SocialOp, ServerInv
      <4> QED BY <3>1, <4>1, <4>2 DEF Elsewhere, socialVars
    <3> QED BY <3>2, <3>3
  <2> QED BY <2>1, <2>2, <2>3
<1>3. ASSUME NEW b \in Boot, Restart(b), UNCHANGED socialVars
      PROVE  /\ UNCHANGED <<channels, comments, stashes, items, found, last, notified>>
             /\ \A q \in Request : Elsewhere(q)
  <2>1. /\ b \in Request /\ task[b].op = None /\ task'[b].op = "ensureusers"
        /\ \A q \in Request \ {b} : Kept(q)
    BY <1>3, Boots DEF ServerInv, Typing
  <2>2. task[b].op \notin SocialOp /\ task'[b].op \notin SocialOp
    BY <2>1, TopicAssumption, Ops DEF SocialOp
  <2>3. \A q \in Request \ {b} : past'[q] = past[q]
    BY <1>3 DEF Restart, ServerInv, Typing, Flow
  <2> QED BY <1>3, <2>1, <2>2, <2>3 DEF Elsewhere, socialVars
<1>4. CASE UNCHANGED serverVars
  BY <1>4 DEF serverVars, accountVars, taskVars, socialVars, Elsewhere, Kept
<1>5. ASSUME NEW r \in Request, Step(r)
      PROVE  /\ UNCHANGED <<channels, comments, stashes, items, found, last, notified>>
             /\ \A q \in Request : Elsewhere(q)
  BY <1>1, <1>5
<1> QED BY <1>2, <1>3, <1>4, <1>5 DEF ServerNext

\* A request that keeps something for its user is alone in what it has in memory.
LEMMA SocialAlone ==
  ASSUME ServerInv, NEW r \in Request, Step(r), SocialStep(r)
  PROVE  /\ r \notin Boot /\ Running(r) /\ task[r].op \in SocialOp /\ task'[r].op = task[r].op
         /\ \A q \in Request \ {r} :
              /\ task'[q] = task[q] /\ past'[q] = past[q]
              /\ todo'[q] = todo[q] /\ asked'[q] = asked[q] /\ notified'[q] = notified[q]
              /\ comments'[q] = comments[q] /\ found'[q] = found[q]
<1>1. Moves(r) /\ Running(r) /\ Flow /\ task[r].op \in SocialOp
  BY StepKinds, Groups DEF ServerInv, Typing
<1>2. r \notin Boot
  BY <1>1 DEF Flow, Running, BootOp, SocialOp
<1>t. /\ todo \in [Request -> SUBSET Listed] /\ notified \in [Request -> SUBSET User]
      /\ found \in [Request -> Channel \cup Item \cup {None}]
      /\ asked \in [Request -> PushToken \cup (SUBSET Listed) \cup {None}]
      /\ comments \in [Request -> Comment \cup {None}]
  BY DEF ServerInv, SocialTypeOK
<1>3. asked' = asked
  BY DEF SocialStep, LookForChannel, PutChannel, InsertComment, LookUpMentions, NotifyMention,
     AttachMentions, ResolveTarget, CreateStash, ReadStash, SaveStash, DeleteStash, FindItem,
     PutItem, RemoveItem, socialVars
<1>4. \A q \in Request \ {r} : todo'[q] = todo[q]
  BY <1>t DEF SocialStep, LookForChannel, PutChannel, InsertComment, LookUpMentions, NotifyMention,
     AttachMentions, ResolveTarget, CreateStash, ReadStash, SaveStash, DeleteStash, FindItem,
     PutItem, RemoveItem, socialVars, Left
<1>5. \A q \in Request \ {r} : notified'[q] = notified[q]
  BY <1>t DEF SocialStep, LookForChannel, PutChannel, InsertComment, LookUpMentions, NotifyMention,
     AttachMentions, ResolveTarget, CreateStash, ReadStash, SaveStash, DeleteStash, FindItem,
     PutItem, RemoveItem, socialVars, Push
<1>6. \A q \in Request \ {r} : comments'[q] = comments[q]
  BY <1>t DEF SocialStep, LookForChannel, PutChannel, InsertComment, LookUpMentions, NotifyMention,
     AttachMentions, ResolveTarget, CreateStash, ReadStash, SaveStash, DeleteStash, FindItem,
     PutItem, RemoveItem, socialVars
<1>7. \A q \in Request \ {r} : found'[q] = found[q]
  BY <1>t DEF SocialStep, LookForChannel, PutChannel, InsertComment, LookUpMentions, NotifyMention,
     AttachMentions, ResolveTarget, CreateStash, ReadStash, SaveStash, DeleteStash, FindItem,
     PutItem, RemoveItem, socialVars, Find
<1> QED BY <1>1, <1>2, <1>3, <1>4, <1>5, <1>6, <1>7 DEF Moves

\* Nobody is notified before all mentions are found, nor of anything that was
\* not asked; mentions are attached last.
MentionFactsOf(r) ==
  LET t == task[r]
  IN  /\ notified[r] # {} => /\ t.status # "failed"
                             /\ \/ t.op = "comment" /\ t.pc >= 3
                                \/ t.op = "message" /\ t.pc >= 2
      /\ t.op = "message" => notified[r] \subseteq {t.user}
      /\ t.op = "message" /\ t.pc >= 2 => todo[r] \subseteq {t.user}
      /\ t.op = "comment" => todo[r] \subseteq asked[r] /\ notified[r] \subseteq asked[r]
      /\ IF t.op = "comment" /\ t.status = "done" THEN comments[r].mentions = asked[r]
         ELSE comments[r] # None => t.op = "comment" /\ comments[r].mentions = {}

MentionFacts == \A r \in Request : MentionFactsOf(r)

LEMMA MentionsKept ==
  ASSUME NEW q \in Request, MentionFactsOf(q), Kept(q), todo'[q] = todo[q], asked'[q] = asked[q],
         notified'[q] = notified[q], comments'[q] = comments[q]
  PROVE  MentionFactsOf(q)'
<1>1. /\ task'[q].op = task[q].op /\ task'[q].pc = task[q].pc /\ task'[q].user = task[q].user
      /\ task'[q].status = "failed" => task[q].status = "failed"
      /\ task'[q].status = "done" <=> task[q].status = "done"
  BY DEF Kept, Remembers, Running
<1> QED BY <1>1 DEF MentionFactsOf

LEMMA MentionsElsewhere ==
  ASSUME NEW q \in Request, ServerInv, MentionFactsOf(q), Elsewhere(q),
         UNCHANGED <<notified, comments>>
  PROVE  MentionFactsOf(q)'
<1>1. CASE Kept(q) /\ todo'[q] = todo[q] /\ asked'[q] = asked[q] /\ past'[q] = past[q]
  BY <1>1, MentionsKept
<1>2. CASE BeginsSocial(q)
  <2>1. task[q].op = None /\ task'[q].pc = 1 /\ task'[q].status = "running"
    BY <1>2 DEF BeginsSocial, Begins, ServerInv, Typing, Flow
  <2>2. notified'[q] = {} /\ comments'[q] = None
    BY <2>1, TopicAssumption, Ops DEF MentionFactsOf
  <2>3. task'[q].op = "comment" => todo'[q] = asked'[q]
    BY <1>2 DEF BeginsSocial, Brings, ServerInv, SocialTypeOK
  <2> QED BY <2>1, <2>2, <2>3 DEF MentionFactsOf
<1>3. CASE task[q].op \notin SocialOp /\ task'[q].op \notin SocialOp
  <2>1. notified[q] = {} /\ comments[q] = None
    BY <1>3 DEF MentionFactsOf, SocialOp
  <2> QED BY <1>3, <2>1 DEF MentionFactsOf, SocialOp
<1> QED BY <1>1, <1>2, <1>3 DEF Elsewhere

LEMMA MentionsOfSocial ==
  ASSUME ServerInv, MentionFacts, NEW r \in Request, Step(r), SocialStep(r)
  PROVE  MentionFactsOf(r)'
<1> DEFINE s == task[r]
           t == task'[r]
<1>k. /\ Running(r) /\ Moves(r) /\ Flow /\ s \in Task /\ r \notin Boot /\ s.op \in SocialOp
      /\ t.op = s.op /\ s.status = "running"
  BY StepKinds, SocialAlone DEF ServerInv, Typing, Running
<1>b. r \in Request \ Boot
  BY <1>k
<1>a. \A x : At(r, x) => InPlace(s.op, s.pc, x)
  BY StepKinds
<1>f. MentionFactsOf(r)
  BY DEF MentionFacts
<1>t. /\ todo \in [Request -> SUBSET Listed] /\ notified \in [Request -> SUBSET User]
      /\ comments \in [Request -> Comment \cup {None}]
      /\ s.op = "comment" => asked[r] \in SUBSET (User \cup {Unknown})
      /\ s.op = "comment" /\ s.pc >= 2 => comments[r] # None
  BY DEF ServerInv, SocialTypeOK, SocialFacts
<1>e. ASSUME Fail(r)
      PROVE  /\ Remembers(t, s) /\ t.pc = s.pc /\ t.status = "failed"
  BY <1>b, <1>e, <1>k, Fails
<1>1. CASE InsertComment(r)
  <2> DEFINE row == [parent |-> s.cred, mentions |-> {}]
  <2>1. s.op = "comment" /\ s.pc = 1 /\ UNCHANGED <<todo, asked, notified>>
    BY <1>1, <1>a DEF InsertComment, InPlace
  <2>2. notified[r] = {}
    BY <1>f, <2>1 DEF MentionFactsOf
  <2>3. CASE Fail(r) /\ UNCHANGED comments
    BY <1>e, <1>f, <1>k, <2>1, <2>2, <2>3 DEF MentionFactsOf
  <2>4. CASE comments' = [comments EXCEPT ![r] = row] /\ Proceed(r)
    <3>1. comments'[r].mentions = {}
      BY <1>t, <2>4
    <3>2. t.status = "running"
      <4>1. Len(Program[s.op]) = 4
        BY <2>1, Lengths
      <4> QED BY <1>b, <1>k, <2>1, <2>4, <4>1, ProceedsOf
    <3> QED BY <1>f, <1>k, <2>1, <2>2, <3>1, <3>2 DEF MentionFactsOf
  <2> QED BY <1>1, <2>3, <2>4 DEF InsertComment
<1>2. CASE LookUpMentions(r)
  <2>1. s.op = "comment" /\ s.pc = 2 /\ UNCHANGED <<asked, notified, comments>>
    BY <1>2, <1>a DEF LookUpMentions, InPlace
  <2>2. notified[r] = {} /\ comments[r].mentions = {}
    BY <1>f, <1>k, <1>t, <2>1 DEF MentionFactsOf
  <2>3. todo'[r] \subseteq asked[r]
    BY <1>f, <1>t, <1>2, <2>1 DEF MentionFactsOf, LookUpMentions, Left
  <2>4. t.status # "done"
    <3>1. Len(Program[s.op]) = 4
      BY <2>1, Lengths
    <3>2. Proceed(r) => t.status # "done"
      BY <1>b, <1>k, <2>1, <3>1, ProceedsOf
    <3> QED BY <1>2, <1>e, <3>2 DEF LookUpMentions
  <2> QED BY <1>k, <2>1, <2>2, <2>3, <2>4 DEF MentionFactsOf
<1>3. CASE NotifyMention(r)
  <2>1. /\ (s.op = "comment" /\ s.pc = 3) \/ (s.op = "message" /\ s.pc = 2)
        /\ UNCHANGED <<asked, comments>>
    BY <1>3, <1>a DEF NotifyMention, InPlace
  <2>2. s.op = "comment" => comments[r].mentions = {}
    BY <1>f, <1>k, <1>t, <2>1 DEF MentionFactsOf
  <2>3. ASSUME NEW u \in todo[r], Push(r, u), Left(r, todo[r] \ {u}), UNCHANGED taskVars
        PROVE  MentionFactsOf(r)'
    <3>1. notified'[r] \subseteq notified[r] \cup {u} /\ todo'[r] \subseteq todo[r]
      BY <1>t, <2>3 DEF Push, Left
    <3>2. t = s
      BY <2>3 DEF taskVars
    <3> HIDE DEF s, t
    <3> QED BY <1>f, <1>k, <2>1, <2>2, <2>3, <3>1, <3>2 DEF MentionFactsOf, s, t
  <2>4. CASE Proceed(r) /\ UNCHANGED <<todo, notified>>
    <3>1. Remembers(t, s) /\ t.status # "failed" /\ t.pc >= s.pc
          /\ (s.op = "comment" => t.status # "done")
      <4>1. CASE s.op = "comment"
        <5>1. Len(Program[s.op]) = 4
          BY <4>1, Lengths
        <5> QED BY <1>b, <1>k, <2>1, <2>4, <4>1, <5>1, ProceedsOf
      <4>2. CASE s.op = "message"
        <5>1. Len(Program[s.op]) = 2
          BY <4>2, Lengths
        <5> QED BY <1>b, <1>k, <2>1, <2>4, <4>2, <5>1, ProceedsOf
      <4> QED BY <2>1, <4>1, <4>2
    <3>2. t.pc >= 2 /\ (s.op = "comment" => t.pc >= 3) /\ t.user = s.user
      BY <1>k, <2>1, <3>1 DEF Remembers, Moves, Flow, Task
    <3> QED BY <1>f, <1>k, <2>1, <2>2, <2>4, <3>1, <3>2 DEF MentionFactsOf
  <2> QED BY <1>3, <2>3, <2>4 DEF NotifyMention
<1>4. CASE AttachMentions(r)
  <2>1. s.op = "comment" /\ s.pc = 4 /\ UNCHANGED <<todo, asked, notified>> /\ Proceed(r)
        /\ comments' = [comments EXCEPT ![r].mentions = asked[r]]
    BY <1>4, <1>a DEF AttachMentions, InPlace
  <2>2. t.status = "done" /\ t.pc = 4
    <3>1. Len(Program[s.op]) = 4
      BY <2>1, Lengths
    <3> QED BY <1>b, <1>k, <2>1, <3>1, ProceedsOf
  <2>3. comments'[r].mentions = asked[r]
    <3>1. comments[r] \in Comment
      BY <1>t, <2>1
    <3> QED BY <1>t, <2>1, <3>1 DEF Comment
  <2> QED BY <1>f, <1>k, <2>1, <2>2, <2>3 DEF MentionFactsOf
<1>5. CASE ResolveTarget(r)
  <2>1. s.op = "message" /\ s.pc = 1 /\ UNCHANGED <<todo, asked, notified, comments>>
    BY <1>5, <1>a DEF ResolveTarget, InPlace, socialVars
  <2>2. notified[r] = {} /\ comments[r] = None
    BY <1>f, <2>1 DEF MentionFactsOf
  <2>3. CASE Fail(r)
    BY <1>e, <1>k, <2>1, <2>2, <2>3 DEF MentionFactsOf
  <2>4. CASE todo[r] \subseteq users \cap {s.user} /\ Proceed(r)
    <3>1. t.user = s.user
      BY <1>b, <1>k, <2>4, Proceeds DEF Remembers
    <3> QED BY <1>k, <2>1, <2>2, <2>4, <3>1 DEF MentionFactsOf
  <2> QED BY <1>5, <2>3, <2>4 DEF ResolveTarget
<1>6. CASE ~(InsertComment(r) \/ LookUpMentions(r) \/ NotifyMention(r) \/ AttachMentions(r)
             \/ ResolveTarget(r))
  <2>1. s.op \notin {"comment", "message"}
    BY <1>6, <1>a DEF SocialStep, LookForChannel, PutChannel, CreateStash, ReadStash, SaveStash,
       DeleteStash, FindItem, PutItem, RemoveItem, InPlace
  <2>2. UNCHANGED <<notified, comments>>
    BY <1>6 DEF SocialStep, LookForChannel, PutChannel, CreateStash, ReadStash, SaveStash,
       DeleteStash, FindItem, PutItem, RemoveItem, socialVars
  <2>3. notified[r] = {} /\ comments[r] = None
    BY <1>f, <2>1 DEF MentionFactsOf
  <2> QED BY <1>k, <2>1, <2>2, <2>3 DEF MentionFactsOf
<1> QED BY <1>1, <1>2, <1>3, <1>4, <1>5, <1>6

LEMMA MentionsHold == ServerSpec => []MentionFacts
<1>1. ServerInit => MentionFacts
  BY TopicAssumption, Ops
     DEF ServerInit, AccountInit, SocialInit, NoTask, MentionFacts, MentionFactsOf
<1>2. ServerInv /\ MentionFacts /\ [ServerNext]_serverVars => MentionFacts'
  <2> SUFFICES ASSUME ServerInv, MentionFacts, [ServerNext]_serverVars
               PROVE  MentionFacts'
    OBVIOUS
  <2>1. ASSUME NEW r \in Request, Step(r), SocialStep(r)
        PROVE  MentionFacts'
    <3>1. MentionFactsOf(r)'
      BY <2>1, MentionsOfSocial
    <3>2. \A q \in Request \ {r} : MentionFactsOf(q)'
      BY <2>1, SocialAlone, MentionsKept DEF MentionFacts, Kept
    <3> QED BY <3>1, <3>2 DEF MentionFacts
  <2>2. CASE \A r \in Request : ~(Step(r) /\ SocialStep(r))
    BY <2>2, SocialAside, MentionsElsewhere DEF MentionFacts
  <2> QED BY <2>1, <2>2
<1> QED BY <1>1, <1>2, ServerHolds, PTL DEF ServerSpec

\* A comment that fails notifies nobody, one that was answered mentions whom it
\* notified, and one that was cut or failed mentions nobody; users notify
\* nobody but themselves.
THEOREM MentionsFitNotifications == ServerSpec => []NotifiedAreMentioned
<1>1. MentionFacts => NotifiedAreMentioned
  BY DEF MentionFacts, MentionFactsOf, NotifiedAreMentioned
<1> QED BY <1>1, MentionsHold, PTL

-----------------------------------------------------------------------------
(* Channels and items: rows no constraint keeps apart *)

\* Channels are inserted by the registrations that were answered, and rows that
\* are alike by requests of which none had ended when another began.
KeptRows ==
  /\ \A c \in Channel : channels[c] # None /\ c.by # Old =>
       task[c.by].op = "channel" /\ task[c.by].status = "done"
  /\ \A c, d \in Channel :
       c # d /\ c.user = d.user /\ channels[c] # None /\ channels[d] # None =>
         c.by # Old /\ d.by # Old /\ Overlap(c.by, d.by)
  /\ \A i \in items : i.by # Old /\ task[i.by].op = "additems"
  /\ \A i, j \in items :
       i # j /\ i.stash = j.stash /\ i.key = j.key => Overlap(i.by, j.by)

\* What a request has found is there still, or was inserted since it began.
TwinFactsOf(r) ==
  LET t == task[r]
  IN  /\ t.op = "channel" /\ t.pc = 2 /\ found[r] # None =>
           found[r].user = t.user /\ channels[found[r]] # None
      /\ t.op = "channel" /\ t.pc = 2 /\ t.status = "running" /\ found[r] = None =>
           \A c \in ChannelsOf(t.user) : c.by # Old /\ c.by \notin past[r]
      /\ t.op = "channel" /\ t.status = "done" =>
           \E c \in ChannelsOf(t.user) : last[c] \in Request /\ last[c] \notin past[r]
      /\ t.op = "additems" /\ t.pc = 3 /\ t.status = "running" =>
           \/ found[r] \in items
           \/ /\ found[r].by = r
              /\ \A i \in items : i.stash = found[r].stash /\ i.key = found[r].key =>
                   i.by \notin past[r]

TwinFacts == KeptRows /\ \A r \in Request : TwinFactsOf(r)

\* What a step of the request r may do to channels and items.
Grows(r) ==
  /\ \A c \in Channel :
       /\ channels[c] # None => channels'[c] # None
       /\ channels[c] = None /\ channels'[c] # None =>
            /\ c.by = r /\ c.user = task[r].user
            /\ task[r].op = "channel" /\ task[r].pc = 2 /\ found[r] = None
            /\ task'[r].status = "done"
       /\ last'[c] \in {last[c], r}
  /\ \A i \in items' \ items : i = found[r] /\ task[r].op = "additems" /\ task[r].pc = 3
  /\ \A i \in items \ items' : ~HoldingItem(i)

\* A registration that writes a channel is answered.
LEMMA TokenPut ==
  ASSUME ServerInv, NEW r \in Request \ Boot, At(r, "put"), NEW c \in Channel, PutToken(r, c)
  PROVE  /\ task[r].op = "channel" /\ task[r].pc = 2
         /\ Remembers(task'[r], task[r]) /\ task'[r].pc = 2 /\ task'[r].status = "done"
         /\ channels'[c] # None /\ last'[c] = r
         /\ \A d \in Channel \ {c} : channels'[d] = channels[d] /\ last'[d] = last[d]
<1>1. Running(r) /\ Flow
  BY DEF At, ServerInv, Typing
<1>2. Placed(task[r])
  BY <1>1 DEF Flow, Running
<1>3. task[r].op = "channel" /\ task[r].pc = 2
  BY <1>2, AtPlace DEF InPlace
<1>4. Len(Program[task[r].op]) = 2
  BY <1>3, Lengths
<1>5. Remembers(task'[r], task[r]) /\ task'[r].pc = 2 /\ task'[r].status = "done"
  BY <1>1, <1>3, <1>4, ProceedsOf DEF PutToken
<1>6. asked[r] # None
  BY <1>3, NoSocialRow DEF ServerInv, SocialFacts
<1>7. /\ channels \in [Channel -> PushToken \cup {None}]
      /\ last \in [Channel -> Request \cup {None}]
  BY DEF ServerInv, SocialTypeOK
<1> QED BY <1>3, <1>5, <1>6, <1>7 DEF PutToken

LEMMA RowsGrow ==
  ASSUME ServerInv, TwinFacts, NEW r \in Request, Step(r), SocialStep(r)
  PROVE  Grows(r)
<1>a. /\ r \in Request \ Boot /\ Running(r) /\ task[r] \in Task
      /\ \A s : At(r, s) => InPlace(task[r].op, task[r].pc, s)
  BY SocialAlone, StepKinds
<1>t. /\ channels \in [Channel -> PushToken \cup {None}] /\ items \in SUBSET Item
      /\ last \in [Channel -> Request \cup {None}]
  BY DEF ServerInv, SocialTypeOK
<1>1. CASE PutChannel(r)
  <2> DEFINE own == [user |-> task[r].user, by |-> r]
  <2>1. At(r, "put") /\ items' = items /\ task[r].op = "channel" /\ task[r].pc = 2
    BY <1>1, <1>a DEF PutChannel, InPlace
  <2>2. CASE UNCHANGED <<channels, last>>
    BY <2>1, <2>2 DEF Grows
  <2>3. ASSUME NEW c \in Channel, PutToken(r, c), channels[c] # None
        PROVE  Grows(r)
    BY <1>a, <2>1, <2>3, TokenPut DEF Grows
  <2>4. CASE found[r] = None /\ PutToken(r, own)
    <3>1. task[r].user \in User
      BY <1>a, <2>1 DEF ServerInv, Typing, InMemory
    <3>2. own \in Channel /\ own.by = r /\ own.user = task[r].user
      BY <3>1 DEF Channel, Inserter
    <3> HIDE DEF own
    <3>3. /\ task'[r].status = "done" /\ channels'[own] # None /\ last'[own] = r
          /\ \A d \in Channel \ {own} : channels'[d] = channels[d] /\ last'[d] = last[d]
      BY <1>a, <2>1, <2>4, <3>2, TokenPut
    <3> QED BY <2>1, <2>4, <3>2, <3>3 DEF Grows
  <2>5. CASE found[r] # None /\ PutToken(r, found[r])
    <3>1. found[r] \in Channel
      BY <2>1, <2>5 DEF ServerInv, SocialFacts
    <3>2. channels[found[r]] # None
      BY <2>1, <2>5 DEF TwinFacts, TwinFactsOf
    <3> QED BY <2>3, <2>5, <3>1, <3>2
  <2>6. ASSUME NEW c \in ChannelsOf(task[r].user), PutToken(r, c)
        PROVE  Grows(r)
    BY <2>3, <2>6 DEF ChannelsOf
  <2> QED BY <1>1, <2>2, <2>4, <2>5, <2>6 DEF PutChannel, CannotPut
<1>2. CASE PutItem(r)
  <2>1. /\ task[r].op = "additems" /\ task[r].pc = 3 /\ UNCHANGED <<channels, last>>
        /\ items' \in {items, items \cup {found[r]}}
    BY <1>2, <1>a DEF PutItem, InPlace
  <2> QED BY <2>1 DEF Grows
<1>3. CASE DeleteStash(r)
  <2>1. UNCHANGED <<channels, last>> /\ items' \subseteq items
    BY <1>3 DEF DeleteStash
  <2>2. \A i \in items \ items' : ~HoldingItem(i)
    BY <1>3 DEF DeleteStash
  <2> QED BY <2>1, <2>2 DEF Grows
<1>4. CASE RemoveItem(r)
  <2>1. UNCHANGED <<channels, last>> /\ items' \subseteq items
    BY <1>4 DEF RemoveItem
  <2>2. \A i \in items \ items' : ~HoldingItem(i)
    BY <1>4 DEF RemoveItem
  <2> QED BY <2>1, <2>2 DEF Grows
<1>5. CASE ~(PutChannel(r) \/ PutItem(r) \/ DeleteStash(r) \/ RemoveItem(r))
  <2>1. UNCHANGED <<channels, last, items>>
    BY <1>5 DEF SocialStep, LookForChannel, InsertComment, LookUpMentions, NotifyMention,
       AttachMentions, ResolveTarget, CreateStash, ReadStash, SaveStash, FindItem, socialVars
  <2> QED BY <2>1 DEF Grows
<1> QED BY <1>1, <1>2, <1>3, <1>4, <1>5

\* The rows stay told apart: what a request inserts, it inserts among rows of
\* requests that overlap it.
LEMMA RowsKept ==
  ASSUME ServerInv, TwinFacts, NEW r \in Request, Step(r), SocialStep(r), Grows(r)
  PROVE  KeptRows'
<1>a. /\ Running(r) /\ past' = past /\ task'[r].op = task[r].op
      /\ \A q \in Request \ {r} : task'[q] = task[q]
  BY SocialAlone, StepKinds DEF Moves
<1>b. \A q \in Request : r \notin past[q]
  BY <1>a DEF ServerInv, Typing, Flow, Ended, Running
<1>r. Old \notin Request
  BY AccountAssumption
<1>t. items \in SUBSET Item /\ items' \in SUBSET Item
  BY StepsOver DEF ServerInv, SocialTypeOK
<1>1. ASSUME NEW c \in Channel, channels'[c] # None, c.by # Old
      PROVE  task'[c.by].op = "channel" /\ task'[c.by].status = "done"
  <2>1. c.by \in Request
    BY <1>1 DEF Channel, Inserter
  <2>2. CASE channels[c] # None
    <3>1. task[c.by].op = "channel" /\ task[c.by].status = "done"
      BY <1>1, <2>2 DEF TwinFacts, KeptRows
    <3>2. c.by # r
      BY <3>1, <1>a DEF Running
    <3> QED BY <1>a, <2>1, <3>1, <3>2
  <2>3. CASE channels[c] = None
    BY <1>1, <1>a, <2>3 DEF Grows
  <2> QED BY <2>2, <2>3
<1>2. ASSUME NEW c \in Channel, NEW d \in Channel, c # d, c.user = d.user,
             channels'[c] # None, channels'[d] # None, channels[c] # None
      PROVE  c.by # Old /\ d.by # Old /\ Overlap(c.by, d.by) /\ Overlap(d.by, c.by)
  <2>1. CASE channels[d] # None
    BY <1>2, <2>1 DEF TwinFacts, KeptRows, Overlap
  <2>2. CASE channels[d] = None
    <3>1. /\ d.by = r /\ d.user = task[r].user /\ task[r].op = "channel" /\ task[r].pc = 2
          /\ found[r] = None
      BY <1>2, <2>2 DEF Grows
    <3>2. c \in ChannelsOf(task[r].user)
      BY <1>2, <3>1 DEF ChannelsOf
    <3>3. c.by # Old /\ c.by \notin past[r]
      BY <1>a, <3>1, <3>2 DEF TwinFacts, TwinFactsOf, Running
    <3>4. c.by \in Request
      BY <3>3 DEF Channel, Inserter
    <3> QED BY <1>b, <1>r, <3>1, <3>3, <3>4 DEF Overlap
  <2> QED BY <2>1, <2>2
<1>3. ASSUME NEW c \in Channel, NEW d \in Channel, c # d, c.user = d.user,
             channels'[c] # None, channels'[d] # None
      PROVE  c.by # Old /\ d.by # Old /\ Overlap(c.by, d.by)
  <2>1. CASE channels[c] # None \/ channels[d] # None
    BY <1>2, <1>3, <2>1
  <2>2. CASE channels[c] = None /\ channels[d] = None
    <3>1. c.by = r /\ d.by = r
      BY <1>3, <2>2 DEF Grows
    <3> QED BY <3>1, <1>b, <1>r DEF Overlap
  <2> QED BY <2>1, <2>2
<1>4. ASSUME NEW i \in items'
      PROVE  i.by \in Request /\ task'[i.by].op = "additems" /\ i.by # Old
  <2>1. CASE i \in items
    <3>1. i.by \in Request /\ task[i.by].op = "additems" /\ i.by # Old
      BY <1>t, <2>1 DEF TwinFacts, KeptRows, Item, Inserter
    <3> QED BY <1>a, <3>1
  <2>2. CASE i \notin items
    <3>1. i = found[r] /\ task[r].op = "additems" /\ task[r].pc = 3
      BY <1>4, <2>2 DEF Grows
    <3>2. i.by = r
      BY <1>a, <2>2, <3>1 DEF TwinFacts, TwinFactsOf, Running
    <3> QED BY <1>a, <1>r, <3>1, <3>2
  <2> QED BY <2>1, <2>2
<1>5. ASSUME NEW i \in items, NEW j \in items', i # j, i.stash = j.stash, i.key = j.key
      PROVE  Overlap(i.by, j.by) /\ Overlap(j.by, i.by)
  <2>1. CASE j \in items
    BY <1>5, <2>1 DEF TwinFacts, KeptRows, Overlap
  <2>2. CASE j \notin items
    <3>1. j = found[r] /\ task[r].op = "additems" /\ task[r].pc = 3
      BY <1>5, <2>2 DEF Grows
    <3>2. j.by = r /\ i.by \notin past[r]
      BY <1>a, <1>5, <2>2, <3>1 DEF TwinFacts, TwinFactsOf, Running
    <3>3. i.by \in Request
      BY <1>t DEF TwinFacts, KeptRows, Item, Inserter
    <3> QED BY <1>b, <3>2, <3>3 DEF Overlap
  <2> QED BY <2>1, <2>2
<1>6. ASSUME NEW i \in items', NEW j \in items', i # j, i.stash = j.stash, i.key = j.key
      PROVE  Overlap(i.by, j.by)
  <2>1. CASE i \in items \/ j \in items
    BY <1>5, <1>6, <2>1
  <2>2. CASE i \notin items /\ j \notin items
    BY <1>6, <2>2 DEF Grows
  <2> QED BY <2>1, <2>2
<1> QED BY <1>a, <1>1, <1>3, <1>4, <1>6 DEF KeptRows, Overlap

\* What a request has found outlasts the steps of another.
LEMMA TwinsOfOthers ==
  ASSUME ServerInv, TwinFacts, NEW r \in Request, Step(r), SocialStep(r), Grows(r),
         NEW q \in Request \ {r}
  PROVE  TwinFactsOf(q)'
<1>a. /\ Running(r) /\ past' = past /\ task'[q] = task[q] /\ found'[q] = found[q]
  BY SocialAlone, StepKinds DEF Moves
<1>b. r \notin past[q]
  BY <1>a DEF ServerInv, Typing, Flow, Ended, Running
<1>r. Old \notin Request
  BY AccountAssumption
<1>f. TwinFactsOf(q)
  BY DEF TwinFacts
<1>1. ASSUME task[q].op = "channel", task[q].pc = 2, found[q] # None
      PROVE  found[q].user = task[q].user /\ channels'[found[q]] # None
  <2>1. found[q] \in Channel
    BY <1>1 DEF ServerInv, SocialFacts
  <2> QED BY <1>1, <1>f, <2>1 DEF Grows, TwinFactsOf
<1>2. ASSUME task[q].op = "channel", task[q].pc = 2, task[q].status = "running", found[q] = None,
             NEW c \in Channel, c.user = task[q].user, channels'[c] # None
      PROVE  c.by # Old /\ c.by \notin past[q]
  <2>1. CASE channels[c] # None
    BY <1>2, <1>f, <2>1 DEF TwinFactsOf, ChannelsOf
  <2>2. CASE channels[c] = None
    <3>1. c.by = r
      BY <1>2, <2>2 DEF Grows
    <3> QED BY <1>b, <1>r, <3>1
  <2> QED BY <2>1, <2>2
<1>3. ASSUME task[q].op = "channel", task[q].status = "done"
      PROVE  \E c \in Channel : /\ c.user = task[q].user /\ channels'[c] # None
                                /\ last'[c] \in Request /\ last'[c] \notin past[q]
  <2>1. PICK c \in ChannelsOf(task[q].user) : last[c] \in Request /\ last[c] \notin past[q]
    BY <1>3, <1>f DEF TwinFactsOf
  <2>2. c \in Channel /\ c.user = task[q].user /\ channels[c] # None
    BY <2>1 DEF ChannelsOf
  <2>3. channels'[c] # None /\ last'[c] \in {last[c], r}
    BY <2>2 DEF Grows
  <2> QED BY <1>b, <2>1, <2>2, <2>3
<1>4. ASSUME task[q].op = "additems", task[q].pc = 3, task[q].status = "running"
      PROVE  \/ found[q] \in items'
             \/ /\ found[q].by = q
                /\ \A i \in items' : i.stash = found[q].stash /\ i.key = found[q].key =>
                     i.by \notin past[q]
  <2>1. CASE found[q] \in items
    <3>1. At(q, "putitem")
      BY <1>4 DEF At, Running, Program
    <3>2. HoldingItem(found[q])
      BY <3>1 DEF HoldingItem
    <3> QED BY <2>1, <3>2 DEF Grows
  <2>2. CASE found[q] \notin items
    <3>1. ASSUME NEW i \in items', i.stash = found[q].stash, i.key = found[q].key
          PROVE  i.by \notin past[q]
      <4>1. CASE i \in items
        BY <1>4, <1>f, <2>2, <3>1, <4>1 DEF TwinFactsOf
      <4>2. CASE i \notin items
        <5>1. i = found[r] /\ task[r].op = "additems" /\ task[r].pc = 3
          BY <3>1, <4>2 DEF Grows
        <5>2. i.by = r
          BY <1>a, <4>2, <5>1 DEF TwinFacts, TwinFactsOf, Running
        <5> QED BY <1>b, <5>2
      <4> QED BY <4>1, <4>2
    <3>2. found[q].by = q
      BY <1>4, <1>f, <2>2 DEF TwinFactsOf
    <3> QED BY <3>1, <3>2
  <2> QED BY <2>1, <2>2
<1> QED BY <1>a, <1>1, <1>2, <1>3, <1>4 DEF TwinFactsOf, ChannelsOf

\* What a request looks up is as it finds it, and what it writes is its own.
LEMMA TwinsOfSelf ==
  ASSUME ServerInv, TwinFacts, NEW r \in Request, Step(r), SocialStep(r), Grows(r)
  PROVE  TwinFactsOf(r)'
<1> DEFINE s == task[r]
           t == task'[r]
<1>a. /\ r \in Request \ Boot /\ Running(r) /\ s \in Task /\ Flow /\ past' = past /\ t.op = s.op
      /\ \A x : At(r, x) => InPlace(s.op, s.pc, x)
  BY SocialAlone, StepKinds DEF ServerInv, Typing, Moves
<1>b. r \notin past[r] /\ s.status = "running"
  BY <1>a DEF Flow, Running
<1>t. found \in [Request -> Channel \cup Item \cup {None}]
  BY DEF ServerInv, SocialTypeOK
<1>f. TwinFactsOf(r)
  BY DEF TwinFacts
<1>e. ASSUME Fail(r)
      PROVE  /\ Remembers(t, s) /\ t.pc = s.pc /\ t.status = "failed"
  BY <1>a, <1>e, Fails
<1>1. CASE LookForChannel(r)
  <2>1. s.op = "channel" /\ s.pc = 1 /\ UNCHANGED <<channels, last>>
    BY <1>1, <1>a DEF LookForChannel, InPlace
  <2>2. Len(Program[s.op]) = 2
    BY <2>1, Lengths
  <2>3. CASE Fail(r)
    BY <1>a, <1>e, <2>1, <2>3 DEF TwinFactsOf
  <2>4. ASSUME Proceed(r)
        PROVE  t.pc = 2 /\ t.status = "running" /\ t.user = s.user
    BY <1>a, <2>1, <2>2, <2>4, ProceedsOf DEF Remembers
  <2>5. ASSUME NEW c \in ChannelsOf(s.user), Find(r, c), Proceed(r)
        PROVE  TwinFactsOf(r)'
    <3>1. c \in Channel /\ c.user = s.user /\ channels[c] # None /\ found'[r] = c
      BY <1>t, <2>5 DEF ChannelsOf, Find
    <3>2. found'[r] # None
      BY <3>1, NoSocialRow
    <3> QED BY <1>a, <2>1, <2>4, <2>5, <3>1, <3>2 DEF TwinFactsOf
  <2>6. CASE ChannelsOf(s.user) = {} /\ Find(r, None) /\ Proceed(r)
    <3>1. found'[r] = None /\ \A c \in Channel : c.user = s.user => channels'[c] = None
      BY <1>t, <2>1, <2>6 DEF Find, ChannelsOf
    <3> QED BY <1>a, <2>1, <2>4, <2>6, <3>1 DEF TwinFactsOf, ChannelsOf
  <2> QED BY <1>1, <2>3, <2>5, <2>6 DEF LookForChannel
<1>2. CASE PutChannel(r)
  <2> DEFINE own == [user |-> s.user, by |-> r]
  <2>1. /\ At(r, "put") /\ UNCHANGED found /\ s.op = "channel" /\ s.pc = 2
        /\ s.user \in User
    BY <1>2, <1>a DEF PutChannel, InPlace, ServerInv, Typing, InMemory
  <2>2. CASE Fail(r) /\ UNCHANGED <<channels, last>>
    BY <1>a, <1>e, <1>f, <2>1, <2>2 DEF TwinFactsOf, Remembers
  <2>3. ASSUME NEW c \in Channel, PutToken(r, c), c.user = s.user
        PROVE  TwinFactsOf(r)'
    <3>1. /\ t.user = s.user /\ t.pc = 2 /\ t.status = "done"
          /\ channels'[c] # None /\ last'[c] = r
      BY <1>a, <2>1, <2>3, TokenPut DEF Remembers
    <3>2. \E d \in Channel : /\ d.user = t.user /\ channels'[d] # None
                             /\ last'[d] \in Request /\ last'[d] \notin past'[r]
      BY <1>a, <1>b, <2>3, <3>1
    <3>3. found'[r] # None => found'[r].user = t.user /\ channels'[found'[r]] # None
      <4>1. ASSUME found[r] # None
            PROVE  found[r] \in Channel /\ found[r].user = s.user /\ channels[found[r]] # None
        BY <1>f, <2>1, <4>1 DEF TwinFactsOf, ServerInv, SocialFacts
      <4> QED BY <2>1, <3>1, <4>1 DEF Grows
    <3> QED BY <1>a, <2>1, <3>1, <3>2, <3>3 DEF TwinFactsOf, ChannelsOf
  <2>4. own \in Channel /\ own.user = s.user
    BY <2>1 DEF Channel, Inserter
  <2>5. found[r] # None => found[r] \in Channel /\ found[r].user = s.user
    BY <1>f, <2>1 DEF TwinFactsOf, ServerInv, SocialFacts
  <2>6. \A c \in ChannelsOf(s.user) : c \in Channel /\ c.user = s.user
    BY DEF ChannelsOf
  <2> QED BY <1>2, <2>2, <2>3, <2>4, <2>5, <2>6 DEF PutChannel, CannotPut
<1>3. CASE FindItem(r)
  <2>1. s.op = "additems" /\ s.pc = 2 /\ UNCHANGED items
    BY <1>3, <1>a DEF FindItem, InPlace
  <2>2. CASE Fail(r)
    BY <1>a, <1>e, <2>1, <2>2 DEF TwinFactsOf
  <2>3. ASSUME NEW i \in items, Find(r, i)
        PROVE  TwinFactsOf(r)'
    BY <1>a, <1>t, <2>1, <2>3 DEF TwinFactsOf, Find
  <2>4. ASSUME NEW k \in todo[r], {i \in items : i.stash = s.org /\ i.key = k} = {},
               Find(r, [stash |-> s.org, key |-> k, by |-> r])
        PROVE  TwinFactsOf(r)'
    <3>1. found'[r] = [stash |-> s.org, key |-> k, by |-> r]
      BY <1>t, <2>4 DEF Find
    <3>2. \A i \in items : ~(i.stash = s.org /\ i.key = k)
      BY <2>4
    <3> HIDE DEF s
    <3>3. found'[r].by = r /\ found'[r].stash = s.org /\ found'[r].key = k
      BY <3>1
    <3> QED BY <1>a, <2>1, <3>2, <3>3 DEF TwinFactsOf
  <2> QED BY <1>3, <2>2, <2>3, <2>4 DEF FindItem
<1>4. CASE PutItem(r)
  <2>1. s.op = "additems" /\ s.pc = 3
    BY <1>4, <1>a DEF PutItem, InPlace
  <2>2. t.status # "running" \/ t.pc # 3
    <3>1. Len(Program[s.op]) = 3
      BY <2>1, Lengths
    <3>2. Proceed(r) => t.status = "done"
      BY <1>a, <2>1, <3>1, ProceedsOf
    <3>3. Goto(r, [task[r] EXCEPT !.pc = task[r].pc - 1]) => t.pc = 2
      BY <1>a, <2>1 DEF Goto, Flow, Task
    <3> QED BY <1>4, <1>e, <3>2, <3>3 DEF PutItem
  <2> QED BY <1>a, <2>1, <2>2 DEF TwinFactsOf
<1>5. CASE ~(LookForChannel(r) \/ PutChannel(r) \/ FindItem(r) \/ PutItem(r))
  <2>1. s.op # "channel" /\ (s.op = "additems" => s.pc = 1)
    BY <1>5, <1>a DEF SocialStep, InsertComment, LookUpMentions, NotifyMention, AttachMentions,
       ResolveTarget, CreateStash, ReadStash, SaveStash, DeleteStash, RemoveItem, InPlace
  <2>2. s.op = "additems" => t.pc # 3
    <3>1. ASSUME s.op = "additems"
          PROVE  t.pc # 3
      <4>1. ReadStash(r)
        BY <1>5, <1>a, <3>1 DEF SocialStep, InsertComment, LookUpMentions, NotifyMention,
           AttachMentions, ResolveTarget, CreateStash, SaveStash, DeleteStash, RemoveItem, InPlace
      <4>2. Len(Program[s.op]) = 3
        BY <3>1, Lengths
      <4> QED BY <1>a, <1>e, <2>1, <3>1, <4>1, <4>2, ProceedsOf DEF ReadStash
    <3> QED BY <3>1
  <2> QED BY <1>a, <2>1, <2>2 DEF TwinFactsOf
<1> QED BY <1>1, <1>2, <1>3, <1>4, <1>5

LEMMA TwinsElsewhere ==
  ASSUME ServerInv, TwinFacts, UNCHANGED <<channels, items, found, last>>,
         \A q \in Request : Elsewhere(q)
  PROVE  TwinFacts'
<1>n. None \notin SocialOp
  BY TopicAssumption, Ops DEF SocialOp
<1>1. ASSUME NEW q \in Request, task[q].op \in SocialOp
      PROVE  /\ task'[q].op = task[q].op /\ past'[q] = past[q] /\ task'[q].pc = task[q].pc
             /\ task'[q].user = task[q].user
             /\ task'[q].status = "done" <=> task[q].status = "done"
             /\ task'[q].status = "running" => task[q].status = "running"
  BY <1>1, <1>n
     DEF Elsewhere, Kept, Remembers, Running, BeginsSocial, Begins, ServerInv, Typing, Flow
<1>2. ASSUME NEW q \in Request, task[q].op \notin SocialOp
      PROVE  \/ task'[q].op \notin SocialOp
             \/ task'[q].pc = 1 /\ task'[q].status = "running"
  BY <1>2 DEF Elsewhere, Kept, Remembers, BeginsSocial, Begins
<1>3. \A i \in items : i.by \in Request /\ task[i.by].op \in SocialOp
  BY DEF TwinFacts, KeptRows, ServerInv, SocialTypeOK, Item, Inserter, SocialOp
<1>4. \A c \in Channel : channels[c] # None /\ c.by # Old =>
        c.by \in Request /\ task[c.by].op \in SocialOp
  BY DEF TwinFacts, KeptRows, Channel, Inserter, SocialOp
<1>5. KeptRows'
  <2>1. \A c \in Channel : channels[c] # None /\ c.by # Old =>
          task'[c.by].op = "channel" /\ task'[c.by].status = "done"
    BY <1>1, <1>4 DEF TwinFacts, KeptRows
  <2>2. ASSUME NEW c \in Channel, NEW d \in Channel, c # d, c.user = d.user,
               channels[c] # None, channels[d] # None
        PROVE  /\ c.by # Old /\ d.by # Old
               /\ c.by \notin past'[d.by] /\ d.by \notin past'[c.by]
    <3>1. c.by # Old /\ d.by # Old /\ Overlap(c.by, d.by)
      BY <2>2 DEF TwinFacts, KeptRows
    <3>2. past'[c.by] = past[c.by] /\ past'[d.by] = past[d.by]
      BY <1>1, <1>4, <2>2, <3>1
    <3> QED BY <3>1, <3>2 DEF Overlap
  <2>3. \A i \in items : i.by # Old /\ task'[i.by].op = "additems"
    BY <1>1, <1>3 DEF TwinFacts, KeptRows
  <2>4. ASSUME NEW i \in items, NEW j \in items, i # j, i.stash = j.stash, i.key = j.key
        PROVE  i.by \notin past'[j.by] /\ j.by \notin past'[i.by]
    <3>1. Overlap(i.by, j.by)
      BY <2>4 DEF TwinFacts, KeptRows
    <3>2. past'[i.by] = past[i.by] /\ past'[j.by] = past[j.by]
      BY <1>1, <1>3, <2>4
    <3> QED BY <3>1, <3>2 DEF Overlap
  <2> QED BY <2>1, <2>2, <2>3, <2>4 DEF KeptRows, Overlap
<1>6. ASSUME NEW q \in Request
      PROVE  TwinFactsOf(q)'
  <2>1. CASE task[q].op \in SocialOp
    <3>1. TwinFactsOf(q)
      BY DEF TwinFacts
    <3> QED BY <1>1, <2>1, <3>1 DEF TwinFactsOf, ChannelsOf
  <2>2. CASE task[q].op \notin SocialOp
    BY <1>2, <2>2 DEF TwinFactsOf, SocialOp
  <2> QED BY <2>1, <2>2
<1> QED BY <1>5, <1>6 DEF TwinFacts

LEMMA TwinsBegin == ServerInit => TwinFacts
<1> SUFFICES ASSUME ServerInit PROVE TwinFacts
  OBVIOUS
<1>1. items = {} /\ \A c \in Channel : channels[c] # None => c = MembersChannel
  BY DEF ServerInit, SocialInit
<1>2. MembersChannel.by = Old
  BY DEF MembersChannel
<1>3. \A r \in Request : task[r].op = None
  BY DEF ServerInit, AccountInit, NoTask
<1> QED BY <1>1, <1>2, <1>3, TopicAssumption, Ops DEF TwinFacts, KeptRows, TwinFactsOf

LEMMA TwinsHold == ServerSpec => []TwinFacts
<1>1. ServerInv /\ TwinFacts /\ [ServerNext]_serverVars => TwinFacts'
  <2> SUFFICES ASSUME ServerInv, TwinFacts, [ServerNext]_serverVars
               PROVE  TwinFacts'
    OBVIOUS
  <2>1. ASSUME NEW r \in Request, Step(r), SocialStep(r)
        PROVE  TwinFacts'
    <3>1. Grows(r)
      BY <2>1, RowsGrow
    <3>2. KeptRows' /\ TwinFactsOf(r)'
      BY <2>1, <3>1, RowsKept, TwinsOfSelf
    <3>3. \A q \in Request \ {r} : TwinFactsOf(q)'
      BY <2>1, <3>1, TwinsOfOthers
    <3> QED BY <3>2, <3>3 DEF TwinFacts
  <2>2. CASE \A r \in Request : ~(Step(r) /\ SocialStep(r))
    BY <2>2, SocialAside, TwinsElsewhere
  <2> QED BY <2>1, <2>2
<1> QED BY <1>1, TwinsBegin, ServerHolds, PTL DEF ServerSpec

\* Of two channels of a user, or two items of a stash with one key, each was
\* inserted by a request that had not ended when the other's began.
THEOREM TwinsAreConcurrent == ServerSpec => []TwinsOverlap
<1>1. ServerInv /\ TwinFacts => TwinsOverlap
  BY DEF ServerInv, TwinFacts, KeptRows, TwinsOverlap, ChannelsOf
<1> QED BY <1>1, ServerHolds, TwinsHold, PTL

\* While a user has one channel, its token is that of a registration which none
\* that began after its answer has succeeded.
THEOREM ChannelsKeepLastAnswer == ServerSpec => []ChannelKeepsLastAnswer
<1>1. ServerInv /\ TwinFacts => ChannelKeepsLastAnswer
  <2> SUFFICES ASSUME ServerInv, TwinFacts, NEW q \in Request,
                      task[q].op = "channel", task[q].status = "done",
                      NEW c \in ChannelsOf(task[q].user), ChannelsOf(task[q].user) = {c}
               PROVE  last[c] # None /\ last[c] \notin past[q]
    BY DEF ChannelKeepsLastAnswer
  <2>1. last[c] \in Request /\ last[c] \notin past[q]
    BY DEF TwinFacts, TwinFactsOf
  <2>2. None \notin Request
    BY AccountAssumption DEF OrgId, Inserter
  <2> QED BY <2>1, <2>2
<1> QED BY <1>1, ServerHolds, TwinsHold, PTL

-----------------------------------------------------------------------------
(* Inventory: what was answered stands *)

\* The request w is not one that had ended when q was asked.
Later(w, q) == w \in Request /\ w \notin past[q]

\* A deletion with the order o takes the device p[1] out of the group p[2].
TakesOut(o, p) ==
  \/ o.kind = "device" /\ o.row = p[1]
  \/ o.kind = "group" /\ o.row = p[2]

\* What a request has written was written last by it or by a later one, or is
\* about to be.
AnsweredOf(q) ==
  LET t == task[q]
      o == order[q]
  IN  /\ t.op \in {"device", "group", "profile", "edit", "remove", "enlist"} /\ t.status = "done" =>
           Later(wrote[o.kind][o.row], q)
      /\ t.op = "remove" /\ t.pc = 2 /\ t.status = "running" =>
           Has(o.kind, o.row) \/ Later(wrote[o.kind][o.row], q)
      /\ t.op = "permit" =>
           \A i \in 1..4 :
             (i < t.pc \/ t.status = "done") /\ Program["permit"][i] \in o.lists =>
               Later(lists[Program["permit"][i]], q)
      /\ t.op = "enlist" /\ t.pc = 4 =>
           \/ <<o.row, o.group>> \in grouped
           \/ \E x \in Request : /\ task[x].op = "remove" /\ task[x].status = "done"
                                 /\ Later(x, q) /\ TakesOut(order[x], <<o.row, o.group>>)

Answered == \A q \in Request : AnsweredOf(q)

\* What a step of the request r may do to rows, groups and lists.
Marks(r) ==
  /\ \A k \in Kind, x \in Inserter :
       /\ wrote'[k][x] \in {wrote[k][x], r}
       /\ rows[k][x] # None => rows'[k][x] # None \/ wrote'[k][x] = r
  /\ \A l \in List : lists'[l] \in {lists[l], r}
  /\ \A p \in grouped \ grouped' :
       /\ task'[r].op = "remove" /\ task'[r].status = "done"
       /\ TakesOut(order'[r], p)
  /\ \A q \in Request \ {r} : order'[q] = order[q]

LEMMA InventoryAlone ==
  ASSUME ServerInv, NEW r \in Request, Step(r), InventoryStep(r)
  PROVE  /\ r \in Request \ Boot /\ Running(r) /\ Flow /\ past' = past
         /\ task[r].op \in InventoryOp /\ task'[r].op = task[r].op /\ task[r] \in Task
         /\ task'[r].status \in {"running", "done", "failed"}
         /\ \A s : At(r, s) => InPlace(task[r].op, task[r].pc, s)
         /\ \A q \in Request \ {r} : task'[q] = task[q]
         /\ r \in Inserter /\ \A q \in Request : r \notin past[q]
         /\ order[r] \in Order /\ order[r].kind \in Kind
<1>1. /\ Moves(r) /\ Running(r) /\ Flow /\ task[r].op \in InventoryOp /\ task[r] \in Task
      /\ \A s : At(r, s) => InPlace(task[r].op, task[r].pc, s)
  BY StepKinds, Groups DEF ServerInv, Typing
<1>2. r \notin Boot
  BY <1>1 DEF Flow, Running, BootOp, InventoryOp
<1>3. \A q \in Request : r \notin past[q]
  BY <1>1 DEF Flow, Ended, Running
<1>4. order[r] \in Order /\ order[r].kind \in Kind
  BY DEF ServerInv, InventoryRows, Order
<1> QED BY <1>1, <1>2, <1>3, <1>4 DEF Moves, Inserter

LEMMA RowMarked ==
  ASSUME InventoryRows, NEW r \in Request, NEW k \in Kind, NEW x \in Inserter,
         NEW p \in Place \cup {None}, Write(r, k, x, p),
         UNCHANGED <<grouped, lists>>, \A q \in Request \ {r} : order'[q] = order[q]
  PROVE  Marks(r)
<1>1. /\ wrote'[k][x] = r
      /\ \A j \in Kind, y \in Inserter :
           j # k \/ y # x => rows'[j][y] = rows[j][y] /\ wrote'[j][y] = wrote[j][y]
  BY RowWritten
<1> QED BY <1>1 DEF Marks

LEMMA NothingMarked ==
  ASSUME NEW r \in Request, UNCHANGED <<rows, wrote>>,
         \A l \in List : lists'[l] \in {lists[l], r}, grouped \subseteq grouped',
         \A q \in Request \ {r} : order'[q] = order[q]
  PROVE  Marks(r)
BY DEF Marks

LEMMA InventoryMarks ==
  ASSUME ServerInv, NEW r \in Request, Step(r), InventoryStep(r)
  PROVE  Marks(r)
<1> DEFINE o == order[r]
<1>a. /\ r \in Request \ Boot /\ Running(r) /\ Flow /\ r \in Inserter
      /\ \A s : At(r, s) => InPlace(task[r].op, task[r].pc, s)
      /\ o \in Order /\ o.kind \in Kind /\ task'[r].op = task[r].op
  BY InventoryAlone
<1>b. InventoryRows /\ InventoryFactsOf(r) /\ lists \in [List -> Inserter]
  BY DEF ServerInv, InventoryFacts, InventoryRows
<1>1. CASE PutDevice(r)
  <2>1. PICK x \in (IF Like("device", o.place) = {} THEN {r} ELSE Like("device", o.place)) :
          OnRow(r, x) /\ Write(r, "device", x, o.place)
    BY <1>1 DEF PutDevice
  <2>2. x \in Inserter /\ "device" \in Kind /\ o.place \in Place \cup {None}
    BY <1>a DEF Like, Kind, Order
  <2>3. UNCHANGED <<grouped, lists>> /\ \A q \in Request \ {r} : order'[q] = order[q]
    BY <1>1, <1>b, <2>1, <2>2, OnRowOrder DEF PutDevice
  <2> QED BY <1>b, <2>1, <2>2, <2>3, RowMarked
<1>2. CASE PutFile(r)
  <2>1. PICK x \in Inserter :
          /\ OnRow(r, x)
          /\ UNCHANGED <<rows, wrote>> \/ Write(r, "file", r, o.place)
    BY <1>2, <1>a DEF PutFile, Like
  <2>2. "file" \in Kind /\ o.place \in Place \cup {None}
    BY <1>a DEF Kind, Order
  <2>3. UNCHANGED <<grouped, lists>> /\ \A q \in Request \ {r} : order'[q] = order[q]
    BY <1>2, <1>b, <2>1, OnRowOrder DEF PutFile
  <2> QED BY <1>a, <1>b, <2>1, <2>2, <2>3, RowMarked, NothingMarked
<1>3. CASE InsertRow(r)
  <2>1. UNCHANGED <<rows, wrote>> \/ Write(r, o.kind, r, o.place)
    BY <1>3 DEF InsertRow, Refused
  <2>2. o.place \in Place \cup {None}
    BY <1>a DEF Order
  <2>3. UNCHANGED <<grouped, lists>> /\ \A q \in Request \ {r} : order'[q] = order[q]
    BY <1>3, <1>a, <1>b, OnRowOrder DEF InsertRow
  <2> HIDE DEF o
  <2> QED BY <1>a, <1>b, <2>1, <2>2, <2>3, RowMarked, NothingMarked
<1>4. CASE SaveRow(r)
  <2> DEFINE p == IF o.place = None THEN kept[r] ELSE o.place
  <2>1. UNCHANGED <<rows, wrote>> \/ Write(r, o.kind, o.row, p)
    BY <1>4 DEF SaveRow, Refused
  <2>2. task[r].op \in {"edit", "enlist"}
    BY <1>4, <1>a DEF SaveRow, InPlace
  <2>3. p \in Place \cup {None} /\ o.row \in Inserter
    BY <1>a, <1>b, <2>2 DEF Order, InventoryRows, InventoryFactsOf
  <2>4. UNCHANGED <<grouped, lists, order>>
    BY <1>4 DEF SaveRow
  <2> HIDE DEF o, p
  <2> QED BY <1>a, <1>b, <2>1, <2>3, <2>4, RowMarked, NothingMarked
<1>5. CASE DeleteRow(r)
  <2>1. /\ At(r, "deleterow") /\ UNCHANGED <<lists, order>> /\ Proceed(r)
        /\ UNCHANGED <<rows, wrote>> \/ Write(r, o.kind, o.row, None)
    BY <1>5 DEF DeleteRow
  <2>2. task[r].op = "remove" /\ task[r].pc = 2
    BY <1>a, <2>1 DEF InPlace
  <2>3. task'[r].status = "done"
    <3>1. Len(Program[task[r].op]) = 2
      BY <2>2, Lengths
    <3> QED BY <1>a, <2>1, <2>2, <3>1, ProceedsOf
  <2>4. \A p \in grouped \ grouped' : TakesOut(o, p)
    BY <1>5 DEF DeleteRow, TakesOut
  <2>5. o.row \in Inserter
    BY <1>b, <2>2 DEF InventoryFactsOf
  <2>6. \A k \in Kind, x \in Inserter :
          /\ wrote'[k][x] \in {wrote[k][x], r}
          /\ rows[k][x] # None => rows'[k][x] # None \/ wrote'[k][x] = r
    <3>1. CASE UNCHANGED <<rows, wrote>>
      BY <3>1
    <3>2. CASE Write(r, o.kind, o.row, None)
      <4> HIDE DEF o
      <4> QED BY <1>a, <1>b, <2>5, <3>2, RowWritten
    <3> QED BY <2>1, <3>1, <3>2
  <2> QED BY <1>a, <2>1, <2>2, <2>3, <2>4, <2>6 DEF Marks
<1>6. CASE SetList(r)
  <2>1. UNCHANGED <<rows, wrote, grouped, order>>
    BY <1>6 DEF SetList
  <2>2. \A l \in List : lists'[l] \in {lists[l], r}
    BY <1>6, <1>b DEF SetList
  <2> QED BY <2>1, <2>2, NothingMarked
<1>7. CASE AddPair(r)
  <2>1. UNCHANGED <<rows, wrote, lists, order>> /\ grouped \subseteq grouped'
    BY <1>7 DEF AddPair
  <2> QED BY <2>1, NothingMarked
<1>8. CASE ReadRow(r) \/ ReadGroup(r)
  <2>1. UNCHANGED <<rows, wrote, lists, grouped, order>>
    BY <1>8 DEF ReadRow, ReadGroup, inventoryVars
  <2> QED BY <2>1, NothingMarked
<1> QED BY <1>1, <1>2, <1>3, <1>4, <1>5, <1>6, <1>7, <1>8 DEF InventoryStep

\* The step of another request leaves what was answered to stand.
LEMMA AnsweredOthers ==
  ASSUME ServerInv, Answered, NEW r \in Request, Step(r), InventoryStep(r), Marks(r),
         NEW q \in Request \ {r}
  PROVE  AnsweredOf(q)'
<1> DEFINE t == task[q]
           o == order[q]
<1>a. /\ past' = past /\ task'[q] = t /\ order'[q] = o /\ r \notin past[q] /\ r \in Request
      /\ Running(r) /\ \A x \in Request \ {r} : task'[x] = task[x]
  BY InventoryAlone DEF Marks
<1>f. AnsweredOf(q) /\ InventoryFactsOf(q)
  BY DEF Answered, ServerInv, InventoryFacts
<1>o. o \in Order /\ o.kind \in Kind /\ o.lists \subseteq List
  BY DEF ServerInv, InventoryRows, Order
<1>1. ASSUME Later(wrote[o.kind][o.row], q), o.row \in Inserter
      PROVE  Later(wrote'[o.kind][o.row], q)
  <2> HIDE DEF o
  <2> QED BY <1>1, <1>a, <1>o DEF Marks, Later
<1>2. ASSUME Has(o.kind, o.row), o.row \in Inserter
      PROVE  rows'[o.kind][o.row] # None \/ Later(wrote'[o.kind][o.row], q)
  <2> HIDE DEF o
  <2> QED BY <1>2, <1>a, <1>o DEF Marks, Later, Has
<1>3. ASSUME NEW l \in o.lists, Later(lists[l], q)
      PROVE  Later(lists'[l], q)
  <2> HIDE DEF o
  <2> QED BY <1>3, <1>a, <1>o DEF Marks, Later
<1>4. ASSUME NEW p \in grouped
      PROVE  \/ p \in grouped'
             \/ \E x \in Request : /\ task'[x].op = "remove" /\ task'[x].status = "done"
                                   /\ Later(x, q) /\ TakesOut(order'[x], p)
  BY <1>4, <1>a DEF Marks, Later
<1>5. ASSUME NEW p, NEW x \in Request, task[x].op = "remove", task[x].status = "done",
             Later(x, q), TakesOut(order[x], p)
      PROVE  /\ task'[x].op = "remove" /\ task'[x].status = "done"
             /\ Later(x, q) /\ TakesOut(order'[x], p)
  <2>1. x # r
    BY <1>5, <1>a DEF Running
  <2> QED BY <1>5, <1>a, <2>1 DEF Marks
<1>6. \/ t.op \in {"device", "group", "profile"} /\ t.status = "done"
      \/ t.op \in {"edit", "remove", "enlist"}
      => o.row \in Inserter
  BY <1>f DEF InventoryFactsOf
<1>8. t.op = "enlist" /\ t.pc = 4 =>
        \/ <<o.row, o.group>> \in grouped'
        \/ \E x \in Request : /\ task'[x].op = "remove" /\ task'[x].status = "done"
                              /\ Later(x, q) /\ TakesOut(order'[x], <<o.row, o.group>>)
  BY <1>f, <1>4, <1>5 DEF AnsweredOf
<1> QED BY <1>a, <1>f, <1>1, <1>2, <1>3, <1>6, <1>8 DEF AnsweredOf, Later, Has, TakesOut

\* What a request itself has written was written by nobody that had ended
\* before.
LEMMA AnsweredSelf ==
  ASSUME ServerInv, Answered, NEW r \in Request, Step(r), InventoryStep(r), Marks(r)
  PROVE  AnsweredOf(r)'
<1> DEFINE s == task[r]
           t == task'[r]
           o == order[r]
           u == order'[r]
<1>a. /\ r \in Request \ Boot /\ Running(r) /\ Flow /\ past' = past /\ r \notin past[r]
      /\ s.op \in InventoryOp /\ t.op = s.op /\ s \in Task /\ r \in Inserter
      /\ \A x : At(r, x) => InPlace(s.op, s.pc, x)
      /\ o \in Order /\ o.kind \in Kind
  BY InventoryAlone
<1>b. InventoryRows /\ InventoryFactsOf(r) /\ lists \in [List -> Inserter] /\ AnsweredOf(r)
      /\ s.status = "running"
  BY <1>a DEF ServerInv, InventoryFacts, InventoryRows, Answered, Running
<1>e. ASSUME Fail(r)
      PROVE  t.pc = s.pc /\ t.status = "failed"
  BY <1>a, <1>e, Fails
<1>1. CASE PutDevice(r)
  <2>1. PICK x \in (IF Like("device", o.place) = {} THEN {r} ELSE Like("device", o.place)) :
          OnRow(r, x) /\ Write(r, "device", x, o.place)
    BY <1>1 DEF PutDevice
  <2>2. x \in Inserter /\ "device" \in Kind /\ o.place \in Place \cup {None}
    BY <1>a DEF Like, Kind, Order
  <2>3. s.op = "device" /\ o.kind = "device"
    BY <1>1, <1>a, <1>b DEF PutDevice, InPlace, InventoryFactsOf
  <2>4. u.row = x /\ u.kind = "device"
    BY <1>b, <2>1, <2>2, <2>3, OnRowOrder
  <2>5. wrote'["device"][x] = r
    BY <1>b, <2>1, <2>2, RowWritten
  <2> HIDE DEF u, t, s, o
  <2>6. wrote'[u.kind][u.row] = r
    BY <2>4, <2>5
  <2> QED BY <1>a, <2>3, <2>6 DEF AnsweredOf, Later, u, t, s, o
<1>2. CASE PutFile(r)
  <2>1. s.op = "upload"
    BY <1>2, <1>a DEF PutFile, InPlace
  <2> QED BY <1>a, <2>1 DEF AnsweredOf
<1>3. CASE InsertRow(r)
  <2>1. s.op \in {"group", "profile"}
    BY <1>3, <1>a DEF InsertRow, InPlace
  <2>2. CASE Fail(r)
    BY <1>a, <1>e, <2>1, <2>2 DEF AnsweredOf
  <2>3. CASE Write(r, o.kind, r, o.place)
    <3>1. u.row = r /\ u.kind = o.kind
      BY <1>3, <1>a, <1>b, OnRowOrder DEF InsertRow
    <3>2. o.place \in Place \cup {None}
      BY <1>a DEF Order
    <3> HIDE DEF u, t, s, o
    <3>3. wrote'[o.kind][r] = r
      BY <1>a, <1>b, <2>3, <3>2, RowWritten
    <3>4. wrote'[u.kind][u.row] = r
      BY <3>1, <3>3
    <3> QED BY <1>a, <2>1, <3>4 DEF AnsweredOf, Later, u, t, s, o
  <2> QED BY <1>3, <2>2, <2>3 DEF InsertRow, Refused
<1>4. CASE SaveRow(r)
  <2> DEFINE p == IF o.place = None THEN kept[r] ELSE o.place
  <2>1. s.op \in {"edit", "enlist"} /\ (s.op = "enlist" => s.pc = 4) /\ u = o
    BY <1>4, <1>a DEF SaveRow, InPlace
  <2>2. grouped' = grouped /\ \A x \in Request \ {r} : task'[x] = task[x] /\ order'[x] = order[x]
    BY <1>4, InventoryAlone DEF SaveRow
  <2>3. s.op = "enlist" =>
          \/ <<o.row, o.group>> \in grouped'
          \/ \E x \in Request : /\ task'[x].op = "remove" /\ task'[x].status = "done"
                                /\ Later(x, r) /\ TakesOut(order'[x], <<o.row, o.group>>)
    <3>1. ASSUME NEW x \in Request, task[x].op = "remove", task[x].status = "done"
          PROVE  x # r
      BY <1>b, <3>1
    <3> QED BY <1>b, <2>1, <2>2, <3>1 DEF AnsweredOf
  <2>4. CASE Fail(r)
    BY <1>a, <1>e, <2>1, <2>3, <2>4 DEF AnsweredOf, Later, TakesOut
  <2>5. CASE Write(r, o.kind, o.row, p)
    <3>1. p \in Place \cup {None} /\ o.row \in Inserter
      BY <1>a, <1>b, <2>1 DEF Order, InventoryRows, InventoryFactsOf
    <3> HIDE DEF t, s, o, p
    <3>2. wrote'[o.kind][o.row] = r
      BY <1>a, <1>b, <2>5, <3>1, RowWritten
    <3>3. Later(wrote'[u.kind][u.row], r)
      BY <1>a, <2>1, <3>2 DEF Later
    <3> QED BY <1>a, <2>1, <2>3, <3>3 DEF AnsweredOf, Later, TakesOut, t, s, o
  <2> QED BY <1>4, <2>4, <2>5 DEF SaveRow, Refused
<1>5. CASE DeleteRow(r)
  <2>1. s.op = "remove" /\ s.pc = 2 /\ u = o
    BY <1>5, <1>a DEF DeleteRow, InPlace
  <2>2. t.status = "done"
    <3>1. Len(Program[s.op]) = 2
      BY <2>1, Lengths
    <3> QED BY <1>5, <1>a, <2>1, <3>1, ProceedsOf DEF DeleteRow
  <2>3. Later(wrote'[o.kind][o.row], r)
    <3>1. CASE Has(o.kind, o.row)
      <4>1. Write(r, o.kind, o.row, None) /\ o.row \in Inserter
        BY <1>5, <1>b, <2>1, <3>1 DEF DeleteRow, InventoryFactsOf
      <4> HIDE DEF o
      <4>2. wrote'[o.kind][o.row] = r
        BY <1>a, <1>b, <4>1, RowWritten
      <4> QED BY <1>a, <4>2 DEF Later
    <3>2. CASE ~Has(o.kind, o.row)
      <4>1. wrote' = wrote
        BY <1>5, <3>2 DEF DeleteRow
      <4> QED BY <1>b, <2>1, <3>2, <4>1 DEF AnsweredOf
    <3> QED BY <3>1, <3>2
  <2> QED BY <1>a, <2>1, <2>2, <2>3 DEF AnsweredOf, Later
<1>6. CASE SetList(r)
  <2>1. PICK l \in List : /\ At(r, l) /\ UNCHANGED order /\ Proceed(r)
                          /\ lists' = IF l \in o.lists THEN [lists EXCEPT ![l] = r] ELSE lists
    BY <1>6 DEF SetList
  <2>2. s.op = "permit" /\ s.pc \in 1..4 /\ l = Program["permit"][s.pc]
    <3>1. s.op = "permit"
      BY <1>a, <2>1 DEF InPlace, List, Lists
    <3>2. Len(Program["permit"]) = 4 /\ Placed(s)
      BY <1>a, Lengths DEF Flow, Running
    <3> QED BY <2>1, <3>1, <3>2 DEF At, Placed
  <2>3. t.pc <= s.pc + 1 /\ (t.status # "done" \/ s.pc = 4)
    <3>1. Len(Program[s.op]) = 4
      BY <2>2, Lengths
    <3> QED BY <1>a, <2>1, <2>2, <3>1, ProceedsOf
  <2>4. ASSUME NEW i \in 1..4, i <= s.pc, Program["permit"][i] \in o.lists
        PROVE  Later(lists'[Program["permit"][i]], r)
    <3>1. CASE i = s.pc
      BY <1>a, <1>b, <2>1, <2>2, <2>4, <3>1 DEF Later
    <3>2. CASE i < s.pc
      <4>1. Later(lists[Program["permit"][i]], r)
        BY <1>b, <2>2, <2>4, <3>2 DEF AnsweredOf
      <4>2. Program["permit"][i] \in List
        BY <1>a, <2>4 DEF Order
      <4> QED BY <1>a, <4>1, <4>2 DEF Marks, Later
    <3> QED BY <2>2, <2>4, <3>1, <3>2
  <2>5. t.pc \in 0..9
    <3>1. task'[r] \in Task
      BY StepsOver DEF Moves
    <3> QED BY <3>1 DEF Task
  <2>6. \A i \in 1..4 : i < t.pc \/ t.status = "done" => i <= s.pc
    BY <2>2, <2>3, <2>5
  <2> QED BY <1>a, <2>1, <2>2, <2>4, <2>6 DEF AnsweredOf, Later
<1>7. CASE AddPair(r)
  <2>1. s.op = "enlist" /\ s.pc = 3 /\ u = o
    BY <1>7, <1>a DEF AddPair, InPlace
  <2>2. CASE Fail(r)
    BY <1>a, <1>e, <2>1, <2>2 DEF AnsweredOf
  <2>3. CASE <<o.row, o.group>> \in grouped' /\ Proceed(r)
    <3>1. Len(Program[s.op]) = 4
      BY <2>1, Lengths
    <3>2. t.status = "running"
      BY <1>a, <2>1, <2>3, <3>1, ProceedsOf
    <3> QED BY <1>a, <2>1, <2>3, <3>2 DEF AnsweredOf
  <2> QED BY <1>7, <2>2, <2>3 DEF AddPair
<1>8. CASE ReadRow(r)
  <2>1. /\ UNCHANGED <<rows, wrote, order>>
        /\ \/ s.op \in {"edit", "remove"} /\ s.pc = 1
           \/ s.op = "enlist" /\ s.pc = 2
    BY <1>8, <1>a DEF ReadRow, InPlace
  <2>2. CASE Fail(r)
    BY <1>a, <1>e, <2>1, <2>2 DEF AnsweredOf
  <2>3. CASE Has(o.kind, o.row) /\ Proceed(r)
    <3>1. t.status = "running" /\ (s.op = "enlist" => t.pc = 3)
      <4>1. CASE s.op = "enlist"
        <5>1. Len(Program[s.op]) = 4
          BY <4>1, Lengths
        <5> QED BY <1>a, <2>1, <2>3, <4>1, <5>1, ProceedsOf
      <4>2. CASE s.op # "enlist"
        <5>1. Len(Program[s.op]) = 2
          BY <2>1, <4>2, Lengths
        <5> QED BY <1>a, <2>1, <2>3, <4>2, <5>1, ProceedsOf
      <4> QED BY <4>1, <4>2
    <3> QED BY <1>a, <2>1, <2>3, <3>1 DEF AnsweredOf, Has
  <2> QED BY <1>8, <2>2, <2>3 DEF ReadRow
<1>9. CASE ReadGroup(r)
  <2>1. s.op = "enlist" /\ s.pc = 1
    BY <1>9, <1>a DEF ReadGroup, InPlace
  <2>2. t.status # "done" /\ t.pc # 4
    <3>1. Len(Program[s.op]) = 4
      BY <2>1, Lengths
    <3> QED BY <1>9, <1>a, <1>e, <2>1, <3>1, ProceedsOf DEF ReadGroup
  <2> QED BY <1>a, <2>1, <2>2 DEF AnsweredOf
<1> QED BY <1>1, <1>2, <1>3, <1>4, <1>5, <1>6, <1>7, <1>8, <1>9 DEF InventoryStep

\* Steps that are not about rows, arrivals and boots.
LEMMA AnsweredElsewhere ==
  ASSUME ServerInv, Answered, [ServerNext]_serverVars,
         \A r \in Request : ~(Step(r) /\ InventoryStep(r))
  PROVE  Answered'
<1> DEFINE Leaves(q) == \/ /\ Kept(q) /\ past'[q] = past[q] /\ order'[q] = order[q]
                        \/ task[q].op = None /\ task'[q].pc = 1 /\ task'[q].status = "running"
                        \/ /\ task[q].op \notin InventoryOp /\ task'[q].op \notin InventoryOp
                           /\ order'[q] = order[q]
<1>n. None \notin InventoryOp
  BY TopicAssumption, Ops DEF InventoryOp
<1>1. UNCHANGED <<rows, grouped, lists, wrote>> /\ \A q \in Request : Leaves(q)
  <2>1. ASSUME NEW r \in Request, Step(r)
        PROVE  UNCHANGED <<rows, grouped, lists, wrote>> /\ \A q \in Request : Leaves(q)
    <3>1. Moves(r) /\ UNCHANGED inventoryVars /\ task[r].op \notin InventoryOp
      BY <2>1, StepKinds, Groups
         DEF ServerInv, Typing, OrganizationOp, BootOp, OAuthOp, TailnetOp, InventoryOp, SocialOp
    <3>2. task'[r].op \notin InventoryOp
      BY <3>1 DEF Moves, BootOp, InventoryOp
    <3> QED BY <3>1, <3>2 DEF Kept, Moves, inventoryVars
  <2>2. ASSUME NEW r \in Request, Arrive(r)
        PROVE  UNCHANGED <<rows, grouped, lists, wrote>> /\ \A q \in Request : Leaves(q)
    <3>1. Begins(r) /\ UNCHANGED <<rows, grouped, lists, wrote>>
          /\ \A q \in Request \ {r} : order'[q] = order[q]
      BY <2>2, Arrivals
    <3> QED BY <3>1 DEF Kept, Begins, ServerInv, Typing, Flow
  <2>3. ASSUME NEW b \in Boot, Restart(b), UNCHANGED inventoryVars
        PROVE  UNCHANGED <<rows, grouped, lists, wrote>> /\ \A q \in Request : Leaves(q)
    <3>1. /\ b \in Request /\ task[b].op = None /\ task'[b].status = "running" /\ task'[b].pc = 1
          /\ \A q \in Request \ {b} : Kept(q)
      BY <2>3, Boots DEF ServerInv, Typing
    <3>2. \A q \in Request \ {b} : past'[q] = past[q]
      BY <2>3 DEF Restart, ServerInv, Typing, Flow
    <3> QED BY <2>3, <3>1, <3>2 DEF inventoryVars
  <2>4. CASE UNCHANGED serverVars
    BY <2>4 DEF serverVars, accountVars, taskVars, inventoryVars, Kept
  <2> QED BY <2>1, <2>2, <2>3, <2>4 DEF ServerNext
<1>2. ASSUME NEW q \in Request, task[q].op \in InventoryOp
      PROVE  /\ task'[q].op = task[q].op /\ past'[q] = past[q] /\ task'[q].pc = task[q].pc
             /\ order'[q] = order[q]
             /\ task'[q].status = "done" <=> task[q].status = "done"
             /\ task'[q].status = "running" => task[q].status = "running"
  BY <1>1, <1>2, <1>n DEF Kept, Remembers, Running
<1>3. ASSUME NEW x \in Request, task[x].op = "remove", task[x].status = "done"
      PROVE  task'[x].op = "remove" /\ task'[x].status = "done" /\ order'[x] = order[x]
  BY <1>2, <1>3 DEF InventoryOp
<1>4. ASSUME NEW q \in Request
      PROVE  AnsweredOf(q)'
  <2>1. CASE task[q].op \in InventoryOp
    <3>1. AnsweredOf(q)
      BY DEF Answered
    <3> QED BY <1>1, <1>2, <1>3, <2>1, <3>1 DEF AnsweredOf, Later, Has, TakesOut
  <2>2. CASE task[q].op \notin InventoryOp
    <3>1. \/ task'[q].op \notin InventoryOp
          \/ task'[q].pc = 1 /\ task'[q].status = "running"
      BY <1>1, <2>2 DEF Kept, Remembers
    <3> QED BY <3>1 DEF AnsweredOf, InventoryOp
  <2> QED BY <2>1, <2>2
<1> QED BY <1>4 DEF Answered

LEMMA AnsweredHolds == ServerSpec => []Answered
<1>1. ServerInit => Answered
  BY TopicAssumption, Ops DEF ServerInit, AccountInit, NoTask, Answered, AnsweredOf
<1>2. ServerInv /\ Answered /\ [ServerNext]_serverVars => Answered'
  <2> SUFFICES ASSUME ServerInv, Answered, [ServerNext]_serverVars
               PROVE  Answered'
    OBVIOUS
  <2>1. ASSUME NEW r \in Request, Step(r), InventoryStep(r)
        PROVE  Answered'
    <3>1. Marks(r)
      BY <2>1, InventoryMarks
    <3>2. AnsweredOf(r)' /\ \A q \in Request \ {r} : AnsweredOf(q)'
      BY <2>1, <3>1, AnsweredSelf, AnsweredOthers
    <3> QED BY <3>2 DEF Answered
  <2>2. CASE \A r \in Request : ~(Step(r) /\ InventoryStep(r))
    BY <2>2, AnsweredElsewhere
  <2> QED BY <2>1, <2>2
<1> QED BY <1>1, <1>2, ServerHolds, PTL DEF ServerSpec

-----------------------------------------------------------------------------
(* The organization a user is active in *)

\* Who changed a user's organization last is not one whose request had ended
\* before; a request to leave changes it only to nothing, and before that has
\* none in memory.
ChoseOf(q) ==
  LET t == task[q]
  IN  /\ t.op = "choose" /\ (t.pc >= 4 \/ t.status = "done") => Later(chose[t.user], q)
      /\ t.op = "quit" /\ t.pc <= 3 => t.org = None
      /\ t.op = "quit" /\ t.status = "done" => t.pc >= 3
      /\ t.op = "quit" /\ t.pc >= 2 /\ ~t.fresh =>
           /\ t.pc <= 3
           /\ active[t.user] = t.row.org => Later(chose[t.user], q) /\ chose[t.user] # q
      /\ /\ t.op = "quit" /\ t.pc >= 2 /\ t.fresh /\ (t.pc >= 4 \/ t.status = "done")
         /\ active[t.user] # None
         => Later(chose[t.user], q) /\ chose[t.user] # q

Chosen == chose \in [User -> Inserter] /\ \A q \in Request : ChoseOf(q)

\* What a step of the request r may do to the users' organizations.
Chooses(r) ==
  /\ chose' \in [User -> Inserter]
  /\ \A u \in User : \/ chose'[u] = r
                     \/ chose'[u] = chose[u] /\ active'[u] = active[u]

LEMMA StepChooses ==
  ASSUME ServerInv, Chosen, NEW r \in Request, Step(r)
  PROVE  Chooses(r)
<1>c. chose \in [User -> Inserter] /\ r \in Inserter
  BY DEF Chosen, Inserter
<1>t. active \in [User -> OrgId \cup {None}]
  BY DEF ServerInv, Typing, AccountTypeOK
<1>u. UNCHANGED <<active, chose>> => Chooses(r)
  BY <1>c DEF Chooses
<1>1. CASE OrganizationStep(r)
  <2>1. CASE SaveUser(r)
    <3>1. CASE UNCHANGED baseVars
      BY <1>u, <3>1 DEF baseVars
    <3>2. CASE /\ active' = [active EXCEPT ![task[r].user] = task[r].org]
               /\ chose' = [chose EXCEPT ![task[r].user] = r]
      BY <1>c, <1>t, <3>2 DEF Chooses
    <3> QED BY <2>1, <3>1, <3>2 DEF SaveUser
  <2>2. CASE EraseOrg(r)
    <3>1. CASE UNCHANGED baseVars
      BY <1>u, <3>1 DEF baseVars
    <3>2. CASE /\ active' = [u \in User |-> IF u \in seen[r].users THEN None ELSE active[u]]
               /\ chose' = [u \in User |-> IF u \in seen[r].users THEN r ELSE chose[u]]
      BY <1>c, <3>2 DEF Chooses
    <3> QED BY <2>2, <3>1, <3>2 DEF EraseOrg
  <2>3. CASE ~(SaveUser(r) \/ EraseOrg(r))
    <3>1. UNCHANGED <<active, chose>>
      BY <1>1, <2>3 DEF OrganizationStep, SignalStep, EnsureRoles, EnsureOwner, UpsertMember,
         GiveAdmin, SaveMember, CreateProfile, InsertOrg, ReadOrg, WriteBack, CheckOwner,
         CollectRows, InsertUser, HomeOrganization, Join, Leave, ReadMember, SetRoles, ReadUser,
         ChooseOrg, EnsureOrg, FindMember, orgVars, baseVars
    <3> QED BY <1>u, <3>1
  <2> QED BY <2>1, <2>2, <2>3
<1>2. CASE OAuthStep(r)
  <2>1. Running(r) /\ Typing
    BY DEF Step, ServerInv
  <2>2. UNCHANGED orgVars
    BY <1>2, <2>1, OAuthTypes
  <2> QED BY <1>u, <2>2 DEF orgVars, baseVars
<1>3. CASE TailnetStep(r)
  BY <1>u, <1>3 DEF TailnetStep, CreateTailnet, InsertLayer, PushPolicy, ReadLayer, CheckMember,
     MintKey, StoreKey, orgVars, baseVars
<1>4. CASE UNCHANGED orgVars
  BY <1>u, <1>4 DEF orgVars, baseVars
<1> QED BY <1>1, <1>2, <1>3, <1>4 DEF Step

\* A request that stands keeps what is known of it.
LEMMA ChoseStands ==
  ASSUME ServerInv, Chosen, NEW q \in Request, Stands(q), past'[q] = past[q],
         NEW r \in Request, Chooses(r), r # q, r \notin past[q]
  PROVE  ChoseOf(q)'
<1> DEFINE u == task[q].user
<1>f. ChoseOf(q) /\ InMemory(task[q])
  BY DEF Chosen, ServerInv, Typing
<1>t. /\ task'[q].op = task[q].op /\ task'[q].pc = task[q].pc /\ task'[q].user = u
      /\ task'[q].org = task[q].org /\ task'[q].row = task[q].row /\ task'[q].fresh = task[q].fresh
      /\ task'[q].status = "done" => task[q].status = "done"
  BY DEF Stands, Remembers
<1>1. ASSUME task[q].op \in {"choose", "quit"}
      PROVE  u \in User
  BY <1>1, <1>f DEF InMemory
<1>2. ASSUME u \in User, Later(chose[u], q)
      PROVE  chose'[u] \in Request /\ chose'[u] \notin past[q]
  <2> HIDE DEF u
  <2> QED BY <1>2 DEF Chooses, Later
<1>3. ASSUME u \in User, chose'[u] # r
      PROVE  chose'[u] = chose[u] /\ active'[u] = active[u]
  <2> HIDE DEF u
  <2> QED BY <1>3 DEF Chooses
<1> HIDE DEF u
<1>4. CASE task[q].op = "choose"
  <2>1. u \in User
    BY <1>1, <1>4
  <2>2. (task[q].pc >= 4 \/ task[q].status = "done") => Later(chose[u], q)
    BY <1>f, <1>4 DEF ChoseOf, u
  <2> QED BY <1>t, <1>2, <1>4, <2>1, <2>2 DEF ChoseOf, Later
<1>5. CASE task[q].op = "quit"
  <2>1. u \in User
    BY <1>1, <1>5
  <2>2. CASE chose'[u] = r
    BY <1>t, <1>f, <1>5, <2>2 DEF ChoseOf, Later
  <2>3. CASE chose'[u] = chose[u] /\ active'[u] = active[u]
    <3>1. task[q].user = u
      BY DEF u
    <3> QED BY <1>t, <1>f, <1>5, <2>3, <3>1 DEF ChoseOf, Later
  <2> QED BY <1>3, <2>1, <2>2, <2>3
<1>6. CASE task[q].op \notin {"choose", "quit"}
  BY <1>t, <1>6 DEF ChoseOf
<1> QED BY <1>4, <1>5, <1>6

\* A request reads whether the user is active where he leaves, and is the last
\* to have changed that when it has saved him.
LEMMA ChoseSelf ==
  ASSUME ServerInv, Chosen, NEW r \in Request, Step(r), Chooses(r)
  PROVE  ChoseOf(r)'
<1> DEFINE s == task[r]
           t == task'[r]
<1>a. /\ Running(r) /\ Flow /\ past' = past /\ s \in Task /\ r \notin past[r] /\ t \in Task
      /\ InMemory(s) /\ s.status = "running"
      /\ \A x : At(r, x) => InPlace(s.op, s.pc, x)
      /\ Moves(r)
  BY StepKinds DEF ServerInv, Typing, Moves, Flow, Running
<1>f. ChoseOf(r) /\ chose \in [User -> Inserter]
  BY DEF Chosen
<1>y. active \in [User -> OrgId \cup {None}]
  BY DEF ServerInv, Typing, AccountTypeOK
<1>o. CASE s.op \notin {"choose", "quit"}
  <2>1. t.op \notin {"choose", "quit"}
    BY <1>a, <1>o DEF Moves, BootOp
  <2> QED BY <2>1 DEF ChoseOf
<1>p. CASE s.op \in {"choose", "quit"}
  <2>b. r \in Request \ Boot /\ s.user \in User /\ (s.op = "quit" => s.row \in Membership)
    BY <1>a, <1>p DEF Flow, Running, BootOp, InMemory
  <2>l. Len(Program[s.op]) = 7
    BY <1>p, Lengths
  <2>g. OrganizationStep(r)
    BY <1>a, <1>p, StepKinds, Groups
       DEF Step, ServerInv, Typing, OAuthOp, TailnetOp, InventoryOp, SocialOp
  <2>e. ASSUME Fail(r)
        PROVE  Remembers(t, s) /\ t.pc = s.pc /\ t.status = "failed"
    BY <1>a, <2>b, <2>e, Fails
  <2>n. ASSUME Proceed(r)
        PROVE  /\ Remembers(t, s)
               /\ IF s.pc < 7 THEN t.pc = s.pc + 1 /\ t.status = "running"
                              ELSE t.pc = s.pc /\ t.status = "done"
    BY <1>a, <2>b, <2>l, <2>n, ProceedsOf
  <2>i. s.pc \in 1..7 /\ t.op = s.op
    BY <1>a, <2>b, <2>l DEF Flow, Running, Placed, Moves
  <2>1. CASE ReadUser(r)
    <3> DEFINE n == [s EXCEPT !.fresh = s.row # None /\ active[s.user] = s.row.org]
    <3>1. s.pc = 1 /\ UNCHANGED <<active, chose>>
      BY <2>1, <1>a DEF ReadUser, InPlace, orgVars, baseVars
    <3>2. CASE Fail(r)
      BY <1>f, <2>e, <3>1, <3>2 DEF ChoseOf, Remembers
    <3>3. CASE Go(r, n)
      <4>1. Keeps(n, s) /\ n.user = s.user /\ n.row = s.row /\ n.org = s.org
            /\ n.fresh = (s.row # None /\ active[s.user] = s.row.org)
        <5>1. ASSUME NEW b \in BOOLEAN, n = [s EXCEPT !.fresh = b]
              PROVE  /\ Keeps(n, s) /\ n.user = s.user /\ n.row = s.row /\ n.org = s.org
                     /\ n.fresh = b
          <6> HIDE DEF n
          <6> QED BY <1>a, <1>p, <5>1 DEF Keeps, Task
        <5> QED BY <5>1
      <4> HIDE DEF n
      <4>2. Remembers(t, n) /\ t.pc = 2 /\ t.status = "running"
        BY <1>a, <2>b, <2>l, <3>1, <3>3, <4>1, GoesToOf
      <4>3. s.op = "quit" => s.row # None
        BY <2>b, NoRow
      <4>4. s.op = "quit" /\ ~t.fresh => active[s.user] # s.row.org
        BY <4>1, <4>2, <4>3 DEF Remembers
      <4>5. s.op = "quit" => s.org = None
        BY <1>f, <3>1 DEF ChoseOf
      <4>6. t.user = s.user /\ t.row = s.row /\ t.org = s.org
        BY <4>1, <4>2 DEF Remembers
      <4> HIDE DEF s, t
      <4> QED BY <2>i, <3>1, <4>2, <4>4, <4>5, <4>6 DEF ChoseOf, t
    <3> QED BY <2>1, <3>2, <3>3 DEF ReadUser
  <2>2. CASE ChooseOrg(r) \/ Leave(r)
    <3>1. s.pc = 2 /\ UNCHANGED <<active, chose>>
      BY <1>a, <1>p, <2>2 DEF ChooseOrg, Leave, InPlace, orgVars, baseVars
    <3>2. Remembers(t, s) /\ t.pc \in {2, 3} /\ t.status \in {"running", "failed"}
      BY <2>2, <2>e, <2>n, <3>1 DEF ChooseOrg, Leave
    <3> HIDE DEF s, t
    <3> QED BY <1>a, <1>f, <3>1, <3>2 DEF ChoseOf, Later, Remembers, s, t
  <2>3. CASE SaveUser(r)
    <3> DEFINE skips == s.op = "quit" /\ ~s.fresh
               done == [s EXCEPT !.status = "done"]
    <3>1. s.pc = 3
      BY <2>3, <1>a DEF SaveUser, InPlace
    <3>d. ASSUME Goto(r, done)
          PROVE  Remembers(t, s) /\ t.pc = 3 /\ t.status = "done"
      BY <1>a, <3>1, <3>d DEF Goto, Flow, Task, Remembers
    <3>2. CASE Fail(r) /\ UNCHANGED baseVars
      <4>1. Remembers(t, s) /\ t.pc = 3 /\ t.status = "failed" /\ UNCHANGED <<active, chose>>
        BY <2>e, <3>1, <3>2 DEF baseVars
      <4> HIDE DEF s, t
      <4> QED BY <1>a, <1>f, <3>1, <4>1 DEF ChoseOf, Later, Remembers, s, t
    <3>3. CASE skips /\ Goto(r, done) /\ UNCHANGED baseVars
      <4>1. Remembers(t, s) /\ t.pc = 3 /\ UNCHANGED <<active, chose>>
        BY <3>d, <3>3 DEF baseVars
      <4>2. s.op = "quit" /\ ~s.fresh
        BY <3>3
      <4> HIDE DEF s, t, done, skips
      <4> QED BY <1>a, <1>f, <3>1, <4>1, <4>2 DEF ChoseOf, Later, Remembers, s, t
    <3>4. CASE /\ ~skips /\ (Goto(r, done) \/ Proceed(r))
               /\ active' = [active EXCEPT ![s.user] = s.org]
               /\ chose' = [chose EXCEPT ![s.user] = r]
      <4>1. Remembers(t, s) /\ t.pc >= 3 /\ (t.pc >= 4 \/ t.status = "done")
        BY <2>n, <3>1, <3>d, <3>4
      <4>2. active'[s.user] = s.org /\ chose'[s.user] = r
        BY <1>f, <1>y, <2>b, <3>4
      <4>3. s.op = "quit" => s.fresh /\ s.org = None
        <5>1. s.op = "quit" => s.org = None
          BY <1>f, <3>1 DEF ChoseOf
        <5> QED BY <3>4, <5>1
      <4> HIDE DEF s, t, done, skips
      <4>4. t.user = s.user /\ t.org = s.org /\ t.fresh = s.fresh /\ t.op = s.op
        BY <4>1 DEF Remembers
      <4>5. t.op = "quit" => active'[t.user] = None /\ t.org = None /\ t.fresh
        BY <4>2, <4>3, <4>4
      <4>6. t.op = "choose" => chose'[t.user] \in Request /\ chose'[t.user] \notin past'[r]
        BY <1>a, <4>2, <4>4
      <4> QED BY <4>1, <4>5, <4>6 DEF ChoseOf, Later, t
    <3> QED BY <2>3, <3>2, <3>3, <3>4 DEF SaveUser
  <2>4. CASE ~(ReadUser(r) \/ ChooseOrg(r) \/ Leave(r) \/ SaveUser(r))
    <3>1. \/ HomeOrganization(r) /\ s.pc = 4
          \/ UpsertMember(r) /\ s.pc = 5
          \/ GiveAdmin(r) /\ s.pc = 6
          \/ SaveMember(r) /\ s.pc = 7
      <4>1. ~(EnsureRoles(r) \/ EnsureOwner(r) \/ CreateProfile(r) \/ InsertOrg(r) \/ ReadOrg(r))
        BY <1>a, <1>p DEF EnsureRoles, EnsureOwner, CreateProfile, InsertOrg, ReadOrg, InPlace
      <4>2. ~(WriteBack(r) \/ CheckOwner(r) \/ CollectRows(r) \/ EraseOrg(r) \/ InsertUser(r))
        BY <1>a, <1>p DEF WriteBack, CheckOwner, CollectRows, EraseOrg, InsertUser, InPlace
      <4>3. ~(Join(r) \/ ReadMember(r) \/ SetRoles(r) \/ EnsureOrg(r) \/ FindMember(r))
        BY <1>a, <1>p DEF Join, ReadMember, SetRoles, EnsureOrg, FindMember, InPlace
      <4>4. /\ HomeOrganization(r) => s.pc = 4
            /\ UpsertMember(r) => s.pc = 5
        BY <1>a, <1>p DEF HomeOrganization, UpsertMember, InPlace
      <4>5. /\ GiveAdmin(r) => s.pc = 6
            /\ SaveMember(r) => s.pc = 7
        BY <1>a, <1>p DEF GiveAdmin, SaveMember, InPlace
      <4> QED BY <2>g, <2>4, <4>1, <4>2, <4>3, <4>4, <4>5 DEF OrganizationStep, SignalStep
    <3>2. UNCHANGED <<active, chose>>
      BY <3>1 DEF HomeOrganization, UpsertMember, GiveAdmin, SaveMember, orgVars, baseVars
    <3>3. t.user = s.user /\ t.fresh = s.fresh /\ t.pc >= 4
      <4>1. ASSUME Proceed(r) \/ Fail(r)
            PROVE  t.user = s.user /\ t.fresh = s.fresh /\ t.pc >= 4
        BY <2>e, <2>n, <3>1, <4>1 DEF Remembers
      <4>2. ASSUME NEW n \in Task, Keeps(n, s), Go(r, n), n.user = s.user, n.fresh = s.fresh
            PROVE  t.user = s.user /\ t.fresh = s.fresh /\ t.pc >= 4
        <5>1. Remembers(t, n) /\ t.pc >= s.pc
          BY <1>a, <2>b, <2>l, <4>2, GoesToOf, <2>i
        <5>2. t.user = n.user /\ t.fresh = n.fresh
          BY <5>1 DEF Remembers
        <5>3. t.pc \in 0..9 /\ s.pc \in {4, 5, 6, 7}
          BY <1>a, <3>1 DEF Task
        <5>4. t.pc >= 4
          BY <5>1, <5>3
        <5> QED BY <4>2, <5>2, <5>4
      <4>3. CASE HomeOrganization(r)
        <5>1. ASSUME NEW o \in OrgId, Go(r, [s EXCEPT !.org = o])
              PROVE  t.user = s.user /\ t.fresh = s.fresh /\ t.pc >= 4
          <6>1. /\ [s EXCEPT !.org = o] \in Task /\ Keeps([s EXCEPT !.org = o], s)
                /\ [s EXCEPT !.org = o].user = s.user /\ [s EXCEPT !.org = o].fresh = s.fresh
            BY <1>a, <1>p DEF Keeps, Task
          <6> QED BY <4>2, <5>1, <6>1
        <5>2. r \in OrgId
          BY DEF OrgId, Inserter
        <5> QED BY <4>1, <4>3, <5>1, <5>2 DEF HomeOrganization, Named
      <4>4. CASE UpsertMember(r)
        <5>1. ASSUME NEW m \in Membership, Go(r, [s EXCEPT !.row = m])
              PROVE  t.user = s.user /\ t.fresh = s.fresh /\ t.pc >= 4
          <6>1. /\ [s EXCEPT !.row = m] \in Task /\ Keeps([s EXCEPT !.row = m], s)
                /\ [s EXCEPT !.row = m].user = s.user /\ [s EXCEPT !.row = m].fresh = s.fresh
            BY <1>a, <1>p DEF Keeps, Task
          <6> QED BY <4>2, <5>1, <6>1
        <5>2. \A m \in RowsOf(s.org, s.user) : m \in Membership
          BY DEF RowsOf, ServerInv, Typing, AccountTypeOK
        <5>3. Live(s.org) /\ s.user \in users =>
                [org |-> s.org, user |-> s.user, by |-> r] \in Membership
          BY <1>a, <2>b DEF Live, Membership, Task, Inserter
        <5> QED BY <4>1, <4>4, <5>1, <5>2, <5>3
            DEF UpsertMember, FoundRow, InsertMember, CannotInsert, FailUnkept
      <4> QED BY <3>1, <4>1, <4>3, <4>4 DEF GiveAdmin, SaveMember, FailUnkept
    <3>4. s.pc >= 4 /\ t.op = s.op /\ past'[r] = past[r] /\ t.pc \in 0..9 /\ s.pc \in 0..9
      BY <1>a, <2>i, <3>1 DEF Task
    <3> HIDE DEF s, t
    <3> QED BY <1>f, <3>2, <3>3, <3>4 DEF ChoseOf, Later, s, t
  <2> QED BY <2>1, <2>2, <2>3, <2>4
<1> QED BY <1>o, <1>p

\* Requests begin to leave an organization with none in memory.
LEMMA QuitAsked ==
  ASSUME ServerInv, NEW r \in Request, Arrive(r), task'[r].op = "quit"
  PROVE  task'[r].org = None
<1>1. OrganizationArrive(r)
  BY OAuthArrives, TailnetArrives, SocialArrives, InventoryArrives
     DEF Arrive, ServerInv, BeginsSocial, SocialOp, BeginsInventory, InventoryOp
<1>2. ASSUME NEW t, Begin(r, t)
      PROVE  task'[r] = t
  BY <1>2 DEF Begin, Goto, ServerInv, Typing, Flow
<1>3. ASSUME NEW o \in Op
      PROVE  Asked(o).op = o /\ Asked(o) \in Task /\ Asked(o).org = None
  <2>1. Asked(o) \in Task
    BY AskedPlain DEF Plain
  <2> QED BY <2>1 DEF Asked, NoTask
<1>4. {"create", "update", "delete", "signup", "join", "leave", "makeAdmin", "unmakeAdmin",
       "choose", "quit"} \subseteq Op
  BY Ops
<1>5. ASSUME NEW m, BeginQuit(r, m)
      PROVE  task'[r].org = None
  <2>1. task'[r] = [Asked("quit") EXCEPT !.user = m.user, !.row = m]
    BY <1>2, <1>5 DEF BeginQuit
  <2>2. Asked("quit") \in Task /\ Asked("quit").org = None
    BY <1>3, <1>4
  <2> QED BY <2>1, <2>2 DEF Task
<1>6. ASSUME NEW u, BeginCreate(r, u)
      PROVE  task'[r].op = "create"
  BY <1>2, <1>3, <1>4, <1>6 DEF BeginCreate, Task
<1>7. ASSUME NEW o, NEW x, BeginUpdate(r, o, x)
      PROVE  task'[r].op = "update"
  BY <1>2, <1>3, <1>4, <1>7 DEF BeginUpdate, Task
<1>8. ASSUME NEW o, NEW u, BeginDelete(r, o, u)
      PROVE  task'[r].op = "delete"
  BY <1>2, <1>3, <1>4, <1>8 DEF BeginDelete, Task
<1>9. ASSUME BeginSignup(r)
      PROVE  task'[r].op = "signup"
  BY <1>2, <1>3, <1>4, <1>9 DEF BeginSignup, Task
<1>10. ASSUME NEW o, NEW u, BeginJoin(r, o, u)
       PROVE  task'[r].op = "join"
  BY <1>2, <1>3, <1>4, <1>10 DEF BeginJoin, Task
<1>11. ASSUME NEW m, NEW op \in {"leave", "makeAdmin", "unmakeAdmin"}, BeginMembership(r, op, m)
       PROVE  task'[r].op = op
  BY <1>2, <1>3, <1>4, <1>11 DEF BeginMembership, Task
<1>12. ASSUME NEW o, NEW u, BeginChoose(r, u, o)
       PROVE  task'[r].op = "choose"
  BY <1>2, <1>3, <1>4, <1>12 DEF BeginChoose, Task
<1> QED BY <1>1, <1>5, <1>6, <1>7, <1>8, <1>9, <1>10, <1>11, <1>12 DEF OrganizationArrive

LEMMA ChoseGoesOn ==
  ASSUME ServerInv, Chosen, [ServerNext]_serverVars
  PROVE  Chosen'
<1>c. chose \in [User -> Inserter] /\ \A q \in Request : ChoseOf(q)
  BY DEF Chosen
<1>s. ASSUME NEW q \in Request, Stands(q), past'[q] = past[q], UNCHANGED <<active, chose>>
      PROVE  ChoseOf(q)'
  <2>1. ChoseOf(q)
    BY <1>c
  <2>2. /\ task'[q].op = task[q].op /\ task'[q].pc = task[q].pc /\ task'[q].user = task[q].user
        /\ task'[q].org = task[q].org /\ task'[q].row = task[q].row
        /\ task'[q].fresh = task[q].fresh /\ (task'[q].status = "done" => task[q].status = "done")
    BY <1>s DEF Stands, Remembers
  <2> QED BY <1>s, <2>1, <2>2 DEF ChoseOf, Later
<1>1. ASSUME NEW r \in Request, Step(r)
      PROVE  Chosen'
  <2>1. Chooses(r)
    BY <1>1, StepChooses
  <2>2. Moves(r) /\ Flow
    BY <1>1, StepKinds DEF ServerInv, Typing
  <2>3. \A q \in Request \ {r} : Stands(q) /\ past'[q] = past[q] /\ r \notin past[q]
    BY <2>2, OthersStand DEF Moves, Flow, Ended, Running
  <2>4. \A q \in Request \ {r} : ChoseOf(q)'
    BY <2>1, <2>3, ChoseStands
  <2>5. ChoseOf(r)'
    BY <1>1, <2>1, ChoseSelf
  <2> QED BY <2>1, <2>4, <2>5 DEF Chosen, Chooses
<1>2. ASSUME NEW r \in Request, Arrive(r)
      PROVE  Chosen'
  <2>1. Begins(r) /\ UNCHANGED <<active, chose>>
    BY <1>2, Arrivals DEF orgVars, baseVars
  <2>2. \A q \in Request \ {r} : Stands(q) /\ past'[q] = past[q]
    BY <2>1, OthersStand DEF Begins, ServerInv, Typing, Flow
  <2>3. ChoseOf(r)'
    <3>1. task'[r].pc = 1 /\ task'[r].status = "running"
      BY <2>1 DEF Begins
    <3> QED BY <1>2, <3>1, QuitAsked DEF ChoseOf
  <2> QED BY <1>c, <1>s, <2>1, <2>2, <2>3 DEF Chosen
<1>3. ASSUME NEW b \in Boot, Restart(b)
      PROVE  Chosen'
  <2>1. /\ b \in Request /\ task'[b].op = "ensureusers"
        /\ \A q \in Request \ {b} : Stands(q)
        /\ UNCHANGED <<active, chose>>
    BY <1>3, Boots DEF ServerInv, Typing, baseVars
  <2>2. \A q \in Request \ {b} : past'[q] = past[q]
    BY <1>3 DEF Restart, ServerInv, Typing, Flow
  <2>3. ChoseOf(b)'
    BY <2>1 DEF ChoseOf
  <2> QED BY <1>c, <1>s, <2>1, <2>2, <2>3 DEF Chosen
<1>4. CASE UNCHANGED serverVars
  BY <1>c, <1>4 DEF Chosen, ChoseOf, Later, serverVars, accountVars, orgVars, baseVars, taskVars
<1> QED BY <1>1, <1>2, <1>3, <1>4 DEF ServerNext

LEMMA ChosenHolds == ServerSpec => []Chosen
<1>1. ServerInit => Chosen
  BY TopicAssumption, Ops DEF ServerInit, AccountInit, NoTask, Chosen, ChoseOf, Inserter
<1> QED BY <1>1, ChoseGoesOn, ServerHolds, PTL DEF ServerSpec

\* No answer about a row, a list, a group or the organization a user is active
\* in is undone by a request that had ended when it was asked.
THEOREM AnswersAreKept == ServerSpec => []AnswersStand
<1>1. ServerInv /\ Answered /\ Chosen /\ Finished => AnswersStand
  <2> SUFFICES ASSUME ServerInv, Answered, Chosen, Finished,
                      NEW q \in Request, task[q].status = "done"
               PROVE  LET NotBefore(w, p) == w \in Request /\ w \notin past[p]
                          o == order[q]
                      IN  /\ task[q].op \in {"device", "group", "profile", "edit", "remove",
                                             "enlist"} =>
                               NotBefore(wrote[o.kind][o.row], q)
                          /\ task[q].op = "choose" => NotBefore(chose[task[q].user], q)
                          /\ task[q].op = "quit" /\ active[task[q].user] = task[q].row.org =>
                               chose[task[q].user] # q /\ NotBefore(chose[task[q].user], q)
                          /\ task[q].op = "permit" => \A l \in o.lists : NotBefore(lists[l], q)
                          /\ task[q].op = "enlist" =>
                               \/ <<o.row, o.group>> \in grouped
                               \/ \E x \in Request :
                                    /\ task[x].op = "remove" /\ task[x].status = "done"
                                    /\ NotBefore(x, q)
                                    /\ \/ order[x].kind = "device" /\ order[x].row = o.row
                                       \/ order[x].kind = "group" /\ order[x].row = o.group
    BY DEF AnswersStand
  <2> DEFINE o == order[q]
  <2>a. AnsweredOf(q) /\ ChoseOf(q)
    BY DEF Answered, Chosen
  <2>1. task[q].op \in {"device", "group", "profile", "edit", "remove", "enlist"} =>
          Later(wrote[o.kind][o.row], q)
    BY <2>a DEF AnsweredOf
  <2>2. task[q].op = "choose" => Later(chose[task[q].user], q)
    BY <2>a DEF ChoseOf
  <2>3. task[q].op = "quit" /\ active[task[q].user] = task[q].row.org =>
          chose[task[q].user] # q /\ Later(chose[task[q].user], q)
    <3>1. ASSUME task[q].op = "quit", active[task[q].user] = task[q].row.org
          PROVE  chose[task[q].user] # q /\ Later(chose[task[q].user], q)
      <4>1. task[q].pc >= 3 /\ task[q].pc \in 0..9
        BY <2>a, <3>1 DEF ChoseOf, ServerInv, Typing, Flow, Task
      <4>2. active[task[q].user] # None
        BY <3>1, AccountAssumption DEF ServerInv, Typing, InMemory, Membership
      <4> QED BY <2>a, <3>1, <4>1, <4>2 DEF ChoseOf
    <3> QED BY <3>1
  <2>4. ASSUME task[q].op = "permit", NEW l \in o.lists
        PROVE  Later(lists[l], q)
    <3>1. l \in List
      BY <2>4 DEF ServerInv, InventoryRows, Order
    <3>2. \E i \in 1..4 : l = Program["permit"][i]
      <4>1. \E i \in 1..4 : l = Lists[i]
        BY <3>1 DEF List, Lists
      <4>2. Program["permit"] = Lists
        BY DEF Program, Lists
      <4> QED BY <4>1, <4>2
    <3> QED BY <2>a, <2>4, <3>2 DEF AnsweredOf
  <2>5. task[q].op = "enlist" =>
          \/ <<o.row, o.group>> \in grouped
          \/ \E x \in Request : /\ task[x].op = "remove" /\ task[x].status = "done"
                                /\ Later(x, q) /\ TakesOut(order[x], <<o.row, o.group>>)
    <3>1. task[q].op = "enlist" => task[q].pc = 4
      <4>1. ASSUME task[q].op = "enlist"
            PROVE  task[q].pc = 4
        <5>1. q \notin Boot
          BY <4>1 DEF ServerInv, Typing, Flow, BootOp
        <5>2. Len(Program[task[q].op]) = 4
          BY <4>1, Lengths
        <5> QED BY <4>1, <5>1, <5>2 DEF Finished, Through
      <4> QED BY <4>1
    <3> QED BY <2>a, <3>1 DEF AnsweredOf
  <2> QED BY <2>1, <2>2, <2>3, <2>4, <2>5 DEF Later, TakesOut
<1> QED BY <1>1, ServerHolds, AnsweredHolds, ChosenHolds, FinishedHolds, PTL

-----------------------------------------------------------------------------
(* The owners of organizations *)

\* r has saved o, and its signal is on the way to make the owner an admin.
Gives(r, o) ==
  LET t == task[r]
  IN  /\ t.status = "running" /\ t.org = o /\ t.user = orgs[o].owner
      /\ \/ t.op \in {"create", "ensureorganizations"} /\ t.pc \in 2..4
         \/ t.op = "update" /\ t.pc \in 3..5
      /\ t.pc = (IF t.op = "update" THEN 5 ELSE 4) => t.row.org = o /\ t.row.user = t.user

HasOwner(o) == \E m \in admins : m.org = o /\ m.user = orgs[o].owner

\* An organization has its owner for an admin, or a request is about to see to
\* it.  A deletion has collected memberships only of the organizations and users
\* it takes.
OwnersKept ==
  \A o \in OrgId :
    orgs[o] # None /\ o \notin unkept => HasOwner(o) \/ \E r \in Request : Gives(r, o)

CollectedFit ==
  \A r \in Request : \A m \in seen[r].members :
    m.org \in seen[r].orgs \/ m.user \in seen[r].users

LEMMA BootLength == Len(Program["ensureorganizations"]) = 6
BY DEF Program

LEMMA OwnersOn ==
  ASSUME OwnersKept, NEW r \in Request, \A q \in Request \ {r} : task'[q] = task[q],
         \A o \in OrgId : orgs'[o] # None /\ o \notin unkept' =>
           \/ HasOwner(o)' \/ Gives(r, o)'
           \/ /\ orgs[o] # None /\ orgs'[o].owner = orgs[o].owner /\ o \notin unkept
              /\ HasOwner(o) => HasOwner(o)'
              /\ ~Gives(r, o)
  PROVE  OwnersKept'
<1> SUFFICES ASSUME NEW o \in OrgId, orgs'[o] # None, o \notin unkept',
                    ~HasOwner(o)', ~Gives(r, o)'
             PROVE  \E q \in Request : Gives(q, o)'
  BY DEF OwnersKept
<1>1. /\ orgs[o] # None /\ orgs'[o].owner = orgs[o].owner /\ o \notin unkept
      /\ ~HasOwner(o) /\ ~Gives(r, o)
  OBVIOUS
<1>2. PICK q \in Request : Gives(q, o)
  BY <1>1 DEF OwnersKept
<1>3. q # r /\ task'[q] = task[q]
  BY <1>1, <1>2
<1>4. Gives(q, o)'
  BY <1>1, <1>2, <1>3 DEF Gives
<1> QED BY <1>4

\* A request that sees to an owner is at one of three steps.
LEMMA GivesAt ==
  ASSUME Typing, NEW r \in Request, NEW o, Gives(r, o), NEW s, At(r, s)
  PROVE  s \in {"roles", "ensure", "admin"} /\ WorksOn(r, o)
<1>1. WorksOn(r, o)
  BY DEF Gives, WorksOn, Running, SignalOp
<1>2. s = Program[task[r].op][task[r].pc]
  BY DEF At
<1>3. /\ Program["create"][2] = "roles" /\ Program["ensureorganizations"][2] = "roles"
      /\ Program["create"][3] = "ensure" /\ Program["ensureorganizations"][3] = "ensure"
      /\ Program["create"][4] = "admin" /\ Program["ensureorganizations"][4] = "admin"
      /\ Program["update"][3] = "roles" /\ Program["update"][4] = "ensure"
      /\ Program["update"][5] = "admin"
  BY DEF Program
<1>4. CASE task[r].op \in {"create", "ensureorganizations"}
  <2>1. task[r].pc \in {2, 3, 4}
    BY <1>4 DEF Gives
  <2> QED BY <1>1, <1>2, <1>3, <1>4, <2>1
<1>5. CASE task[r].op = "update"
  <2>1. task[r].pc \in {3, 4, 5}
    BY <1>5 DEF Gives
  <2> QED BY <1>1, <1>2, <1>3, <1>5, <2>1
<1> QED BY <1>4, <1>5 DEF Gives

\* A step that changes no organization and no admin.
LEMMA OwnersAside ==
  ASSUME OwnersKept, NEW r \in Request, Moves(r), orgs' = orgs, admins' = admins,
         unkept \subseteq unkept',
         \A o \in OrgId : Gives(r, o) => o \in unkept' \/ Gives(r, o)'
  PROVE  OwnersKept'
<1>1. ASSUME NEW o \in OrgId, orgs'[o] # None, o \notin unkept'
      PROVE  \/ HasOwner(o)' \/ Gives(r, o)'
             \/ /\ orgs[o] # None /\ orgs'[o].owner = orgs[o].owner /\ o \notin unkept
                /\ HasOwner(o) => HasOwner(o)'
                /\ ~Gives(r, o)
  BY <1>1 DEF HasOwner
<1> QED BY <1>1, OwnersOn DEF Moves

\* A request saves an organization whose signal is to come.
LEMMA OwnerWritten ==
  ASSUME Typing, OwnersKept, NEW r \in Request, Running(r),
         NEW s \in {"insert", "write", "organize"}, At(r, s),
         NEW o \in OrgId, NEW row, WriteOrg(o, row),
         NEW t, Keeps(t, task[r]), Go(r, t), t.org = o, t.user = row.owner,
         admins' = admins, unkept \ {o} \subseteq unkept'
  PROVE  OwnersKept'
<1>1. Placed(task[r]) /\ Flow
  BY DEF Typing, Flow, Running
<1>2. InPlace(task[r].op, task[r].pc, s)
  BY <1>1, AtPlace
<1>3. \/ t.op \in {"create", "ensureorganizations"} /\ t.pc = 1
      \/ t.op = "update" /\ t.pc = 2
  BY <1>2 DEF InPlace, Keeps
<1>4. t.pc < Len(Program[t.op])
  <2>1. CASE t.op = "create"
    BY <1>3, <2>1, Lengths
  <2>2. CASE t.op = "ensureorganizations"
    BY <1>3, <2>2, BootLength
  <2>3. CASE t.op = "update"
    BY <1>3, <2>3, Lengths
  <2> QED BY <1>3, <2>1, <2>2, <2>3
<1>5. /\ Moves(r) /\ Remembers(task'[r], t)
      /\ task'[r].pc = t.pc + 1 /\ task'[r].status = "running"
  BY <1>1, <1>4, Advance
<1>6. orgs' = [orgs EXCEPT ![o] = row] /\ orgs \in [OrgId -> Organization \cup {None}]
  BY DEF WriteOrg, Typing, AccountTypeOK
<1>7. Gives(r, o)'
  BY <1>3, <1>5, <1>6 DEF Gives, Remembers
<1>8. ASSUME NEW p \in OrgId, p # o, orgs'[p] # None, p \notin unkept'
      PROVE  /\ orgs[p] # None /\ orgs'[p].owner = orgs[p].owner /\ p \notin unkept
             /\ HasOwner(p) => HasOwner(p)'
             /\ ~Gives(r, p)
  <2>1. orgs'[p] = orgs[p] /\ p \notin unkept
    BY <1>6, <1>8
  <2>2. HasOwner(p) => HasOwner(p)'
    BY <2>1 DEF HasOwner
  <2>3. ~Gives(r, p)
    BY GivesAt
  <2> QED BY <1>8, <2>1, <2>2, <2>3
<1> QED BY <1>5, <1>7, <1>8, OwnersOn DEF Moves

\* A membership gives up the role: the owner's leaves a trace in unkept.
LEMMA AdminGone ==
  ASSUME Typing, OwnersKept, NEW r \in Request, Moves(r),
         NEW s, s \notin {"roles", "ensure", "admin"}, At(r, s),
         NEW m \in Membership, admins' = admins \ {m}, OwnerLost(m), orgs' = orgs
  PROVE  OwnersKept'
<1>1. ASSUME NEW o \in OrgId, orgs'[o] # None, o \notin unkept'
      PROVE  /\ orgs[o] # None /\ orgs'[o].owner = orgs[o].owner /\ o \notin unkept
             /\ HasOwner(o) => HasOwner(o)'
             /\ ~Gives(r, o)
  <2>1. o \notin unkept /\ ~(m.org = o /\ m.user = orgs[o].owner)
    BY <1>1, NotNull DEF OwnerLost, Live
  <2>2. HasOwner(o) => HasOwner(o)'
    BY <2>1 DEF HasOwner
  <2>3. ~Gives(r, o)
    BY GivesAt
  <2> QED BY <1>1, <2>1, <2>2, <2>3
<1> QED BY <1>1, OwnersOn DEF Moves

\* A failing signal leaves its organization in unkept.
LEMMA OwnerRefused ==
  ASSUME Typing, OwnersKept, NEW r \in Request, Running(r), FailUnkept(r),
         orgs' = orgs, admins' = admins
  PROVE  OwnersKept'
<1>1. Flow
  BY DEF Typing
<1>2. Moves(r)
  BY <1>1, Refusal DEF FailUnkept
<1>3. unkept \subseteq unkept'
  BY DEF FailUnkept, Unkept
<1>4. \A o \in OrgId : Gives(r, o) => o \in unkept'
  BY DEF Gives, FailUnkept, Unkept, SignalOp
<1> QED BY <1>2, <1>3, <1>4, OwnersAside

\* The signal goes on from a step before the last of the three.
LEMMA OwnerNear ==
  ASSUME Typing, OwnersKept, NEW r \in Request, Running(r),
         NEW s \in {"roles", "ensure"}, At(r, s),
         NEW t, Keeps(t, task[r]), Go(r, t), t.org = task[r].org, t.user = task[r].user,
         s = "ensure" => t.row.org = t.org /\ t.row.user = t.user,
         orgs' = orgs, admins' = admins, unkept \subseteq unkept'
  PROVE  OwnersKept'
<1>1. Placed(task[r]) /\ Flow
  BY DEF Typing, Flow, Running
<1>2. InPlace(task[r].op, task[r].pc, s)
  BY <1>1, AtPlace
<1>3. \/ t.op \in {"create", "ensureorganizations"} /\ t.pc = (IF s = "roles" THEN 2 ELSE 3)
      \/ t.op = "update" /\ t.pc = (IF s = "roles" THEN 3 ELSE 4)
  BY <1>2 DEF InPlace, Keeps
<1>4. t.pc < Len(Program[t.op])
  <2>1. CASE t.op = "create"
    BY <1>3, <2>1, Lengths
  <2>2. CASE t.op = "ensureorganizations"
    BY <1>3, <2>2, BootLength
  <2>3. CASE t.op = "update"
    BY <1>3, <2>3, Lengths
  <2> QED BY <1>3, <2>1, <2>2, <2>3
<1>5. /\ Moves(r) /\ Remembers(task'[r], t)
      /\ task'[r].pc = t.pc + 1 /\ task'[r].status = "running"
  BY <1>1, <1>4, Advance
<1>6. \A o \in OrgId : Gives(r, o) => Gives(r, o)'
  BY <1>3, <1>5 DEF Gives, Remembers, Keeps
<1> QED BY <1>5, <1>6, OwnersAside

LEMMA OwnerGiven ==
  ASSUME Typing, OwnersKept, NEW r \in Request, Running(r), At(r, "admin"),
         task[r].row \in members, Proceed(r), UNCHANGED <<orgs, unkept>>,
         admins' = IF task[r].op = "ensurememberships" THEN admins ELSE admins \cup {task[r].row}
  PROVE  OwnersKept'
<1>1. Placed(task[r]) /\ Flow
  BY DEF Typing, Flow, Running
<1>2. InPlace(task[r].op, task[r].pc, "admin")
  BY <1>1, AtPlace
<1>3. Moves(r)
  <2>1. Keeps(task[r], task[r]) /\ Go(r, task[r])
    BY <1>1 DEF Proceed, Keeps, Flow
  <2> QED BY <1>1, <2>1, Advance
<1>4. ASSUME NEW o \in OrgId, orgs'[o] # None, o \notin unkept'
      PROVE  \/ HasOwner(o)'
             \/ /\ orgs[o] # None /\ orgs'[o].owner = orgs[o].owner /\ o \notin unkept
                /\ HasOwner(o) => HasOwner(o)'
                /\ ~Gives(r, o)
  <2>1. HasOwner(o) => HasOwner(o)'
    BY DEF HasOwner
  <2>2. CASE Gives(r, o)
    <3>1. /\ task[r].row.org = o /\ task[r].row.user = orgs[o].owner
          /\ task[r].op # "ensurememberships"
      BY <1>2, <2>2 DEF Gives, InPlace
    <3>2. task[r].row \in admins'
      BY <3>1
    <3> QED BY <3>1, <3>2 DEF HasOwner
  <2> QED BY <1>4, <2>1, <2>2
<1> QED BY <1>3, <1>4, OwnersOn DEF Moves

\* A deletion takes an owner's membership only with his organization.
LEMMA OwnersErased ==
  ASSUME Typing, OwnersKept, CollectedFit, NEW r \in Request, Moves(r), EraseOrg(r)
  PROVE  OwnersKept'
<1> DEFINE c == seen[r]
<1>1. At(r, "erase") /\ unkept' = unkept
  BY DEF EraseOrg
<1>2. \A o \in OrgId : ~Gives(r, o)
  BY <1>1, GivesAt
<1>3. CASE orgs' = orgs /\ admins' = admins
  BY <1>1, <1>2, <1>3, OwnersAside
<1>4. CASE /\ CoversRows(c) /\ orgs' = [o \in OrgId |-> IF o \in c.orgs THEN None ELSE orgs[o]]
           /\ WithoutMembers(members \cap c.members)
  <2>1. admins' = admins \ (members \cap c.members)
    BY <1>4 DEF WithoutMembers
  <2>2. OwnedBy(c.users) \subseteq c.orgs
    BY <1>4 DEF CoversRows
  <2>3. \A m \in c.members : m.org \in c.orgs \/ m.user \in c.users
    BY DEF CollectedFit
  <2> HIDE DEF c
  <2>4. ASSUME NEW o \in OrgId, orgs'[o] # None, o \notin unkept'
        PROVE  /\ orgs[o] # None /\ orgs'[o].owner = orgs[o].owner /\ o \notin unkept
               /\ HasOwner(o) => HasOwner(o)'
               /\ ~Gives(r, o)
    <3>1. orgs'[o] = orgs[o] /\ o \notin c.orgs
      BY <1>4, <2>4
    <3>2. orgs[o].owner \notin c.users
      BY <2>2, <2>4, <3>1, NotNull DEF OwnedBy, Live
    <3>3. HasOwner(o) => HasOwner(o)'
      BY <2>1, <2>3, <3>1, <3>2 DEF HasOwner
    <3> QED BY <1>1, <1>2, <2>4, <3>1, <3>3
  <2> QED BY <2>4, OwnersOn DEF Moves
<1> QED BY <1>3, <1>4 DEF EraseOrg

\* The organization of a new user is inserted with him as its admin.
LEMMA OwnersAtHome ==
  ASSUME Typing, OwnersKept, NEW r \in Request, Moves(r), HomeOrganization(r)
  PROVE  OwnersKept'
<1> DEFINE u == task[r].user
           m == [org |-> r, user |-> u, by |-> r]
<1>1. At(r, "home") /\ unkept' = unkept /\ r \in OrgId
  BY DEF HomeOrganization, OrgId, Inserter
<1>2. \A o \in OrgId : ~Gives(r, o)
  BY <1>1, GivesAt
<1>3. CASE orgs' = orgs /\ admins' = admins
  BY <1>1, <1>2, <1>3, OwnersAside
<1>4. CASE WriteOrg(r, [slug |-> u, owner |-> u]) /\ admins' = admins \cup {m}
  <2>1. orgs' = [orgs EXCEPT ![r] = [slug |-> u, owner |-> u]]
        /\ orgs \in [OrgId -> Organization \cup {None}]
    BY <1>4 DEF WriteOrg, Typing, AccountTypeOK
  <2>2. HasOwner(r)'
    <3>1. m \in admins' /\ m.org = r /\ m.user = orgs'[r].owner
      BY <1>1, <1>4, <2>1
    <3> QED BY <3>1 DEF HasOwner
  <2>3. ASSUME NEW o \in OrgId, orgs'[o] # None, o \notin unkept', o # r
        PROVE  /\ orgs[o] # None /\ orgs'[o].owner = orgs[o].owner /\ o \notin unkept
               /\ HasOwner(o) => HasOwner(o)'
               /\ ~Gives(r, o)
    <3>1. orgs'[o] = orgs[o]
      BY <2>1, <2>3
    <3>2. HasOwner(o) => HasOwner(o)'
      BY <1>4, <3>1 DEF HasOwner
    <3> QED BY <1>1, <1>2, <2>3, <3>1, <3>2
  <2> QED BY <2>2, <2>3, OwnersOn DEF Moves
<1> QED BY <1>3, <1>4 DEF HomeOrganization

LEMMA OwnersOfSignals ==
  ASSUME Typing, OwnersKept, NEW r \in Request, Running(r), Moves(r), SignalStep(r)
  PROVE  OwnersKept'
<1>k. task[r] \in Task /\ Placed(task[r])
  BY DEF Typing, Flow, Running
<1>a. ASSUME orgs' = orgs, admins' = admins, unkept \subseteq unkept',
             NEW s, s \notin {"roles", "ensure", "admin"}, At(r, s)
      PROVE  OwnersKept'
  <2>1. \A o \in OrgId : ~Gives(r, o)
    BY <1>a, GivesAt
  <2> QED BY <1>a, <2>1, OwnersAside
<1>1. CASE EnsureRoles(r)
  <2>1. orgs' = orgs /\ admins' = admins /\ At(r, "roles")
    BY <1>1 DEF EnsureRoles
  <2>2. CASE Proceed(r) /\ unkept' = unkept
    <3>1. Keeps(task[r], task[r]) /\ Go(r, task[r])
      BY <1>k, <2>2 DEF Proceed, Keeps
    <3> QED BY <2>1, <2>2, <3>1, OwnerNear
  <2>3. CASE FailUnkept(r)
    BY <2>1, <2>3, OwnerRefused
  <2> QED BY <1>1, <2>2, <2>3 DEF EnsureRoles
<1>2. CASE EnsureOwner(r)
  <2>1. orgs' = orgs /\ admins' = admins /\ At(r, "ensure")
    BY <1>2 DEF EnsureOwner
  <2>2. ASSUME NEW m \in Membership, m.org = task[r].org, m.user = task[r].user,
               Go(r, [task[r] EXCEPT !.row = m]), unkept' = unkept
        PROVE  OwnersKept'
    <3> DEFINE t == [task[r] EXCEPT !.row = m]
    <3>1. /\ Keeps(t, task[r]) /\ t.org = task[r].org /\ t.user = task[r].user
          /\ t.row.org = t.org /\ t.row.user = t.user
      BY <1>k, <2>2 DEF Keeps, Task
    <3>2. Go(r, t)
      BY <2>2
    <3> HIDE DEF t
    <3> QED BY <2>1, <2>2, <3>1, <3>2, OwnerNear
  <2>3. ASSUME NEW m \in RowsOf(task[r].org, task[r].user), FoundRow(r, m)
        PROVE  OwnersKept'
    <3>1. m \in Membership /\ m.org = task[r].org /\ m.user = task[r].user
      BY MemberTypes DEF RowsOf, Typing
    <3> QED BY <2>2, <2>3, <3>1 DEF FoundRow
  <2>4. CASE InsertMember(r)
    <3> DEFINE m == [org |-> task[r].org, user |-> task[r].user, by |-> r]
    <3>1. m \in Membership
      BY <1>k, <2>4 DEF InsertMember, Live, Membership, Typing, AccountTypeOK, Task, Inserter
    <3>2. Go(r, [task[r] EXCEPT !.row = m]) /\ unkept' = unkept
      BY <2>4 DEF InsertMember
    <3>3. m.org = task[r].org /\ m.user = task[r].user
      OBVIOUS
    <3> HIDE DEF m
    <3> QED BY <2>2, <3>1, <3>2, <3>3
  <2>5. CASE CannotInsert(r)
    BY <2>1, <2>5, OwnerRefused DEF CannotInsert
  <2> QED BY <1>2, <2>3, <2>4, <2>5 DEF EnsureOwner
<1>3. CASE UpsertMember(r)
  BY <1>a, <1>3 DEF UpsertMember, FoundRow, InsertMember, CannotInsert, FailUnkept, Unkept
<1>4. CASE GiveAdmin(r)
  <2>1. CASE FailUnkept(r) /\ admins' = admins
    BY <1>4, <2>1, OwnerRefused DEF GiveAdmin
  <2>2. CASE /\ task[r].row \in members /\ Proceed(r) /\ unkept' = unkept
             /\ admins' = IF task[r].op = "ensurememberships" THEN admins
                          ELSE admins \cup {task[r].row}
    BY <1>4, <2>2, OwnerGiven DEF GiveAdmin
  <2> QED BY <1>4, <2>1, <2>2 DEF GiveAdmin
<1>5. CASE SaveMember(r)
  BY <1>a, <1>5 DEF SaveMember, FailUnkept, Unkept
<1>6. CASE CreateProfile(r)
  BY <1>a, <1>6 DEF CreateProfile
<1> QED BY <1>1, <1>2, <1>3, <1>4, <1>5, <1>6 DEF SignalStep

LEMMA OwnersOfOrganizations ==
  ASSUME Typing, OwnersKept, CollectedFit, NEW r \in Request, Running(r), Moves(r),
         OrganizationStep(r)
  PROVE  OwnersKept'
<1>k. task[r] \in Task /\ Placed(task[r]) /\ InMemory(task[r])
  BY DEF Typing, Flow, Running
<1>i. ASSUME NEW s, At(r, s)
      PROVE  InPlace(task[r].op, task[r].pc, s)
  BY <1>i, <1>k, AtPlace
<1>a. ASSUME orgs' = orgs, admins' = admins, unkept \subseteq unkept',
             NEW s, s \notin {"roles", "ensure", "admin"}, At(r, s)
      PROVE  OwnersKept'
  <2>1. \A o \in OrgId : ~Gives(r, o)
    BY <1>a, GivesAt
  <2> QED BY <1>a, <2>1, OwnersAside
<1>w. ASSUME NEW s \in {"insert", "write", "organize"}, At(r, s),
             NEW o \in OrgId, NEW v, NEW u \in User, WriteOrg(o, [slug |-> v, owner |-> u]),
             NEW f \in BOOLEAN, Go(r, [task[r] EXCEPT !.org = o, !.user = u, !.fresh = f]),
             s = "write" => o = task[r].org,
             admins' = admins, unkept \ {o} \subseteq unkept'
      PROVE  OwnersKept'
  <2> DEFINE t == [task[r] EXCEPT !.org = o, !.user = u, !.fresh = f]
             row == [slug |-> v, owner |-> u]
  <2>1. InPlace(task[r].op, task[r].pc, s)
    BY <1>w, <1>i
  <2>2. Keeps(t, task[r]) /\ t.org = o /\ t.user = row.owner
    BY <1>k, <1>w, <2>1 DEF Keeps, Task, InPlace
  <2>3. Go(r, t) /\ WriteOrg(o, row)
    BY <1>w
  <2> HIDE DEF t, row
  <2> QED BY <1>w, <2>2, <2>3, OwnerWritten
<1>1. CASE SignalStep(r)
  BY <1>1, OwnersOfSignals
<1>2. CASE InsertOrg(r)
  <2>1. CASE Fail(r) /\ orgs' = orgs
    BY <1>2, <1>a, <2>1 DEF InsertOrg
  <2>2. CASE /\ task[r].user \in users
             /\ WriteOrg(r, [slug |-> r, owner |-> task[r].user])
             /\ Go(r, [task[r] EXCEPT !.org = r, !.fresh = TRUE])
    <3>1. task[r].user \in User /\ r \in OrgId
      BY <2>2 DEF Typing, AccountTypeOK, OrgId, Inserter
    <3>2. [task[r] EXCEPT !.org = r, !.fresh = TRUE]
            = [task[r] EXCEPT !.org = r, !.user = task[r].user, !.fresh = TRUE]
      BY <1>k DEF Task
    <3> QED BY <1>2, <1>w, <2>2, <3>1, <3>2 DEF InsertOrg
  <2> QED BY <1>2, <2>1, <2>2 DEF InsertOrg
<1>3. CASE WriteBack(r)
  <2>1. CASE Fail(r) /\ orgs' = orgs
    BY <1>3, <1>a, <2>1 DEF WriteBack
  <2>2. CASE /\ task[r].user \in users
             /\ WriteOrg(task[r].org, [slug |-> task[r].slug, owner |-> task[r].user])
             /\ Go(r, [task[r] EXCEPT !.fresh = ~Live(task[r].org)])
    <3>1. task[r].user \in User /\ task[r].org \in OrgId
      <4>1. InPlace(task[r].op, task[r].pc, "write")
        BY <1>3, <1>i DEF WriteBack
      <4> QED BY <1>k, <2>2, <4>1 DEF Typing, AccountTypeOK, InPlace, InMemory
    <3>2. PICK f \in BOOLEAN : f = ~Live(task[r].org)
      BY DEF Live
    <3>3. [task[r] EXCEPT !.fresh = f]
            = [task[r] EXCEPT !.org = task[r].org, !.user = task[r].user, !.fresh = f]
      BY <1>k DEF Task
    <3>4. Go(r, [task[r] EXCEPT !.org = task[r].org, !.user = task[r].user, !.fresh = f])
      BY <2>2, <3>2, <3>3
    <3> QED BY <1>3, <1>w, <2>2, <3>1, <3>4 DEF WriteBack
  <2> QED BY <1>3, <2>1, <2>2 DEF WriteBack
<1>4. CASE EnsureOrg(r)
  <2>1. CASE Fail(r) /\ orgs' = orgs /\ unkept' = unkept
    BY <1>4, <1>a, <2>1 DEF EnsureOrg
  <2>2. ASSUME NEW o \in (IF Named(ConfSlug) = {} THEN {Configured(r)} ELSE Named(ConfSlug)),
               NEW u \in (IF ConfOwner \in users THEN {ConfOwner} ELSE users),
               WriteOrg(o, [slug |-> ConfSlug, owner |-> u]),
               Go(r, [task[r] EXCEPT !.org = o, !.user = u, !.fresh = ~Live(o)]),
               unkept' = unkept \ {o}
        PROVE  OwnersKept'
    <3>1. InPlace(task[r].op, task[r].pc, "organize") /\ At(r, "organize")
      BY <1>4, <1>i DEF EnsureOrg
    <3>2. r \in Boot
      BY <3>1 DEF InPlace, Typing, Flow, BootOp, Running, At
    <3>3. o \in OrgId /\ u \in User
      BY <2>2, <3>2 DEF Named, OrgId, Typing, AccountTypeOK
    <3>4. PICK f \in BOOLEAN : f = ~Live(o)
      BY DEF Live
    <3> QED BY <1>4, <1>w, <2>2, <3>1, <3>3, <3>4 DEF EnsureOrg
  <2> QED BY <1>4, <2>1, <2>2 DEF EnsureOrg
<1>5. CASE EraseOrg(r)
  BY <1>5, OwnersErased
<1>6. CASE HomeOrganization(r)
  BY <1>6, OwnersAtHome
<1>7. CASE Leave(r)
  <2>1. CASE admins' = admins /\ unkept' = unkept
    BY <1>7, <1>a, <2>1 DEF Leave
  <2>2. CASE task[r].row \in members /\ WithoutMembers({task[r].row}) /\ OwnerLost(task[r].row)
    <3>1. admins' = admins \ {task[r].row} /\ task[r].row \in Membership
      BY <2>2, MemberTypes DEF WithoutMembers, Typing
    <3> QED BY <1>7, <2>2, <3>1, AdminGone DEF Leave
  <2> QED BY <1>7, <2>1, <2>2 DEF Leave
<1>8. CASE SetRoles(r)
  <2>1. CASE admins' = admins /\ unkept' = unkept
    BY <1>8, <1>a, <2>1 DEF SetRoles
  <2>2. CASE task[r].row \in members /\ admins' = admins \ {task[r].row} /\ OwnerLost(task[r].row)
    <3>1. task[r].row \in Membership
      BY <2>2, MemberTypes DEF Typing
    <3> QED BY <1>8, <2>2, <3>1, AdminGone DEF SetRoles
  <2>3. CASE admins' = admins \cup {task[r].row} /\ unkept' = unkept
    <3>1. At(r, "set") /\ orgs' = orgs
      BY <1>8 DEF SetRoles
    <3>2. \A o \in OrgId : ~Gives(r, o) /\ (HasOwner(o) => HasOwner(o)')
      BY <2>3, <3>1, GivesAt DEF HasOwner
    <3> QED BY <2>3, <3>1, <3>2, OwnersOn DEF Moves
  <2> QED BY <1>8, <2>1, <2>2, <2>3 DEF SetRoles
<1>9. CASE Join(r)
  BY <1>9, <1>a DEF Join, FoundRow, InsertMember
<1>10. CASE \/ ReadOrg(r) \/ CheckOwner(r) \/ CollectRows(r) \/ InsertUser(r) \/ ReadMember(r)
            \/ ReadUser(r) \/ ChooseOrg(r) \/ SaveUser(r) \/ FindMember(r)
  BY <1>10, <1>a DEF ReadOrg, CheckOwner, CollectRows, InsertUser, ReadMember, ReadUser, ChooseOrg,
     SaveUser, FindMember, orgVars
<1> QED
  BY <1>1, <1>2, <1>3, <1>4, <1>5, <1>6, <1>7, <1>8, <1>9, <1>10 DEF OrganizationStep

LEMMA CollectedStays ==
  ASSUME CollectedFit, seen' = seen
  PROVE  CollectedFit'
BY DEF CollectedFit

LEMMA CollectedOn ==
  ASSUME ServerInv, CollectedFit, NEW r \in Request, Step(r)
  PROVE  CollectedFit'
<1>1. CASE CollectRows(r)
  <2> DEFINE G == UsersWith(task[r].org)
             P == {task[r].org} \cup OwnedBy(G)
             c == [users |-> G, orgs |-> P, roled |-> P \cap roled,
                   members |-> {m \in members : m.org \in P \/ m.user \in G},
                   layers |-> LayersOf(P), authkeys |-> KeysWith(LayersOf(P), G)]
  <2>1. seen' = [seen EXCEPT ![r] = c]
    BY <1>1 DEF CollectRows
  <2>2. \A m \in c.members : m.org \in c.orgs \/ m.user \in c.users
    OBVIOUS
  <2>3. seen \in [Request -> Collected]
    BY DEF ServerInv, Typing, AccountTypeOK
  <2> HIDE DEF c
  <2> QED BY <2>1, <2>2, <2>3 DEF CollectedFit
<1>2. CASE OrganizationStep(r) /\ ~CollectRows(r)
  <2>1. CASE SignalStep(r)
    <3>1. seen' = seen
      BY <2>1 DEF SignalStep, EnsureRoles, EnsureOwner, UpsertMember, GiveAdmin, SaveMember,
         CreateProfile, FoundRow, InsertMember, CannotInsert, FailUnkept, Proceed, Fail
    <3> QED BY <3>1, CollectedStays
  <2>2. CASE ~SignalStep(r)
    <3>1. seen' = seen
      BY <1>2, <2>2 DEF OrganizationStep, InsertOrg, ReadOrg, WriteBack, CheckOwner, EraseOrg,
         InsertUser, HomeOrganization, Join, Leave, ReadMember, SetRoles, ReadUser, ChooseOrg,
         SaveUser, EnsureOrg, FindMember, FoundRow, InsertMember, Proceed, Fail
    <3> QED BY <3>1, CollectedStays
  <2> QED BY <2>1, <2>2
<1>3. CASE OAuthStep(r)
  <2>1. seen' = seen
    BY <1>3 DEF OAuthStep, RegisterClient, DropClient, FindMembership, IssueCode, QueryCode,
       SaveToken, SpendCode, QueryRefreshToken, RevokeToken, ResolveMembership, ExpandOrganization,
       ExpandClient, ExpandMembership, ValidateToken, DescribeUser, Proceed, Fail
  <2> QED BY <2>1, CollectedStays
<1>4. CASE TailnetStep(r)
  <2>1. seen' = seen
    BY <1>4 DEF TailnetStep, CreateTailnet, InsertLayer, PushPolicy, ReadLayer, CheckMember,
       MintKey, StoreKey, Proceed, Fail
  <2> QED BY <2>1, CollectedStays
<1>5. CASE SocialStep(r)
  <2>1. seen' = seen
    BY <1>5 DEF SocialStep, LookForChannel, PutChannel, PutToken, CannotPut, InsertComment,
       LookUpMentions, NotifyMention, AttachMentions, ResolveTarget, CreateStash, ReadStash,
       SaveStash, DeleteStash, FindItem, PutItem, RemoveItem, Proceed, Fail, taskVars
  <2> QED BY <2>1, CollectedStays
<1>6. CASE InventoryStep(r)
  <2>1. seen' = seen
    BY <1>6 DEF InventoryStep, PutDevice, PutFile, InsertRow, Refused, ReadRow, SaveRow, DeleteRow,
       ReadGroup, AddPair, SetList, Proceed, Fail
  <2> QED BY <2>1, CollectedStays
<1> QED BY <1>1, <1>2, <1>3, <1>4, <1>5, <1>6, StepKinds

LEMMA OwnersGoOn ==
  ASSUME ServerInv, OwnersKept, CollectedFit, [ServerNext]_serverVars
  PROVE  OwnersKept' /\ CollectedFit'
<1>f. Typing
  BY DEF ServerInv
<1>a. ASSUME NEW r \in Request, Moves(r), UNCHANGED <<orgs, admins, unkept>>,
             task[r].op \notin SignalOp
      PROVE  OwnersKept'
  <2>1. \A o \in OrgId : ~Gives(r, o)
    BY <1>a DEF Gives, SignalOp
  <2> QED BY <1>a, <2>1, OwnersAside
<1>1. ASSUME NEW r \in Request, Step(r)
      PROVE  OwnersKept' /\ CollectedFit'
  <2>1. Running(r) /\ Moves(r) /\ Flow
    BY <1>1, <1>f, StepKinds DEF Typing
  <2>2. CollectedFit'
    BY <1>1, CollectedOn
  <2>3. CASE OrganizationStep(r)
    BY <1>f, <2>1, <2>2, <2>3, OwnersOfOrganizations
  <2>4. CASE OAuthStep(r)
    BY <1>a, <1>f, <2>1, <2>2, <2>4, Groups, OAuthTypes DEF orgVars, OAuthOp, SignalOp
  <2>5. CASE TailnetStep(r)
    <3>1. UNCHANGED <<orgs, admins, unkept>>
      BY <2>5 DEF TailnetStep, CreateTailnet, InsertLayer, PushPolicy, ReadLayer, CheckMember,
         MintKey, StoreKey, orgVars
    <3> QED BY <1>a, <2>1, <2>2, <2>5, <3>1, Groups DEF TailnetOp, SignalOp
  <2>6. CASE SocialStep(r) /\ UNCHANGED orgVars
    BY <1>a, <2>1, <2>2, <2>6, Groups DEF orgVars, SocialOp, SignalOp
  <2>7. CASE InventoryStep(r) /\ UNCHANGED orgVars
    BY <1>a, <2>1, <2>2, <2>7, Groups DEF orgVars, InventoryOp, SignalOp
  <2> QED BY <1>1, <2>3, <2>4, <2>5, <2>6, <2>7, StepKinds
<1>2. ASSUME NEW r \in Request, Arrive(r)
      PROVE  OwnersKept' /\ CollectedFit'
  <2>1. Begins(r) /\ UNCHANGED orgVars
    BY <1>2, Arrivals
  <2>2. seen' = seen
    <3>1. CASE OrganizationArrive(r)
      BY <1>f, <3>1, OrganizationArrives
    <3>2. CASE OAuthArrive(r)
      BY <1>f, <3>2, OAuthArrives
    <3>3. CASE TailnetArrive(r)
      BY <1>f, <3>3, TailnetArrives
    <3>4. CASE BeginsSocial(r) \/ BeginsInventory(r)
      BY <3>4 DEF BeginsSocial, BeginsInventory
    <3> QED BY <1>2, <3>1, <3>2, <3>3, <3>4, Arrivals
  <2>3. CollectedFit'
    BY <2>2, CollectedStays
  <2>4. \A q \in Request \ {r} : task'[q] = task[q]
    BY <2>1 DEF Begins
  <2>5. \A o \in OrgId : ~Gives(r, o) /\ (HasOwner(o) => HasOwner(o)')
    BY <2>1 DEF Gives, Begins, HasOwner, orgVars
  <2>6. UNCHANGED <<orgs, unkept>>
    BY <2>1 DEF orgVars
  <2> QED BY <2>3, <2>4, <2>5, <2>6, OwnersOn
<1>3. ASSUME NEW b \in Boot, Restart(b)
      PROVE  OwnersKept' /\ CollectedFit'
  <2>1. /\ UNCHANGED <<orgs, admins, seen>>
        /\ unkept' = unkept \cup {o \in OrgId : \E r \in Request : WorksOn(r, o)}
    BY <1>3 DEF Restart
  <2>2. ASSUME NEW o \in OrgId, orgs'[o] # None, o \notin unkept'
        PROVE  HasOwner(o)'
    <3>1. o \notin unkept /\ \A r \in Request : ~WorksOn(r, o)
      BY <2>1, <2>2
    <3>2. \A r \in Request : ~Gives(r, o)
      BY <3>1 DEF Gives, WorksOn, Running, SignalOp
    <3>3. HasOwner(o)
      BY <2>1, <2>2, <3>1, <3>2 DEF OwnersKept
    <3> QED BY <2>1, <3>3 DEF HasOwner
  <2> QED BY <2>1, <2>2, CollectedStays DEF OwnersKept
<1>4. CASE UNCHANGED serverVars
  BY <1>4 DEF serverVars, accountVars, orgVars, taskVars, OwnersKept, CollectedFit, HasOwner, Gives
<1> QED BY <1>1, <1>2, <1>3, <1>4 DEF ServerNext

\* However saves, deletions, departures, revivals and boots come between each
\* other's statements: the owner of an organization nobody is saving is an admin
\* of it, unless he left, was stripped of the role, or a save failed or was cut.
THEOREM OwnersAreAdmins == ServerSpec => []OwnerIsAdmin
<1>1. ServerInit => OwnersKept /\ CollectedFit
  <2> SUFFICES ASSUME ServerInit
               PROVE  OwnersKept /\ CollectedFit
    OBVIOUS
  <2>1. FoundingMember \in admins /\ FoundingMember.org = Old /\ FoundingMember.user = Founder
    BY DEF ServerInit, AccountInit, FoundingMember
  <2>2. \A o \in OrgId : orgs[o] # None => o = Old /\ orgs[o].owner = Founder
    BY DEF ServerInit, AccountInit
  <2>3. OwnersKept
    BY <2>1, <2>2 DEF OwnersKept, HasOwner
  <2>4. CollectedFit
    BY DEF ServerInit, AccountInit, CollectedFit, Nothing
  <2> QED BY <2>3, <2>4
<1>2. ServerInv /\ OwnersKept /\ CollectedFit /\ [ServerNext]_serverVars
        => OwnersKept' /\ CollectedFit'
  BY OwnersGoOn
<1>3. OwnersKept => OwnerIsAdmin
  <2> SUFFICES ASSUME OwnersKept, NEW o \in OrgId, Live(o), Settled(o), o \notin unkept
               PROVE  OwnerAdmins(o) # {}
    BY DEF OwnerIsAdmin
  <2>1. \A r \in Request : ~Gives(r, o)
    BY DEF Gives, Settled, WorksOn, Running, SignalOp
  <2>2. HasOwner(o)
    BY <2>1 DEF OwnersKept, Live
  <2> QED BY <2>2 DEF HasOwner, OwnerAdmins
<1> QED BY <1>1, <1>2, <1>3, ServerHolds, PTL DEF ServerSpec

-----------------------------------------------------------------------------
(* What a boot repairs *)

\* The organization is there, with its owner for an admin.
Repaired(o) ==
  /\ o \in Named(ConfSlug) /\ orgs[o].owner = ConfOwner /\ o \in roled
  /\ \E m \in admins : m.org = o /\ m.user = ConfOwner

\* A command has done what it has come by.
OrganizationReady(t) ==
  t.op = "ensureorganizations" =>
    /\ t.pc >= 2 => /\ t.org \in Named(ConfSlug) /\ orgs[t.org].owner = ConfOwner
                    /\ t.user = ConfOwner
    /\ t.pc >= 3 => t.org \in roled
    /\ t.pc >= 4 => t.row \in members /\ t.row.org = t.org /\ t.row.user = ConfOwner
    /\ t.pc >= 5 => t.row \in admins

MemberReady(t) ==
  t.op = "ensurememberships" =>
    /\ \E o \in OrgId : Repaired(o)
    /\ t.pc >= 2 => t.org \in Named(ConfSlug) /\ t.user = ConfMember
    /\ t.pc >= 3 => t.row \in members /\ t.row.org = t.org /\ t.row.user = ConfMember

Ready(t) ==
  /\ t.op = "ensureusers" => t.pc = 1 \/ NewUser \in users
  /\ t.op \in {"ensureorganizations", "ensurememberships"} => NewUser \in users
  /\ ConfOwner \in users => OrganizationReady(t) /\ MemberReady(t)

BootFacts ==
  \A b \in Boot : Running(b) /\ b \notin troubled => Ready(task[b])

\* A boot's step: its command goes on with t in memory, ends, or fails.
LEMMA BootGoes ==
  ASSUME ServerInv, NEW b \in Boot, Running(b), NEW t, Keeps(t, task[b]), Go(b, t)
  PROVE  /\ troubled' = troubled /\ task[b] \in Task /\ task[b].op \in BootOp
         /\ task[b].op = "ensureusers" =>
              \/ Remembers(task'[b], t) /\ task'[b].pc = t.pc + 1 /\ task'[b].status = "running"
              \/ t.pc = 5 /\ task'[b] = Asked("ensureorganizations")
         /\ task[b].op = "ensureorganizations" =>
              IF t.pc < 6
                THEN /\ Remembers(task'[b], t) /\ task'[b].pc = t.pc + 1
                     /\ task'[b].status = "running"
                ELSE t.pc = 6 /\ task'[b] = Asked("ensurememberships")
         /\ task[b].op = "ensurememberships" =>
              IF t.pc < 4
                THEN /\ Remembers(task'[b], t) /\ task'[b].pc = t.pc + 1
                     /\ task'[b].status = "running"
                ELSE t.pc = 4 /\ task'[b] = [t EXCEPT !.status = "done"]
<1>b. b \in Request /\ Flow
  BY AccountAssumption DEF ServerInv, Typing
<1>t. /\ task[b] \in Task /\ Placed(task[b]) /\ task[b].op \in BootOp
      /\ t \in Task /\ Placed(t) /\ t.op = task[b].op /\ t.pc = task[b].pc
  BY <1>b, Zenon DEF Flow, Running, Keeps, Placed
<1>n. /\ t.op = "ensureusers" => AfterCommand(t) = Asked("ensureorganizations")
      /\ t.op = "ensureorganizations" => AfterCommand(t) = Asked("ensurememberships")
      /\ t.op = "ensurememberships" => AfterCommand(t) = [t EXCEPT !.status = "done"]
  BY <1>t, NextCommand
<1>l. /\ t.op = "ensureusers" => Len(Program[t.op]) = 5
      /\ t.op = "ensureorganizations" => Len(Program[t.op]) = 6
      /\ t.op = "ensurememberships" => Len(Program[t.op]) = 4
  BY Lengths
<1>p. t.pc \in 1..Len(Program[t.op])
  BY <1>t DEF Placed
<1>a. /\ t.pc < Len(Program[t.op]) =>
           Remembers(task'[b], t) /\ task'[b].pc = t.pc + 1 /\ task'[b].status = "running"
      /\ ~(t.pc < Len(Program[t.op])) => task'[b] = AfterCommand(t)
  BY <1>b, Advance
<1>1. troubled' = troubled
  BY DEF Go
<1>2. CASE t.op = "ensureusers"
  <2> DEFINE l == Len(Program[t.op])
  <2>1. l = 5 /\ t.pc \in 1..l
    BY <1>2, <1>l, <1>p
  <2>2. t.pc < l \/ t.pc = 5
    BY <2>1
  <2>3. ~(t.pc < l) => t.pc = 5
    BY <2>2
  <2> QED BY <1>1, <1>2, <1>t, <1>n, <1>a, <2>3
<1>3. CASE t.op = "ensureorganizations"
  <2> DEFINE l == Len(Program[t.op])
  <2>1. l = 6 /\ t.pc \in 1..l
    BY <1>3, <1>l, <1>p
  <2>2. (t.pc < l <=> t.pc < 6) /\ (~(t.pc < 6) => t.pc = 6)
    BY <2>1
  <2> QED BY <1>1, <1>3, <1>t, <1>n, <1>a, <2>2
<1>4. CASE t.op = "ensurememberships"
  <2> DEFINE l == Len(Program[t.op])
  <2>1. l = 4 /\ t.pc \in 1..l
    BY <1>4, <1>l, <1>p
  <2>2. (t.pc < l <=> t.pc < 4) /\ (~(t.pc < 4) => t.pc = 4)
    BY <2>1
  <2> QED BY <1>1, <1>4, <1>t, <1>n, <1>a, <2>2
<1> QED BY <1>2, <1>3, <1>4, <1>t DEF BootOp

LEMMA BootProceeds ==
  ASSUME ServerInv, NEW b \in Boot, Running(b), Proceed(b)
  PROVE  Keeps(task[b], task[b]) /\ Go(b, task[b])
<1>1. task[b] \in Task
  BY AccountAssumption DEF ServerInv, Typing, Flow
<1> QED BY <1>1 DEF Proceed, Keeps

LEMMA BootFails ==
  ASSUME NEW b \in Boot, Fail(b)
  PROVE  b \in troubled'
BY DEF Fail

\* The steps a boot takes.
LEMMA BootActions ==
  ASSUME ServerInv, NEW b \in Boot, Running(b), Step(b)
  PROVE  /\ b \in Request /\ task[b].op \in BootOp
         /\ task[b].op = "ensureusers" =>
              \/ InsertUser(b)
              \/ /\ HomeOrganization(b) \/ UpsertMember(b) \/ GiveAdmin(b) \/ SaveMember(b)
                 /\ task[b].pc # 1
         /\ task[b].op = "ensureorganizations" =>
              \/ EnsureOrg(b) /\ task[b].pc = 1
              \/ EnsureRoles(b) /\ task[b].pc = 2
              \/ EnsureOwner(b) /\ task[b].pc = 3
              \/ GiveAdmin(b) /\ task[b].pc = 4
              \/ SaveMember(b) /\ task[b].pc = 5
              \/ CreateProfile(b) /\ task[b].pc = 6
         /\ task[b].op = "ensurememberships" =>
              \/ FindMember(b) /\ task[b].pc = 1
              \/ UpsertMember(b) /\ task[b].pc = 2
              \/ GiveAdmin(b) /\ task[b].pc = 3
              \/ SaveMember(b) /\ task[b].pc = 4
<1>1. b \in Request /\ task[b].op \in BootOp
  BY AccountAssumption DEF ServerInv, Typing, Flow, Running
<1>2. OrganizationStep(b)
  BY <1>1, StepKinds, Groups
     DEF BootOp, OAuthOp, TailnetOp, SocialOp, InventoryOp, ServerInv, Typing
<1>p. ASSUME NEW s, At(b, s)
      PROVE  InPlace(task[b].op, task[b].pc, s)
  BY <1>1, <1>p, StepKinds
<1>3. ASSUME NEW s \in {"read", "insert", "write", "own", "collect", "erase", "join", "leave",
                        "row", "set", "account", "choose", "saveuser"}
      PROVE  ~At(b, s)
  <2>1. At(b, s) => InPlace(task[b].op, task[b].pc, s)
    BY <1>p
  <2> QED BY <1>1, <2>1 DEF InPlace, BootOp
<1>4. \/ SignalStep(b) \/ InsertUser(b) \/ HomeOrganization(b) \/ EnsureOrg(b) \/ FindMember(b)
  BY <1>2, <1>3 DEF OrganizationStep, InsertOrg, ReadOrg, WriteBack, CheckOwner, CollectRows,
     EraseOrg, Join, Leave, ReadMember, SetRoles, ReadUser, ChooseOrg, SaveUser
<1>5. /\ EnsureRoles(b) => InPlace(task[b].op, task[b].pc, "roles")
      /\ EnsureOwner(b) => InPlace(task[b].op, task[b].pc, "ensure")
      /\ UpsertMember(b) => InPlace(task[b].op, task[b].pc, "upsert")
      /\ GiveAdmin(b) => InPlace(task[b].op, task[b].pc, "admin")
      /\ SaveMember(b) => InPlace(task[b].op, task[b].pc, "save")
      /\ CreateProfile(b) => InPlace(task[b].op, task[b].pc, "profile")
      /\ InsertUser(b) => InPlace(task[b].op, task[b].pc, "user")
      /\ HomeOrganization(b) => InPlace(task[b].op, task[b].pc, "home")
      /\ EnsureOrg(b) => InPlace(task[b].op, task[b].pc, "organize")
      /\ FindMember(b) => InPlace(task[b].op, task[b].pc, "find")
  BY <1>p DEF EnsureRoles, EnsureOwner, UpsertMember, GiveAdmin, SaveMember, CreateProfile,
     InsertUser, HomeOrganization, EnsureOrg, FindMember
<1> QED BY <1>1, <1>4, <1>5 DEF SignalStep, InPlace

\* The membership a boot looks for or inserts.
LEMMA BootRow ==
  ASSUME ServerInv, NEW b \in Boot, Running(b), ~Fail(b),
         \/ \E m \in RowsOf(task[b].org, task[b].user) : FoundRow(b, m)
         \/ InsertMember(b)
         \/ CannotInsert(b)
         \/ Fail(b)
  PROVE  \E m \in Membership :
           /\ m.org = task[b].org /\ m.user = task[b].user /\ m \in members'
           /\ members \subseteq members' /\ Go(b, [task[b] EXCEPT !.row = m])
<1>k. b \in Request /\ task[b] \in Task
  BY AccountAssumption DEF ServerInv, Typing, Flow
<1>1. ~CannotInsert(b)
  BY DEF CannotInsert, FailUnkept
<1>2. ASSUME NEW m \in RowsOf(task[b].org, task[b].user), FoundRow(b, m)
      PROVE  /\ m \in Membership /\ m.org = task[b].org /\ m.user = task[b].user
             /\ m \in members' /\ members \subseteq members'
             /\ Go(b, [task[b] EXCEPT !.row = m])
  BY <1>2, MemberTypes DEF FoundRow, RowsOf, ServerInv, Typing
<1>3. CASE InsertMember(b)
  <2> DEFINE m == [org |-> task[b].org, user |-> task[b].user, by |-> b]
  <2>1. m \in Membership
    BY <1>k, <1>3 DEF InsertMember, Live, Membership, ServerInv, Typing, AccountTypeOK, Task,
                      Inserter
  <2>2. Go(b, [task[b] EXCEPT !.row = m]) /\ m \in members' /\ members \subseteq members'
    BY <1>3 DEF InsertMember, Joined
  <2>3. m.org = task[b].org /\ m.user = task[b].user
    OBVIOUS
  <2> HIDE DEF m
  <2> QED BY <2>1, <2>2, <2>3
<1> QED BY <1>1, <1>2, <1>3

\* Nothing makes up for a failure.
LEMMA TroublesStay ==
  ASSUME ServerInv, NEW b \in Boot, Running(b), Step(b)
  PROVE  troubled \subseteq troubled'
<1>g. Proceed(b) => troubled' = troubled
  BY DEF Proceed, Go
<1>f. FailUnkept(b) \/ Fail(b) => troubled \subseteq troubled'
  BY DEF FailUnkept, Fail
<1>1. InsertUser(b) \/ HomeOrganization(b) => troubled \subseteq troubled'
  BY <1>f DEF InsertUser, HomeOrganization, Go
<1>2. UpsertMember(b) \/ EnsureOwner(b) => troubled \subseteq troubled'
  BY <1>f DEF UpsertMember, EnsureOwner, FoundRow, InsertMember, CannotInsert, Go
<1>3. GiveAdmin(b) \/ SaveMember(b) \/ EnsureRoles(b) \/ CreateProfile(b)
      => troubled \subseteq troubled'
  BY <1>f, <1>g DEF GiveAdmin, SaveMember, EnsureRoles, CreateProfile
<1>4. EnsureOrg(b) \/ FindMember(b) => troubled \subseteq troubled'
  BY <1>f DEF EnsureOrg, FindMember, Go
<1> QED BY <1>1, <1>2, <1>3, <1>4, BootActions DEF BootOp

\* What a step of a boot that does not fail leads to.
BootOn(b) ==
  \/ task'[b].status = "running" /\ Ready(task[b])'
  \/ task'[b].status = "done" /\ Booted'

LEMMA UsersOn ==
  ASSUME ServerInv, NEW b \in Boot, Running(b), Step(b), Ready(task[b]), b \notin troubled',
         task[b].op = "ensureusers"
  PROVE  BootOn(b)
<1>k. b \in Request /\ task[b] \in Task /\ Placed(task[b]) /\ Flow
  BY AccountAssumption DEF ServerInv, Typing, Flow, Running
<1>f. ~Fail(b) /\ ~FailUnkept(b)
  BY BootFails DEF FailUnkept
<1>s. /\ Asked("ensureorganizations").op = "ensureorganizations"
      /\ Asked("ensureorganizations").status = "running"
      /\ Asked("ensureorganizations").pc = 1
  BY Beginning, Ops
<1>r. ASSUME NewUser \in users', task'[b].status = "running",
             \/ task'[b].op = "ensureusers"
             \/ task'[b].op = "ensureorganizations" /\ task'[b].pc = 1
      PROVE  BootOn(b)
  BY <1>r DEF BootOn, Ready, OrganizationReady, MemberReady
<1>a. ASSUME NewUser \in users', NEW t, Keeps(t, task[b]), Go(b, t)
      PROVE  BootOn(b)
  <2>1. \/ Remembers(task'[b], t) /\ task'[b].status = "running"
        \/ task'[b] = Asked("ensureorganizations")
    BY <1>a, BootGoes
  <2>2. Remembers(task'[b], t) => task'[b].op = "ensureusers"
    BY <1>a DEF Remembers, Keeps
  <2> QED BY <1>a, <1>r, <1>s, <2>1, <2>2
<1>b. ASSUME NewUser \in users', Goto(b, AfterCommand(task[b]))
      PROVE  BootOn(b)
  <2>1. AfterCommand(task[b]) = Asked("ensureorganizations")
    BY <1>k, NextCommand DEF BootOp
  <2>2. task'[b] = Asked("ensureorganizations")
    BY <1>b, <1>k, <2>1 DEF Goto, Flow
  <2> QED BY <1>b, <1>r, <1>s, <2>2
<1>1. CASE InsertUser(b)
  <2>1. NewUser \in users'
    BY <1>1 DEF InsertUser
  <2>2. CASE Go(b, [task[b] EXCEPT !.user = NewUser])
    <3> DEFINE t == [task[b] EXCEPT !.user = NewUser]
    <3>1. Keeps(t, task[b]) /\ Go(b, t)
      BY <1>k, <2>2, AccountAssumption DEF Keeps, Task
    <3> HIDE DEF t
    <3> QED BY <1>a, <2>1, <3>1
  <2>3. CASE Goto(b, AfterCommand(task[b]))
    BY <1>b, <2>1, <2>3
  <2> QED BY <1>1, <2>2, <2>3 DEF InsertUser
<1>2. CASE HomeOrganization(b) /\ task[b].pc # 1
  <2>1. NewUser \in users'
    BY <1>2 DEF HomeOrganization, Ready, baseVars
  <2>2. PICK o \in OrgId : Go(b, [task[b] EXCEPT !.org = o])
    BY <1>2, <1>f, <1>k DEF HomeOrganization, Named, OrgId, Inserter
  <2> DEFINE t == [task[b] EXCEPT !.org = o]
  <2>3. Keeps(t, task[b]) /\ Go(b, t)
    BY <1>k, <2>2 DEF Keeps, Task
  <2> HIDE DEF t
  <2> QED BY <1>a, <2>1, <2>3
<1>3. CASE UpsertMember(b) /\ task[b].pc # 1
  <2>1. NewUser \in users'
    BY <1>3 DEF UpsertMember, Ready, baseVars
  <2>2. PICK m \in Membership : Go(b, [task[b] EXCEPT !.row = m])
    BY <1>3, <1>f, BootRow DEF UpsertMember
  <2> DEFINE t == [task[b] EXCEPT !.row = m]
  <2>3. Keeps(t, task[b]) /\ Go(b, t)
    BY <1>k, <2>2 DEF Keeps, Task
  <2> HIDE DEF t
  <2> QED BY <1>a, <2>1, <2>3
<1>4. CASE (GiveAdmin(b) \/ SaveMember(b)) /\ task[b].pc # 1
  <2>1. NewUser \in users' /\ Proceed(b)
    BY <1>4, <1>f DEF GiveAdmin, SaveMember, Ready, baseVars
  <2> QED BY <1>a, <2>1, BootProceeds
<1> QED BY <1>1, <1>2, <1>3, <1>4, BootActions

\* A step of ensureorganizations before its last.
LEMMA OrganizationsGo ==
  ASSUME ServerInv, NEW b \in Boot, Running(b), task[b].op = "ensureorganizations",
         task[b].pc < 6, NEW t, Keeps(t, task[b]), Go(b, t),
         NewUser \in users',
         ConfOwner \in users' =>
           /\ t.org \in Named(ConfSlug)' /\ orgs'[t.org].owner = ConfOwner /\ t.user = ConfOwner
           /\ t.pc >= 2 => t.org \in roled'
           /\ t.pc >= 3 => t.row \in members' /\ t.row.org = t.org /\ t.row.user = ConfOwner
           /\ t.pc >= 4 => t.row \in admins'
  PROVE  BootOn(b)
<1>k. t.pc \in 0..9 /\ t.pc = task[b].pc
  BY DEF Keeps, Task
<1>1. /\ task'[b].op = "ensureorganizations" /\ task'[b].pc = t.pc + 1
      /\ task'[b].org = t.org /\ task'[b].user = t.user /\ task'[b].row = t.row
      /\ task'[b].status = "running"
  <2>1. t.pc < 6
    BY <1>k
  <2>2. Remembers(task'[b], t) /\ task'[b].pc = t.pc + 1 /\ task'[b].status = "running"
    BY <2>1, BootGoes
  <2> QED BY <2>2 DEF Remembers, Keeps
<1>2. /\ task'[b].pc >= 3 => t.pc >= 2
      /\ task'[b].pc >= 4 => t.pc >= 3
      /\ task'[b].pc >= 5 => t.pc >= 4
  BY <1>1, <1>k
<1>3. OrganizationReady(task[b])' \/ ConfOwner \notin users'
  BY <1>1, <1>2 DEF OrganizationReady
<1> QED BY <1>1, <1>3 DEF BootOn, Ready, MemberReady

LEMMA OrganizationsOn ==
  ASSUME ServerInv, NEW b \in Boot, Running(b), Step(b), Ready(task[b]), b \notin troubled',
         task[b].op = "ensureorganizations"
  PROVE  BootOn(b)
<1>k. b \in Request /\ task[b] \in Task /\ Placed(task[b]) /\ Flow /\ AccountTypeOK
  BY AccountAssumption DEF ServerInv, Typing, Flow, Running
<1>f. ~Fail(b) /\ ~FailUnkept(b)
  BY BootFails DEF FailUnkept
<1>u. NewUser \in users /\ (ConfOwner \in users => OrganizationReady(task[b]))
  BY DEF Ready
<1>1. CASE EnsureOrg(b) /\ task[b].pc = 1
  <2>1. PICK o \in OrgId, u \in users :
          /\ ConfOwner \in users => u = ConfOwner
          /\ WriteOrg(o, [slug |-> ConfSlug, owner |-> u])
          /\ Go(b, [task[b] EXCEPT !.org = o, !.user = u, !.fresh = ~Live(o)])
    <3>1. Configured(b) \in OrgId /\ Named(ConfSlug) \subseteq OrgId
      BY DEF OrgId, Named
    <3> QED BY <1>1, <1>f, <3>1 DEF EnsureOrg
  <2>2. PICK f \in BOOLEAN : f = ~Live(o)
    OBVIOUS
  <2> DEFINE t == [task[b] EXCEPT !.org = o, !.user = u, !.fresh = f]
  <2>3. u \in User /\ orgs \in [OrgId -> Organization \cup {None}]
    BY <1>k DEF AccountTypeOK
  <2>4. /\ Keeps(t, task[b]) /\ Go(b, t) /\ t.org = o /\ t.user = u /\ t.pc = 1
    BY <1>k, <1>1, <2>1, <2>2, <2>3 DEF Keeps, Task
  <2>5. orgs'[o] = [slug |-> ConfSlug, owner |-> u]
    BY <2>1, <2>3 DEF WriteOrg
  <2>6. [slug |-> ConfSlug, owner |-> u] \in Organization
    BY <2>3 DEF Organization, Slug
  <2>7. o \in Named(ConfSlug)'
    BY <2>5, <2>6, RowAssumption DEF Named
  <2>8. users' = users
    BY <1>1 DEF EnsureOrg, baseVars
  <2>9. ConfOwner \in users' =>
          t.org \in Named(ConfSlug)' /\ orgs'[t.org].owner = ConfOwner /\ t.user = ConfOwner
    BY <2>1, <2>4, <2>5, <2>7, <2>8
  <2> HIDE DEF t
  <2> QED BY <1>1, <1>u, <2>4, <2>8, <2>9, OrganizationsGo
<1>h. ASSUME UNCHANGED <<users, orgs>>, roled \subseteq roled', members \subseteq members',
             admins \subseteq admins', NEW t, Keeps(t, task[b]), Go(b, t),
             t.org = task[b].org, t.user = task[b].user, task[b].pc \in {2, 3, 4, 5},
             task[b].pc >= 4 => t.row = task[b].row,
             task[b].pc = 2 => t.org \in roled',
             task[b].pc = 3 => /\ t.row \in members' /\ t.row.org = t.org
                               /\ t.row.user = task[b].user,
             task[b].pc = 4 => t.row \in admins'
      PROVE  BootOn(b)
  <2>1. Named(ConfSlug)' = Named(ConfSlug)
    BY <1>h DEF Named
  <2>2. t.pc = task[b].pc
    BY <1>h DEF Keeps
  <2>3. ConfOwner \in users' =>
          /\ t.org \in Named(ConfSlug)' /\ orgs'[t.org].owner = ConfOwner /\ t.user = ConfOwner
          /\ t.pc >= 2 => t.org \in roled'
          /\ t.pc >= 3 => t.row \in members' /\ t.row.org = t.org /\ t.row.user = ConfOwner
          /\ t.pc >= 4 => t.row \in admins'
    BY <1>h, <1>u, <2>1, <2>2 DEF OrganizationReady
  <2> QED BY <1>h, <1>u, <2>3, OrganizationsGo
<1>2. CASE EnsureRoles(b) /\ task[b].pc = 2
  <2>1. /\ Proceed(b) /\ roled' = roled \cup {task[b].org}
        /\ UNCHANGED <<users, orgs, members, admins>>
    BY <1>2, <1>f DEF EnsureRoles, baseVars
  <2> QED BY <1>2, <1>h, <2>1, BootProceeds
<1>3. CASE EnsureOwner(b) /\ task[b].pc = 3
  <2>1. PICK m \in Membership :
           /\ m.org = task[b].org /\ m.user = task[b].user /\ m \in members'
           /\ members \subseteq members' /\ Go(b, [task[b] EXCEPT !.row = m])
    BY <1>3, <1>f, BootRow DEF EnsureOwner
  <2> DEFINE t == [task[b] EXCEPT !.row = m]
  <2>2. /\ Keeps(t, task[b]) /\ Go(b, t) /\ t.org = task[b].org /\ t.user = task[b].user
        /\ t.row = m
    BY <1>k, <2>1 DEF Keeps, Task
  <2>3. UNCHANGED <<users, orgs, roled, admins>>
    BY <1>3 DEF EnsureOwner, baseVars
  <2> HIDE DEF t
  <2> QED BY <1>3, <1>h, <2>1, <2>2, <2>3
<1>4. CASE GiveAdmin(b) /\ task[b].pc = 4
  <2>1. /\ Proceed(b) /\ admins' = admins \cup {task[b].row}
        /\ UNCHANGED <<users, orgs, roled, members>>
    BY <1>4, <1>f DEF GiveAdmin, baseVars
  <2> QED BY <1>4, <1>h, <2>1, BootProceeds
<1>5. CASE SaveMember(b) /\ task[b].pc = 5
  <2>1. /\ Proceed(b) /\ members \subseteq members'
        /\ UNCHANGED <<users, orgs, roled, admins>>
    BY <1>5, <1>f DEF SaveMember, baseVars
  <2> QED BY <1>5, <1>h, <2>1, BootProceeds
<1>6. CASE CreateProfile(b) /\ task[b].pc = 6
  <2>1. Proceed(b) /\ UNCHANGED <<users, orgs, roled, members, admins>>
    BY <1>6, <1>f DEF CreateProfile, baseVars
  <2>2. task'[b] = Asked("ensurememberships")
    <3>1. Keeps(task[b], task[b]) /\ Go(b, task[b])
      BY <2>1, BootProceeds
    <3>2. ~(task[b].pc < 6)
      BY <1>6
    <3> QED BY <3>1, <3>2, BootGoes
  <2>3. /\ task'[b].op = "ensurememberships" /\ task'[b].pc = 1
        /\ task'[b].status = "running"
    BY <2>2, Beginning, Ops
  <2>4. ConfOwner \in users => \E o \in OrgId : Repaired(o)
    <3> SUFFICES ASSUME ConfOwner \in users
                 PROVE  \E o \in OrgId : Repaired(o)
      OBVIOUS
    <3>1. /\ task[b].org \in Named(ConfSlug) /\ orgs[task[b].org].owner = ConfOwner
          /\ task[b].org \in roled /\ task[b].row \in admins
          /\ task[b].row.org = task[b].org /\ task[b].row.user = ConfOwner
      BY <1>6, <1>u DEF OrganizationReady
    <3>2. Repaired(task[b].org) /\ task[b].org \in OrgId
      BY <3>1 DEF Repaired, Named
    <3> QED BY <3>2
  <2>5. ConfOwner \in users' => \E o \in OrgId : Repaired(o)'
    BY <2>1, <2>4 DEF Repaired, Named
  <2>6. ConfOwner \in users' => OrganizationReady(task[b])' /\ MemberReady(task[b])'
    BY <2>3, <2>5 DEF OrganizationReady, MemberReady
  <2> QED BY <1>u, <2>1, <2>3, <2>6 DEF BootOn, Ready
<1> QED BY <1>1, <1>2, <1>3, <1>4, <1>5, <1>6, BootActions

LEMMA RepairedStays ==
  ASSUME UNCHANGED <<orgs, roled, admins>>
  PROVE  /\ Named(ConfSlug)' = Named(ConfSlug)
         /\ \A o \in OrgId : Repaired(o) => Repaired(o)'
BY DEF Named, Repaired

\* A step of ensurememberships before its last.
LEMMA MembersGo ==
  ASSUME ServerInv, NEW b \in Boot, Running(b), task[b].op = "ensurememberships",
         Ready(task[b]), UNCHANGED <<users, orgs, roled, admins>>, members \subseteq members',
         task[b].pc < 4, NEW t, Keeps(t, task[b]), Go(b, t),
         ConfOwner \in users =>
           /\ t.org \in Named(ConfSlug) /\ t.user = ConfMember
           /\ t.pc >= 2 => t.row \in members' /\ t.row.org = t.org /\ t.row.user = ConfMember
  PROVE  BootOn(b)
<1>k. t.pc \in 0..9 /\ t.pc = task[b].pc
  BY DEF Keeps, Task
<1>1. /\ task'[b].op = "ensurememberships" /\ task'[b].pc = t.pc + 1
      /\ task'[b].org = t.org /\ task'[b].user = t.user /\ task'[b].row = t.row
      /\ task'[b].status = "running"
  BY <1>k, BootGoes DEF Remembers, Keeps
<1>2. task'[b].pc >= 3 => t.pc >= 2
  BY <1>1, <1>k
<1>3. ConfOwner \in users' => MemberReady(task[b])'
  BY <1>1, <1>2, RepairedStays DEF MemberReady, Ready
<1> QED BY <1>1, <1>3 DEF BootOn, Ready, OrganizationReady

LEMMA MembersOn ==
  ASSUME ServerInv, NEW b \in Boot, Running(b), Step(b), Ready(task[b]), b \notin troubled',
         task[b].op = "ensurememberships"
  PROVE  BootOn(b)
<1>k. b \in Request /\ task[b] \in Task /\ Placed(task[b]) /\ Flow /\ AccountTypeOK
  BY AccountAssumption DEF ServerInv, Typing, Flow, Running
<1>f. ~Fail(b) /\ ~FailUnkept(b)
  BY BootFails DEF FailUnkept
<1>u. NewUser \in users /\ (ConfOwner \in users => MemberReady(task[b]))
  BY DEF Ready
<1>o. UNCHANGED <<users, orgs, roled, admins>> /\ members \subseteq members'
  <2>1. FindMember(b) => UNCHANGED <<users, orgs, roled, admins, members>>
    BY DEF FindMember, orgVars, baseVars
  <2>2. UpsertMember(b) => UNCHANGED <<users, orgs, roled, admins>> /\ members \subseteq members'
    BY <1>f DEF UpsertMember, baseVars, FoundRow, InsertMember, CannotInsert, Joined
  <2>3. GiveAdmin(b) => UNCHANGED <<users, orgs, roled, admins, members>>
    BY DEF GiveAdmin, baseVars
  <2>4. SaveMember(b) => UNCHANGED <<users, orgs, roled, admins>> /\ members \subseteq members'
    BY DEF SaveMember, baseVars
  <2> QED BY <2>1, <2>2, <2>3, <2>4, BootActions
<1>1. CASE FindMember(b) /\ task[b].pc = 1
  <2>1. ASSUME NEW o \in Named(ConfSlug), Go(b, [task[b] EXCEPT !.org = o, !.user = ConfMember])
        PROVE  BootOn(b)
    <3> DEFINE t == [task[b] EXCEPT !.org = o, !.user = ConfMember]
    <3>1. o \in OrgId /\ ConfMember \in User
      BY AccountAssumption DEF Named
    <3>2. Keeps(t, task[b]) /\ Go(b, t) /\ t.org = o /\ t.user = ConfMember /\ t.pc = 1
      BY <1>1, <1>k, <2>1, <3>1 DEF Keeps, Task
    <3> HIDE DEF t
    <3> QED BY <1>1, <1>o, <2>1, <3>2, MembersGo
  <2>2. ASSUME ConfMember \notin users \/ Named(ConfSlug) = {},
               Goto(b, AfterCommand(task[b]))
        PROVE  BootOn(b)
    <3>1. task'[b] = [task[b] EXCEPT !.status = "done"]
      BY <1>k, <2>2, NextCommand DEF Goto, Flow, BootOp
    <3>2. task'[b].status = "done"
      BY <1>k, <3>1 DEF Task
    <3>3. ASSUME ConfOwner \in users
          PROVE  \E o \in Named(ConfSlug)' :
                   /\ orgs'[o].owner = ConfOwner /\ o \in roled'
                   /\ \E m \in admins' : m.org = o /\ m.user = ConfOwner
                   /\ ConfMember \notin users'
      BY <1>o, <1>u, <2>2, <3>3, RepairedStays DEF MemberReady, Repaired
    <3>4. Booted'
      BY <1>o, <1>u, <3>3 DEF Booted
    <3> QED BY <3>2, <3>4 DEF BootOn
  <2> QED BY <1>1, <2>1, <2>2 DEF FindMember
<1>2. CASE UpsertMember(b) /\ task[b].pc = 2
  <2>1. PICK m \in Membership :
           /\ m.org = task[b].org /\ m.user = task[b].user /\ m \in members'
           /\ members \subseteq members' /\ Go(b, [task[b] EXCEPT !.row = m])
    BY <1>2, <1>f, BootRow DEF UpsertMember
  <2> DEFINE t == [task[b] EXCEPT !.row = m]
  <2>2. /\ Keeps(t, task[b]) /\ Go(b, t) /\ t.org = task[b].org /\ t.user = task[b].user
        /\ t.row = m
    BY <1>k, <2>1 DEF Keeps, Task
  <2> HIDE DEF t
  <2> QED BY <1>2, <1>o, <1>u, <2>1, <2>2, MembersGo DEF MemberReady
<1>3. CASE GiveAdmin(b) /\ task[b].pc = 3
  <2>1. Proceed(b)
    BY <1>3, <1>f DEF GiveAdmin
  <2> QED BY <1>3, <1>o, <1>u, <2>1, BootProceeds, MembersGo DEF MemberReady
<1>4. CASE SaveMember(b) /\ task[b].pc = 4
  <2>1. Proceed(b)
    BY <1>4, <1>f DEF SaveMember
  <2>2. task'[b].status = "done"
    <3>1. task'[b] = [task[b] EXCEPT !.status = "done"]
      BY <1>4, <2>1, BootProceeds, BootGoes
    <3> QED BY <1>k, <3>1 DEF Task
  <2>3. ASSUME ConfOwner \in users
        PROVE  \E o \in Named(ConfSlug)' :
                 /\ orgs'[o].owner = ConfOwner /\ o \in roled'
                 /\ \E m \in admins' : m.org = o /\ m.user = ConfOwner
                 /\ RowsOf(o, ConfMember)' # {}
    <3>1. PICK o \in OrgId : Repaired(o)
      BY <1>u, <2>3 DEF MemberReady
    <3>2. /\ task[b].org \in Named(ConfSlug) /\ task[b].row \in members
          /\ task[b].row.org = task[b].org /\ task[b].row.user = ConfMember
      BY <1>4, <1>u, <2>3 DEF MemberReady
    <3>3. task[b].org = o
      BY <1>k, <3>1, <3>2 DEF Repaired, Named, AccountTypeOK
    <3>4. task[b].row \in RowsOf(o, ConfMember)'
      BY <1>o, <3>2, <3>3 DEF RowsOf
    <3> QED BY <1>o, <3>1, <3>4, RepairedStays DEF Repaired
  <2>4. Booted'
    BY <1>o, <1>u, <2>3 DEF Booted
  <2> QED BY <2>2, <2>4 DEF BootOn
<1> QED BY <1>1, <1>2, <1>3, <1>4, BootActions

\* A boot that has not failed goes on with what it has done so far, and leaves
\* nothing missing.
LEMMA BootsOn ==
  ASSUME ServerInv, BootFacts, NEW b \in Boot, Running(b), Step(b), b \notin troubled'
  PROVE  BootOn(b)
<1>1. Ready(task[b])
  BY TroublesStay DEF BootFacts
<1> QED BY <1>1, UsersOn, OrganizationsOn, MembersOn, BootActions DEF BootOp

LEMMA BootFactsOn ==
  ASSUME ServerInv, BootFacts, [ServerNext]_serverVars
  PROVE  BootFacts'
<1>q. Boot \subseteq Request /\ Flow
  BY AccountAssumption DEF ServerInv, Typing
<1>1. ASSUME NEW r \in Request, Arrive(r)
      PROVE  BootFacts'
  <2>1. Begins(r)
    BY <1>1, Arrivals
  <2>2. \A b \in Boot : task'[b] = task[b] /\ ~Running(b)
    BY <1>q, <2>1 DEF Begins, Serving
  <2> QED BY <2>2 DEF BootFacts, Running
<1>2. ASSUME NEW r \in Request, Step(r)
      PROVE  BootFacts'
  <2>1. Moves(r) /\ Running(r)
    BY <1>2, StepKinds
  <2>2. ASSUME NEW b \in Boot, Running(b)', b \notin troubled'
        PROVE  Ready(task[b])'
    <3>1. b # r => task'[b] = task[b]
      BY <1>q, <2>1 DEF Moves
    <3>2. b # r => Running(b)
      BY <2>2, <3>1 DEF Running
    <3>3. b = r
      BY <1>q, <2>1, <3>2 DEF Flow
    <3>4. BootOn(b)
      BY <1>2, <2>1, <2>2, <3>3, BootsOn
    <3> QED BY <2>2, <3>4 DEF BootOn, Running
  <2> QED BY <2>2 DEF BootFacts
<1>3. ASSUME NEW c \in Boot, Restart(c)
      PROVE  BootFacts'
  <2>1. /\ task'[c].op = "ensureusers" /\ task'[c].pc = 1
        /\ \A q \in Request \ {c} : ~Running(q)'
    BY <1>q, <1>3, Boots
  <2>2. Ready(task[c])'
    BY <2>1 DEF Ready, OrganizationReady, MemberReady
  <2> QED BY <1>q, <2>1, <2>2 DEF BootFacts
<1>4. CASE UNCHANGED serverVars
  <2>1. UNCHANGED <<task, troubled, users, orgs, roled, members, admins>>
    BY <1>4 DEF serverVars, accountVars, orgVars, baseVars, taskVars
  <2> QED BY <2>1 DEF BootFacts, Running, Ready, OrganizationReady, MemberReady, Repaired, Named
<1> QED BY <1>1, <1>2, <1>3, <1>4 DEF ServerNext

\* A boot none of whose commands failed leaves nothing missing that they are
\* for, whatever the requests that it cut left behind: each command has made
\* sure of what the next one rests on, and while a boot runs nothing else does.
THEOREM BootsRepair == ServerSpec => BootRepairs
<1>1. ServerInit => BootFacts
  BY AccountAssumption DEF ServerInit, AccountInit, NoTask, BootFacts, Running
<1>2. ServerInv /\ BootFacts /\ [ServerNext]_serverVars => BootFacts'
  BY BootFactsOn
<1> DEFINE Repairs == \A b \in Boot :
             task[b].status = "running" /\ task'[b].status = "done" /\ b \notin troubled'
             => Booted'
<1>3. ServerInv /\ BootFacts /\ [ServerNext]_serverVars => [Repairs]_serverVars
  <2> SUFFICES ASSUME ServerInv, BootFacts, ServerNext, NEW b \in Boot,
                      task[b].status = "running", task'[b].status = "done", b \notin troubled'
               PROVE  Booted'
    OBVIOUS
  <2>q. Boot \subseteq Request /\ Flow /\ Running(b)
    BY AccountAssumption DEF ServerInv, Typing, Running
  <2>1. ASSUME NEW r \in Request, Arrive(r)
        PROVE  FALSE
    <3>1. Begins(r)
      BY <2>1, Arrivals
    <3> QED BY <2>q, <3>1 DEF Begins, Serving
  <2>2. ASSUME NEW r \in Request, Step(r)
        PROVE  Booted'
    <3>1. Running(r)
      BY <2>2, StepKinds
    <3>2. r = b
      BY <2>q, <3>1 DEF Flow
    <3>3. BootOn(b)
      BY <2>2, <2>q, <3>2, BootsOn
    <3> QED BY <3>3 DEF BootOn
  <2>3. ASSUME NEW c \in Boot, Restart(c)
        PROVE  FALSE
    <3>1. task[c].status = "new" /\ task'[c].status = "running"
      BY <2>q, <2>3, Boots
    <3>2. \A q \in Request \ {c} : Kept(q)
      BY <2>q, <2>3, Boots
    <3> QED BY <2>q, <3>1, <3>2 DEF Kept
  <2> QED BY <2>1, <2>2, <2>3 DEF ServerNext
<1> QED BY <1>1, <1>2, <1>3, ServerHolds, PTL DEF ServerSpec, BootRepairs

=============================================================================
