-------------------------------- MODULE Accounts --------------------------------
(***************************************************************************)
(* Users, organizations, memberships and what hangs on a membership: its   *)
(* fakts clients, authorization codes and tokens (karakter/models.py,      *)
(* authapp/models.py, Client in fakts/models.py); the requests that change *)
(* them and the boot of the server (run.sh).                               *)
(*                                                                         *)
(* Every statement commits by itself, so a request is a sequence of steps  *)
(* other requests come between; what one transaction writes is one step.   *)
(* There is one server: booting it anew cuts the requests that run, and    *)
(* boots precede serving.                                                  *)
(*                                                                         *)
(* A row is named by the request that inserted it.                         *)
(***************************************************************************)
EXTENDS Naturals, Sequences, FiniteSets

CONSTANTS
  Request,     \* HTTP requests and boots
  Boot,        \* those that are boots
  Old,         \* the name of the rows that were there before
  OpenId,      \* the OAuth client that ensureopenid keeps; it has no fakts client
  User,
  NewUser,     \* the user who has not signed up yet; ensureusers lists him too
  Founder,     \* owner of the organization that is there at the start
  Member,      \* another member of it
  ConfOwner,   \* its owner in ENSURE_ORGANIZATIONS
  ConfMember,  \* the member in ENSURED_MEMBERSHIPS
  ConfSlug,    \* its slug in ENSURE_ORGANIZATIONS
  Topics,      \* sets of operations that are explored together
  Limit,       \* how many requests arrive in a behaviour of each topic
  None

Inserter == Request \cup {Old}

\* A boot may insert two organizations: the home of NewUser, which has its name,
\* and the configured one.
Configured(b) == <<b, ConfSlug>>
OrgId == Inserter \cup {Configured(b) : b \in Boot}

Slug == {ConfSlug} \cup User \cup Request   \* "<username>-org" is named by its user,
                                           \* a random slug by its request
ClientId == Inserter \cup {OpenId}

ASSUME AccountAssumption ==
  /\ Boot \subseteq Request
  /\ Old \notin Request /\ OpenId \notin Inserter
  /\ {Configured(b) : b \in Boot} \cap Inserter = {}
  /\ {NewUser, Founder, Member, ConfOwner, ConfMember} \subseteq User
  /\ NewUser \notin {Founder, Member, ConfOwner} /\ Founder # Member
  /\ User \cap Inserter = {} /\ ConfSlug \notin Request \cup User
  /\ None \notin OrgId \cup User \cup Slug

Organization == [slug : Slug, owner : User]
Membership == [org : OrgId, user : User, by : Inserter]

\* What the requests do, statement by statement.  create, update and the
\* boot's ensureorganizations run the Organization signal: roles, ensure,
\* admin, save, profile.
Program ==
  [create |-> <<"insert", "roles", "ensure", "admin", "save", "profile",
                "upsert", "admin", "save">>,
   update |-> <<"read", "write", "roles", "ensure", "admin", "save", "profile">>,
   delete |-> <<"own", "collect", "erase">>,
   signup |-> <<"user", "home", "upsert", "admin", "save">>,
   join |-> <<"join">>,
   leave |-> <<"leave">>,
   choose |-> <<"account", "choose", "saveuser", "home", "upsert", "admin", "save">>,
   quit |-> <<"account", "leave", "saveuser", "home", "upsert", "admin", "save">>,
   tailnet |-> <<"read", "create", "layer", "push">>,
   authkey |-> <<"layerrow", "ofmember", "mint", "store">>,
   makeAdmin |-> <<"row", "set", "save">>,
   unmakeAdmin |-> <<"row", "set", "save">>,
   ensureusers |-> <<"user", "home", "upsert", "admin", "save">>,
   ensureorganizations |->
     <<"organize", "roles", "ensure", "admin", "save", "profile">>,
   ensurememberships |-> <<"find", "upsert", "admin", "save">>,
   register |-> <<"register">>,
   drop |-> <<"drop">>,
   accept |-> <<"member", "issue">>,
   exchange |-> <<"query", "token", "spend">>,
   refresh |-> <<"active", "token", "revoke">>,
   credentials |-> <<"resolve", "token">>,
   api |-> <<"organization", "client", "membership">>,
   info |-> <<"validate", "describe">>,
   channel |-> <<"look", "put">>,
   message |-> <<"target", "notify">>,
   comment |-> <<"comment", "lookup", "notify", "attach">>,
   stash |-> <<"stash">>,
   restash |-> <<"stashrow", "stashsave">>,
   unstash |-> <<"stashrow", "unstash">>,
   additems |-> <<"stashrow", "finditem", "putitem">>,
   removeitems |-> <<"removeitem">>,
   device |-> <<"putdevice">>,
   group |-> <<"insertrow">>,
   profile |-> <<"insertrow">>,
   upload |-> <<"putfile">>,
   edit |-> <<"readrow", "saverow">>,
   remove |-> <<"readrow", "deleterow">>,
   enlist |-> <<"readgroup", "readrow", "addpair", "saverow">>,
   permit |-> <<"allowedGroups", "allowedUsers", "deniedGroups", "deniedUsers">>]

\* The commands of run.sh that write here, in their order.
Commands == <<"ensureusers", "ensureorganizations", "ensurememberships">>

Op == DOMAIN Program
HttpOp == Op \ {Commands[i] : i \in 1..Len(Commands)}

ASSUME TopicAssumption ==
  /\ None \notin Op
  /\ \A t \in Topics : t \subseteq HttpOp \cup {"boot"}
  /\ Limit \in [Topics -> Nat]

VARIABLES
  users,      \* User rows
  active,     \* the organization each user is active in
  orgs,       \* Organization rows
  roled,      \* organizations with their default roles
  profiled,   \* organizations with an OrganizationProfile
  members,    \* Membership rows
  admins,     \* memberships with the role admin
  layers,     \* IonscaleLayer rows
  authkeys,   \* IonscaleAuthKey rows
  oauth,      \* OAuth2Client rows
  fakts,      \* the membership of the fakts client of each OAuth client
  codes,      \* AuthorizationCode rows
  tokens      \* OAuth2Token rows

VARIABLES
  topic,      \* the operations of this behaviour
  task,       \* what each request is doing
  seen,       \* the rows a deletion has collected
  past,       \* history: the requests that had ended when one began
  troubled,   \* history: boots one of whose commands failed
  unkept,     \* history: organizations whose owner left, was stripped of admin,
              \* or whose signal failed or was cut
  loose,      \* history: OAuth clients whose fakts client was dropped alone
  held,       \* history: the slugs organizations have had
  chose,      \* history: who wrote a user's active organization last
  grants,     \* history: membership and client of every code
  claims      \* history: what every JWT says, and the membership it is of

baseVars == <<users, active, chose, layers, authkeys>>
orgVars == <<baseVars, orgs, roled, profiled, members, admins, unkept, held>>
oauthVars == <<oauth, fakts, codes, tokens, loose, grants, claims>>
taskVars == <<topic, task, seen, past, troubled>>
accountVars == <<orgVars, oauthVars, taskVars>>

-----------------------------------------------------------------------------
(* Types *)

Code == [member : Membership, client : ClientId]
Token == [member : Membership, client : ClientId, revoked : BOOLEAN,
          from : Inserter \cup {None}]
Claims == [user : User, slug : Slug, client : ClientId, org : OrgId]

\* The name of its tailnet is an organization's slug, and one of its own that
\* is left out here.
Layer == [org : OrgId, tailnet : Slug]
AuthKey == [layer : Inserter, creator : User]

ASSUME RowAssumption ==
  None \notin UNION {Organization, Membership, Code, Token, Claims, Layer, AuthKey}

Collected == [members : SUBSET Membership, users : SUBSET User,
              orgs : SUBSET OrgId, roled : SUBSET OrgId,
              layers : SUBSET Inserter, authkeys : SUBSET Inserter]

Nothing == [members |-> {}, users |-> {}, orgs |-> {}, roled |-> {},
            layers |-> {}, authkeys |-> {}]

\* The operations whose task runs the Organization signal.
SignalOp == {"create", "update", "ensureorganizations"}

Status == {"new", "running", "done", "failed", "cut"}

\* org, user and slug are what the request has in memory of them, row its
\* membership, cred the code or token it is about, and fresh says that the
\* organization or user it saved was inserted (for quit: that the user was
\* active in the organization he leaves).
Task == [op : Op \cup {None}, status : Status, pc : 0..9,
         org : OrgId \cup {None}, user : User \cup {None},
         slug : Slug \cup {None}, row : Membership \cup {None},
         client : ClientId \cup {None}, cred : Inserter \cup {None},
         fresh : BOOLEAN]

NoTask == [op |-> None, status |-> "new", pc |-> 0, org |-> None, user |-> None,
           slug |-> None, row |-> None, client |-> None, cred |-> None,
           fresh |-> FALSE]

AccountTypeOK ==
  /\ users \in SUBSET User
  /\ active \in [User -> OrgId \cup {None}]
  /\ \A u \in User : active[u] # None => u \in users /\ orgs[active[u]] # None
  /\ orgs \in [OrgId -> Organization \cup {None}]
  /\ \A o \in OrgId : orgs[o] # None => orgs[o].owner \in users
  /\ \A o, p \in OrgId :
       orgs[o] # None /\ orgs[p] # None /\ orgs[o].slug = orgs[p].slug => o = p
  /\ roled \in SUBSET OrgId /\ profiled \in SUBSET OrgId
  /\ members \in SUBSET Membership /\ admins \in SUBSET members
  /\ \A m \in members : orgs[m.org] # None /\ m.user \in users
  /\ \A m, n \in members : m.org = n.org /\ m.user = n.user => m = n
  /\ layers \in [Inserter -> Layer \cup {None}]
  /\ \A l \in Inserter : layers[l] # None => orgs[layers[l].org] # None
  /\ authkeys \in [Inserter -> AuthKey \cup {None}]
  /\ \A k \in Inserter : authkeys[k] # None =>
       layers[authkeys[k].layer] # None /\ authkeys[k].creator \in users
  /\ oauth \in SUBSET ClientId
  /\ fakts \in [ClientId -> members \cup {None}]
  /\ \A c \in ClientId : fakts[c] # None => c \in oauth
  /\ codes \in [Inserter -> [member : members, client : ClientId] \cup {None}]
  /\ tokens \in [Inserter -> Token \cup {None}]
  /\ \A t \in Inserter : tokens[t] # None => tokens[t].member \in members
  /\ topic \in Topics
  /\ \A r \in Request : task[r] \in Task
  /\ seen \in [Request -> Collected]
  /\ past \in [Request -> SUBSET Request]

-----------------------------------------------------------------------------
(* State helpers *)

Live(o) == o # None /\ orgs[o] # None
RowsOf(o, u) == {m \in members : m.org = o /\ m.user = u}
Named(s) == {o \in OrgId : orgs[o] # None /\ orgs[o].slug = s}

Running(r) == task[r].status = "running"
At(r, s) == Running(r) /\ Program[task[r].op][task[r].pc] = s

\* A request saves the organization, and its signal is not through.
WorksOn(r, o) == Running(r) /\ task[r].org = o /\ task[r].op \in SignalOp

\* Two requests overlapped: neither had ended when the other began.
Overlap(r, q) == r \notin past[q] /\ q \notin past[r]

\* A command that ended, or failed, gives way to the next; after the last
\* one the server serves (run.sh does not stop at a failure).
AfterCommand(t) ==
  IF \E i \in 1..Len(Commands) - 1 : Commands[i] = t.op
    THEN LET i == CHOOSE i \in 1..Len(Commands) - 1 : Commands[i] = t.op
         IN  [NoTask EXCEPT !.op = Commands[i + 1], !.status = "running", !.pc = 1]
    ELSE [t EXCEPT !.status = "done"]

Advanced(r, t) ==
  IF t.pc < Len(Program[t.op]) THEN [t EXCEPT !.pc = t.pc + 1]
  ELSE IF r \in Boot THEN AfterCommand(t)
  ELSE [t EXCEPT !.status = "done"]

Goto(r, t) == task' = [task EXCEPT ![r] = t]

\* The request goes on to its next step with t in memory.
Go(r, t) == Goto(r, Advanced(r, t)) /\ UNCHANGED <<topic, past, troubled>>

Proceed(r) == Go(r, task[r]) /\ UNCHANGED seen

\* An exception: the request fails, the boot's command ends.
Fail(r) ==
  /\ Goto(r, IF r \in Boot THEN AfterCommand(task[r]) ELSE [task[r] EXCEPT !.status = "failed"])
  /\ troubled' = IF r \in Boot THEN troubled \cup {r} ELSE troubled
  /\ UNCHANGED <<topic, seen, past>>

LayersOf(P) == {l \in Inserter : layers[l] # None /\ layers[l].org \in P}

\* The push of a policy to the organization's tailnets may fail.
SyncMayFail(o) == LayersOf({o}) # {}

-----------------------------------------------------------------------------
(* Deleting rows *)

\* Mutant: codes and tokens name the membership without a foreign key.
WithoutMembersOnly(M) ==
  /\ members' = members \ M
  /\ admins' = admins \ M
  /\ fakts' = [c \in ClientId |-> IF fakts[c] \in M THEN None ELSE fakts[c]]
  /\ UNCHANGED <<codes, tokens>>

\* Deleting memberships takes their clients, codes and tokens; the OAuth
\* client of a fakts client stays.
WithoutMembers(M) ==
  /\ members' = members \ M
  /\ admins' = admins \ M
  /\ fakts' = [c \in ClientId |-> IF fakts[c] \in M THEN None ELSE fakts[c]]
  /\ codes' = [k \in Inserter |->
       IF codes[k] # None /\ codes[k].member \in M THEN None ELSE codes[k]]
  /\ tokens' = [t \in Inserter |->
       IF tokens[t] # None /\ tokens[t].member \in M THEN None ELSE tokens[t]]

-----------------------------------------------------------------------------
FoundingMember == [org |-> Old, user |-> Founder, by |-> Old]
OtherMember == [org |-> Old, user |-> Member, by |-> Old]

\* An organization with a tailnet and two members; the other member has a
\* client, a code issued to it and a token.
AccountInit ==
  /\ users = User \ {NewUser} /\ active = [u \in User |-> None]
  /\ chose = [u \in User |-> Old]
  /\ orgs = [o \in OrgId |->
               IF o = Old THEN [slug |-> ConfSlug, owner |-> Founder] ELSE None]
  /\ roled = {Old} /\ profiled = {Old}
  /\ members = {FoundingMember, OtherMember}
  /\ admins = {FoundingMember}
  /\ layers = [l \in Inserter |->
                IF l = Old THEN [org |-> Old, tailnet |-> ConfSlug] ELSE None]
  /\ authkeys = [k \in Inserter |-> None]
  /\ oauth = {Old, OpenId}
  /\ fakts = [c \in ClientId |-> IF c = Old THEN OtherMember ELSE None]
  /\ codes = [k \in Inserter |->
               IF k = Old THEN [member |-> OtherMember, client |-> Old] ELSE None]
  /\ tokens = [t \in Inserter |->
               IF t = Old THEN [member |-> OtherMember, client |-> Old,
                                revoked |-> FALSE, from |-> None] ELSE None]
  /\ grants = [k \in Inserter |->
               IF k = Old THEN [member |-> OtherMember, client |-> Old] ELSE None]
  /\ claims = [t \in Inserter |->
               IF t = Old THEN [user |-> Member, slug |-> ConfSlug, client |-> Old,
                                org |-> Old] ELSE None]
  /\ unkept = {} /\ loose = {OpenId} /\ held = {<<ConfSlug, Old>>}
  /\ topic \in Topics
  /\ task = [r \in Request |-> NoTask]
  /\ seen = [r \in Request |-> Nothing]
  /\ past = [r \in Request |-> {}]
  /\ troubled = {}

-----------------------------------------------------------------------------
(* Beginning, and being cut *)

Ended == {r \in Request : task[r].status \in {"done", "failed", "cut"}}

Serving == \A b \in Boot : ~Running(b)

\* A request arrives.
Begin(r, t) ==
  /\ task[r].status = "new" /\ r \notin Boot /\ Serving
  /\ t.op \in topic
  /\ Cardinality({q \in Request \ Boot : task[q].status # "new"}) < Limit[topic]
  /\ Goto(r, t)
  /\ past' = [past EXCEPT ![r] = Ended]
  /\ UNCHANGED <<topic, seen, troubled>>

Asked(op) == [NoTask EXCEPT !.op = op, !.status = "running", !.pc = 1]

\* The server is stopped, or crashes, and boots: what its requests committed
\* stays, what they had still to do is not done.
Restart(b) ==
  /\ b \in Boot /\ task[b].status = "new" /\ "boot" \in topic
  /\ task' = [r \in Request |->
       IF r = b THEN Asked(Commands[1])
       ELSE IF Running(r) THEN [task[r] EXCEPT !.status = "cut"]
       ELSE task[r]]
  /\ past' = [past EXCEPT ![b] = Ended \cup {r \in Request : Running(r)}]
  /\ unkept' = unkept \cup {o \in OrgId : \E r \in Request : WorksOn(r, o)}
  /\ UNCHANGED <<baseVars, orgs, roled, profiled, members, admins, held,
                 oauthVars, topic, seen, troubled>>

=============================================================================
