---------------------------- MODULE ClientRegistry ----------------------------
(***************************************************************************)
(* The registration of a fakts client: the database transaction opened by  *)
(* create_client and create_development_client (fakts/services/clients.py) *)
(* on behalf of a redeem token or of an accepted device code.              *)
(*                                                                         *)
(* PostgreSQL runs the server's transactions READ COMMITTED: a statement   *)
(* sees what is committed when it starts, a transaction's own writes       *)
(* become visible to others when it commits, and SELECT FOR UPDATE, UPDATE *)
(* and the insertion of a unique key wait for the transaction that holds   *)
(* the row.  A registration is cut at the statements where another         *)
(* transaction can matter: the look-up of the App, the lock on the         *)
(* Release, the look-up (and write) of the Client, the commit.             *)
(*                                                                         *)
(* A row is named by the request that inserted it, so a request inserts at *)
(* most one App and one Client and mints at most one client token, its     *)
(* secret, which carries the request's name as well.                       *)
(***************************************************************************)
EXTENDS FiniteSets, Naturals

CONSTANTS
  Request,        \* HTTP requests, each of which opens one transaction
  Seed,           \* names of the rows that were there before the first request
  User, Org,
  Comp,           \* fakts compositions
  Ident, Version, \* app identifiers and versions a manifest may carry
  Node,           \* node ids a manifest may carry
  Manifest,
  OrgOf,          \* Composition.organization
  IdentOf, VersionOf, NodeOf,     \* what a manifest says; NodeOf may be None
  SeedUser, SeedComp, SeedMan,    \* what the rows of Seed were made of
  DeletableNode,  \* devices whose owner may delete them
  None            \* SQL NULL, or a row that does not exist

RowId == Request \cup Seed

\* A Client row; its release is an App row and the version in its manifest.
\* Its organization, which is its membership's, need not be its composition's.
Client ==
  [app : RowId, user : User, org : Org, comp : Comp, node : Node \cup {None},
   man : Manifest, secret : RowId]

ASSUME RegistryAssumption ==
  /\ Request \cap Seed = {}
  /\ None \notin RowId \cup User \cup Comp \cup Ident \cup Node \cup Manifest
  /\ None \notin Client
  /\ OrgOf \in [Comp -> Org]
  /\ IdentOf \in [Manifest -> Ident]
  /\ VersionOf \in [Manifest -> Version]
  /\ NodeOf \in [Manifest -> Node \cup {None}]
  /\ SeedUser \in [Seed -> User]
  /\ SeedComp \in [Seed -> Comp]
  /\ SeedMan \in [Seed -> Manifest]
  /\ \A s, t \in Seed : IdentOf[SeedMan[s]] = IdentOf[SeedMan[t]] => s = t
  /\ DeletableNode \subseteq Node

VARIABLES
  apps,     \* committed App rows: the identifier of each
  clients,  \* committed Client rows
  members,  \* committed Membership rows: pairs of a user and an organization
  reg       \* the registration a request is carrying out

registryVars == <<apps, clients, members, reg>>

-----------------------------------------------------------------------------
(* Types *)

Running == {"app", "release", "upsert", "written"}

\* A registration: the arguments of create_client, the App row it works with,
\* the Client row it updates or inserts, and whether a row it refers to has
\* been deleted since (its foreign key then fails at the commit).
Registration ==
  [stage : Running \cup {"ended"}, user : User, org : Org, comp : Comp,
   man : Manifest, app : RowId \cup {None}, target : RowId \cup {None},
   doomed : BOOLEAN]

NoRegistration == [stage |-> "none"]

RegistryTypeOK ==
  /\ apps \in [RowId -> Ident \cup {None}]
  /\ clients \in [RowId -> Client \cup {None}]
  /\ members \in SUBSET (User \X Org)
  /\ reg \in [Request -> Registration \cup {NoRegistration}]

-----------------------------------------------------------------------------
(* State helpers *)

Live == {c \in RowId : clients[c] # None}

\* Mutant: the look-up of the client forgets the user.
KeyAnyUser(cl) == <<cl.app, VersionOf[cl.man], cl.org, cl.node>>

\* Mutant: it forgets the organization.
KeyAnyOrganization(cl) == <<cl.app, VersionOf[cl.man], cl.user, cl.node>>

\* The fields of "Only one per release, user and organization" (Client.Meta);
\* a release is an App row and a version.
Key(cl) == <<cl.app, VersionOf[cl.man], cl.user, cl.org, cl.node>>

AppRows(i) == {a \in RowId : apps[a] = i}

\* The row a registration writes: create_development_client assigns every
\* one of these fields, whether it updates or inserts.
Registered(r) ==
  [app |-> reg[r].app, user |-> reg[r].user, org |-> reg[r].org,
   comp |-> reg[r].comp, node |-> NodeOf[reg[r].man], man |-> reg[r].man,
   secret |-> r]

\* Client.objects.get(user, release, organization, node, kind).
Matching(r) == {c \in Live : Key(clients[c]) = Key(Registered(r))}

\* Mutant: the Release row is not let go of with the transaction.
HoldsReleaseForever(r) == reg[r].stage \in {"upsert", "written", "ended"}

\* Release.objects.update_or_create locks the Release row until the commit.
HoldsRelease(r) == reg[r].stage \in {"upsert", "written"}

SameRelease(r, q) ==
  /\ reg[r].app = reg[q].app
  /\ VersionOf[reg[r].man] = VersionOf[reg[q].man]

\* Client rows updated by a transaction that has not ended.
LockedClients ==
  {c \in RowId : \E r \in Request : reg[r].stage = "written" /\ reg[r].target = c}

-----------------------------------------------------------------------------
RegistryInit ==
  /\ apps = [a \in RowId |-> IF a \in Seed THEN IdentOf[SeedMan[a]] ELSE None]
  /\ clients = [c \in RowId |->
       IF c \in Seed
         THEN [app |-> c, user |-> SeedUser[c], org |-> OrgOf[SeedComp[c]],
               comp |-> SeedComp[c], node |-> NodeOf[SeedMan[c]], man |-> SeedMan[c], secret |-> c]
         ELSE None]
  /\ members = User \X Org
  /\ reg = [r \in Request |-> NoRegistration]

\* The caller of create_client hands over user, organization, composition and
\* manifest.
Enter(r, u, o, k, m) ==
  reg' = [reg EXCEPT ![r] =
            [stage |-> "app", user |-> u, org |-> o, comp |-> k, man |-> m,
             app |-> None, target |-> None, doomed |-> FALSE]]

\* App.objects.get_or_create(identifier): App.identifier is not unique, so
\* nothing waits for an uncommitted row, and two committed ones are an error.
GetOrCreateApp(r) ==
  /\ reg[r].stage = "app"
  /\ \/ /\ AppRows(IdentOf[reg[r].man]) = {}
        /\ reg' = [reg EXCEPT ![r].stage = "release", ![r].app = r]
     \/ \E a \in RowId :
          /\ AppRows(IdentOf[reg[r].man]) = {a}
          /\ reg' = [reg EXCEPT ![r].stage = "release", ![r].app = a]
  /\ UNCHANGED <<apps, clients, members>>

\* Mutant: Release.objects.get_or_create, which locks nothing.
LockReleaseNot(r) ==
  /\ reg[r].stage = "release"
  /\ reg' = [reg EXCEPT ![r].stage = "upsert"]
  /\ UNCHANGED <<apps, clients, members>>

\* Release.objects.update_or_create(app, version): waits for the transaction
\* that locked or is inserting the row.
LockRelease(r) ==
  /\ reg[r].stage = "release"
  /\ \A q \in Request \ {r} : ~(HoldsRelease(q) /\ SameRelease(r, q))
  /\ reg' = [reg EXCEPT ![r].stage = "upsert"]
  /\ UNCHANGED <<apps, clients, members>>

\* Device.objects.get_or_create and create_development_client: the client is
\* updated if there is one, inserted if there is none; more than one, or a
\* missing membership, is an error.
Upsert(r) ==
  /\ reg[r].stage = "upsert"
  /\ <<reg[r].user, reg[r].org>> \in members
  /\ \/ /\ Matching(r) = {}
        /\ reg' = [reg EXCEPT ![r].stage = "written", ![r].target = r]
     \/ \E c \in RowId :
          /\ Matching(r) = {c}
          /\ reg' = [reg EXCEPT ![r].stage = "written", ![r].target = c]
  /\ UNCHANGED <<apps, clients, members>>

\* The transaction's rows become visible.
CommitRegistration(r) ==
  /\ reg[r].stage = "written"
  /\ ~reg[r].doomed
  /\ apps' = [apps EXCEPT ![reg[r].app] = IdentOf[reg[r].man]]
  /\ clients' = [clients EXCEPT ![reg[r].target] = Registered(r)]
  /\ reg' = [reg EXCEPT ![r].stage = "ended"]
  /\ UNCHANGED members

\* A registration whose next statement raises whatever the others do: two rows
\* where get_or_create or get expects one, no membership, a foreign key that
\* fails at the commit.
CannotGoOn(r) ==
  \/ reg[r].stage = "app" /\ \E a, b \in AppRows(IdentOf[reg[r].man]) : a # b
  \/ /\ reg[r].stage = "upsert"
     /\ \/ <<reg[r].user, reg[r].org>> \notin members
        \/ \E c, d \in Matching(r) : c # d
  \/ reg[r].stage = "written" /\ reg[r].doomed

\* An exception rolls the transaction back: one of the above, or a scope, a
\* logo or a required service that is missing, at any statement.
Rollback(r) ==
  /\ reg[r].stage \in Running
  /\ reg' = [reg EXCEPT ![r].stage = "ended"]
  /\ UNCHANGED <<apps, clients, members>>

Register(r) == GetOrCreateApp(r) \/ LockRelease(r) \/ Upsert(r)

-----------------------------------------------------------------------------
(* The rest of the server, as far as it touches these tables *)

\* A transaction that has written a row which refers to a deleted one cannot
\* commit any more: its foreign keys are checked at the commit.
Doom(S) ==
  reg' = [r \in Request |->
            IF r \in S THEN [reg[r] EXCEPT !.doomed = TRUE] ELSE reg[r]]

\* delete_device: Client.node is SET_NULL.
DeleteDevice(n, o) ==
  LET used == {c \in Live : clients[c].node = n /\ clients[c].org = o}
      onIt == {r \in Request : /\ reg[r].stage = "written"
                               /\ NodeOf[reg[r].man] = n
                               /\ reg[r].org = o}
  IN /\ used \cap LockedClients = {}
     /\ clients' = [c \in RowId |->
          IF c \in used THEN [clients[c] EXCEPT !.node = None] ELSE clients[c]]
     /\ Doom(onIt)
     /\ UNCHANGED <<apps, members>>

\* The clients a membership carries: Client.membership is CASCADE.
ClientsOf(u, o) == {c \in Live : clients[c].user = u /\ clients[c].org = o}

\* delete_membership and leave_org.
RemoveMember(u, o) ==
  LET onIt == {r \in Request : /\ reg[r].stage = "written"
                               /\ reg[r].user = u
                               /\ reg[r].org = o}
  IN /\ <<u, o>> \in members
     /\ ClientsOf(u, o) \cap LockedClients = {}
     /\ members' = members \ {<<u, o>>}
     /\ clients' = [c \in RowId |->
          IF c \in ClientsOf(u, o) THEN None ELSE clients[c]]
     /\ Doom(onIt)
     /\ UNCHANGED apps

-----------------------------------------------------------------------------
(* Properties, for the modules whose requests register clients *)

\* There are never two clients for one release, user, organization and device,
\* although the database does not compare the NULL of a client without a
\* device (Client.Meta): registrations of a release wait for each other at
\* the Release row update_or_create locks.
OneClientPerKey ==
  \A c, d \in Live : Key(clients[c]) = Key(clients[d]) => c = d

\* The identifier of an app "should be a globally unique string that
\* identifies the app" (fakts/types.py).
OneAppPerIdentifier ==
  \A a, b \in RowId : apps[a] # None /\ apps[a] = apps[b] => a = b

=============================================================================
