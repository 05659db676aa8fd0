----------------------------- MODULE Organizations -----------------------------
(***************************************************************************)
(* The requests and boot commands that write organizations and their       *)
(* memberships: the mutations of api/management, the signals and managers  *)
(* of karakter they run, signing up, and ensureusers, ensureorganizations  *)
(* and ensurememberships.                                                  *)
(*                                                                         *)
(* Saving an Organization runs its post_save signal: it creates the        *)
(* default roles, makes the owner a member and an admin, and creates the   *)
(* profile of an inserted organization.  Model.save() writes the whole row *)
(* that was read: a row deleted meanwhile is inserted again.               *)
(***************************************************************************)
EXTENDS Accounts

-----------------------------------------------------------------------------
(* The tables *)

WriteOrg(o, row) ==
  /\ orgs' = [orgs EXCEPT ![o] = row]
  /\ held' = held \cup {<<row.slug, o>>}

SlugTaken(o, s) == \E p \in Named(s) : p # o

Joined(o, u, r) == members' = members \cup {[org |-> o, user |-> u, by |-> r]}

\* A signal that fails leaves the owner without his role.
Unkept(r) ==
  unkept' = IF task[r].op \in SignalOp THEN unkept \cup {task[r].org} ELSE unkept

FailUnkept(r) == Fail(r) /\ Unkept(r)

-----------------------------------------------------------------------------
(* post_save of Organization, and add_user_roles *)

\* create_default_roles_for_org; a role of a deleted organization violates
\* its foreign key.
EnsureRoles(r) ==
  LET o == task[r].org
  IN  /\ At(r, "roles")
      /\ IF Live(o) THEN roled' = roled \cup {o} /\ Proceed(r) /\ UNCHANGED unkept
                    ELSE FailUnkept(r) /\ UNCHANGED roled
      /\ UNCHANGED <<baseVars, orgs, profiled, members, admins, held, oauthVars>>

FoundRow(r, m) ==
  /\ Go(r, [task[r] EXCEPT !.row = m])
  /\ UNCHANGED <<members, unkept, seen>>

\* The membership is inserted in a transaction that also pushes the policy;
\* a failing push rolls it back.
InsertMember(r) ==
  LET o == task[r].org
      u == task[r].user
  IN  /\ Live(o) /\ u \in users /\ RowsOf(o, u) = {}
      /\ Joined(o, u, r)
      /\ Go(r, [task[r] EXCEPT !.row = [org |-> o, user |-> u, by |-> r]])
      /\ UNCHANGED <<unkept, seen>>

CannotInsert(r) ==
  /\ RowsOf(task[r].org, task[r].user) = {}
  /\ ~Live(task[r].org) \/ task[r].user \notin users \/ SyncMayFail(task[r].org)
  /\ FailUnkept(r) /\ UNCHANGED members

\* ensure_owner_is_admin: get_or_create of the membership of the owner that
\* the organization has in memory.
EnsureOwner(r) ==
  /\ At(r, "ensure")
  /\ \/ \E m \in RowsOf(task[r].org, task[r].user) : FoundRow(r, m)
     \/ InsertMember(r)
     \/ CannotInsert(r)
  /\ UNCHANGED <<baseVars, orgs, roled, profiled, admins, held, oauthVars>>

\* update_or_create of the membership also saves one that is there, and that
\* pushes the policy.
UpsertMember(r) ==
  /\ At(r, "upsert")
  /\ \/ \E m \in RowsOf(task[r].org, task[r].user) : FoundRow(r, m)
     \/ InsertMember(r)
     \/ CannotInsert(r)
     \/ /\ RowsOf(task[r].org, task[r].user) # {} /\ SyncMayFail(task[r].org)
        /\ Fail(r) /\ UNCHANGED <<members, unkept>>
  /\ UNCHANGED <<baseVars, orgs, roled, profiled, admins, held, oauthVars>>

\* Mutant: the role is given to a membership that was just created.
GiveAdminIfCreated(r) ==
  LET m == task[r].row
  IN  /\ At(r, "admin")
      /\ IF m \in members /\ m.org \in roled
           THEN /\ admins' = IF m.by = r THEN admins \cup {m} ELSE admins
                /\ Proceed(r) /\ UNCHANGED unkept
           ELSE FailUnkept(r) /\ UNCHANGED admins
      /\ UNCHANGED <<baseVars, orgs, roled, profiled, members, held, oauthVars>>

\* membership.roles.add(admin); ensurememberships gives the member the roles
\* of the configuration, which need not be admin.
GiveAdmin(r) ==
  LET m == task[r].row
  IN  /\ At(r, "admin")
      /\ IF m \in members /\ m.org \in roled
           THEN /\ admins' = IF task[r].op = "ensurememberships" THEN admins
                             ELSE admins \cup {m}
                /\ Proceed(r) /\ UNCHANGED unkept
           ELSE FailUnkept(r) /\ UNCHANGED admins
      /\ UNCHANGED <<baseVars, orgs, roled, profiled, members, held, oauthVars>>

\* membership.save(): inserts a deleted membership again, without roles.  The
\* policy is pushed after the commit.
SaveMember(r) ==
  LET m == task[r].row
      writes == \/ m \in members
                \/ Live(m.org) /\ m.user \in users /\ RowsOf(m.org, m.user) = {}
  IN  /\ At(r, "save")
      /\ members' = IF writes THEN members \cup {m} ELSE members
      /\ \/ writes /\ Proceed(r)
            /\ unkept' = IF m \in members THEN unkept ELSE unkept \cup {m.org}
         \/ (~writes \/ SyncMayFail(m.org)) /\ FailUnkept(r)
      /\ UNCHANGED <<baseVars, orgs, roled, profiled, admins, held, oauthVars>>

\* The profile of an inserted organization; an organization has at most one.
CreateProfile(r) ==
  LET o == task[r].org
  IN  /\ At(r, "profile")
      /\ \/ ~task[r].fresh /\ Proceed(r) /\ UNCHANGED profiled
         \/ /\ task[r].fresh /\ Live(o) /\ o \notin profiled
            /\ profiled' = profiled \cup {o} /\ Proceed(r)
         \/ task[r].fresh /\ (~Live(o) \/ o \in profiled) /\ Fail(r) /\ UNCHANGED profiled
      /\ UNCHANGED <<baseVars, orgs, roled, members, admins, unkept, held, oauthVars>>

SignalStep(r) ==
  \/ EnsureRoles(r) \/ EnsureOwner(r) \/ UpsertMember(r)
  \/ GiveAdmin(r) \/ SaveMember(r) \/ CreateProfile(r)

-----------------------------------------------------------------------------
(* create_organization, update_organization *)

BeginCreate(r, u) ==
  /\ u \in users
  /\ Begin(r, [Asked("create") EXCEPT !.user = u, !.slug = r])
  /\ UNCHANGED <<orgVars, oauthVars>>

InsertOrg(r) ==
  /\ At(r, "insert")
  /\ IF task[r].user \in users
       THEN /\ WriteOrg(r, [slug |-> r, owner |-> task[r].user])
            /\ Go(r, [task[r] EXCEPT !.org = r, !.fresh = TRUE]) /\ UNCHANGED seen
       ELSE Fail(r) /\ UNCHANGED <<orgs, held>>
  /\ UNCHANGED <<baseVars, roled, profiled, members, admins, unkept, oauthVars>>

\* None stands for an update that leaves the slug as it is.
BeginUpdate(r, o, s) ==
  /\ Begin(r, [Asked("update") EXCEPT !.org = o, !.slug = s])
  /\ UNCHANGED <<orgVars, oauthVars>>

ReadOrg(r) ==
  LET o == task[r].org
  IN  /\ At(r, "read")
      /\ IF Live(o)
           THEN /\ Go(r, [task[r] EXCEPT !.user = orgs[o].owner,
                            !.slug = IF task[r].slug = None THEN orgs[o].slug
                                     ELSE task[r].slug])
                /\ UNCHANGED seen
           ELSE Fail(r)
      /\ UNCHANGED <<orgVars, oauthVars>>

\* organization.save() writes all columns; slugs are unique, and the owner it
\* was read with must still be there.
WriteBack(r) ==
  LET o == task[r].org
  IN  /\ At(r, "write")
      /\ IF SlugTaken(o, task[r].slug) \/ task[r].user \notin users
           THEN Fail(r) /\ UNCHANGED <<orgs, held>>
           ELSE /\ WriteOrg(o, [slug |-> task[r].slug, owner |-> task[r].user])
                /\ Go(r, [task[r] EXCEPT !.fresh = ~Live(o)])
                /\ UNCHANGED seen
      /\ UNCHANGED <<baseVars, roled, profiled, members, admins, unkept, oauthVars>>

-----------------------------------------------------------------------------
(* delete_organization *)

BeginDelete(r, o, u) ==
  /\ Begin(r, [Asked("delete") EXCEPT !.org = o, !.user = u])
  /\ UNCHANGED <<orgVars, oauthVars>>

CheckOwner(r) ==
  /\ At(r, "own")
  /\ IF Live(task[r].org) /\ orgs[task[r].org].owner = task[r].user
       THEN Proceed(r) ELSE Fail(r)
  /\ UNCHANGED <<orgVars, oauthVars>>

\* An organization takes the users who are active in it along, and a user the
\* organizations he owns.
ActiveIn(P) == {u \in users : active[u] \in P}
OwnedBy(G) == {p \in OrgId : Live(p) /\ orgs[p].owner \in G}

\* The users that go: every set of users that is closed under this has them.
UsersWith(o) ==
  {u \in users : \A G \in SUBSET users : ActiveIn({o} \cup OwnedBy(G)) \subseteq G => u \in G}

KeysWith(L, G) ==
  {k \in Inserter :
     authkeys[k] # None /\ (authkeys[k].layer \in L \/ authkeys[k].creator \in G)}

\* Model.delete() first collects all rows that depend on the organization.
CollectRows(r) ==
  LET G == UsersWith(task[r].org)
      P == {task[r].org} \cup OwnedBy(G)
  IN  /\ At(r, "collect")
      /\ seen' = [seen EXCEPT ![r] =
           [users |-> G, orgs |-> P, roled |-> P \cap roled,
            members |-> {m \in members : m.org \in P \/ m.user \in G},
            layers |-> LayersOf(P), authkeys |-> KeysWith(LayersOf(P), G)]]
      /\ Go(r, task[r])
      /\ UNCHANGED <<orgVars, oauthVars>>

\* Mutant: the signal looks at OAuth2Client.membership only, which no client
\* that was registered has.
NoClients(P) == {c \in oauth : FALSE}

\* pre_delete of Organization: the OAuth clients of their fakts clients.
ClientsOfOrganization(P) == {c \in oauth : fakts[c] # None /\ fakts[c].org \in P}

\* What depends on the collected rows has been collected.
CoversRows(c) ==
  /\ ActiveIn(c.orgs) \subseteq c.users
  /\ OwnedBy(c.users) \subseteq c.orgs
  /\ roled \cap c.orgs \subseteq c.roled
  /\ LayersOf(c.orgs) \subseteq c.layers
  /\ KeysWith(c.layers, c.users) \subseteq c.authkeys
  /\ \A m \in members : m.org \in c.orgs \/ m.user \in c.users => m \in c.members

\* What was collected is deleted, a user who has chosen another organization
\* since included.  Dependent rows that are not covered fail the transaction,
\* as a failing push of the policy does.
EraseOrg(r) ==
  LET c == seen[r]
      P == c.orgs
      clients == ClientsOfOrganization(P)
  IN  /\ At(r, "erase")
      /\ \/ /\ CoversRows(c)
            /\ orgs' = [o \in OrgId |-> IF o \in P THEN None ELSE orgs[o]]
            /\ roled' = roled \ P /\ profiled' = profiled \ P
            /\ users' = users \ c.users
            /\ active' = [u \in User |-> IF u \in c.users THEN None ELSE active[u]]
            /\ chose' = [u \in User |-> IF u \in c.users THEN r ELSE chose[u]]
            /\ layers' = [l \in Inserter |-> IF l \in c.layers THEN None ELSE layers[l]]
            /\ authkeys' = [k \in Inserter |->
                             IF k \in c.authkeys THEN None ELSE authkeys[k]]
            /\ oauth' = oauth \ clients
            /\ WithoutMembers(members \cap c.members)
            /\ loose' = loose \cup {k \in oauth : /\ fakts[k] \in c.members
                                                 /\ fakts[k].org \notin P}
            /\ Proceed(r)
         \/ /\ ~CoversRows(c) \/ \E m \in c.members : SyncMayFail(m.org)
            /\ Fail(r)
            /\ UNCHANGED <<baseVars, orgs, roled, profiled, members, admins, oauth,
                           fakts, codes, tokens, loose>>
      /\ UNCHANGED <<unkept, held, grants, claims>>

-----------------------------------------------------------------------------
(* Signing up: the post_save signals of User *)

BeginSignup(r) ==
  /\ Begin(r, [Asked("signup") EXCEPT !.user = NewUser])
  /\ UNCHANGED <<orgVars, oauthVars>>

\* The user row is committed before the signals run.  ensureusers only
\* updates a user who is there, without the signals that follow an insertion.
InsertUser(r) ==
  /\ At(r, "user")
  /\ \/ /\ NewUser \notin users /\ users' = users \cup {NewUser}
        /\ Go(r, [task[r] EXCEPT !.user = NewUser]) /\ UNCHANGED seen
     \/ /\ NewUser \in users /\ UNCHANGED users
        /\ IF r \in Boot
             THEN Goto(r, AfterCommand(task[r])) /\ UNCHANGED <<topic, seen, past, troubled>>
             ELSE Fail(r)
  /\ UNCHANGED <<active, chose, layers, authkeys, orgs, roled, profiled, members, admins,
                 unkept, held, oauthVars>>

\* create_user_default_organization: get_or_create by the slug, whoever owns
\* the organization that has it; an inserted one's signal is in its
\* transaction.
HomeOrganization(r) ==
  LET u == task[r].user
      m == [org |-> r, user |-> u, by |-> r]
  IN  /\ At(r, "home")
      /\ \/ /\ \E o \in Named(u) : Go(r, [task[r] EXCEPT !.org = o]) /\ UNCHANGED seen
            /\ UNCHANGED <<orgs, held, roled, profiled, members, admins>>
         \/ /\ Named(u) = {} /\ u \in users
            /\ WriteOrg(r, [slug |-> u, owner |-> u])
            /\ roled' = roled \cup {r} /\ profiled' = profiled \cup {r}
            /\ members' = members \cup {m} /\ admins' = admins \cup {m}
            /\ Go(r, [task[r] EXCEPT !.org = r]) /\ UNCHANGED seen
         \/ /\ Named(u) = {} /\ u \notin users /\ Fail(r)
            /\ UNCHANGED <<orgs, held, roled, profiled, members, admins>>
      /\ UNCHANGED <<baseVars, unkept, oauthVars>>

-----------------------------------------------------------------------------
(* Memberships, as far as organizations and tokens depend on them: see     *)
(* Memberships and Invites                                                 *)

BeginJoin(r, o, u) ==
  /\ u \in users
  /\ Begin(r, [Asked("join") EXCEPT !.org = o, !.user = u])
  /\ UNCHANGED <<orgVars, oauthVars>>

Join(r) ==
  /\ At(r, "join")
  /\ \/ \E m \in RowsOf(task[r].org, task[r].user) : FoundRow(r, m)
     \/ InsertMember(r)
     \/ /\ RowsOf(task[r].org, task[r].user) = {}
        /\ ~Live(task[r].org) \/ task[r].user \notin users \/ SyncMayFail(task[r].org)
        /\ Fail(r) /\ UNCHANGED <<members, unkept>>
  /\ UNCHANGED <<baseVars, orgs, roled, profiled, admins, held, oauthVars>>

BeginMembership(r, op, m) ==
  /\ Begin(r, [Asked(op) EXCEPT !.row = m])
  /\ UNCHANGED <<orgVars, oauthVars>>

\* The owner may leave his organization as any other member.
OwnerLost(m) ==
  unkept' = IF Live(m.org) /\ orgs[m.org].owner = m.user
              THEN unkept \cup {m.org} ELSE unkept

\* delete_membership, which only the member may call, and leave_org.
Leave(r) ==
  LET m == task[r].row
  IN  /\ At(r, "leave")
      /\ \/ m \in members /\ WithoutMembers({m}) /\ Proceed(r) /\ OwnerLost(m)
            /\ loose' = loose \cup {c \in ClientId : fakts[c] = m}
         \/ /\ m \notin members \/ SyncMayFail(m.org)
            /\ Fail(r)
            /\ UNCHANGED <<members, admins, fakts, codes, tokens, unkept, loose>>
      /\ UNCHANGED <<baseVars, orgs, roled, profiled, held, oauth, grants, claims>>

\* update_membership: the row is read, its roles are set, the row is saved.
ReadMember(r) ==
  /\ At(r, "row")
  /\ IF task[r].row \in members THEN Proceed(r) ELSE Fail(r)
  /\ UNCHANGED <<orgVars, oauthVars>>

SetRoles(r) ==
  LET m == task[r].row
  IN  /\ At(r, "set")
      /\ \/ /\ task[r].op = "makeAdmin" /\ m \in members /\ m.org \in roled
            /\ admins' = admins \cup {m} /\ Proceed(r) /\ UNCHANGED unkept
         \/ /\ task[r].op = "unmakeAdmin" /\ m \in members
            /\ admins' = admins \ {m} /\ Proceed(r) /\ OwnerLost(m)
         \/ /\ m \notin members \/ m.org \notin roled
            /\ Fail(r) /\ UNCHANGED <<admins, unkept>>
      /\ UNCHANGED <<baseVars, orgs, roled, profiled, members, held, oauthVars>>

-----------------------------------------------------------------------------
(* The pages of karakter: change_org and leave_org *)

BeginChoose(r, u, o) ==
  /\ Begin(r, [Asked("choose") EXCEPT !.user = u, !.org = o])
  /\ UNCHANGED <<orgVars, oauthVars>>

BeginQuit(r, m) ==
  /\ Begin(r, [Asked("quit") EXCEPT !.user = m.user, !.row = m])
  /\ UNCHANGED <<orgVars, oauthVars>>

\* The user's row is read as he is authenticated.
ReadUser(r) ==
  LET u == task[r].user
      m == task[r].row
  IN  /\ At(r, "account")
      /\ IF u \in users
           THEN Go(r, [task[r] EXCEPT !.fresh = m # None /\ active[u] = m.org]) /\ UNCHANGED seen
           ELSE Fail(r)
      /\ UNCHANGED <<orgVars, oauthVars>>

\* Whether the user is a member of it is not asked.
ChooseOrg(r) ==
  /\ At(r, "choose")
  /\ IF Live(task[r].org) THEN Proceed(r) ELSE Fail(r)
  /\ UNCHANGED <<orgVars, oauthVars>>

\* request.user.save() writes the row as it was read, but for the active
\* organization.  It inserts a deleted user again, whose signals then run; a
\* user who leaves an organization he was not active in is not saved.
SaveUser(r) ==
  LET u == task[r].user
      o == task[r].org
      skips == task[r].op = "quit" /\ ~task[r].fresh
      done == [task[r] EXCEPT !.status = "done"]
  IN  /\ At(r, "saveuser")
      /\ IF skips \/ (o # None /\ ~Live(o))
           THEN /\ UNCHANGED baseVars
                /\ IF skips THEN Goto(r, done) /\ UNCHANGED <<topic, seen, past, troubled>>
                            ELSE Fail(r)
           ELSE /\ users' = users \cup {u}
                /\ active' = [active EXCEPT ![u] = o]
                /\ chose' = [chose EXCEPT ![u] = r]
                /\ UNCHANGED <<layers, authkeys>>
                /\ IF u \in users
                     THEN Goto(r, done) /\ UNCHANGED <<topic, seen, past, troubled>>
                     ELSE Proceed(r)
      /\ UNCHANGED <<orgs, roled, profiled, members, admins, unkept, held, oauthVars>>

-----------------------------------------------------------------------------
(* ensureorganizations and ensurememberships *)

\* Mutant: an organization that is there is left alone.
EnsureOrgOnce(r) ==
  /\ At(r, "organize")
  /\ \/ /\ Named(ConfSlug) = {}
        /\ WriteOrg(Configured(r), [slug |-> ConfSlug, owner |-> ConfOwner])
        /\ Go(r, [task[r] EXCEPT !.org = Configured(r), !.user = ConfOwner, !.fresh = TRUE])
     \/ /\ Named(ConfSlug) # {}
        /\ Goto(r, AfterCommand(task[r])) /\ UNCHANGED <<topic, past, troubled>>
        /\ UNCHANGED <<orgs, held>>
  /\ UNCHANGED <<baseVars, roled, profiled, members, admins, unkept, seen, oauthVars>>

\* An organization that has the slug is given the configured owner, or else a
\* superuser.
EnsureOrg(r) ==
  /\ At(r, "organize")
  /\ \/ \E o \in (IF Named(ConfSlug) = {} THEN {Configured(r)} ELSE Named(ConfSlug)) :
        \E u \in (IF ConfOwner \in users THEN {ConfOwner} ELSE users) :
          /\ WriteOrg(o, [slug |-> ConfSlug, owner |-> u])
          /\ Go(r, [task[r] EXCEPT !.org = o, !.user = u, !.fresh = ~Live(o)])
          /\ unkept' = unkept \ {o}
          /\ UNCHANGED seen
     \/ users = {} /\ Fail(r) /\ UNCHANGED <<orgs, held, unkept>>
  /\ UNCHANGED <<baseVars, roled, profiled, members, admins, oauthVars>>

\* Mutant: ensurememberships clears the user's memberships first, as the code
\* it replaced did.
FindMemberCleared(r) ==
  /\ At(r, "find")
  /\ \E o \in Named(ConfSlug) : Go(r, [task[r] EXCEPT !.org = o, !.user = ConfMember])
  /\ WithoutMembers({m \in members : m.user = ConfMember})
  /\ UNCHANGED <<baseVars, orgs, roled, profiled, unkept, held, seen, oauth, loose, grants, claims>>

\* A user or an organization that is missing is skipped.
FindMember(r) ==
  /\ At(r, "find")
  /\ IF ConfMember \in users /\ Named(ConfSlug) # {}
       THEN \E o \in Named(ConfSlug) : Go(r, [task[r] EXCEPT !.org = o, !.user = ConfMember])
       ELSE Goto(r, AfterCommand(task[r])) /\ UNCHANGED <<topic, past, troubled>>
  /\ UNCHANGED <<orgVars, oauthVars, seen>>

-----------------------------------------------------------------------------
OrganizationArrive(r) ==
  \/ \E u \in users : BeginCreate(r, u)
  \/ \E o \in OrgId : Live(o) /\ \E s \in {None, NewUser, ConfSlug} : BeginUpdate(r, o, s)
  \/ \E o \in OrgId : Live(o) /\ BeginDelete(r, o, orgs[o].owner)
  \/ BeginSignup(r)
  \/ \E o \in OrgId, u \in users : Live(o) /\ BeginJoin(r, o, u)
  \/ \E m \in members, op \in {"leave", "makeAdmin", "unmakeAdmin"} : BeginMembership(r, op, m)
  \/ \E o \in OrgId, u \in users : Live(o) /\ BeginChoose(r, u, o)
  \/ \E m \in members : BeginQuit(r, m)

OrganizationStep(r) ==
  \/ SignalStep(r) \/ InsertOrg(r) \/ ReadOrg(r) \/ WriteBack(r)
  \/ CheckOwner(r) \/ CollectRows(r) \/ EraseOrg(r)
  \/ InsertUser(r) \/ HomeOrganization(r)
  \/ Join(r) \/ Leave(r) \/ ReadMember(r) \/ SetRoles(r)
  \/ ReadUser(r) \/ ChooseOrg(r) \/ SaveUser(r)
  \/ EnsureOrg(r) \/ FindMember(r)

=============================================================================
