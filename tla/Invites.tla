-------------------------------- MODULE Invites --------------------------------
(***************************************************************************)
(* Invites to an organization: create_invite's rows, and accepting,        *)
(* declining and cancelling them through the management API, the GraphQL   *)
(* API and the pages of karakter/views.py, composed with the requests of   *)
(* Memberships.  Nothing is locked and each statement commits by itself,   *)
(* so an invite may change between being read and being answered.          *)
(***************************************************************************)
EXTENDS Memberships

CONSTANTS
  Invite,       \* Invite rows, all pending at the start
  Unknown,      \* a role identifier the organization does not have
  Asked,        \* the role identifiers each invite was created with
  Expiring      \* invites with an expires_at

ASSUME InviteAssumption ==
  /\ Unknown \notin Role
  /\ Asked \in [Invite -> SUBSET (Role \cup {Unknown})]
  /\ Expiring \subseteq Invite
  /\ None \notin Invite

VARIABLES
  status,   \* Invite.status
  expired,  \* invites whose expires_at has passed
  using,    \* the invite each request was given
  joined    \* history: the memberships created from each invite

vars == <<rows, layers, policy, task, sync, undisturbed,
          status, expired, using, joined>>

inviteVars == <<status, expired, using, joined>>

\* Invite.roles as create_invite leaves it: the guest role when no identifier
\* was given, and an unknown identifier is passed over.
InviteRoles ==
  [i \in Invite |-> IF Asked[i] = {} THEN {Guest} ELSE Asked[i] \cap Role]

Status == {"pending", "accepted", "declined", "cancelled"}

InviteTypeOK ==
  /\ MemberTypeOK
  /\ status \in [Invite -> Status]
  /\ expired \in SUBSET Expiring
  /\ using \in [Request -> Invite \cup {None}]
  /\ joined \in SUBSET (Invite \X User)
  /\ \A r \in Request :
       using[r] # None <=> task[r].op \in {"accept", "decline", "cancel"}

Init ==
  /\ MemberInit
  /\ status = [i \in Invite |-> "pending"]
  /\ expired = {}
  /\ using = [r \in Request |-> None]
  /\ joined = {}

-----------------------------------------------------------------------------
Expire(i) ==
  /\ i \in Expiring \ expired
  /\ expired' = expired \cup {i}
  /\ UNCHANGED <<rows, layers, policy, task, sync, undisturbed, status, using, joined>>

\* Mutant: expires_at is not looked at.
ReadableThoughExpired(op, i) == status[i] = "pending"

\* Invite.is_valid to accept; being pending is enough to decline or cancel.
Readable(op, i) ==
  /\ status[i] = "pending"
  /\ op = "accept" => i \notin expired

\* The invite is fetched and checked; what it says is not looked at again.
ReadInvite(r, op, i, u) ==
  /\ task[r].stage = "new"
  /\ Readable(op, i)
  /\ using' = [using EXCEPT ![r] = i]
  /\ Become(r, [op |-> op, stage |-> IF op = "accept" THEN "check" ELSE "mark",
                user |-> u, row |-> None, roles |-> {}])
  /\ UNCHANGED <<rows, layers, policy, sync, undisturbed, status, expired, joined>>

AcceptInvite(r, i, u) == ReadInvite(r, "accept", i, u)

DeclineInvite(r, i, u) == ReadInvite(r, "decline", i, u)

\* By the user who created it.
CancelInvite(r, i, u) == ReadInvite(r, "cancel", i, u)

\* The page of karakter/views.py: an expired invite cannot be declined either.
AnswerOnPage(r, i, u) ==
  /\ i \notin expired
  /\ AcceptInvite(r, i, u) \/ DeclineInvite(r, i, u)

\* Is the user a member already?
FindMember(r) ==
  /\ task[r].stage = "check"
  /\ Reach(r, IF RowsOf(task[r].user) # {} THEN "mark" ELSE "join")
  /\ UNCHANGED <<rows, layers, policy, sync, undisturbed, inviteVars>>

\* Mutant: the membership is created without looking at the unique key.
JoinTwice(r) ==
  /\ task[r].stage = "join"
  /\ rows' = [rows EXCEPT ![r] = [user |-> task[r].user, roles |-> {}]]
  /\ joined' = joined \cup {<<using[r], task[r].user>>}
  /\ Proceed(r, "saved", r, task[r].roles)
  /\ ListLayers(r, layers)
  /\ undisturbed' = {r}
  /\ UNCHANGED <<layers, policy, status, expired, using>>

\* Membership.objects.create: the row is committed before the signal runs.
Join(r) ==
  /\ task[r].stage = "join"
  /\ RowsOf(task[r].user) = {}
  /\ ~Inserting(task[r].user)
  /\ rows' = [rows EXCEPT ![r] = [user |-> task[r].user, roles |-> {}]]
  /\ joined' = joined \cup {<<using[r], task[r].user>>}
  /\ Proceed(r, "saved", r, task[r].roles)
  /\ ListLayers(r, layers)
  /\ undisturbed' = {r}
  /\ UNCHANGED <<layers, policy, status, expired, using>>

\* Someone else has made the user a member: the unique key refuses the row.
JoinRefused(r) ==
  /\ task[r].stage = "join"
  /\ \E m \in RowsOf(task[r].user) : ~Deleting(m)
  /\ Reach(r, "failed")
  /\ UNCHANGED <<rows, layers, policy, sync, undisturbed, inviteVars>>

\* The roles an invite gives: guest if it has none.
Granted(i) == IF InviteRoles[i] # {} THEN InviteRoles[i] ELSE {Guest}

\* Mutant: the guest role is not only the fallback.
GiveRolesAndGuest(r) ==
  LET m == task[r].row IN
  /\ task[r].stage = "roles"
  /\ task[r].op = "accept"
  /\ RowStays(m)
  /\ WriteRoles(m, Granted(using[r]) \cup {Guest})
  /\ Reach(r, "mark")
  /\ UNCHANGED <<layers, policy, sync, undisturbed, inviteVars>>

\* membership.roles.set(invite_roles), or roles.add(guest).
GiveRoles(r) ==
  LET m == task[r].row IN
  /\ task[r].stage = "roles"
  /\ task[r].op = "accept"
  /\ RowStays(m)
  /\ WriteRoles(m, Granted(using[r]))
  /\ Reach(r, "mark")
  /\ UNCHANGED <<layers, policy, sync, undisturbed, inviteVars>>

AnsweredStatus(op) ==
  IF op = "accept" THEN "accepted" ELSE IF op = "decline" THEN "declined" ELSE "cancelled"

\* Invite.accept, decline and cancel save the status whatever it has become.
Answer(r) ==
  /\ task[r].stage = "mark"
  /\ status' = [status EXCEPT ![using[r]] = AnsweredStatus(task[r].op)]
  /\ Reach(r, "done")
  /\ UNCHANGED <<rows, layers, policy, sync, undisturbed, expired, using, joined>>

Next ==
  \/ \E i \in Invite : Expire(i)
  \/ \E r \in Request :
       \/ (MemberRequest(r) \/ MemberStep(r)) /\ UNCHANGED inviteVars
       \/ \E i \in Invite, u \in User :
            \/ AcceptInvite(r, i, u) \/ DeclineInvite(r, i, u)
            \/ CancelInvite(r, i, u) \/ AnswerOnPage(r, i, u)
       \/ FindMember(r) \/ Join(r) \/ JoinRefused(r) \/ GiveRoles(r) \/ Answer(r)

Spec == Init /\ [][Next]_vars

-----------------------------------------------------------------------------
(* Properties *)

\* The invite has been answered or has expired, and nobody is still accepting it.
Closed(i) ==
  /\ status[i] # "pending" \/ i \in expired
  /\ \A r \in Request :
       using[r] = i /\ task[r].op = "accept" => task[r].stage \notin {"check", "join"}

\* An invite that has been answered, or whose expires_at has passed, stays so
\* and lets nobody else in, but for requests that had read it before, whatever
\* answers overwrite each other (Invite.is_valid, accept, decline, cancel).
ClosedInviteAdmitsNobody ==
  [][\A i \in Invite :
       Closed(i) => Closed(i)' /\ \A u \in User : <<i, u>> \in joined' => <<i, u>> \in joined]_vars

\* Requests that change the roles of a user.
RolesTouched(u) ==
  \E r \in Request : task[r].op \in {"update", "add", "owner"} /\ task[r].user = u

\* Accepting an invite gives the new member the roles of that invite and no
\* other, however it interleaves with leaving and with other accepts
\* (accept_invite: membership.roles.set or the guest role).
AcceptGrantsItsRoles ==
  \A r \in Request :
    /\ task[r].stage = "done"
    /\ task[r].op = "accept"
    /\ task[r].row \in LiveRows
    /\ ~RolesTouched(task[r].user)
    => rows[task[r].row].roles = Granted(using[r])

\* "The link can only be used once" (create_invite): at most one membership is
\* created from an invite.
InviteIsUsedOnce ==
  \A i \in Invite, u, v \in User : <<i, u>> \in joined /\ <<i, v>> \in joined => u = v

=============================================================================
