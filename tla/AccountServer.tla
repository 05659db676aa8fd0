----------------------------- MODULE AccountServer -----------------------------
(***************************************************************************)
(* The account side of the server: organizations, OAuth and what users     *)
(* keep for themselves, with any of its requests interleaved and the       *)
(* server booted anew in the midst of them.                                *)
(***************************************************************************)
EXTENDS Organizations, OAuthTokens, Tailnets, Social, Inventory

serverVars == <<accountVars, tailnetVars, socialVars, inventoryVars>>

ServerInit == AccountInit /\ TailnetInit /\ SocialInit /\ InventoryInit

Arrive(r) ==
  /\ task[r].status = "new"
  /\ \/ /\ OrganizationArrive(r) \/ OAuthArrive(r)
        /\ UNCHANGED <<tailnetVars, socialVars, inventoryVars>>
     \/ TailnetArrive(r) /\ UNCHANGED <<socialVars, inventoryVars>>
     \/ SocialArrive(r) /\ UNCHANGED <<orgVars, oauthVars, tailnetVars, inventoryVars>>
     \/ InventoryArrive(r) /\ UNCHANGED <<orgVars, oauthVars, tailnetVars, socialVars>>

Step(r) ==
  /\ Running(r)
  /\ \/ OrganizationStep(r) /\ UNCHANGED <<tailnetVars, socialVars, inventoryVars>>
     \/ OAuthStep(r) /\ UNCHANGED <<tailnetVars, socialVars, inventoryVars>>
     \/ TailnetStep(r) /\ UNCHANGED <<socialVars, inventoryVars>>
     \/ SocialStep(r) /\ UNCHANGED <<orgVars, oauthVars, tailnetVars, inventoryVars>>
     \/ InventoryStep(r) /\ UNCHANGED <<orgVars, oauthVars, tailnetVars, socialVars>>

ServerNext ==
  \/ \E r \in Request : Arrive(r) \/ Step(r)
  \/ \E b \in Boot : Restart(b) /\ UNCHANGED <<tailnetVars, socialVars, inventoryVars>>

ServerSpec == ServerInit /\ [][ServerNext]_serverVars

-----------------------------------------------------------------------------
ServerTypeOK == AccountTypeOK /\ TailnetTypeOK /\ SocialTypeOK /\ InventoryTypeOK

Settled(o) == \A r \in Request : ~WorksOn(r, o)

OwnerAdmins(o) == {m \in admins : m.org = o /\ m.user = orgs[o].owner}

\* ensure_owner_is_admin, run by every save of an organization: its owner is
\* an admin of it, whoever created, updated, deleted or revived it and however
\* the requests came between each other's steps, unless he left, was stripped
\* of the role or a save of the organization failed or was cut.
OwnerIsAdmin ==
  \A o \in OrgId :
    Live(o) /\ Settled(o) /\ o \notin unkept => OwnerAdmins(o) # {}

\* What the commands of run.sh are for: the listed user has an account, and the
\* configured organization, if its owner has one, is there with him as an admin
\* and with the configured member, if he has one.
Booted ==
  /\ NewUser \in users
  /\ ConfOwner \in users =>
       \E o \in Named(ConfSlug) :
         /\ orgs[o].owner = ConfOwner /\ o \in roled
         /\ \E m \in admins : m.org = o /\ m.user = ConfOwner
         /\ ConfMember \in users => RowsOf(o, ConfMember) # {}

\* run.sh makes up for requests that were cut at any statement: when its
\* commands are through, none of them having failed, nothing they are for is
\* missing.
BootRepairs ==
  [][\A b \in Boot :
       task[b].status = "running" /\ task'[b].status = "done" /\ b \notin troubled'
       => Booted']_serverVars

\* Booting takes nothing from anybody: no membership, no role, no code or
\* token, though the comment in ensurememberships weighs clearing them.
BootKeepsMembers ==
  [][(\E b \in Boot : Running(b)) =>
       /\ members \subseteq members' /\ admins \subseteq admins'
       /\ \A k \in Inserter : codes[k] = codes'[k] /\ tokens[k] = tokens'[k]]_serverVars

\* delete_oauth_clients_for_organization (authapp/tests.py): an organization
\* that is deleted, with registrations under way, leaves no OAuth client
\* behind without its fakts client; only one that was deleted by itself, or
\* with a membership, does.
ClientsGoWithOrganization ==
  \A c \in oauth : fakts[c] = None => c \in loose

\* Neither codes nor refresh tokens are locked: two answers to one of them
\* are possible, but only to requests that overlapped; and user_info is not
\* told to a token whose refresh had been answered.
CredentialsAreSpent ==
  \A r, q \in Request :
    /\ r # q /\ task[r].status = "done" /\ task[q].status = "done"
    /\ task[r].cred = task[q].cred
    => /\ task[r].op \in {"exchange", "refresh"} /\ task[r].op = task[q].op => Overlap(r, q)
       /\ task[r].op = "info" /\ task[q].op = "refresh" => q \notin past[r]

\* A token, and every token it is refreshed to, is of the membership and the
\* client the user has accepted, whatever client sent the code or the token.
\* A layer is served by the tailnet that was created for its organization, and
\* a key, recorded or not, admits machines to the tailnet of the organization
\* whose member asked for it: whoever takes over a slug, or comes to have that
\* of an organization that was deleted, never gets its tailnet.
TokensFitTheirGrant ==
  /\ \A r \in Request :
       tokens[r] # None =>
         \/ /\ task[r].op = "exchange"
            /\ tokens[r].member = grants[task[r].cred].member
            /\ tokens[r].client = grants[task[r].cred].client
         \/ /\ task[r].op = "refresh"
            /\ claims[task[r].cred].client = tokens[r].client
            /\ claims[task[r].cred].user = tokens[r].member.user
            /\ claims[task[r].cred].org = tokens[r].member.org
         \/ task[r].op = "credentials"
  /\ \A l \in Inserter : layers[l] # None => tailnets[layers[l].tailnet] = layers[l].org
  /\ \A r \in Request : issued[r] # None => tailnets[issued[r].tailnet] = issued[r].org
  /\ \A k \in Request : authkeys[k] # None =>
       /\ issued[k] # None
       /\ issued[k].tailnet = layers[authkeys[k].layer].tailnet

HeldByOne(s) == \A p, q \in held : p[1] = s /\ q[1] = s => p = q

\* A JWT names its organization by the slug it had, and the membership is
\* looked up anew: a request acts as the token's user, as a member of the
\* organization it found, which is the token's own unless another one has had
\* the slug.  user_info, which goes by the token's row, always tells of the
\* token's own user and organization.
ContextFitsToken ==
  \A r \in Request :
    LET c == claims[task[r].cred]
    IN  task[r].op \in {"api", "info"} /\ task[r].status = "done" =>
          /\ task[r].row.user = c.user /\ task[r].row.org = task[r].org
          /\ task[r].op = "info" \/ HeldByOne(c.slug) => task[r].org = c.org

\* update_or_create without a unique constraint: a user has two channels, or
\* a stash two items with one key, only if the requests that inserted them
\* overlapped; a request that begins after the other's end finds its row.
TwinsOverlap ==
  LET Twins(x, y) == x # y /\ x.by # Old /\ y.by # Old => Overlap(x.by, y.by)
  IN  /\ \A u \in User : \A c, d \in ChannelsOf(u) :
           c # d => c.by # Old /\ d.by # Old /\ Twins(c, d)
      /\ \A i, j \in items : i.stash = j.stash /\ i.key = j.key => Twins(i, j)

\* register_com_channel: the one channel of a user has the token of a
\* registration that no later one, begun after its answer, has succeeded.
ChannelKeepsLastAnswer ==
  \A q \in Request :
    task[q].op = "channel" /\ task[q].status = "done" =>
      \A c \in ChannelsOf(task[q].user) :
        ChannelsOf(task[q].user) = {c} =>
          last[c] # None /\ (last[c] = q \/ last[c] \notin past[q])

\* create_comment: no user is notified of a comment that fails, and a comment
\* whose creation was answered mentions all it notified; one that was cut or
\* failed stays, without mentions.  notify_user notifies nobody but its caller.
NotifiedAreMentioned ==
  \A r \in Request :
    /\ task[r].status = "failed" => notified[r] = {}
    /\ task[r].op = "message" => notified[r] \subseteq {task[r].user}
    /\ task[r].op = "comment" /\ task[r].status = "done" =>
         notified[r] \subseteq comments[r].mentions
    /\ task[r].op = "comment" /\ task[r].status \in {"failed", "cut"} =>
         comments[r] = None \/ comments[r].mentions = {}

\* Inventory, and the pages that change a user's active organization, save
\* whole rows that were read before, insert deleted rows again and replace
\* lists one by one.  Still no answer is undone by a request that had ended
\* when it was asked: the row, or each of the lists, that a request has written
\* was written last by it or by one that overlapped it or came later; a device
\* has left a group it was added to only with a deletion that did; and a user
\* is active in an organization he left only if such a request made him.
AnswersStand ==
  LET NotBefore(w, q) == w \in Request /\ w \notin past[q]
  IN  \A q \in Request : task[q].status = "done" =>
        LET o == order[q]
        IN  /\ task[q].op \in {"device", "group", "profile", "edit", "remove", "enlist"} =>
                 NotBefore(wrote[o.kind][o.row], q)
            /\ task[q].op = "choose" => NotBefore(chose[task[q].user], q)
            /\ task[q].op = "quit" /\ active[task[q].user] = task[q].row.org =>
                 chose[task[q].user] # q /\ NotBefore(chose[task[q].user], q)
            /\ task[q].op = "permit" => \A l \in o.lists : NotBefore(lists[l], q)
            /\ task[q].op = "enlist" =>
                 \/ <<o.row, o.group>> \in grouped
                 \/ \E x \in Request :
                      /\ task[x].op = "remove" /\ task[x].status = "done" /\ NotBefore(x, q)
                      /\ \/ order[x].kind = "device" /\ order[x].row = o.row
                         \/ order[x].kind = "group" /\ order[x].row = o.group

=============================================================================
