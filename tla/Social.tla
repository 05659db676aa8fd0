--------------------------------- MODULE Social ---------------------------------
(***************************************************************************)
(* What users keep for themselves: the channels their notifications go to  *)
(* (com_channel.py, User.notify), comments and their mentions (komment),   *)
(* stashes and their items (pak).                                          *)
(*                                                                         *)
(* update_or_create locks the row it finds until it has written it, but    *)
(* two requests that find none both insert one: neither channels nor stash *)
(* items have a unique constraint that forbids it.  From then on           *)
(* update_or_create finds two rows and fails.                              *)
(***************************************************************************)
EXTENDS Accounts

CONSTANTS
  PushToken,    \* device tokens; a token belongs to one channel
  OldToken,     \* the token of the channel that Member has
  Key,          \* what stash items are about: identifier and object
  Unknown,      \* an id that is no user's
  MentionSets   \* the mentions comments are created with

Channel == [user : User, by : Inserter]
Item == [stash : Inserter, key : Key, by : Inserter]
Comment == [parent : Request \cup {None}, mentions : SUBSET (User \cup {Unknown})]

ASSUME SocialAssumption ==
  /\ OldToken \in PushToken
  /\ Unknown \notin User
  /\ MentionSets \subseteq SUBSET (User \cup {Unknown})
  /\ None \notin UNION {PushToken, Channel, Item, Comment}

VARIABLES
  channels,   \* ComChannel rows: the token of each
  comments,   \* Comment rows
  stashes,    \* Stash rows
  items,      \* StashItem rows
  todo,       \* what a request has still to mention, notify, add or remove
  found,      \* the row update_or_create has found
  asked,      \* the token a registration brings, the mentions of a comment
  last,       \* history: the registration that wrote a channel last
  notified    \* history: whom each request has notified

socialVars == <<channels, comments, stashes, items, todo, found, asked, last, notified>>

Listed == User \cup {Unknown} \cup Key \cup Item

SocialTypeOK ==
  /\ channels \in [Channel -> PushToken \cup {None}]
  /\ \A c \in Channel : channels[c] # None =>
       \A d \in Channel : channels[d] = channels[c] => d = c
  /\ comments \in [Request -> Comment \cup {None}]
  /\ \A r \in Request : comments[r] # None /\ comments[r].parent # None =>
       comments[comments[r].parent] # None
  /\ stashes \in SUBSET Inserter
  /\ items \in SUBSET Item /\ \A i \in items : i.stash \in stashes
  /\ todo \in [Request -> SUBSET Listed]
  /\ found \in [Request -> Channel \cup Item \cup {None}]
  /\ asked \in [Request -> PushToken \cup (SUBSET Listed) \cup {None}]
  /\ last \in [Channel -> Request \cup {None}]
  /\ notified \in [Request -> SUBSET User]

MembersChannel == [user |-> Member, by |-> Old]

SocialInit ==
  /\ channels = [c \in Channel |-> IF c = MembersChannel THEN OldToken ELSE None]
  /\ comments = [r \in Request |-> None]
  /\ stashes = {Old} /\ items = {}
  /\ todo = [r \in Request |-> {}]
  /\ found = [r \in Request |-> None]
  /\ asked = [r \in Request |-> None]
  /\ last = [c \in Channel |-> None]
  /\ notified = [r \in Request |-> {}]

ChannelsOf(u) == {c \in Channel : c.user = u /\ channels[c] # None}

\* Requests here act for a user and keep what they were asked in todo.
BeginSocial(r, t, what, left) ==
  /\ Begin(r, t)
  /\ asked' = [asked EXCEPT ![r] = what]
  /\ todo' = [todo EXCEPT ![r] = left]
  /\ UNCHANGED <<channels, comments, stashes, items, found, last, notified>>

Find(r, row) == found' = [found EXCEPT ![r] = row]
Left(r, rest) == todo' = [todo EXCEPT ![r] = rest]

-----------------------------------------------------------------------------
(* register_com_channel *)

BeginChannel(r, u, token) ==
  BeginSocial(r, [Asked("channel") EXCEPT !.user = u], token, {})

\* A row that is found stays locked until it is written.
Locking(c) == \E q \in Request : At(q, "put") /\ found[q] = c

LookForChannel(r) ==
  LET rows == ChannelsOf(task[r].user)
  IN  /\ At(r, "look")
      /\ \/ \E c \in rows : rows = {c} /\ ~Locking(c) /\ Find(r, c) /\ Proceed(r)
         \/ rows = {} /\ Find(r, None) /\ Proceed(r)
         \/ Cardinality(rows) > 1 /\ Fail(r) /\ UNCHANGED found
      /\ UNCHANGED <<channels, comments, stashes, items, todo, asked, last, notified>>

PutToken(r, c) ==
  /\ channels' = [channels EXCEPT ![c] = asked[r]]
  /\ last' = [last EXCEPT ![c] = r]
  /\ Proceed(r)

TakenByOther(r, c) == \E d \in Channel \ {c} : channels[d] = asked[r]

CannotPut(r) == Fail(r) /\ UNCHANGED <<channels, last>>

\* Mutant: get_or_create.
PutChannelOnce(r) ==
  LET own == [user |-> task[r].user, by |-> r]
  IN  /\ At(r, "put")
      /\ \/ /\ found[r] = None
            /\ IF TakenByOther(r, own) THEN CannotPut(r) ELSE PutToken(r, own)
         \/ found[r] # None /\ Proceed(r) /\ UNCHANGED <<channels, last>>
      /\ UNCHANGED <<comments, stashes, items, todo, found, asked, notified>>

\* The row found is updated, else one is inserted.  When the token is taken
\* the insertion fails and the row is looked up once more: a user's only row,
\* which another registration has inserted meanwhile, is then updated.
PutChannel(r) ==
  LET own == [user |-> task[r].user, by |-> r]
      rows == ChannelsOf(task[r].user)
  IN  /\ At(r, "put")
      /\ \/ /\ found[r] # None
            /\ IF TakenByOther(r, found[r]) THEN CannotPut(r) ELSE PutToken(r, found[r])
         \/ /\ found[r] = None /\ ~TakenByOther(r, own)
            /\ PutToken(r, own)
         \/ /\ found[r] = None /\ TakenByOther(r, own)
            /\ IF \E c \in rows : rows = {c} /\ ~TakenByOther(r, c)
                 THEN \E c \in rows : PutToken(r, c)
                 ELSE CannotPut(r)
      /\ UNCHANGED <<comments, stashes, items, todo, found, asked, notified>>

-----------------------------------------------------------------------------
(* create_comment *)

\* A comment on another one, or None, that notifies whom it mentions, or not.
BeginComment(r, M, parent, notify) ==
  BeginSocial(r, [Asked("comment") EXCEPT !.user = Member, !.cred = parent, !.fresh = notify],
              M, M)

\* The comment is inserted, without mentions; its parent must be there.
InsertComment(r) ==
  LET parent == task[r].cred
  IN  /\ At(r, "comment")
      /\ IF parent = None \/ comments[parent] # None
           THEN /\ comments' = [comments EXCEPT ![r] = [parent |-> parent, mentions |-> {}]]
                /\ Proceed(r)
           ELSE Fail(r) /\ UNCHANGED comments
      /\ UNCHANGED <<channels, stashes, items, todo, found, asked, last, notified>>

Push(r, u) ==
  notified' = IF ChannelsOf(u) = {} THEN notified
              ELSE [notified EXCEPT ![r] = notified[r] \cup {u}]

\* Mutant: a user is notified as soon as he is found.
LookUpAndNotify(r) ==
  /\ At(r, "lookup")
  /\ \E u \in todo[r] \cup {None} :
       \/ u = None /\ todo[r] = {} /\ Proceed(r) /\ UNCHANGED <<todo, notified>>
       \/ u \in User /\ Push(r, u) /\ Left(r, todo[r] \ {u})
          /\ UNCHANGED taskVars
       \/ u = Unknown /\ Fail(r) /\ UNCHANGED <<todo, notified>>
  /\ UNCHANGED <<channels, comments, stashes, items, found, asked, last>>

\* All mentions are looked up before any is notified.
LookUpMentions(r) ==
  /\ At(r, "lookup")
  /\ IF todo[r] \subseteq users THEN Proceed(r) ELSE Fail(r)
  /\ Left(r, IF task[r].fresh THEN todo[r] ELSE {})
  /\ UNCHANGED <<channels, comments, stashes, items, found, asked, last, notified>>

\* User.notify pushes to all channels of a user; a push that fails is logged.
NotifyMention(r) ==
  /\ At(r, "notify")
  /\ \/ \E u \in todo[r] : Push(r, u) /\ Left(r, todo[r] \ {u}) /\ UNCHANGED taskVars
     \/ todo[r] = {} /\ Proceed(r) /\ UNCHANGED <<todo, notified>>
  /\ UNCHANGED <<channels, comments, stashes, items, found, asked, last>>

AttachMentions(r) ==
  /\ At(r, "attach")
  /\ comments' = [comments EXCEPT ![r].mentions = asked[r]]
  /\ Proceed(r)
  /\ UNCHANGED <<channels, stashes, items, todo, found, asked, last, notified>>

-----------------------------------------------------------------------------
(* notify_user *)

BeginMessage(r, caller, target) ==
  BeginSocial(r, [Asked("message") EXCEPT !.user = caller], {target}, {target})

\* Users may notify themselves, of something; then as above.
ResolveTarget(r) ==
  /\ At(r, "target")
  /\ \/ todo[r] \subseteq users \cap {task[r].user} /\ Proceed(r)
     \/ Fail(r)
  /\ UNCHANGED socialVars

-----------------------------------------------------------------------------
(* Stashes *)

BeginStash(r, op, s, left) ==
  BeginSocial(r, [Asked(op) EXCEPT !.org = s], None, left)

CreateStash(r) ==
  /\ At(r, "stash")
  /\ stashes' = stashes \cup {r}
  /\ Proceed(r)
  /\ UNCHANGED <<channels, comments, items, todo, found, asked, last, notified>>

HoldingItem(i) == \E q \in Request : At(q, "putitem") /\ found[q] = i

ReadStash(r) ==
  /\ At(r, "stashrow")
  /\ IF task[r].org \in stashes THEN Proceed(r) ELSE Fail(r)
  /\ UNCHANGED socialVars

\* update_stash saves the row it read: a deleted stash is inserted again.
SaveStash(r) ==
  /\ At(r, "stashsave")
  /\ stashes' = stashes \cup {task[r].org}
  /\ Proceed(r)
  /\ UNCHANGED <<channels, comments, items, todo, found, asked, last, notified>>

\* delete_stash takes the items along.  It then answers with the stash for an
\* ID, which cannot be rendered: the request ends in an error all the same.
DeleteStash(r) ==
  /\ At(r, "unstash")
  /\ \A i \in items : i.stash = task[r].org => ~HoldingItem(i)
  /\ stashes' = stashes \ {task[r].org}
  /\ items' = {i \in items : i.stash # task[r].org}
  /\ Fail(r)
  /\ UNCHANGED <<channels, comments, todo, found, asked, last, notified>>

\* Mutant: items are created, never found.
FindNoItem(r) ==
  /\ At(r, "finditem")
  /\ \E k \in todo[r] : Proceed(r) /\ Find(r, [stash |-> task[r].org, key |-> k, by |-> r])
  /\ UNCHANGED <<channels, comments, stashes, items, todo, asked, last, notified>>

\* add_items_to_stash: one update_or_create after another.
FindItem(r) ==
  /\ At(r, "finditem")
  /\ \E k \in todo[r] :
       LET rows == {i \in items : i.stash = task[r].org /\ i.key = k}
       IN  \/ \E i \in rows : rows = {i} /\ ~HoldingItem(i) /\ Find(r, i) /\ Proceed(r)
           \/ /\ rows = {} /\ Proceed(r)
              /\ Find(r, [stash |-> task[r].org, key |-> k, by |-> r])
           \/ Cardinality(rows) > 1 /\ Fail(r) /\ UNCHANGED found
  /\ UNCHANGED <<channels, comments, stashes, items, todo, asked, last, notified>>

PutItem(r) ==
  LET i == found[r]
      rest == todo[r] \ {i.key}
  IN  /\ At(r, "putitem")
      /\ IF i.stash \in stashes
           THEN /\ items' = items \cup {i}
                /\ Left(r, rest)
                /\ IF rest = {} THEN Proceed(r)
                   ELSE Goto(r, [task[r] EXCEPT !.pc = task[r].pc - 1])
                        /\ UNCHANGED <<topic, seen, past, troubled>>
           ELSE Fail(r) /\ UNCHANGED <<items, todo>>
      /\ UNCHANGED <<channels, comments, stashes, found, asked, last, notified>>

\* delete_stash_items: one row after another, up to one that is gone.
RemoveItem(r) ==
  /\ At(r, "removeitem")
  /\ \/ \E i \in todo[r] \cap items :
          /\ ~HoldingItem(i)
          /\ items' = items \ {i}
          /\ Left(r, todo[r] \ {i})
          /\ IF todo[r] = {i} THEN Proceed(r) ELSE UNCHANGED taskVars
     \/ todo[r] \ items # {} /\ Fail(r) /\ UNCHANGED <<items, todo>>
  /\ UNCHANGED <<channels, comments, stashes, found, asked, last, notified>>

-----------------------------------------------------------------------------
SocialArrive(r) ==
  \/ \E u \in users, token \in PushToken : BeginChannel(r, u, token)
  \/ \E M \in MentionSets, notify \in BOOLEAN :
       \* r stands for an id that no comment has
       \E p \in {None, r} \cup {q \in Request : comments[q] # None} :
         BeginComment(r, M, p, notify)
  \/ \E u \in users, v \in users \cup {Unknown} : BeginMessage(r, u, v)
  \/ BeginStash(r, "stash", None, {})
  \/ \E s \in stashes, op \in {"restash", "unstash"} : BeginStash(r, op, s, {})
  \/ \E s \in stashes, K \in (SUBSET Key) \ {{}} : BeginStash(r, "additems", s, K)
  \/ \E I \in (SUBSET items) \ {{}} : BeginStash(r, "removeitems", None, I)

SocialStep(r) ==
  \/ LookForChannel(r) \/ PutChannel(r)
  \/ InsertComment(r) \/ LookUpMentions(r) \/ NotifyMention(r) \/ AttachMentions(r)
  \/ ResolveTarget(r)
  \/ CreateStash(r) \/ ReadStash(r) \/ SaveStash(r) \/ DeleteStash(r)
  \/ FindItem(r) \/ PutItem(r) \/ RemoveItem(r)

=============================================================================
