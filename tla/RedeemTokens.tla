----------------------------- MODULE RedeemTokens -----------------------------
(***************************************************************************)
(* Redeeming a pre-issued token into a fakts client: RedeemView            *)
(* (fakts/views.py), redeem_token and validate_redeem_token                *)
(* (fakts/services/clients.py), with the clock, the boot command           *)
(* ensuretokens, the cascades that delete a token underneath, and the      *)
(* registrations of other requests in the same tables.                     *)
(***************************************************************************)
EXTENDS ClientRegistry

CONSTANTS
  RedeemRequest,      \* the requests that are POSTs to RedeemView
  Token,
  TokenUser, TokenComp,  \* RedeemToken.user, RedeemToken.composition
  Reredeemable,       \* tokens with allow_reredeem set
  Expiring,           \* tokens that carry an expires_at
  Configured          \* tokens listed in settings.REDEEM_TOKENS

\* A RedeemToken row: its client, the manifest its hash is of, and how its
\* expires_at compares with the clock.
TokenRow ==
  [client : RowId \cup {None}, man : Manifest \cup {None},
   expiry : {"never", "ahead", "past"}]

\* A token row without its expiry, which only decides whether it is served.
TicketRow == [client : RowId \cup {None}, man : Manifest \cup {None}]

\* A token of Seed was redeemed before manifest hashes were recorded; its
\* client carries its name.  A Seed that is no token is a client some device
\* code left, bound to no token.
ASSUME RedeemAssumption ==
  /\ RedeemRequest \subseteq Request
  /\ None \notin Token \cup TokenRow \cup TicketRow
  /\ TokenUser \in [Token -> User]
  /\ TokenComp \in [Token -> Comp]
  /\ \A s \in Seed \cap Token : SeedUser[s] = TokenUser[s] /\ SeedComp[s] = TokenComp[s]
  /\ Reredeemable \subseteq Token
  /\ Expiring \subseteq Token
  /\ Configured \subseteq Token

VARIABLES
  tokens,  \* committed RedeemToken rows
  redeem,  \* the state of each redeem request
  grants   \* history: the answers "granted" given for the present token rows

redeemVars == <<tokens, redeem, grants>>
vars == <<registryVars, redeemVars>>

-----------------------------------------------------------------------------
(* Types *)

Redemption ==
  [stage : {"lock", "expired", "lookup", "attach", "register", "done"},
   tok : Token, man : Manifest,
   client : RowId \cup {None}, secret : RowId \cup {None}]

NoRedemption == [stage |-> "new"]

Grant ==
  [req : RedeemRequest, tok : Token, man : Manifest,
   client : RowId, secret : RowId]

RedeemTypeOK ==
  /\ RegistryTypeOK
  /\ tokens \in [Token -> TokenRow \cup {None}]
  /\ redeem \in [RedeemRequest -> Redemption \cup {NoRedemption}]
  /\ grants \in SUBSET Grant

-----------------------------------------------------------------------------
(* State helpers *)

\* SELECT ... FOR UPDATE on the token row, until the transaction ends.
HoldsToken(r) == redeem[r].stage \in {"lookup", "attach", "register"}

Locked(t) == \E r \in RedeemRequest : HoldsToken(r) /\ redeem[r].tok = t

\* Mutant: the filter forgets the tenant.
ReusableAnyUser(t, m) ==
  {c \in Live :
     /\ apps[clients[c].app] = IdentOf[m]
     /\ VersionOf[clients[c].man] = VersionOf[m]
     /\ clients[c].node = NodeOf[m]
     /\ clients[c].org = OrgOf[TokenComp[t]]
     /\ clients[c].comp = TokenComp[t]}

\* Client.objects.filter(...) in validate_redeem_token, by identifier and
\* composition rather than by release.
Reusable(t, m) ==
  {c \in Live :
     /\ apps[clients[c].app] = IdentOf[m]
     /\ VersionOf[clients[c].man] = VersionOf[m]
     /\ clients[c].node = NodeOf[m]
     /\ clients[c].user = TokenUser[t]
     /\ clients[c].org = OrgOf[TokenComp[t]]
     /\ clients[c].comp = TokenComp[t]}

\* Mutant: RedeemToken.client is a plain foreign key.
TakenByNone(c, t) == FALSE

\* RedeemToken.client is one-to-one.
TakenByOther(c, t) ==
  \E u \in Token \ {t} : tokens[u] # None /\ tokens[u].client = c

Answer(r, status) == redeem' = [redeem EXCEPT ![r].stage = status]

Granted(r, c, s) ==
  grants' = grants \cup {[req |-> r, tok |-> redeem[r].tok,
                          man |-> redeem[r].man, client |-> c, secret |-> s]}

\* The history speaks of the token rows that are there.
Forget(S) == grants' = {g \in grants : g.tok \notin S}

-----------------------------------------------------------------------------
RedeemInit ==
  /\ RegistryInit
  /\ tokens = [t \in Token |->
       [client |-> IF t \in Seed THEN t ELSE None,
        man |-> None,
        expiry |-> IF t \in Expiring THEN "ahead" ELSE "never"]]
  /\ redeem = [r \in RedeemRequest |-> NoRedemption]
  /\ grants = {}

\* POST: the request names a token and carries a manifest.
Redeem(r, t, m) ==
  /\ redeem[r].stage = "new"
  /\ redeem' = [redeem EXCEPT ![r] =
       [stage |-> "lock", tok |-> t, man |-> m, client |-> None, secret |-> None]]
  /\ UNCHANGED <<registryVars, tokens, grants>>

\* The transaction has the row and answers at once: an unknown token, or one
\* redeemed with another manifest that may not be redeemed again.
Refuse(r) ==
  LET row == tokens[redeem[r].tok] IN
  /\ redeem[r].stage = "lock"
  /\ ~Locked(redeem[r].tok)
  /\ \/ row = None
     \/ /\ row # None
        /\ row.expiry # "past"
        /\ row.client # None
        /\ row.man \notin {None, redeem[r].man}
        /\ redeem[r].tok \notin Reredeemable
  /\ Answer(r, "done")
  /\ UNCHANGED <<registryVars, tokens, grants>>

\* Mutant: the hash of a token redeemed before hashes is not saved.
RedeemAgainUnsaved(r) ==
  LET t == redeem[r].tok IN
  /\ redeem[r].stage = "lock"
  /\ ~Locked(t)
  /\ tokens[t] # None
  /\ tokens[t].expiry # "past"
  /\ tokens[t].client # None
  /\ tokens[t].man \in {None, redeem[r].man}
  /\ Granted(r, tokens[t].client, clients[tokens[t].client].secret)
  /\ Answer(r, "done")
  /\ UNCHANGED <<registryVars, tokens>>

\* Already redeemed with this manifest, or before hashes were recorded: the
\* hash is filled in and the client returned.
RedeemAgain(r) ==
  LET t == redeem[r].tok IN
  /\ redeem[r].stage = "lock"
  /\ ~Locked(t)
  /\ tokens[t] # None
  /\ tokens[t].expiry # "past"
  /\ tokens[t].client # None
  /\ tokens[t].man \in {None, redeem[r].man}
  /\ tokens' = [tokens EXCEPT ![t].man = redeem[r].man]
  /\ Granted(r, tokens[t].client, clients[tokens[t].client].secret)
  /\ Answer(r, "done")
  /\ UNCHANGED registryVars

\* Mutant: the token row is read without SELECT FOR UPDATE.
BeginValidationUnlocked(r) ==
  LET t == redeem[r].tok IN
  /\ redeem[r].stage = "lock"
  /\ tokens[t] # None
  /\ tokens[t].expiry # "past"
  /\ \/ tokens[t].client = None
     \/ tokens[t].man \notin {None, redeem[r].man} /\ t \in Reredeemable
  /\ Answer(r, "lookup")
  /\ UNCHANGED <<registryVars, tokens, grants>>

\* Mutant: only a bound token is checked for expiry.
BeginValidationLate(r) ==
  LET t == redeem[r].tok IN
  /\ redeem[r].stage = "lock"
  /\ ~Locked(t)
  /\ tokens[t] # None
  /\ \/ tokens[t].client = None
     \/ /\ tokens[t].expiry # "past"
        /\ tokens[t].man \notin {None, redeem[r].man} /\ t \in Reredeemable
  /\ Answer(r, "lookup")
  /\ UNCHANGED <<registryVars, tokens, grants>>

\* Not yet redeemed, or redeemable again with a changed manifest: the lock is
\* kept and validate_redeem_token looks for a client.
BeginValidation(r) ==
  LET t == redeem[r].tok IN
  /\ redeem[r].stage = "lock"
  /\ ~Locked(t)
  /\ tokens[t] # None
  /\ tokens[t].expiry # "past"
  /\ \/ tokens[t].client = None
     \/ tokens[t].man \notin {None, redeem[r].man} /\ t \in Reredeemable
  /\ Answer(r, "lookup")
  /\ UNCHANGED <<registryVars, tokens, grants>>

\* Expired: the transaction ends without a write, and with it the lock.
FindExpired(r) ==
  LET t == redeem[r].tok IN
  /\ redeem[r].stage = "lock"
  /\ ~Locked(t)
  /\ tokens[t] # None
  /\ tokens[t].expiry = "past"
  /\ Answer(r, "expired")
  /\ UNCHANGED <<registryVars, tokens, grants>>

\* RedeemToken.objects.filter(token=token).delete(), a statement of its own.
DeleteExpired(r) ==
  LET t == redeem[r].tok IN
  /\ redeem[r].stage = "expired"
  /\ ~Locked(t)
  /\ tokens' = [tokens EXCEPT ![t] = None]
  /\ Forget({t})
  /\ Answer(r, "done")
  /\ UNCHANGED registryVars

\* Mutant: the reused client's secret is not read.
ReuseClientBlind(r) ==
  /\ redeem[r].stage = "lookup"
  /\ \E c \in Reusable(redeem[r].tok, redeem[r].man) :
       redeem' = [redeem EXCEPT ![r].stage = "attach", ![r].client = c]
  /\ UNCHANGED <<registryVars, tokens, grants>>

\* An existing client is reused as it is; its token is read here.
ReuseClient(r) ==
  /\ redeem[r].stage = "lookup"
  /\ \E c \in Reusable(redeem[r].tok, redeem[r].man) :
       redeem' = [redeem EXCEPT ![r].stage = "attach", ![r].client = c,
                                ![r].secret = clients[c].secret]
  /\ UNCHANGED <<registryVars, tokens, grants>>

\* None: mint a secret and enter create_client.
NeedClient(r) ==
  LET t == redeem[r].tok IN
  /\ redeem[r].stage = "lookup"
  /\ Reusable(t, redeem[r].man) = {}
  /\ Enter(r, TokenUser[t], OrgOf[TokenComp[t]], TokenComp[t], redeem[r].man)
  /\ Answer(r, "register")
  /\ UNCHANGED <<apps, clients, members, tokens, grants>>

RegisterStep(r) ==
  /\ redeem[r].stage = "register"
  /\ Register(r)
  /\ UNCHANGED redeemVars

Bind(r, c, s) ==
  LET t == redeem[r].tok IN
  /\ ~TakenByOther(c, t)
  /\ tokens' = [tokens EXCEPT ![t].client = c, ![t].man = redeem[r].man]
  /\ Granted(r, c, s)
  /\ Answer(r, "done")

\* redeem_token.client = client, the hash, the commit and the answer.
CommitReused(r) ==
  /\ redeem[r].stage = "attach"
  /\ redeem[r].client \in Live
  /\ Bind(r, redeem[r].client, redeem[r].secret)
  /\ UNCHANGED registryVars

CommitRegistered(r) ==
  /\ redeem[r].stage = "register"
  /\ CommitRegistration(r)
  /\ Bind(r, reg[r].target, r)

\* The transaction fails and the view answers "error": a registration that
\* raises, a client that is gone, or a client another token is bound to.
Fail(r) ==
  /\ \/ /\ redeem[r].stage = "attach"
        /\ \/ redeem[r].client \notin Live
           \/ TakenByOther(redeem[r].client, redeem[r].tok)
        /\ UNCHANGED registryVars
     \/ redeem[r].stage = "register" /\ Rollback(r)
  /\ Answer(r, "done")
  /\ UNCHANGED <<tokens, grants>>

Proceed(r) ==
  \/ Refuse(r) \/ RedeemAgain(r) \/ BeginValidation(r)
  \/ FindExpired(r) \/ DeleteExpired(r)
  \/ ReuseClient(r) \/ NeedClient(r) \/ RegisterStep(r)
  \/ CommitReused(r) \/ CommitRegistered(r)

RedeemStep(r) == Proceed(r) \/ Fail(r)

\* A failure the request cannot escape, however long it waits.
MustFail(r) ==
  /\ \/ redeem[r].stage = "attach"
     \/ /\ redeem[r].stage = "register"
        /\ \/ CannotGoOn(r)
           \/ /\ reg[r].stage = "written"
              /\ TakenByOther(reg[r].target, redeem[r].tok)
  /\ Fail(r)

-----------------------------------------------------------------------------
(* What happens around the requests *)

\* expires_at passes.
Lapse(t) ==
  /\ tokens[t] # None
  /\ tokens[t].expiry = "ahead"
  /\ tokens' = [tokens EXCEPT ![t].expiry = "past"]
  /\ UNCHANGED <<registryVars, redeem, grants>>

\* ensuretokens, run when a replica boots: update_or_create(token) leaves a
\* row that is there as it is (user and composition are configured).
EnsureToken(t) ==
  /\ tokens[t] = None
  /\ tokens' = [tokens EXCEPT ![t] =
                  [client |-> None, man |-> None, expiry |-> "never"]]
  /\ UNCHANGED <<registryVars, redeem, grants>>

DeviceDeleted(n, o) == DeleteDevice(n, o) /\ UNCHANGED redeemVars

\* RedeemToken.client is CASCADE: the tokens of the deleted clients go too.
MemberRemoved(u, o) ==
  LET gone == {t \in Token : /\ tokens[t] # None
                             /\ tokens[t].client \in ClientsOf(u, o)}
  IN /\ RemoveMember(u, o)
     /\ \A t \in gone : ~Locked(t)
     /\ tokens' = [t \in Token |-> IF t \in gone THEN None ELSE tokens[t]]
     /\ Forget(gone)
     /\ UNCHANGED redeem

\* accept_device_code, validatecode and create_developmental_client register
\* clients in the same tables (DeviceCodes has their codes): for a user and an
\* organization of hers, in a composition of that organization or in the one
\* of the client that asks.
OtherRequest == Request \ RedeemRequest

BeginOther(r, u, o, k, m) ==
  /\ reg[r].stage = "none"
  /\ o = OrgOf[k] \/ \E b \in Live : clients[b].comp = k
  /\ Enter(r, u, o, k, m)
  /\ UNCHANGED <<apps, clients, members, redeemVars>>

OtherProceeds(r) == (Register(r) \/ CommitRegistration(r)) /\ UNCHANGED redeemVars

OtherFails(r) == Rollback(r) /\ UNCHANGED redeemVars

OtherMustFail(r) == CannotGoOn(r) /\ OtherFails(r)

Others ==
  \E r \in OtherRequest :
    \/ \E u \in User, o \in Org, k \in Comp, m \in Manifest : BeginOther(r, u, o, k, m)
    \/ OtherProceeds(r)
    \/ OtherFails(r)

Surroundings ==
  \/ \E t \in Token : Lapse(t)
  \/ \E t \in Configured : EnsureToken(t)
  \/ \E n \in DeletableNode, o \in Org : DeviceDeleted(n, o)
  \/ \E u \in User, o \in Org : MemberRemoved(u, o)

Next ==
  \/ \E r \in RedeemRequest, t \in Token, m \in Manifest : Redeem(r, t, m)
  \/ \E r \in RedeemRequest : RedeemStep(r)
  \/ Others
  \/ Surroundings

Spec == RedeemInit /\ [][Next]_vars

\* A transaction that can take its next statement does: PostgreSQL grants the
\* locks of finished transactions and no request stops by itself.  Failures
\* that need not happen are given no fairness: nobody is rescued by one.
FairSpec ==
  /\ Spec
  /\ \A r \in RedeemRequest : WF_vars(Proceed(r) \/ MustFail(r))
  /\ \A r \in OtherRequest : WF_vars(OtherProceeds(r) \/ OtherMustFail(r))

-----------------------------------------------------------------------------
(* Properties *)

LapsedUnused(t) ==
  /\ tokens[t] # None
  /\ tokens[t].expiry = "past"
  /\ tokens[t].client = None
  /\ ~Locked(t)

\* All answers given for one token row are for the manifest it was first
\* redeemed with, and name one client, unless allow_reredeem is set
\* (redeem_token: the row lock, the hash and the early returns together).
OneManifestPerToken ==
  \A g, h \in grants :
    g.tok = h.tok /\ g.tok \notin Reredeemable
      => g.man = h.man /\ g.client = h.client

\* "If the token is not redeemed within the expires_at time, it will be
\* invalid" (RedeemToken): a token that lapsed unbound, and that no transaction
\* which found it unexpired still holds, stays like that until it is deleted.
LapsedIsNeverBound ==
  [][\A t \in Token : LapsedUnused(t) => LapsedUnused(t)' \/ tokens'[t] = None]_vars

\* Two redemptions bound to one client at the same time would share its
\* secret; a token's client is there as long as the token is.
TokenClientsAreDistinct ==
  \A t \in Token : tokens[t] # None /\ tokens[t].client # None =>
    /\ tokens[t].client \in Live
    /\ \A u \in Token \ {t} :
         tokens[u] # None => tokens[u].client # tokens[t].client

\* Every redeem request is answered although no transaction fails unless it
\* must: neither the token row nor the Release row, which other registrations
\* hold too, is waited for forever.
EveryRedeemAnswered ==
  \A r \in RedeemRequest : redeem[r].stage = "lock" ~> redeem[r].stage = "done"

-----------------------------------------------------------------------------
(* Refinement *)

TicketOf(row) ==
  IF row = None THEN None ELSE [client |-> row.client, man |-> row.man]

Ticketing == INSTANCE RedeemTicket WITH
  Ticket <- Token, Client <- RowId, Renewable <- Reredeemable, Unset <- None,
  held <- [t \in Token |-> TicketOf(tokens[t])],
  answers <- {[tok |-> g.tok, man |-> g.man, client |-> g.client] : g \in grants}

\* Redeeming is atomic: for the tokens and the answers about them, the requests,
\* each a locked read, a registration and a commit interleaved with those of
\* others, behave as if each answer were given in one step (redeem_token).
RedeemingIsAtomic == Ticketing!Spec

=============================================================================
