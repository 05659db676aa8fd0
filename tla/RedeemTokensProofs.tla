--------------------------- MODULE RedeemTokensProofs ---------------------------
(***************************************************************************)
(* Proofs about RedeemTokens, for any number of requests, tokens, clients, *)
(* manifests, compositions and users, and that it implements RedeemTicket: *)
(* requests, with their locks and transactions, redeem a token in one step.*)
(***************************************************************************)
EXTENDS RedeemTokens, ClientRegistryProofs

-----------------------------------------------------------------------------
(* The inductive invariant *)

\* A redemption that reuses a client remembers the client and its secret.
RedemptionShape ==
  \A r \in RedeemRequest :
    redeem[r].stage = "attach" => redeem[r].client \in RowId /\ redeem[r].secret \in RowId

\* The foreign key from a token to its client.
TokenClientsExist ==
  \A t \in Token : tokens[t] # None /\ tokens[t].client # None =>
    tokens[t].client \in Live

\* A row that is held is not deleted.
HeldTokensExist ==
  \A r \in RedeemRequest : HoldsToken(r) => tokens[redeem[r].tok] # None

Typing ==
  /\ RedeemTypeOK
  /\ RegistrationShape
  /\ RedemptionShape
  /\ TokenClientsExist
  /\ HeldTokensExist

\* The one-to-one relation.
TokenClientsDiffer ==
  \A t, u \in Token :
    ( /\ t # u /\ tokens[t] # None /\ tokens[u] # None
      /\ tokens[t].client # None )
    => tokens[t].client # tokens[u].client

\* At most one transaction holds a token row.
OneHolder ==
  \A r, q \in RedeemRequest :
    HoldsToken(r) /\ HoldsToken(q) /\ redeem[r].tok = redeem[q].tok => r = q

\* While a row is held it stays as it was when it was read: not bound unless
\* it may be bound again.
HeldMayBeBound ==
  \A r \in RedeemRequest : HoldsToken(r) =>
    \/ tokens[redeem[r].tok].client = None
    \/ /\ redeem[r].tok \in Reredeemable
       /\ tokens[redeem[r].tok].man \notin {None, redeem[r].man}

\* A request that goes on with the same token and manifest.
SameTokenAndManifest(r) ==
  redeem'[r].tok = redeem[r].tok /\ redeem'[r].man = redeem[r].man

\* The grants for a token that may not be redeemed again are its binding.
GrantsAreBindings ==
  \A g \in grants : g.tok \notin Reredeemable =>
    /\ tokens[g.tok] # None
    /\ tokens[g.tok].client = g.client
    /\ tokens[g.tok].man = g.man

Binding ==
  /\ TokenClientsDiffer
  /\ OneHolder
  /\ HeldMayBeBound
  /\ GrantsAreBindings

-----------------------------------------------------------------------------
(* Typing *)

LEMMA InitTyping == RedeemInit => Typing
<1> SUFFICES ASSUME RedeemInit PROVE Typing
  OBVIOUS
<1> USE RegistryAssumption, RedeemAssumption
<1>1. RegistryTypeOK
  <2>1. apps \in [RowId -> Ident \cup {None}]
    BY DEF RedeemInit, RegistryInit, RowId
  <2>2. clients \in [RowId -> Client \cup {None}]
    BY DEF RedeemInit, RegistryInit, RowId, Client
  <2>3. members \in SUBSET (User \X Org)
    BY DEF RedeemInit, RegistryInit
  <2>4. reg \in [Request -> Registration \cup {NoRegistration}]
    BY DEF RedeemInit, RegistryInit
  <2> QED BY <2>1, <2>2, <2>3, <2>4 DEF RegistryTypeOK
<1>2. tokens \in [Token -> TokenRow \cup {None}]
  BY DEF RedeemInit, TokenRow, RowId
<1>3. redeem \in [RedeemRequest -> Redemption \cup {NoRedemption}] /\ grants \in SUBSET Grant
  BY DEF RedeemInit
<1>4. RegistrationShape
  BY DEF RedeemInit, RegistryInit, RegistrationShape, NoRegistration
<1>5. RedemptionShape
  BY DEF RedeemInit, RedemptionShape, NoRedemption
<1>6. TokenClientsExist
  <2> SUFFICES ASSUME NEW t \in Token, tokens[t].client # None
               PROVE tokens[t].client \in Live
    BY DEF TokenClientsExist
  <2>1. t \in Seed /\ tokens[t].client = t
    BY DEF RedeemInit
  <2>2. clients[t] \in Client
    BY <2>1 DEF RedeemInit, RegistryInit, RowId, Client
  <2> QED BY <2>1, <2>2 DEF Live, RowId
<1>7. HeldTokensExist
  BY DEF RedeemInit, HeldTokensExist, HoldsToken, NoRedemption
<1> QED BY <1>1, <1>2, <1>3, <1>4, <1>5, <1>6, <1>7 DEF Typing, RedeemTypeOK

\* An answer is recorded.
LEMMA GrantedTyping ==
  ASSUME NEW r \in RedeemRequest, NEW c \in RowId, NEW s \in RowId,
         redeem[r] \in Redemption, grants \in SUBSET Grant, Granted(r, c, s)
  PROVE  grants' \in SUBSET Grant
BY DEF Redemption, Grant, Granted

\* A request goes on without writing a token row, holding one it did not hold
\* only if the row is there.
LEMMA AnswerTyping ==
  ASSUME NEW r \in RedeemRequest, redeem[r] \in Redemption, Typing,
         NEW status \in {"expired", "lookup", "register", "done"},
         Answer(r, status), tokens' = tokens,
         tokens[redeem[r].tok] # None \/ status \in {"expired", "done"}
  PROVE  /\ redeem' \in [RedeemRequest -> Redemption \cup {NoRedemption}]
         /\ RedemptionShape' /\ HeldTokensExist'
BY DEF Answer, Typing, RedeemTypeOK, Redemption, RedemptionShape, HeldTokensExist, HoldsToken

\* A token is bound to a client and the request is answered.
LEMMA BindTyping ==
  ASSUME NEW r \in RedeemRequest, NEW c \in RowId, NEW s \in RowId,
         HoldsToken(r), Bind(r, c, s), Typing
  PROVE  /\ tokens' \in [Token -> TokenRow \cup {None}]
         /\ grants' \in SUBSET Grant
         /\ redeem' \in [RedeemRequest -> Redemption \cup {NoRedemption}]
         /\ RedemptionShape' /\ HeldTokensExist'
         /\ \A t \in Token : tokens'[t] # None => tokens[t] # None
         /\ tokens'[redeem[r].tok] \in TokenRow
         /\ tokens'[redeem[r].tok].client = c
         /\ tokens'[redeem[r].tok].man = redeem[r].man
         /\ \A t \in Token \ {redeem[r].tok} : tokens'[t] = tokens[t]
<1> DEFINE t == redeem[r].tok
<1>1. redeem[r] \in Redemption /\ tokens[t] # None
  BY DEF Typing, RedeemTypeOK, HoldsToken, NoRedemption, HeldTokensExist
<1>2. t \in Token /\ redeem[r].man \in Manifest /\ tokens[t] \in TokenRow
  BY <1>1 DEF Redemption, Typing, RedeemTypeOK
<1>3. tokens' = [tokens EXCEPT ![t].client = c, ![t].man = redeem[r].man]
  BY DEF Bind
<1>4. tokens'[t] = [tokens[t] EXCEPT !.client = c, !.man = redeem[r].man]
  BY <1>2, <1>3 DEF Typing, RedeemTypeOK
<1>5. /\ tokens'[t] \in TokenRow
      /\ tokens'[t].client = c /\ tokens'[t].man = redeem[r].man
  BY <1>2, <1>4 DEF TokenRow
<1>6. \A u \in Token \ {t} : tokens'[u] = tokens[u]
  BY <1>2, <1>3 DEF Typing, RedeemTypeOK
<1>7. tokens' \in [Token -> TokenRow \cup {None}]
  BY <1>2, <1>3, <1>5, <1>6 DEF Typing, RedeemTypeOK
<1>8. grants' \in SUBSET Grant
  BY <1>1, GrantedTyping DEF Bind, Typing, RedeemTypeOK
<1>9. redeem' \in [RedeemRequest -> Redemption \cup {NoRedemption}] /\ RedemptionShape'
  BY <1>1 DEF Bind, Answer, Redemption, RedemptionShape, Typing, RedeemTypeOK
<1>10. HeldTokensExist'
  <2>1. \A q \in RedeemRequest : HoldsToken(q)' => HoldsToken(q) /\ redeem'[q].tok = redeem[q].tok
    BY <1>1 DEF Bind, Answer, HoldsToken, Redemption, Typing, RedeemTypeOK
  <2>2. \A u \in Token : tokens[u] # None => tokens'[u] # None
    BY <1>5, <1>6, RedeemAssumption
  <2>3. \A q \in RedeemRequest : HoldsToken(q) => redeem[q].tok \in Token
    BY DEF HoldsToken, Typing, RedeemTypeOK, NoRedemption, Redemption
  <2> QED BY <2>1, <2>2, <2>3 DEF HeldTokensExist, Typing
<1> QED BY <1>1, <1>5, <1>6, <1>7, <1>8, <1>9, <1>10

\* The steps of a redeem request.
LEMMA RequestTyping ==
  ASSUME Typing, NEW r \in RedeemRequest, RedeemStep(r)
  PROVE  Typing'
<1>r. r \in Request
  BY RedeemAssumption
<1>t. redeem[r].stage # "new" => redeem[r] \in Redemption
  BY DEF NoRedemption, Typing, RedeemTypeOK
\* A step that writes nothing but its own stage.
<1>s. ASSUME UNCHANGED <<registryVars, tokens, grants>>,
             redeem' \in [RedeemRequest -> Redemption \cup {NoRedemption}],
             RedemptionShape', HeldTokensExist'
      PROVE  Typing'
  BY <1>s DEF registryVars, Typing, RedeemTypeOK, RegistryTypeOK, RegistrationShape,
        TokenClientsExist, Live
<1>1. CASE Refuse(r)
  BY <1>1, <1>t, <1>s, AnswerTyping DEF Refuse
<1>2. CASE RedeemAgain(r)
  <2> DEFINE t == redeem[r].tok
  <2>1. redeem[r] \in Redemption /\ tokens[t] # None /\ tokens[t].client # None
    BY <1>2, <1>t DEF RedeemAgain
  <2>2. t \in Token /\ redeem[r].man \in Manifest
    BY <2>1 DEF Redemption
  <2>3. tokens[t] \in TokenRow /\ tokens[t].client \in Live
    BY <2>1, <2>2 DEF Typing, RedeemTypeOK, TokenClientsExist
  <2>4. tokens[t].client \in RowId /\ clients[tokens[t].client].secret \in RowId
    BY <2>3 DEF Live, Client, Typing, RedeemTypeOK, RegistryTypeOK
  <2>5. tokens' = [tokens EXCEPT ![t].man = redeem[r].man]
    BY <1>2 DEF RedeemAgain
  <2>6. /\ tokens'[t] \in TokenRow /\ tokens'[t].client = tokens[t].client
        /\ \A u \in Token \ {t} : tokens'[u] = tokens[u]
        /\ tokens' \in [Token -> TokenRow \cup {None}]
    BY <2>2, <2>3, <2>5 DEF TokenRow, Typing, RedeemTypeOK
  <2>7. grants' \in SUBSET Grant
    BY <1>2, <2>1, <2>4, GrantedTyping DEF RedeemAgain, Typing, RedeemTypeOK
  <2>8. /\ redeem' \in [RedeemRequest -> Redemption \cup {NoRedemption}]
        /\ RedemptionShape'
    BY <1>2, <2>1 DEF RedeemAgain, Answer, Redemption, RedemptionShape, Typing, RedeemTypeOK
  <2>9. HeldTokensExist'
    BY <1>2, <2>1, <2>2, <2>6, RedeemAssumption
       DEF RedeemAgain, Answer, Redemption, HoldsToken, HeldTokensExist, Typing, RedeemTypeOK
  <2>10. TokenClientsExist'
    BY <1>2, <2>3, <2>6 DEF RedeemAgain, registryVars, Typing, TokenClientsExist, Live
  <2> QED BY <1>2, <2>6, <2>7, <2>8, <2>9, <2>10
          DEF RedeemAgain, registryVars, Typing, RedeemTypeOK, RegistryTypeOK, RegistrationShape
<1>3. CASE BeginValidation(r)
  BY <1>3, <1>t, <1>s, AnswerTyping DEF BeginValidation
<1>4. CASE FindExpired(r)
  BY <1>4, <1>t, <1>s, AnswerTyping DEF FindExpired
<1>5. CASE DeleteExpired(r)
  <2> DEFINE t == redeem[r].tok
  <2>1. redeem[r] \in Redemption
    BY <1>5, <1>t DEF DeleteExpired
  <2>2. /\ redeem' \in [RedeemRequest -> Redemption \cup {NoRedemption}]
        /\ RedemptionShape'
    BY <1>5, <2>1 DEF DeleteExpired, Answer, Redemption, RedemptionShape, Typing, RedeemTypeOK
  <2>3. /\ tokens' \in [Token -> TokenRow \cup {None}] /\ grants' \in SUBSET Grant
        /\ TokenClientsExist'
    BY <1>5 DEF DeleteExpired, Forget, registryVars, Typing, RedeemTypeOK, TokenClientsExist, Live
  <2>4. HeldTokensExist'
    <3> SUFFICES ASSUME NEW q \in RedeemRequest, HoldsToken(q)'
                 PROVE  tokens'[redeem'[q].tok] # None
      BY DEF HeldTokensExist
    <3>1. HoldsToken(q) /\ redeem'[q].tok = redeem[q].tok
      BY <1>5, <2>1 DEF DeleteExpired, Answer, HoldsToken, Redemption, Typing, RedeemTypeOK
    <3>2. redeem[q].tok # t
      BY <1>5, <3>1 DEF DeleteExpired, Locked
    <3>3. redeem[q].tok \in Token
      BY <3>1 DEF HoldsToken, Typing, RedeemTypeOK, NoRedemption, Redemption
    <3> QED BY <1>5, <3>1, <3>2, <3>3 DEF DeleteExpired, HeldTokensExist, Typing, RedeemTypeOK
  <2> QED BY <1>5, <2>2, <2>3, <2>4
          DEF DeleteExpired, registryVars, Typing, RedeemTypeOK, RegistryTypeOK, RegistrationShape
<1>6. CASE ReuseClient(r)
  <2>1. PICK c \in Reusable(redeem[r].tok, redeem[r].man) :
          redeem' = [redeem EXCEPT ![r].stage = "attach", ![r].client = c,
                                   ![r].secret = clients[c].secret]
    BY <1>6 DEF ReuseClient
  <2>2. c \in RowId /\ clients[c].secret \in RowId
    BY DEF Reusable, Live, Typing, RedeemTypeOK, RegistryTypeOK, Client
  <2>3. redeem[r] \in Redemption
    BY <1>6, <1>t DEF ReuseClient
  <2>4. /\ redeem' \in [RedeemRequest -> Redemption \cup {NoRedemption}]
        /\ RedemptionShape'
    BY <2>1, <2>2, <2>3 DEF Redemption, RedemptionShape, Typing, RedeemTypeOK
  <2>5. HeldTokensExist'
    BY <1>6, <2>1, <2>3 DEF ReuseClient, HoldsToken, HeldTokensExist, Redemption, Typing, RedeemTypeOK
  <2> QED BY <1>6, <1>s, <2>4, <2>5 DEF ReuseClient
<1>7. CASE NeedClient(r)
  <2>1. redeem[r] \in Redemption
    BY <1>7, <1>t DEF NeedClient
  <2>2. redeem[r].tok \in Token /\ redeem[r].man \in Manifest
    BY <2>1 DEF Redemption
  <2>3. /\ TokenUser[redeem[r].tok] \in User /\ TokenComp[redeem[r].tok] \in Comp
        /\ OrgOf[TokenComp[redeem[r].tok]] \in Org
    BY <2>2, RegistryAssumption, RedeemAssumption
  <2>4. RegistryTypeOK' /\ RegistrationShape'
    BY <1>7, <1>r, <2>2, <2>3, EnterTyping DEF NeedClient, Typing, RedeemTypeOK
  <2>5. HoldsToken(r)
    BY <1>7 DEF NeedClient, HoldsToken
  <2>6. /\ redeem' \in [RedeemRequest -> Redemption \cup {NoRedemption}]
        /\ RedemptionShape' /\ HeldTokensExist'
    BY <1>7, <2>1, <2>5, AnswerTyping DEF NeedClient, HeldTokensExist, Typing
  <2> QED BY <1>7, <2>4, <2>6 DEF NeedClient, Live, Typing, RedeemTypeOK, TokenClientsExist
<1>8. CASE RegisterStep(r)
  BY <1>8, <1>r, RegisterTyping DEF RegisterStep, redeemVars, Live, Typing, RedeemTypeOK,
        RedemptionShape, TokenClientsExist, HeldTokensExist, HoldsToken
<1>9. CASE CommitReused(r)
  <2>1. HoldsToken(r) /\ redeem[r].client \in RowId /\ redeem[r].secret \in RowId
    BY <1>9 DEF CommitReused, RedemptionShape, Typing, HoldsToken
  <2>2. Bind(r, redeem[r].client, redeem[r].secret)
    BY <1>9 DEF CommitReused
  <2>3. TokenClientsExist'
    BY <1>9, <2>1, <2>2, BindTyping DEF CommitReused, registryVars, Typing, TokenClientsExist, Live
  <2> QED BY <1>9, <2>1, <2>2, <2>3, BindTyping DEF CommitReused, registryVars, Typing,
             RedeemTypeOK, RegistryTypeOK, RegistrationShape
<1>10. CASE CommitRegistered(r)
  <2>1. HoldsToken(r) /\ r \in RowId
    BY <1>10, <1>r DEF CommitRegistered, HoldsToken, RowId
  <2>2. /\ RegistryTypeOK' /\ RegistrationShape'
        /\ Live' = Live \cup {reg[r].target}
        /\ reg[r].target \in RowId
    BY <1>10, <1>r, CommitTyping DEF CommitRegistered, Typing, RedeemTypeOK
  <2>3. Bind(r, reg[r].target, r)
    BY <1>10 DEF CommitRegistered
  <2>4. TokenClientsExist'
    BY <2>1, <2>2, <2>3, BindTyping DEF Typing, TokenClientsExist
  <2> QED BY <2>1, <2>2, <2>3, <2>4, BindTyping DEF Typing, RedeemTypeOK
<1>11. CASE Fail(r)
  <2>1. redeem[r] \in Redemption
    BY <1>11, <1>t DEF Fail
  <2>2. RegistryTypeOK' /\ RegistrationShape' /\ clients' = clients
    <3>1. CASE Rollback(r)
      BY <3>1, <1>r, RollbackTyping DEF Typing, RedeemTypeOK
    <3>2. CASE UNCHANGED registryVars
      BY <3>2 DEF registryVars, Typing, RedeemTypeOK, RegistryTypeOK, RegistrationShape
    <3> QED BY <1>11, <3>1, <3>2 DEF Fail
  <2>3. /\ redeem' \in [RedeemRequest -> Redemption \cup {NoRedemption}]
        /\ RedemptionShape' /\ HeldTokensExist'
    BY <1>11, <2>1, AnswerTyping DEF Fail
  <2> QED BY <1>11, <2>2, <2>3 DEF Fail, Live, Typing, RedeemTypeOK, TokenClientsExist
<1> QED BY <1>1, <1>2, <1>3, <1>4, <1>5, <1>6, <1>7, <1>8, <1>9, <1>10, <1>11 DEF RedeemStep, Proceed

\* The steps around the requests.
LEMMA SurroundingsTyping ==
  ASSUME Typing, Surroundings
  PROVE  Typing'
\* A step that writes the token rows alone and deletes none.
<1>s. ASSUME UNCHANGED <<registryVars, redeem, grants>>,
             tokens' \in [Token -> TokenRow \cup {None}], TokenClientsExist',
             \A t \in Token : tokens[t] # None => tokens'[t] # None
      PROVE  Typing'
  <2>1. \A r \in RedeemRequest : HoldsToken(r) => redeem[r].tok \in Token
    BY DEF HoldsToken, Typing, RedeemTypeOK, NoRedemption, Redemption
  <2> QED BY <1>s, <2>1 DEF registryVars, Typing, RedeemTypeOK, RegistryTypeOK,
             RegistrationShape, RedemptionShape, HeldTokensExist, HoldsToken
<1>1. ASSUME NEW t \in Token, Lapse(t) PROVE Typing'
  <2>1. tokens[t] \in TokenRow /\ tokens[t] # None
    BY <1>1 DEF Lapse, Typing, RedeemTypeOK
  <2>2. tokens' = [tokens EXCEPT ![t].expiry = "past"]
    BY <1>1 DEF Lapse
  <2>3. /\ tokens'[t] \in TokenRow /\ tokens'[t].client = tokens[t].client
        /\ \A u \in Token \ {t} : tokens'[u] = tokens[u]
        /\ tokens' \in [Token -> TokenRow \cup {None}]
    BY <2>1, <2>2 DEF TokenRow, Typing, RedeemTypeOK
  <2>4. TokenClientsExist'
    BY <1>1, <2>1, <2>3 DEF Lapse, registryVars, Typing, TokenClientsExist, Live
  <2> QED BY <1>1, <1>s, <2>3, <2>4, RedeemAssumption DEF Lapse
<1>2. ASSUME NEW t \in Token, EnsureToken(t) PROVE Typing'
  <2>1. tokens' = [tokens EXCEPT ![t] = [client |-> None, man |-> None, expiry |-> "never"]]
    BY <1>2 DEF EnsureToken
  <2>2. tokens' \in [Token -> TokenRow \cup {None}]
    BY <2>1 DEF TokenRow, Typing, RedeemTypeOK
  <2>3. TokenClientsExist'
    BY <1>2, <2>1 DEF EnsureToken, registryVars, Typing, RedeemTypeOK, TokenClientsExist, Live
  <2>4. \A u \in Token : tokens[u] # None => tokens'[u] # None
    BY <1>2, <2>1 DEF EnsureToken, Typing, RedeemTypeOK
  <2> QED BY <1>2, <1>s, <2>2, <2>3, <2>4 DEF EnsureToken
<1>3. ASSUME NEW n \in Node, NEW o \in Org, DeviceDeleted(n, o) PROVE Typing'
  BY <1>3, DeviceTyping DEF DeviceDeleted, redeemVars, Typing, RedeemTypeOK, RedemptionShape,
        TokenClientsExist, HeldTokensExist, HoldsToken
<1>4. ASSUME NEW u \in User, NEW o \in Org, MemberRemoved(u, o) PROVE Typing'
  <2>1. RegistryTypeOK' /\ RegistrationShape' /\ Live' = Live \ ClientsOf(u, o)
    BY <1>4, RemoveTyping DEF MemberRemoved, Typing, RedeemTypeOK
  <2>2. tokens' \in [Token -> TokenRow \cup {None}] /\ grants' \in SUBSET Grant
    BY <1>4 DEF MemberRemoved, Forget, Typing, RedeemTypeOK
  <2>3. TokenClientsExist'
    <3> SUFFICES ASSUME NEW t \in Token, tokens'[t] # None, tokens'[t].client # None
                 PROVE tokens'[t].client \in Live'
      BY DEF TokenClientsExist
    <3>1. tokens'[t] = tokens[t] /\ tokens[t].client \notin ClientsOf(u, o)
      BY <1>4 DEF MemberRemoved
    <3> QED BY <2>1, <3>1 DEF Typing, TokenClientsExist
  <2>4. HeldTokensExist'
    <3> SUFFICES ASSUME NEW q \in RedeemRequest, HoldsToken(q)
                 PROVE  tokens'[redeem[q].tok] # None
      BY <1>4 DEF MemberRemoved, HeldTokensExist, HoldsToken
    <3>1. redeem[q].tok \in Token
      BY DEF HoldsToken, Typing, RedeemTypeOK, NoRedemption, Redemption
    <3>2. tokens'[redeem[q].tok] = tokens[redeem[q].tok]
      BY <1>4, <3>1 DEF MemberRemoved, Locked
    <3> QED BY <3>2 DEF Typing, HeldTokensExist
  <2> QED BY <1>4, <2>1, <2>2, <2>3, <2>4 DEF MemberRemoved, Typing, RedeemTypeOK, RedemptionShape
<1> QED BY <1>1, <1>2, <1>3, <1>4, RegistryAssumption, RedeemAssumption DEF Surroundings

\* The registrations of other requests: one of their clients may appear.
LEMMA OthersTyping ==
  ASSUME Typing, Others
  PROVE  Typing'
<1> USE DEF Typing, RedeemTypeOK
\* A step of the registry that leaves the redemptions alone and deletes no client.
<1>s. ASSUME UNCHANGED redeemVars, RegistryTypeOK', RegistrationShape', Live \subseteq Live'
      PROVE  Typing'
  BY <1>s DEF redeemVars, RedemptionShape, TokenClientsExist, HeldTokensExist, HoldsToken
<1>1. PICK r \in Request :
        \/ \E u \in User, o \in Org, k \in Comp, m \in Manifest : BeginOther(r, u, o, k, m)
        \/ OtherProceeds(r)
        \/ OtherFails(r)
  BY DEF Others, OtherRequest
<1>2. ASSUME NEW u \in User, NEW o \in Org, NEW k \in Comp, NEW m \in Manifest,
             BeginOther(r, u, o, k, m)
      PROVE  Typing'
  BY <1>2, <1>s, EnterTyping DEF BeginOther, Live
<1>3. CASE Register(r) /\ UNCHANGED redeemVars
  BY <1>3, <1>s, RegisterTyping DEF Live
<1>4. CASE CommitRegistration(r) /\ UNCHANGED redeemVars
  BY <1>4, <1>s, CommitTyping
<1>5. CASE OtherFails(r)
  BY <1>5, <1>s, RollbackTyping DEF OtherFails, Live
<1> QED BY <1>1, <1>2, <1>3, <1>4, <1>5 DEF OtherProceeds

LEMMA TypingStep ==
  ASSUME Typing, [Next]_vars
  PROVE  Typing'
<1>1. ASSUME NEW r \in RedeemRequest, NEW t \in Token, NEW m \in Manifest, Redeem(r, t, m)
      PROVE  Typing'
  <2>1. /\ redeem' \in [RedeemRequest -> Redemption \cup {NoRedemption}]
        /\ RedemptionShape' /\ HeldTokensExist'
    BY <1>1 DEF Redeem, Typing, RedeemTypeOK, Redemption, RedemptionShape, HeldTokensExist, HoldsToken
  <2> QED BY <1>1, <2>1 DEF Redeem, registryVars, Typing, RedeemTypeOK, RegistryTypeOK,
             RegistrationShape, TokenClientsExist, Live
<1>2. CASE UNCHANGED vars
  BY <1>2 DEF vars, registryVars, redeemVars, Typing, RedeemTypeOK, RegistryTypeOK,
        RegistrationShape, RedemptionShape, TokenClientsExist, HeldTokensExist, HoldsToken, Live
<1> QED BY <1>1, <1>2, RequestTyping, OthersTyping, SurroundingsTyping DEF Next

\* Every reachable state is well typed, and the client a token is bound to
\* exists: the cascade of a deleted client takes its token along.
THEOREM TypeCorrect == Spec => []RedeemTypeOK
<1>1. Typing => RedeemTypeOK
  BY DEF Typing
<1> QED BY <1>1, InitTyping, TypingStep, PTL DEF Spec

-----------------------------------------------------------------------------
(* The binding of a token *)

LEMMA InitBinding == RedeemInit => Binding
<1> SUFFICES ASSUME RedeemInit PROVE Binding
  OBVIOUS
<1>1. TokenClientsDiffer
  BY DEF RedeemInit, TokenClientsDiffer
<1>2. OneHolder /\ HeldMayBeBound
  BY DEF RedeemInit, OneHolder, HeldMayBeBound, HoldsToken, NoRedemption
<1>3. GrantsAreBindings
  BY DEF RedeemInit, GrantsAreBindings
<1> QED BY <1>1, <1>2, <1>3 DEF Binding

\* Nothing is written to the tokens and the grants, and nobody begins to hold
\* a token.
LEMMA QuietBinding ==
  ASSUME Binding, tokens' = tokens, grants' = grants,
         \A q \in RedeemRequest :
           HoldsToken(q)' => HoldsToken(q) /\ SameTokenAndManifest(q)
  PROVE  Binding'
<1> USE DEF SameTokenAndManifest
<1>1. TokenClientsDiffer' /\ GrantsAreBindings'
  BY DEF Binding, TokenClientsDiffer, GrantsAreBindings
<1>2. OneHolder'
  BY DEF Binding, OneHolder
<1>3. HeldMayBeBound'
  BY DEF Binding, HeldMayBeBound
<1> QED BY <1>1, <1>2, <1>3 DEF Binding

\* A held token is bound: it was not bound, or it may be bound again.
LEMMA BindBinding ==
  ASSUME Typing, Binding, NEW r \in RedeemRequest, NEW c \in RowId, NEW s \in RowId,
         HoldsToken(r), Bind(r, c, s)
  PROVE  Binding'
<1> USE DEF SameTokenAndManifest
<1> DEFINE t == redeem[r].tok
<1>1. /\ redeem[r] \in Redemption /\ t \in Token /\ tokens[t] # None
      /\ redeem \in [RedeemRequest -> Redemption \cup {NoRedemption}]
  BY DEF Typing, RedeemTypeOK, HoldsToken, NoRedemption, HeldTokensExist, Redemption
<1>2. /\ \A u \in Token : tokens'[u] # None => tokens[u] # None
      /\ tokens'[t].client = c /\ tokens'[t].man = redeem[r].man
      /\ \A u \in Token \ {t} : tokens'[u] = tokens[u]
      /\ tokens' \in [Token -> TokenRow \cup {None}]
      /\ HeldTokensExist'
  BY BindTyping
<1>3. \A q \in RedeemRequest :
        HoldsToken(q)' => q # r /\ HoldsToken(q) /\ SameTokenAndManifest(q)
  BY <1>1 DEF Bind, Answer, HoldsToken, Redemption
<1>4. TokenClientsDiffer'
  BY <1>1, <1>2 DEF Bind, TakenByOther, Binding, TokenClientsDiffer
<1>5. OneHolder'
  BY <1>3 DEF Binding, OneHolder
<1>6. HeldMayBeBound'
  <2> SUFFICES ASSUME NEW q \in RedeemRequest, HoldsToken(q)'
               PROVE  \/ tokens'[redeem'[q].tok].client = None
                      \/ /\ redeem'[q].tok \in Reredeemable
                         /\ tokens'[redeem'[q].tok].man \notin {None, redeem'[q].man}
    BY DEF HeldMayBeBound
  <2>1. q # r /\ HoldsToken(q) /\ SameTokenAndManifest(q)
    BY <1>3
  <2>2. redeem[q].tok # t
    BY <2>1 DEF Binding, OneHolder
  <2>3. redeem[q].tok \in Token
    BY <2>1, <1>1 DEF HoldsToken, NoRedemption, Redemption
  <2> QED BY <1>2, <2>1, <2>2, <2>3 DEF Binding, HeldMayBeBound
<1>7. GrantsAreBindings'
  <2> SUFFICES ASSUME NEW g \in grants', g.tok \notin Reredeemable
               PROVE  /\ tokens'[g.tok] # None
                      /\ tokens'[g.tok].client = g.client
                      /\ tokens'[g.tok].man = g.man
    BY DEF GrantsAreBindings
  <2>1. tokens'[t] # None
    BY BindTyping, RedeemAssumption
  <2>2. CASE g \notin grants
    <3>1. g = [req |-> r, tok |-> t, man |-> redeem[r].man, client |-> c, secret |-> s]
      BY <2>2 DEF Bind, Granted
    <3> QED BY <3>1, <2>1, <1>2
  <2>3. CASE g \in grants
    <3>1. g.tok \in Token /\ g.client \in RowId
      BY <2>3 DEF Typing, RedeemTypeOK, Grant
    <3>2. g.tok # t
      BY <2>3, <3>1, RegistryAssumption DEF Binding, GrantsAreBindings, HeldMayBeBound
    <3> QED BY <1>2, <2>3, <3>1, <3>2 DEF Binding, GrantsAreBindings
  <2> QED BY <2>2, <2>3
<1> QED BY <1>4, <1>5, <1>6, <1>7 DEF Binding

LEMMA RequestBinding ==
  ASSUME Typing, Binding, NEW r \in RedeemRequest, RedeemStep(r)
  PROVE  Binding'
<1> USE DEF SameTokenAndManifest
<1>r. redeem \in [RedeemRequest -> Redemption \cup {NoRedemption}]
  BY DEF Typing, RedeemTypeOK
<1>t. redeem[r].stage # "new" => redeem[r] \in Redemption
  BY <1>r DEF NoRedemption
\* A step after which the request holds its token only if it did before.
<1>s. ASSUME NEW status \in {"expired", "done"}, Answer(r, status), redeem[r] \in Redemption
      PROVE  \A q \in RedeemRequest :
               HoldsToken(q)' => HoldsToken(q) /\ SameTokenAndManifest(q)
  BY <1>s, <1>r DEF Answer, HoldsToken, Redemption
<1>1. CASE Refuse(r)
  BY <1>1, <1>t, <1>s, QuietBinding DEF Refuse
<1>2. CASE RedeemAgain(r)
  <2> DEFINE t == redeem[r].tok
  <2>1. /\ redeem[r] \in Redemption /\ t \in Token /\ redeem[r].man \in Manifest
        /\ tokens[t] \in TokenRow /\ tokens[t] # None
    BY <1>2, <1>t DEF RedeemAgain, Redemption, Typing, RedeemTypeOK
  <2>2. tokens' = [tokens EXCEPT ![t].man = redeem[r].man]
    BY <1>2 DEF RedeemAgain
  <2>3. /\ tokens'[t] # None /\ tokens'[t].client = tokens[t].client
        /\ tokens'[t].man = redeem[r].man
        /\ \A u \in Token \ {t} : tokens'[u] = tokens[u]
    BY <2>1, <2>2, RedeemAssumption DEF TokenRow, Typing, RedeemTypeOK
  <2>4. \A q \in RedeemRequest :
          HoldsToken(q)' => HoldsToken(q) /\ SameTokenAndManifest(q)
    BY <1>2, <2>1, <1>s DEF RedeemAgain
  <2>5. TokenClientsDiffer'
    BY <2>1, <2>3 DEF Binding, TokenClientsDiffer
  <2>6. OneHolder'
    BY <2>4 DEF Binding, OneHolder
  <2>7. HeldMayBeBound'
    <3>1. \A q \in RedeemRequest : HoldsToken(q) => redeem[q].tok \in Token
      BY <1>r DEF HoldsToken, NoRedemption, Redemption
    <3>2. \A q \in RedeemRequest : HoldsToken(q) => redeem[q].tok # t
      BY <1>2 DEF RedeemAgain, Locked
    <3> QED BY <2>3, <2>4, <3>1, <3>2 DEF Binding, HeldMayBeBound
  <2>8. GrantsAreBindings'
    <3> SUFFICES ASSUME NEW g \in grants', g.tok \notin Reredeemable
                 PROVE  /\ tokens'[g.tok] # None
                        /\ tokens'[g.tok].client = g.client
                        /\ tokens'[g.tok].man = g.man
      BY DEF GrantsAreBindings
    <3>1. CASE g \notin grants
      <4>1. /\ g.tok = t /\ g.man = redeem[r].man /\ g.client = tokens[t].client
        BY <1>2, <3>1 DEF RedeemAgain, Granted
      <4> QED BY <4>1, <2>3
    <3>2. CASE g \in grants
      <4>1. g.tok \in Token /\ g.man \in Manifest
        BY <3>2 DEF Typing, RedeemTypeOK, Grant
      <4>2. g.tok = t => g.man = redeem[r].man
        BY <1>2, <3>2, <4>1, RegistryAssumption DEF RedeemAgain, Binding, GrantsAreBindings
      <4> QED BY <2>3, <3>2, <4>1, <4>2 DEF Binding, GrantsAreBindings
    <3> QED BY <3>1, <3>2
  <2> QED BY <2>5, <2>6, <2>7, <2>8 DEF Binding
<1>3. CASE BeginValidation(r)
  <2> DEFINE t == redeem[r].tok
  <2>1. redeem[r] \in Redemption /\ t \in Token
    BY <1>3, <1>t DEF BeginValidation, Redemption
  <2>2. \A q \in RedeemRequest :
          HoldsToken(q)' => SameTokenAndManifest(q) /\ (q = r \/ HoldsToken(q))
    BY <1>3, <1>r, <2>1 DEF BeginValidation, Answer, HoldsToken, Redemption
  <2>3. OneHolder'
    BY <1>3, <2>2 DEF BeginValidation, Locked, Binding, OneHolder
  <2>4. HeldMayBeBound'
    BY <1>3, <2>2 DEF BeginValidation, Binding, HeldMayBeBound
  <2> QED BY <1>3, <2>3, <2>4 DEF BeginValidation, Binding, TokenClientsDiffer, GrantsAreBindings
<1>4. CASE FindExpired(r)
  BY <1>4, <1>t, <1>s, QuietBinding DEF FindExpired
<1>5. CASE DeleteExpired(r)
  <2> DEFINE t == redeem[r].tok
  <2>1. redeem[r] \in Redemption /\ t \in Token
    BY <1>5, <1>t DEF DeleteExpired, Redemption
  <2>2. tokens'[t] = None /\ \A u \in Token \ {t} : tokens'[u] = tokens[u]
    BY <1>5, <2>1 DEF DeleteExpired, Typing, RedeemTypeOK
  <2>3. \A q \in RedeemRequest :
          HoldsToken(q)' => HoldsToken(q) /\ SameTokenAndManifest(q)
    BY <1>5, <2>1, <1>s DEF DeleteExpired
  <2>4. TokenClientsDiffer'
    BY <2>1, <2>2 DEF Binding, TokenClientsDiffer
  <2>5. OneHolder'
    BY <2>3 DEF Binding, OneHolder
  <2>6. HeldMayBeBound'
    <3>1. \A q \in RedeemRequest : HoldsToken(q) => redeem[q].tok \in Token /\ redeem[q].tok # t
      BY <1>r, <1>5 DEF HoldsToken, NoRedemption, Redemption, DeleteExpired, Locked
    <3> QED BY <2>2, <2>3, <3>1 DEF Binding, HeldMayBeBound
  <2>7. GrantsAreBindings'
    <3>1. \A g \in grants' : g \in grants /\ g.tok \in Token /\ g.tok # t
      BY <1>5 DEF DeleteExpired, Forget, Typing, RedeemTypeOK, Grant
    <3> QED BY <2>2, <3>1 DEF Binding, GrantsAreBindings
  <2> QED BY <2>4, <2>5, <2>6, <2>7 DEF Binding
<1>6. CASE ReuseClient(r)
  <2>1. PICK c \in Reusable(redeem[r].tok, redeem[r].man) :
          redeem' = [redeem EXCEPT ![r].stage = "attach", ![r].client = c,
                                   ![r].secret = clients[c].secret]
    BY <1>6 DEF ReuseClient
  <2>2. redeem[r] \in Redemption
    BY <1>6, <1>t DEF ReuseClient
  <2>3. \A q \in RedeemRequest :
          HoldsToken(q)' => HoldsToken(q) /\ SameTokenAndManifest(q)
    BY <1>6, <1>r, <2>1, <2>2 DEF ReuseClient, HoldsToken, Redemption
  <2> QED BY <1>6, <2>3, QuietBinding DEF ReuseClient
<1>7. CASE NeedClient(r)
  <2>1. redeem[r] \in Redemption
    BY <1>7, <1>t DEF NeedClient
  <2>2. \A q \in RedeemRequest :
          HoldsToken(q)' => HoldsToken(q) /\ SameTokenAndManifest(q)
    BY <1>7, <1>r, <2>1 DEF NeedClient, Answer, HoldsToken, Redemption
  <2> QED BY <1>7, <2>2, QuietBinding DEF NeedClient
<1>8. CASE RegisterStep(r)
  BY <1>8, QuietBinding DEF RegisterStep, redeemVars, HoldsToken
<1>9. CASE CommitReused(r)
  <2>1. HoldsToken(r) /\ redeem[r].client \in RowId /\ redeem[r].secret \in RowId
    BY <1>9 DEF CommitReused, RedemptionShape, Typing, HoldsToken
  <2> QED BY <1>9, <2>1, BindBinding DEF CommitReused
<1>10. CASE CommitRegistered(r)
  <2>1. HoldsToken(r) /\ r \in RowId /\ reg[r].target \in RowId
    BY <1>10, RedeemAssumption DEF CommitRegistered, CommitRegistration, HoldsToken, RowId,
          Typing, RegistrationShape
  <2> QED BY <1>10, <2>1, BindBinding DEF CommitRegistered
<1>11. CASE Fail(r)
  BY <1>11, <1>t, <1>s, QuietBinding DEF Fail
<1> QED BY <1>1, <1>2, <1>3, <1>4, <1>5, <1>6, <1>7, <1>8, <1>9, <1>10, <1>11 DEF RedeemStep, Proceed

LEMMA SurroundingsBinding ==
  ASSUME Typing, Binding, Surroundings
  PROVE  Binding'
<1> USE DEF SameTokenAndManifest
<1>h. \A q \in RedeemRequest : HoldsToken(q) => redeem[q].tok \in Token
  BY DEF Typing, RedeemTypeOK, HoldsToken, NoRedemption, Redemption
<1>1. ASSUME NEW t \in Token, Lapse(t) PROVE Binding'
  <2>1. tokens[t] \in TokenRow /\ tokens[t] # None
    BY <1>1 DEF Lapse, Typing, RedeemTypeOK
  <2>2. /\ tokens'[t] # None /\ tokens'[t].client = tokens[t].client
        /\ tokens'[t].man = tokens[t].man
        /\ \A u \in Token \ {t} : tokens'[u] = tokens[u]
    BY <1>1, <2>1, RedeemAssumption DEF Lapse, TokenRow, Typing, RedeemTypeOK
  <2>3. TokenClientsDiffer'
    BY <2>1, <2>2 DEF Binding, TokenClientsDiffer
  <2>4. GrantsAreBindings'
    BY <1>1, <2>1, <2>2 DEF Lapse, Binding, GrantsAreBindings, Typing, RedeemTypeOK, Grant
  <2>5. OneHolder' /\ HeldMayBeBound'
    BY <1>1, <1>h, <2>1, <2>2 DEF Lapse, HoldsToken, Binding, OneHolder, HeldMayBeBound
  <2> QED BY <2>3, <2>4, <2>5 DEF Binding
<1>2. ASSUME NEW t \in Token, EnsureToken(t) PROVE Binding'
  <2>1. /\ tokens[t] = None /\ tokens'[t].client = None
        /\ \A u \in Token \ {t} : tokens'[u] = tokens[u]
    BY <1>2 DEF EnsureToken, Typing, RedeemTypeOK
  <2>2. TokenClientsDiffer'
    BY <2>1 DEF Binding, TokenClientsDiffer
  <2>3. GrantsAreBindings'
    BY <1>2, <2>1 DEF EnsureToken, Binding, GrantsAreBindings, Typing, RedeemTypeOK, Grant
  <2>4. OneHolder' /\ HeldMayBeBound'
    BY <1>2, <1>h, <2>1 DEF EnsureToken, HoldsToken, Typing, HeldTokensExist,
          Binding, OneHolder, HeldMayBeBound
  <2> QED BY <2>2, <2>3, <2>4 DEF Binding
<1>3. ASSUME NEW n \in Node, NEW o \in Org, DeviceDeleted(n, o) PROVE Binding'
  BY <1>3, QuietBinding DEF DeviceDeleted, redeemVars, HoldsToken
<1>4. ASSUME NEW u \in User, NEW o \in Org, MemberRemoved(u, o) PROVE Binding'
  <2> DEFINE gone == {t \in Token : /\ tokens[t] # None
                                    /\ tokens[t].client \in ClientsOf(u, o)}
  <2>1. /\ \A t \in gone : ~Locked(t) /\ tokens'[t] = None
        /\ \A t \in Token \ gone : tokens'[t] = tokens[t]
        /\ grants' = {g \in grants : g.tok \notin gone}
        /\ redeem' = redeem
    BY <1>4 DEF MemberRemoved, Forget
  <2> HIDE DEF gone
  <2>2. TokenClientsDiffer'
    BY <2>1 DEF Binding, TokenClientsDiffer
  <2>3. GrantsAreBindings'
    BY <2>1 DEF Binding, GrantsAreBindings, Typing, RedeemTypeOK, Grant
  <2>4. OneHolder'
    BY <2>1 DEF HoldsToken, Binding, OneHolder
  <2>5. HeldMayBeBound'
    BY <1>h, <2>1 DEF Locked, HoldsToken, Binding, HeldMayBeBound
  <2> QED BY <2>2, <2>3, <2>4, <2>5 DEF Binding
<1> QED BY <1>1, <1>2, <1>3, <1>4, RegistryAssumption, RedeemAssumption DEF Surroundings

\* The registrations of other requests write neither the tokens nor the answers.
LEMMA OthersQuiet ==
  ASSUME Others
  PROVE  UNCHANGED redeemVars
BY DEF Others, BeginOther, OtherProceeds, OtherFails

LEMMA BindingStep ==
  ASSUME Typing, Binding, [Next]_vars
  PROVE  Binding'
<1> USE DEF SameTokenAndManifest
<1>1. ASSUME NEW r \in RedeemRequest, NEW t \in Token, NEW m \in Manifest, Redeem(r, t, m)
      PROVE  Binding'
  <2>1. \A q \in RedeemRequest :
          HoldsToken(q)' => HoldsToken(q) /\ SameTokenAndManifest(q)
    BY <1>1 DEF Redeem, HoldsToken, Typing, RedeemTypeOK
  <2> QED BY <1>1, <2>1, QuietBinding DEF Redeem
<1>2. CASE UNCHANGED redeemVars
  BY <1>2, QuietBinding DEF redeemVars, HoldsToken
<1> QED BY <1>1, <1>2, RequestBinding, SurroundingsBinding, OthersQuiet DEF Next, vars

\* The answers given for one token row agree on manifest and client, whatever
\* requests race for it, unless the token may be redeemed again.
THEOREM OneManifest == Spec => []OneManifestPerToken
<1>1. Binding => OneManifestPerToken
  BY DEF Binding, GrantsAreBindings, OneManifestPerToken
<1> QED BY <1>1, InitTyping, InitBinding, TypingStep, BindingStep, PTL DEF Spec

\* No two tokens share a client, and a token's client exists.
THEOREM ClientsDistinct == Spec => []TokenClientsAreDistinct
<1>1. Typing /\ Binding => TokenClientsAreDistinct
  BY DEF Typing, Binding, TokenClientsExist, TokenClientsDiffer, TokenClientsAreDistinct
<1> QED BY <1>1, InitTyping, InitBinding, TypingStep, BindingStep, PTL DEF Spec

-----------------------------------------------------------------------------
(* Expiry *)

\* A lapsed token nobody holds stays unbound: only a request that holds the row
\* binds it, and a lapsed row is not taken hold of.
LEMMA LapsedStep ==
  ASSUME Typing, [Next]_vars, NEW t \in Token,
         LapsedUnused(t), tokens'[t] # None
  PROVE  tokens'[t].expiry = "past" /\ tokens'[t].client = None
<1> DEFINE Kept == tokens'[t].expiry = "past" /\ tokens'[t].client = None
<1> SUFFICES Kept
  OBVIOUS
<1> USE DEF LapsedUnused
<1>t. tokens[t] \in TokenRow /\ tokens \in [Token -> TokenRow \cup {None}]
  BY DEF Typing, RedeemTypeOK
<1>r. \A r \in RedeemRequest : redeem[r].stage # "new" => redeem[r].tok \in Token
  BY DEF Typing, RedeemTypeOK, NoRedemption, Redemption
<1>1. ASSUME NEW r \in RedeemRequest, RedeemStep(r) PROVE Kept
  <2>1. CASE tokens' = tokens
    BY <2>1
  <2>2. CASE RedeemAgain(r)
    <3>1. redeem[r].tok # t
      BY <2>2 DEF RedeemAgain
    <3> QED BY <2>2, <3>1, <1>t DEF RedeemAgain
  <2>3. CASE DeleteExpired(r)
    <3>1. redeem[r].tok # t
      BY <2>3, <1>t DEF DeleteExpired
    <3> QED BY <2>3, <3>1, <1>t DEF DeleteExpired
  <2>4. CASE CommitReused(r) \/ CommitRegistered(r)
    <3>1. HoldsToken(r)
      BY <2>4 DEF CommitReused, CommitRegistered, HoldsToken
    <3>2. redeem[r].tok # t
      BY <3>1 DEF Locked
    <3> QED BY <2>4, <3>2, <1>t DEF CommitReused, CommitRegistered, Bind
  <2> QED BY <1>1, <2>1, <2>2, <2>3, <2>4 DEF RedeemStep, Proceed, Refuse, BeginValidation, FindExpired,
             ReuseClient, NeedClient, RegisterStep, redeemVars, Fail
<1>2. CASE Surroundings
  <2>1. ASSUME NEW u \in Token, Lapse(u) PROVE Kept
    BY <2>1, <1>t DEF Lapse, TokenRow
  <2>2. ASSUME NEW u \in Token, EnsureToken(u) PROVE Kept
    BY <2>2, <1>t DEF EnsureToken
  <2>3. ASSUME NEW u \in User, NEW o \in Org, MemberRemoved(u, o) PROVE Kept
    BY <2>3 DEF MemberRemoved
  <2>4. ASSUME NEW n \in Node, NEW o \in Org, DeviceDeleted(n, o) PROVE Kept
    BY <2>4 DEF DeviceDeleted, redeemVars
  <2> QED BY <1>2, <2>1, <2>2, <2>3, <2>4, RegistryAssumption, RedeemAssumption DEF Surroundings
<1>3. ASSUME NEW r \in RedeemRequest, NEW u \in Token, NEW m \in Manifest, Redeem(r, u, m)
      PROVE  Kept
  BY <1>3 DEF Redeem
<1>4. CASE UNCHANGED redeemVars
  BY <1>4 DEF redeemVars
<1> QED BY <1>1, <1>2, <1>3, <1>4, OthersQuiet DEF Next, vars

\* Nor is it taken hold of.
LEMMA UnheldStep ==
  ASSUME Typing, [Next]_vars, NEW t \in Token, LapsedUnused(t)
  PROVE  ~Locked(t)'
<1>r. redeem \in [RedeemRequest -> Redemption \cup {NoRedemption}]
  BY DEF Typing, RedeemTypeOK
<1>1. ASSUME NEW r \in RedeemRequest, RedeemStep(r) PROVE ~Locked(t)'
  <2>1. \A q \in RedeemRequest \ {r} : redeem'[q] = redeem[q]
    BY <1>1, <1>r DEF RedeemStep, Proceed, Refuse, RedeemAgain, BeginValidation, FindExpired,
       DeleteExpired, ReuseClient, NeedClient, RegisterStep, redeemVars,
       CommitReused, CommitRegistered, Bind, Fail, Answer
  <2>2. CASE UNCHANGED redeem
    BY <2>2 DEF LapsedUnused, Locked, HoldsToken
  <2>3. CASE BeginValidation(r)
    <3>1. redeem[r].tok # t
      BY <2>3 DEF BeginValidation, LapsedUnused
    <3>2. redeem'[r].tok = redeem[r].tok
      BY <2>3, <1>r DEF BeginValidation, Answer
    <3> QED BY <2>1, <3>1, <3>2 DEF LapsedUnused, Locked, HoldsToken
  <2>4. CASE ReuseClient(r) \/ NeedClient(r)
    <3>1. HoldsToken(r)
      BY <2>4 DEF ReuseClient, NeedClient, HoldsToken
    <3>2. CASE ReuseClient(r)
      <4>1. PICK c \in RowId :
              redeem' = [redeem EXCEPT ![r].stage = "attach", ![r].client = c,
                                       ![r].secret = clients[c].secret]
        BY <3>2 DEF ReuseClient, Reusable, Live
      <4> QED BY <4>1, <1>r, <3>1 DEF Redemption, NoRedemption, HoldsToken, LapsedUnused, Locked
    <3>3. CASE NeedClient(r)
      BY <1>r, <3>1, <3>3 DEF NeedClient, Answer, Redemption, NoRedemption, HoldsToken,
         LapsedUnused, Locked
    <3> QED BY <2>4, <3>2, <3>3
  <2>5. CASE redeem' = [redeem EXCEPT ![r].stage = "done"]
             \/ redeem' = [redeem EXCEPT ![r].stage = "expired"]
    <3>1. redeem'[r].stage \in {"done", "expired"}
      BY <2>5, <1>r DEF Redemption, NoRedemption
    <3>2. ~HoldsToken(r)'
      BY <3>1 DEF HoldsToken
    <3> QED BY <2>1, <3>2 DEF LapsedUnused, Locked, HoldsToken
  <2> QED BY <1>1, <2>2, <2>3, <2>4, <2>5 DEF RedeemStep, Proceed, Refuse, RedeemAgain, FindExpired,
             DeleteExpired, RegisterStep, redeemVars, CommitReused, CommitRegistered,
             Bind, Fail, Answer
<1>2. CASE UNCHANGED redeem
  BY <1>2 DEF LapsedUnused, Locked, HoldsToken
<1>3. ASSUME NEW r \in RedeemRequest, NEW u \in Token, NEW m \in Manifest, Redeem(r, u, m)
      PROVE  ~Locked(t)'
  <2>1. redeem'[r].stage = "lock" /\ \A q \in RedeemRequest \ {r} : redeem'[q] = redeem[q]
    BY <1>3, <1>r DEF Redeem
  <2> QED BY <2>1 DEF LapsedUnused, Locked, HoldsToken
<1> QED BY <1>1, <1>2, <1>3, OthersQuiet DEF Next, Surroundings, Lapse, EnsureToken,
           DeviceDeleted, MemberRemoved, redeemVars, vars

\* A token that lapsed unbound and unheld stays unbound until it is deleted.
THEOREM LapsedUnbound == Spec => LapsedIsNeverBound
<1>1. Typing /\ [Next]_vars =>
        [\A t \in Token : LapsedUnused(t) => LapsedUnused(t)' \/ tokens'[t] = None]_vars
  <2>1. ASSUME Typing, [Next]_vars, NEW t \in Token, LapsedUnused(t), tokens'[t] # None
        PROVE  LapsedUnused(t)'
    BY <2>1, LapsedStep, UnheldStep DEF LapsedUnused
  <2> QED BY <2>1
<1> QED BY <1>1, InitTyping, TypingStep, PTL DEF Spec, LapsedIsNeverBound

-----------------------------------------------------------------------------
(* One client per key *)

LEMMA InitKeyed == RedeemInit => Keyed
<1> SUFFICES ASSUME RedeemInit PROVE Keyed
  OBVIOUS
<1>1. OneClientPerKey
  <2>1. \A c \in Live : clients[c].app = c
    BY DEF RedeemInit, RegistryInit, Live
  <2> QED BY <2>1 DEF OneClientPerKey, Key
<1>2. OneReleaseHolder /\ TargetIsTheMatch
  BY DEF RedeemInit, RegistryInit, NoRegistration, OneReleaseHolder, TargetIsTheMatch, HoldsRelease
<1> QED BY <1>1, <1>2 DEF Keyed

\* Steps that leave the registry alone.
LEMMA QuietKeyed ==
  ASSUME Keyed, UNCHANGED registryVars
  PROVE  Keyed'
BY ShrinkKeyed DEF registryVars, Live, Key, HoldsRelease, Registered

LEMMA KeyedStep ==
  ASSUME DeletableNode = {}, Typing, Keyed, [Next]_vars
  PROVE  Keyed'
<1> USE DEF Typing, RedeemTypeOK
<1>1. ASSUME NEW r \in RedeemRequest, RedeemStep(r) PROVE Keyed'
  <2>r. r \in Request
    BY RedeemAssumption
  <2>1. CASE UNCHANGED registryVars
    BY <2>1, QuietKeyed
  <2>2. CASE NeedClient(r)
    BY <2>r, <2>2, EnterKeyed DEF NeedClient
  <2>3. CASE RegisterStep(r)
    BY <2>r, <2>3, RegisterKeyed DEF RegisterStep
  <2>4. CASE CommitRegistered(r)
    BY <2>r, <2>4, CommitKeyed DEF CommitRegistered
  <2>5. CASE Fail(r)
    BY <2>r, <2>1, <2>5, RollbackKeyed DEF Fail
  <2> QED BY <1>1, <2>1, <2>2, <2>3, <2>4, <2>5 DEF RedeemStep, Proceed, Refuse, RedeemAgain,
             BeginValidation, FindExpired, DeleteExpired, ReuseClient, CommitReused
<1>2. CASE Surroundings
  <2>1. ASSUME NEW u \in User, NEW o \in Org, MemberRemoved(u, o) PROVE Keyed'
    BY <2>1, RemoveKeyed DEF MemberRemoved
  <2>2. CASE UNCHANGED registryVars
    BY <2>2, QuietKeyed
  <2> QED BY <1>2, <2>1, <2>2 DEF Surroundings, Lapse, EnsureToken
<1>3. CASE \E r \in RedeemRequest, t \in Token, m \in Manifest : Redeem(r, t, m)
  BY <1>3, QuietKeyed DEF Redeem
<1>4. CASE UNCHANGED vars
  BY <1>4, QuietKeyed DEF vars
<1>5. CASE Others
  <2>1. PICK r \in Request :
          \/ \E u \in User, o \in Org, k \in Comp, m \in Manifest : BeginOther(r, u, o, k, m)
          \/ OtherProceeds(r)
          \/ OtherFails(r)
    BY <1>5 DEF Others, OtherRequest
  <2>2. ASSUME NEW u \in User, NEW o \in Org, NEW k \in Comp, NEW m \in Manifest,
               BeginOther(r, u, o, k, m)
        PROVE  Keyed'
    BY <2>2, EnterKeyed DEF BeginOther
  <2>3. CASE OtherProceeds(r)
    BY <2>3, RegisterKeyed, CommitKeyed DEF OtherProceeds
  <2>4. CASE OtherFails(r)
    BY <2>4, RollbackKeyed DEF OtherFails
  <2> QED BY <2>1, <2>2, <2>3, <2>4
<1> QED BY <1>1, <1>2, <1>3, <1>4, <1>5 DEF Next

\* As long as nobody deletes a device, there is one client per key, however
\* many registrations race: the lock on the Release row does what the
\* constraint, which ignores a NULL node, does not.
THEOREM OneClient ==
  ASSUME DeletableNode = {}
  PROVE  Spec => []OneClientPerKey
<1>1. Keyed => OneClientPerKey
  BY DEF Keyed
<1>2. Typing /\ Keyed /\ [Next]_vars => Keyed'
  BY KeyedStep
<1> QED BY <1>1, <1>2, InitTyping, InitKeyed, TypingStep, PTL DEF Spec

-----------------------------------------------------------------------------
(* The refinement *)

\* The refinement mapping of RedeemTokens, by name.
Held == [t \in Token |-> TicketOf(tokens[t])]

ToldOf(g) == [tok |-> g.tok, man |-> g.man, client |-> g.client]

Told == {ToldOf(g) : g \in grants}

\* A token row and its ticket.
LEMMA TicketFacts ==
  ASSUME NEW row \in TokenRow \cup {None}
  PROVE  /\ TicketOf(row) = None <=> row = None
         /\ row # None => /\ TicketOf(row) = [client |-> row.client, man |-> row.man]
                          /\ TicketOf(row).client = row.client
                          /\ TicketOf(row).man = row.man
<1>1. CASE row = None
  BY <1>1 DEF TicketOf
<1>2. CASE row # None
  <2>1. TicketOf(row) = [client |-> row.client, man |-> row.man]
    BY <1>2 DEF TicketOf
  <2>2. row.client \in RowId \cup {None} /\ row.man \in Manifest \cup {None}
    BY <1>2 DEF TokenRow
  <2>3. [client |-> row.client, man |-> row.man] \in TicketRow
    BY <2>2 DEF TicketRow
  <2>4. TicketOf(row) # None
    BY <2>1, <2>3, RedeemAssumption
  <2> QED BY <1>2, <2>1, <2>4
<1> QED BY <1>1, <1>2

\* A step that changes at most the expiry of tokens is a stutter.
LEMMA QuietRefines ==
  ASSUME Typing, Typing', grants' = grants,
         \A t \in Token : TicketOf(tokens'[t]) = TicketOf(tokens[t])
  PROVE  UNCHANGED Ticketing!vars
<1>1. Held' = Held /\ Told' = Told
  BY DEF Held, Told
<1> QED BY <1>1 DEF Held, Told, ToldOf, Ticketing!vars

\* An answer adds what it says to what was told.
LEMMA GrantedRefines ==
  ASSUME NEW r \in RedeemRequest, NEW c, NEW s, Granted(r, c, s)
  PROVE  Told' = Told \cup {[tok |-> redeem[r].tok, man |-> redeem[r].man, client |-> c]}
<1> DEFINE g0 == [req |-> r, tok |-> redeem[r].tok, man |-> redeem[r].man,
                  client |-> c, secret |-> s]
<1>1. ToldOf(g0) = [tok |-> redeem[r].tok, man |-> redeem[r].man, client |-> c]
  BY DEF ToldOf
<1>2. grants' = grants \cup {g0}
  BY DEF Granted
<1> HIDE DEF g0
<1>3. Told' = Told \cup {ToldOf(g0)}
  BY <1>2 DEF Told
<1> QED BY <1>1, <1>3

\* A commit that binds a held token settles its ticket.
LEMMA BindRefines ==
  ASSUME Typing, Binding, NEW r \in RedeemRequest, NEW c \in RowId, NEW s \in RowId,
         HoldsToken(r), Bind(r, c, s)
  PROVE  Ticketing!Next
<1>0. PICK t \in Token, m \in Manifest : t = redeem[r].tok /\ m = redeem[r].man
  BY DEF HoldsToken, Typing, RedeemTypeOK, NoRedemption, Redemption
<1>1. tokens[t] # None /\ tokens \in [Token -> TokenRow \cup {None}]
  BY <1>0 DEF Typing, RedeemTypeOK, HoldsToken, NoRedemption, HeldTokensExist, Redemption
<1>2. /\ tokens'[t] \in TokenRow /\ tokens'[t].client = c /\ tokens'[t].man = m
      /\ \A u \in Token \ {t} : tokens'[u] = tokens[u]
  BY <1>0, BindTyping
<1>3. \/ tokens[t].client = None
      \/ t \in Reredeemable /\ tokens[t].man \notin {None, m}
  BY <1>0 DEF Binding, HeldMayBeBound
<1>4. ~TakenByOther(c, t)
  BY <1>0 DEF Bind
<1>5. Held[t] # None /\ Held[t].client = tokens[t].client /\ Held[t].man = tokens[t].man
  BY <1>1, TicketFacts DEF Held
<1>6. \A u \in Token \ {t} : Held[u] = None \/ Held[u].client # c
  <2> SUFFICES ASSUME NEW u \in Token \ {t}, Held[u] # None PROVE Held[u].client # c
    OBVIOUS
  <2>1. tokens[u] \in TokenRow \cup {None} /\ Held[u] = TicketOf(tokens[u])
    BY <1>1 DEF Held
  <2>2. tokens[u] # None /\ Held[u].client = tokens[u].client
    BY <2>1, TicketFacts
  <2> QED BY <1>4, <2>2 DEF TakenByOther
<1>7. Held' = [Held EXCEPT ![t] = [client |-> c, man |-> m]]
  <2>1. TicketOf(tokens'[t]) = [client |-> c, man |-> m]
    BY <1>2, RedeemAssumption, TicketFacts
  <2> QED BY <1>1, <1>2, <2>1 DEF Held
<1>8. Told' = Told \cup {[tok |-> t, man |-> Held'[t].man, client |-> Held'[t].client]}
  <2>1. Told' = Told \cup {[tok |-> t, man |-> m, client |-> c]}
    BY <1>0, GrantedRefines DEF Bind
  <2>2. Held'[t] = [client |-> c, man |-> m]
    BY <1>1, <1>7 DEF Held
  <2> QED BY <2>1, <2>2
<1>9. Ticketing!Settle(t, c, m)
  BY <1>3, <1>5, <1>6, <1>7, <1>8
     DEF Ticketing!Settle, Ticketing!Free, Ticketing!Told, Held, Told, ToldOf
<1> QED BY <1>9 DEF Ticketing!Next

\* Redeeming again with the recorded manifest, or the first one recorded,
\* repeats the answer.
LEMMA AgainRefines ==
  ASSUME Typing, Typing', NEW r \in RedeemRequest, RedeemAgain(r)
  PROVE  Ticketing!Next
<1>0. PICK t \in Token, m \in Manifest : t = redeem[r].tok /\ m = redeem[r].man
  BY DEF RedeemAgain, Typing, RedeemTypeOK, NoRedemption, Redemption
<1>1. /\ tokens[t] \in TokenRow
      /\ tokens[t] # None /\ tokens[t].client # None /\ tokens[t].man \in {None, m}
      /\ tokens \in [Token -> TokenRow \cup {None}]
  BY <1>0 DEF RedeemAgain, Typing, RedeemTypeOK
<1>2. tokens' = [tokens EXCEPT ![t].man = m]
  BY <1>0 DEF RedeemAgain
<1>3. Granted(r, tokens[t].client, clients[tokens[t].client].secret)
  BY <1>0 DEF RedeemAgain
<1>4. /\ tokens'[t] \in TokenRow
      /\ tokens'[t].client = tokens[t].client /\ tokens'[t].man = m
      /\ \A u \in Token \ {t} : tokens'[u] = tokens[u]
  BY <1>1, <1>2 DEF TokenRow
<1>5. Told' = Told \cup {[tok |-> t, man |-> m, client |-> tokens[t].client]}
  BY <1>0, <1>3, GrantedRefines
<1>6. Held[t] # None /\ Held[t].client = tokens[t].client /\ Held[t].man = tokens[t].man
  BY <1>1, TicketFacts DEF Held
<1>7. Held' = [Held EXCEPT ![t] = [client |-> Held[t].client, man |-> m]]
  <2>1. TicketOf(tokens'[t]) = [client |-> Held[t].client, man |-> m]
    BY <1>4, <1>6, RedeemAssumption, TicketFacts
  <2> QED BY <1>1, <1>4, <2>1 DEF Held
<1>8. Held'[t] = [client |-> tokens[t].client, man |-> m]
  BY <1>1, <1>6, <1>7 DEF Held
<1>9. Ticketing!Repeat(t, m)
  BY <1>1, <1>5, <1>6, <1>7, <1>8 DEF Ticketing!Repeat, Ticketing!Told, Held, Told, ToldOf
<1> QED BY <1>9 DEF Ticketing!Next

\* Deleted rows are withdrawn tickets.
LEMMA DeletedRefines ==
  ASSUME Typing, NEW S \in SUBSET Token, Forget(S),
         \A t \in S : tokens'[t] = None,
         \A t \in Token \ S : tokens'[t] = tokens[t]
  PROVE  Ticketing!Next
<1>1. Held' = [t \in Token |-> IF t \in S THEN None ELSE Held[t]]
  BY DEF Held, TicketOf
<1>2. Told' = {a \in Told : a.tok \notin S}
  BY DEF Forget, Told, ToldOf
<1>3. Ticketing!Withdraw(S)
  BY <1>1, <1>2 DEF Ticketing!Withdraw, Held, Told, ToldOf
<1> QED BY <1>3 DEF Ticketing!Next

-----------------------------------------------------------------------------
LEMMA InitRefines == RedeemInit => Ticketing!Init
<1> SUFFICES ASSUME RedeemInit PROVE Ticketing!Init
  OBVIOUS
<1>1. \A t \in Token : tokens[t] \in TokenRow /\ tokens[t].man = None
  BY RedeemAssumption DEF RedeemInit, TokenRow, RowId
<1>2. \A t \in Token : TicketOf(tokens[t]) \in [client : RowId \cup {None}, man : {None}]
  BY <1>1, RedeemAssumption DEF TicketOf, TokenRow
<1> QED BY <1>2 DEF RedeemInit, Ticketing!Init

LEMMA StepRefines ==
  ASSUME Typing, Typing', Binding, [Next]_vars
  PROVE  [Ticketing!Next]_(Ticketing!vars)
<1>q. ASSUME tokens' = tokens, grants' = grants PROVE UNCHANGED Ticketing!vars
  BY <1>q, QuietRefines
<1>1. ASSUME NEW r \in RedeemRequest, RedeemStep(r)
      PROVE  [Ticketing!Next]_(Ticketing!vars)
  <2>1. CASE tokens' = tokens /\ grants' = grants
    BY <1>q, <2>1
  <2>2. CASE RedeemAgain(r)
    BY <2>2, AgainRefines
  <2>3. CASE DeleteExpired(r)
    <3>1. /\ tokens \in [Token -> TokenRow \cup {None}]
          /\ tokens' = [tokens EXCEPT ![redeem[r].tok] = None]
          /\ Forget({redeem[r].tok}) /\ redeem[r].tok \in Token
      BY <2>3 DEF DeleteExpired, Typing, RedeemTypeOK, NoRedemption, Redemption
    <3> QED BY <3>1, DeletedRefines
  <2>4. CASE CommitReused(r)
    <3>1. HoldsToken(r) /\ redeem[r].client \in RowId /\ redeem[r].secret \in RowId
      BY <2>4 DEF CommitReused, RedemptionShape, Typing, HoldsToken
    <3> QED BY <2>4, <3>1, BindRefines DEF CommitReused
  <2>5. CASE CommitRegistered(r)
    <3>1. HoldsToken(r) /\ r \in RowId /\ reg[r].target \in RowId
      BY <2>5, RedeemAssumption DEF CommitRegistered, CommitRegistration, HoldsToken, RowId,
            Typing, RegistrationShape
    <3> QED BY <2>5, <3>1, BindRefines DEF CommitRegistered
  <2> QED BY <1>1, <2>1, <2>2, <2>3, <2>4, <2>5 DEF RedeemStep, Proceed, Refuse, BeginValidation,
             FindExpired, ReuseClient, NeedClient, RegisterStep, redeemVars, Fail
<1>2. CASE Surroundings
  <2>1. ASSUME NEW t \in Token, Lapse(t) PROVE UNCHANGED Ticketing!vars
    <3>1. /\ tokens[t] \in TokenRow /\ tokens[t] # None
          /\ tokens' = [tokens EXCEPT ![t].expiry = "past"]
          /\ tokens \in [Token -> TokenRow \cup {None}]
      BY <2>1 DEF Lapse, Typing, RedeemTypeOK
    <3>2. /\ tokens'[t] \in TokenRow
          /\ tokens'[t].client = tokens[t].client /\ tokens'[t].man = tokens[t].man
          /\ \A u \in Token \ {t} : tokens'[u] = tokens[u]
      BY <3>1 DEF TokenRow
    <3>3. TicketOf(tokens'[t]) = TicketOf(tokens[t])
      <4>1. tokens'[t] # None
        BY <3>2, RedeemAssumption
      <4> QED BY <3>1, <3>2, <4>1 DEF TicketOf
    <3> QED BY <2>1, <3>2, <3>3, QuietRefines DEF Lapse
  <2>2. ASSUME NEW t \in Token, EnsureToken(t) PROVE Ticketing!Next
    <3> DEFINE row == [client |-> None, man |-> None, expiry |-> "never"]
    <3>1. row \in TokenRow
      BY DEF TokenRow
    <3>2. TicketOf(row) = [client |-> None, man |-> None]
      BY <3>1, RedeemAssumption, TicketFacts
    <3>3. /\ tokens[t] = None /\ tokens' = [tokens EXCEPT ![t] = row] /\ grants' = grants
          /\ tokens \in [Token -> TokenRow \cup {None}]
      BY <2>2 DEF EnsureToken, Typing, RedeemTypeOK
    <3> HIDE DEF row
    <3>4. Held[t] = None
      BY <3>3 DEF Held, TicketOf
    <3>5. Held' = [Held EXCEPT ![t] = [client |-> None, man |-> None]]
      BY <3>2, <3>3 DEF Held
    <3>6. Told' = Told
      BY <3>3 DEF Told
    <3>7. Ticketing!Issue(t)
      BY <3>4, <3>5, <3>6 DEF Ticketing!Issue, Held, Told, ToldOf
    <3> QED BY <3>7 DEF Ticketing!Next
  <2>3. ASSUME NEW u \in User, NEW o \in Org, MemberRemoved(u, o) PROVE Ticketing!Next
    <3> DEFINE gone == {t \in Token : /\ tokens[t] # None
                                      /\ tokens[t].client \in ClientsOf(u, o)}
    <3>1. /\ \A t \in gone : tokens'[t] = None
          /\ \A t \in Token \ gone : tokens'[t] = tokens[t]
          /\ Forget(gone) /\ gone \in SUBSET Token
      BY <2>3 DEF MemberRemoved
    <3> HIDE DEF gone
    <3> QED BY <3>1, DeletedRefines
  <2>4. ASSUME NEW n \in Node, NEW o \in Org, DeviceDeleted(n, o) PROVE UNCHANGED Ticketing!vars
    BY <2>4, <1>q DEF DeviceDeleted, redeemVars
  <2> QED BY <1>2, <2>1, <2>2, <2>3, <2>4, RegistryAssumption, RedeemAssumption DEF Surroundings
<1>3. ASSUME NEW r \in RedeemRequest, NEW u \in Token, NEW m \in Manifest, Redeem(r, u, m)
      PROVE  UNCHANGED Ticketing!vars
  BY <1>3, <1>q DEF Redeem
<1>4. CASE UNCHANGED redeemVars
  BY <1>4, <1>q DEF redeemVars
<1> QED BY <1>1, <1>2, <1>3, <1>4, OthersQuiet DEF Next, vars

\* Whatever the number of requests and however their transactions interleave,
\* the tokens and the answers given for them are those of RedeemTicket.
THEOREM RedeemingRefines == Spec => RedeemingIsAtomic
<1>1. RedeemInit => Typing /\ Binding /\ Ticketing!Init
  BY InitTyping, InitBinding, InitRefines
<1>2. Typing /\ Binding /\ [Next]_vars
        => Typing' /\ Binding' /\ [Ticketing!Next]_(Ticketing!vars)
  BY TypingStep, BindingStep, StepRefines
<1> QED BY <1>1, <1>2, PTL DEF Spec, RedeemingIsAtomic, Ticketing!Spec

=============================================================================
