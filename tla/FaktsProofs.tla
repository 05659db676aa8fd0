------------------------------ MODULE FaktsProofs ------------------------------
(***************************************************************************)
(* Proofs about FaktsServer: redemptions, device codes and reports on one  *)
(* set of tables, for any number of each.                                  *)
(***************************************************************************)
EXTENDS FaktsServer, ClientRegistryProofs

-----------------------------------------------------------------------------
(* The flows share the registry *)

\* Each flow has the registry's operators under a name of its own.
LEMMA SameRows ==
  /\ Redeeming!Live = Live /\ Device!Live = Live /\ Reporting!Live = Live
  /\ Redeeming!registryVars = registryVars /\ Device!registryVars = registryVars
  /\ Reporting!registryVars = registryVars
  /\ Redeeming!RowId = RowId /\ Device!RowId = RowId /\ Reporting!RowId = RowId
  /\ Redeeming!Client = Client /\ Device!Client = Client /\ Reporting!Client = Client
BY DEF Redeeming!Live, Device!Live, Reporting!Live, Live, RowId, Client,
       Redeeming!registryVars, Device!registryVars, Reporting!registryVars, registryVars,
       Redeeming!RowId, Device!RowId, Reporting!RowId,
       Redeeming!Client, Device!Client, Reporting!Client

LEMMA SameStutter ==
  /\ UNCHANGED Redeeming!registryVars <=> UNCHANGED registryVars
  /\ UNCHANGED Device!registryVars <=> UNCHANGED registryVars
  /\ UNCHANGED Reporting!registryVars <=> UNCHANGED registryVars
BY DEF Redeeming!registryVars, Device!registryVars, Reporting!registryVars, registryVars

LEMMA SameTypes ==
  /\ Redeeming!RegistryTypeOK = RegistryTypeOK
  /\ Device!RegistryTypeOK = RegistryTypeOK
BY DEF Redeeming!RegistryTypeOK, Device!RegistryTypeOK, RegistryTypeOK,
       Redeeming!Registration, Device!Registration, Registration,
       Redeeming!NoRegistration, Device!NoRegistration, NoRegistration,
       Redeeming!Running, Device!Running, Running,
       Redeeming!RowId, Device!RowId, RowId, Redeeming!Client, Device!Client, Client

LEMMA SameSteps ==
  ASSUME NEW r
  PROVE  /\ Redeeming!Register(r) <=> Register(r)
         /\ Device!Register(r) <=> Register(r)
         /\ \A u, o, k, m : /\ Redeeming!Enter(r, u, o, k, m) <=> Enter(r, u, o, k, m)
                            /\ Device!Enter(r, u, o, k, m) <=> Enter(r, u, o, k, m)
         /\ Redeeming!CommitRegistration(r) <=> CommitRegistration(r)
         /\ Device!CommitRegistration(r) <=> CommitRegistration(r)
         /\ Redeeming!Rollback(r) <=> Rollback(r)
         /\ Device!Rollback(r) <=> Rollback(r)
<1>1. /\ Redeeming!Register(r) <=> Register(r)
      /\ Device!Register(r) <=> Register(r)
  <2>1. /\ Redeeming!GetOrCreateApp(r) <=> GetOrCreateApp(r)
        /\ Device!GetOrCreateApp(r) <=> GetOrCreateApp(r)
    BY DEF Redeeming!GetOrCreateApp, Device!GetOrCreateApp, GetOrCreateApp,
           Redeeming!AppRows, Device!AppRows, AppRows, Redeeming!RowId, Device!RowId, RowId
  <2>2. /\ Redeeming!LockRelease(r) <=> LockRelease(r)
        /\ Device!LockRelease(r) <=> LockRelease(r)
    BY DEF Redeeming!LockRelease, Device!LockRelease, LockRelease,
           Redeeming!HoldsRelease, Device!HoldsRelease, HoldsRelease,
           Redeeming!SameRelease, Device!SameRelease, SameRelease
  <2>3. Redeeming!Matching(r) = Matching(r) /\ Device!Matching(r) = Matching(r)
    BY DEF Redeeming!Matching, Device!Matching, Matching, Redeeming!Key, Device!Key, Key,
           Redeeming!Registered, Device!Registered, Registered,
           Redeeming!Live, Device!Live, Live, Redeeming!RowId, Device!RowId, RowId
  <2>4. Redeeming!Upsert(r) <=> Upsert(r)
    BY <2>3 DEF Redeeming!Upsert, Upsert, Redeeming!RowId, RowId
  <2>5. Device!Upsert(r) <=> Upsert(r)
    BY <2>3 DEF Device!Upsert, Upsert, Device!RowId, RowId
  <2> QED BY <2>1, <2>2, <2>4, <2>5 DEF Redeeming!Register, Device!Register, Register
<1>2. ASSUME NEW u, NEW o, NEW k, NEW m
      PROVE  /\ Redeeming!Enter(r, u, o, k, m) <=> Enter(r, u, o, k, m)
             /\ Device!Enter(r, u, o, k, m) <=> Enter(r, u, o, k, m)
  BY DEF Redeeming!Enter, Device!Enter, Enter
<1>3. /\ Redeeming!CommitRegistration(r) <=> CommitRegistration(r)
      /\ Device!CommitRegistration(r) <=> CommitRegistration(r)
  BY DEF Redeeming!CommitRegistration, Device!CommitRegistration, CommitRegistration,
         Redeeming!Registered, Device!Registered, Registered
<1>4. /\ Redeeming!Rollback(r) <=> Rollback(r)
      /\ Device!Rollback(r) <=> Rollback(r)
  BY DEF Redeeming!Rollback, Device!Rollback, Rollback,
         Redeeming!Running, Device!Running, Running
<1> QED BY <1>1, <1>2, <1>3, <1>4

LEMMA SameRemoval ==
  ASSUME NEW u, NEW o
  PROVE  /\ Redeeming!ClientsOf(u, o) = ClientsOf(u, o)
         /\ Device!ClientsOf(u, o) = ClientsOf(u, o)
         /\ Redeeming!RemoveMember(u, o) <=> RemoveMember(u, o)
<1>1. /\ Redeeming!ClientsOf(u, o) = ClientsOf(u, o)
      /\ Device!ClientsOf(u, o) = ClientsOf(u, o)
  BY DEF Redeeming!ClientsOf, Device!ClientsOf, ClientsOf,
         Redeeming!Live, Device!Live, Live, Redeeming!RowId, Device!RowId, RowId
<1>2. Redeeming!LockedClients = LockedClients
  BY DEF Redeeming!LockedClients, LockedClients, Redeeming!RowId, RowId
<1>3. Redeeming!RemoveMember(u, o) <=> RemoveMember(u, o)
  BY <1>1, <1>2 DEF Redeeming!RemoveMember, RemoveMember, Redeeming!Doom, Doom,
                    Redeeming!RowId, RowId
<1> QED BY <1>1, <1>3

-----------------------------------------------------------------------------
(* The types *)

\* A redemption that reuses a client remembers the client and its secret; a
\* token that is held is there, and so is the client it is bound to.
RedeemTyping ==
  /\ tokens \in [Token -> Redeeming!TokenRow \cup {None}]
  /\ redeem \in [RedeemRequest -> Redeeming!Redemption \cup {Redeeming!NoRedemption}]
  /\ grants \in SUBSET Redeeming!Grant
  /\ \A r \in RedeemRequest :
       redeem[r].stage = "attach" => redeem[r].client \in RowId /\ redeem[r].secret \in RowId
  /\ \A r \in RedeemRequest : Redeeming!HoldsToken(r) => tokens[redeem[r].tok] # None
  /\ \A t \in Token : tokens[t] # None /\ tokens[t].client # None => tokens[t].client \in Live

CodeTyping ==
  /\ codes \in [Code -> Device!CodeRow \cup {None}]
  /\ lapsed \in SUBSET Code
  /\ device \in [Code -> {"new", "polling", "deleting", "expired"}]
  /\ accept \in [AcceptRequest -> Device!Acceptance \cup {Device!NoAcceptance}]
  /\ answers \in SUBSET Device!CodeAnswer
  /\ \A c \in Code : codes[c] # None /\ codes[c].client # None => codes[c].client \in Live

ReportTyping == report \in [ReportRequest -> Reporting!Report \cup {Reporting!NoReport}]

Typing == RegistryTypeOK /\ RegistrationShape /\ RedeemTyping /\ CodeTyping /\ ReportTyping

LEMMA TypingIsTypeOK == Typing => FaktsTypeOK
BY SameTypes
   DEF Typing, RedeemTyping, CodeTyping, ReportTyping, FaktsTypeOK,
       Redeeming!RedeemTypeOK, Device!DeviceTypeOK, Reporting!ReportTypeOK

\* A flow keeps its types while the others take steps that delete no client.
LEMMA RedeemStays ==
  ASSUME RedeemTyping, UNCHANGED redeemVars, Live \subseteq Live'
  PROVE  RedeemTyping'
BY DEF RedeemTyping, redeemVars, Redeeming!HoldsToken

LEMMA DeviceStays ==
  ASSUME CodeTyping, UNCHANGED deviceVars, Live \subseteq Live'
  PROVE  CodeTyping'
BY DEF CodeTyping, deviceVars

LEMMA RegistryStays ==
  ASSUME RegistryTypeOK, RegistrationShape, UNCHANGED registryVars
  PROVE  RegistryTypeOK' /\ RegistrationShape' /\ Live' = Live
BY DEF RegistryTypeOK, RegistrationShape, registryVars, Live

LEMMA InitTyping == FaktsInit => Typing
<1> SUFFICES ASSUME FaktsInit PROVE Typing
  OBVIOUS
<1> USE RegistryAssumption, FaktsAssumption
<1>i. /\ apps = [a \in RowId |-> IF a \in Seed THEN IdentOf[SeedMan[a]] ELSE None]
      /\ clients = [c \in RowId |->
           IF c \in Seed
             THEN [app |-> c, user |-> SeedUser[c], org |-> OrgOf[SeedComp[c]],
                   comp |-> SeedComp[c], node |-> NodeOf[SeedMan[c]], man |-> SeedMan[c],
                   secret |-> c]
             ELSE None]
      /\ members = User \X Org
      /\ reg = [r \in Request |-> NoRegistration]
  BY SameRows DEF FaktsInit, Redeeming!RedeemInit, Redeeming!RegistryInit,
     Redeeming!NoRegistration, NoRegistration
<1>1. RegistryTypeOK
  <2>1. apps \in [RowId -> Ident \cup {None}]
    BY <1>i DEF RowId
  <2>2. clients \in [RowId -> Client \cup {None}]
    BY <1>i DEF RowId, Client
  <2>3. members \in SUBSET (User \X Org)
    BY <1>i
  <2>4. reg \in [Request -> Registration \cup {NoRegistration}]
    BY <1>i
  <2> QED BY <2>1, <2>2, <2>3, <2>4 DEF RegistryTypeOK
<1>2. RegistrationShape
  BY <1>i DEF RegistrationShape, NoRegistration
<1>t. tokens = [t \in Token |->
        [client |-> IF t \in Seed THEN t ELSE None, man |-> None,
         expiry |-> IF t \in Expiring THEN "ahead" ELSE "never"]]
  BY DEF FaktsInit, Redeeming!RedeemInit
<1>3. RedeemTyping
  <2>1. tokens \in [Token -> Redeeming!TokenRow \cup {None}]
    BY <1>t DEF Redeeming!TokenRow, Redeeming!RowId
  <2>2. redeem = [r \in RedeemRequest |-> Redeeming!NoRedemption] /\ grants = {}
    BY DEF FaktsInit, Redeeming!RedeemInit
  <2>3. ASSUME NEW t \in Token, tokens[t].client # None
        PROVE  tokens[t].client \in Live
    <3>1. t \in Seed /\ tokens[t].client = t
      BY <1>t, <2>3
    <3>2. clients[t] \in Client
      BY <1>i, <3>1 DEF RowId, Client
    <3> QED BY <3>1, <3>2 DEF Live, RowId
  <2> QED BY <2>1, <2>2, <2>3
          DEF RedeemTyping, Redeeming!NoRedemption, Redeeming!HoldsToken
<1>4. CodeTyping
  BY DEF FaktsInit, Device!DeviceOwnInit, CodeTyping
<1>5. ReportTyping
  BY DEF FaktsInit, Reporting!ReportInit, ReportTyping
<1> QED BY <1>1, <1>2, <1>3, <1>4, <1>5 DEF Typing

-----------------------------------------------------------------------------
(* The types: redemptions *)

\* An answer is recorded.
LEMMA GrantedTyping ==
  ASSUME NEW r \in RedeemRequest, NEW c \in RowId, NEW s \in RowId,
         redeem[r] \in Redeeming!Redemption, grants \in SUBSET Redeeming!Grant,
         Redeeming!Granted(r, c, s)
  PROVE  grants' \in SUBSET Redeeming!Grant
BY SameRows DEF Redeeming!Redemption, Redeeming!Grant, Redeeming!Granted

\* A request goes on without writing a token row, holding one it did not hold
\* only if the row is there.
LEMMA AnswerTyping ==
  ASSUME NEW r \in RedeemRequest, redeem[r] \in Redeeming!Redemption, RedeemTyping,
         NEW status \in {"expired", "lookup", "register", "done"},
         Redeeming!Answer(r, status), tokens' = tokens, grants' = grants, Live \subseteq Live',
         tokens[redeem[r].tok] # None \/ status \in {"expired", "done"}
  PROVE  RedeemTyping'
<1>1. /\ redeem'[r] = [redeem[r] EXCEPT !.stage = status]
      /\ \A q \in RedeemRequest \ {r} : redeem'[q] = redeem[q]
      /\ redeem' \in [RedeemRequest -> Redeeming!Redemption \cup {Redeeming!NoRedemption}]
  BY DEF Redeeming!Answer, RedeemTyping, Redeeming!Redemption
<1>2. redeem'[r].stage = status /\ redeem'[r].tok = redeem[r].tok
  BY <1>1 DEF Redeeming!Redemption
<1>3. \A q \in RedeemRequest :
        redeem'[q].stage = "attach" => redeem'[q].client \in RowId /\ redeem'[q].secret \in RowId
  BY <1>1, <1>2 DEF RedeemTyping
<1>4. \A q \in RedeemRequest : Redeeming!HoldsToken(q)' => tokens[redeem'[q].tok] # None
  BY <1>1, <1>2 DEF RedeemTyping, Redeeming!HoldsToken
<1> QED BY <1>1, <1>3, <1>4 DEF RedeemTyping

\* A token is bound to a client and the request is answered.
LEMMA BindTyping ==
  ASSUME NEW r \in RedeemRequest, NEW c \in RowId, NEW s \in RowId,
         Redeeming!HoldsToken(r), Redeeming!Bind(r, c, s), RedeemTyping,
         Live' = Live \cup {c}
  PROVE  /\ RedeemTyping'
         /\ redeem[r].tok \in Token /\ tokens'[redeem[r].tok].client = c
         /\ \A t \in Token \ {redeem[r].tok} : tokens'[t] = tokens[t]
         /\ redeem'[r].stage = "done"
         /\ \A q \in RedeemRequest \ {r} : redeem'[q] = redeem[q]
<1> DEFINE t == redeem[r].tok
<1>1. redeem[r] \in Redeeming!Redemption /\ tokens[t] # None
  BY DEF RedeemTyping, Redeeming!HoldsToken, Redeeming!NoRedemption
<1>2. t \in Token /\ redeem[r].man \in Manifest /\ tokens[t] \in Redeeming!TokenRow
  BY <1>1 DEF Redeeming!Redemption, RedeemTyping
<1>3. tokens' = [tokens EXCEPT ![t].client = c, ![t].man = redeem[r].man]
  BY DEF Redeeming!Bind
<1>4. tokens'[t] = [tokens[t] EXCEPT !.client = c, !.man = redeem[r].man]
  BY <1>2, <1>3 DEF RedeemTyping
<1>5. tokens'[t] \in Redeeming!TokenRow /\ tokens'[t].client = c
  BY <1>2, <1>4, SameRows DEF Redeeming!TokenRow
<1>6. \A u \in Token \ {t} : tokens'[u] = tokens[u]
  BY <1>2, <1>3 DEF RedeemTyping
<1>7. tokens' \in [Token -> Redeeming!TokenRow \cup {None}]
  BY <1>2, <1>3, <1>5, <1>6 DEF RedeemTyping
<1>8. grants' \in SUBSET Redeeming!Grant
  BY <1>1, GrantedTyping DEF Redeeming!Bind, RedeemTyping
<1>9. /\ redeem' \in [RedeemRequest -> Redeeming!Redemption \cup {Redeeming!NoRedemption}]
      /\ redeem'[r].stage = "done"
      /\ \A q \in RedeemRequest \ {r} : redeem'[q] = redeem[q]
  BY <1>1 DEF Redeeming!Bind, Redeeming!Answer, Redeeming!Redemption, RedeemTyping
<1>10. \A q \in RedeemRequest : Redeeming!HoldsToken(q)' => tokens'[redeem'[q].tok] # None
  <2>1. \A q \in RedeemRequest :
          Redeeming!HoldsToken(q)' => Redeeming!HoldsToken(q) /\ redeem'[q].tok = redeem[q].tok
    BY <1>9 DEF Redeeming!HoldsToken
  <2>2. \A u \in Token : tokens[u] # None => tokens'[u] # None
    BY <1>5, <1>6, FaktsAssumption
  <2>3. \A q \in RedeemRequest : Redeeming!HoldsToken(q) => redeem[q].tok \in Token
    BY DEF Redeeming!HoldsToken, RedeemTyping, Redeeming!NoRedemption, Redeeming!Redemption
  <2> QED BY <2>1, <2>2, <2>3 DEF RedeemTyping
<1>11. \A u \in Token : tokens'[u] # None /\ tokens'[u].client # None => tokens'[u].client \in Live'
  BY <1>5, <1>6 DEF RedeemTyping
<1>12. \A q \in RedeemRequest :
         redeem'[q].stage = "attach" => redeem'[q].client \in RowId /\ redeem'[q].secret \in RowId
  BY <1>9 DEF RedeemTyping
<1>13. RedeemTyping'
  BY <1>7, <1>8, <1>9, <1>10, <1>11, <1>12 DEF RedeemTyping
<1> QED BY <1>2, <1>5, <1>6, <1>9, <1>13

LEMMA RedeemStepTyping ==
  ASSUME Typing, NEW r \in RedeemRequest, Redeeming!RedeemStep(r)
  PROVE  RegistryTypeOK' /\ RegistrationShape' /\ RedeemTyping' /\ Live \subseteq Live'
<1>r. r \in Request /\ r \in RowId
  BY FaktsAssumption DEF RowId
<1>t. redeem[r].stage # "new" => redeem[r] \in Redeeming!Redemption
  BY DEF Redeeming!NoRedemption, Typing, RedeemTyping
<1>1. CASE Redeeming!Refuse(r)
  BY <1>1, <1>t, AnswerTyping, RegistryStays, SameStutter DEF Redeeming!Refuse, Typing
<1>2. CASE Redeeming!RedeemAgain(r)
  <2> DEFINE t == redeem[r].tok
  <2>1. redeem[r] \in Redeeming!Redemption /\ tokens[t] # None /\ tokens[t].client # None
    BY <1>2, <1>t DEF Redeeming!RedeemAgain
  <2>2. t \in Token /\ redeem[r].man \in Manifest
    BY <2>1 DEF Redeeming!Redemption
  <2>3. tokens[t] \in Redeeming!TokenRow /\ tokens[t].client \in Live
    BY <2>1, <2>2 DEF Typing, RedeemTyping
  <2>4. tokens[t].client \in RowId /\ clients[tokens[t].client].secret \in RowId
    BY <2>3 DEF Live, Client, Typing, RegistryTypeOK
  <2>5. tokens' = [tokens EXCEPT ![t].man = redeem[r].man]
    BY <1>2 DEF Redeeming!RedeemAgain
  <2>6. /\ tokens'[t] \in Redeeming!TokenRow /\ tokens'[t].client = tokens[t].client
        /\ \A u \in Token \ {t} : tokens'[u] = tokens[u]
        /\ tokens' \in [Token -> Redeeming!TokenRow \cup {None}]
    BY <2>2, <2>3, <2>5 DEF Redeeming!TokenRow, Typing, RedeemTyping
  <2>7. grants' \in SUBSET Redeeming!Grant
    BY <1>2, <2>1, <2>4, GrantedTyping DEF Redeeming!RedeemAgain, Typing, RedeemTyping
  <2>8. /\ redeem' \in [RedeemRequest -> Redeeming!Redemption \cup {Redeeming!NoRedemption}]
        /\ redeem'[r].stage = "done"
        /\ \A q \in RedeemRequest \ {r} : redeem'[q] = redeem[q]
    BY <1>2, <2>1
       DEF Redeeming!RedeemAgain, Redeeming!Answer, Redeeming!Redemption, Typing, RedeemTyping
  <2>9. RegistryTypeOK' /\ RegistrationShape' /\ Live' = Live
    BY <1>2, RegistryStays, SameStutter DEF Redeeming!RedeemAgain, Typing
  <2>10. \A q \in RedeemRequest : Redeeming!HoldsToken(q)' => tokens'[redeem'[q].tok] # None
    BY <2>1, <2>2, <2>6, <2>8, FaktsAssumption DEF Redeeming!HoldsToken, Typing, RedeemTyping,
       Redeeming!Redemption, Redeeming!NoRedemption
  <2>11. \A u \in Token : tokens'[u] # None /\ tokens'[u].client # None =>
           tokens'[u].client \in Live'
    BY <2>3, <2>6, <2>9 DEF Typing, RedeemTyping
  <2> QED BY <2>6, <2>7, <2>8, <2>9, <2>10, <2>11 DEF Typing, RedeemTyping
<1>3. CASE Redeeming!BeginValidation(r)
  BY <1>3, <1>t, AnswerTyping, RegistryStays, SameStutter DEF Redeeming!BeginValidation, Typing
<1>4. CASE Redeeming!FindExpired(r)
  BY <1>4, <1>t, AnswerTyping, RegistryStays, SameStutter DEF Redeeming!FindExpired, Typing
<1>5. CASE Redeeming!DeleteExpired(r)
  <2> DEFINE t == redeem[r].tok
  <2>1. redeem[r] \in Redeeming!Redemption
    BY <1>5, <1>t DEF Redeeming!DeleteExpired
  <2>2. /\ redeem' \in [RedeemRequest -> Redeeming!Redemption \cup {Redeeming!NoRedemption}]
        /\ redeem'[r].stage = "done"
        /\ \A q \in RedeemRequest \ {r} : redeem'[q] = redeem[q]
    BY <1>5, <2>1
       DEF Redeeming!DeleteExpired, Redeeming!Answer, Redeeming!Redemption, Typing, RedeemTyping
  <2>3. RegistryTypeOK' /\ RegistrationShape' /\ Live' = Live
    BY <1>5, RegistryStays, SameStutter DEF Redeeming!DeleteExpired, Typing
  <2>4. tokens' = [tokens EXCEPT ![t] = None] /\ grants' \subseteq grants
    BY <1>5 DEF Redeeming!DeleteExpired, Redeeming!Forget
  <2>5. \A q \in RedeemRequest : Redeeming!HoldsToken(q)' => tokens'[redeem'[q].tok] # None
    <3> SUFFICES ASSUME NEW q \in RedeemRequest, Redeeming!HoldsToken(q)'
                 PROVE  tokens'[redeem'[q].tok] # None
      OBVIOUS
    <3>1. Redeeming!HoldsToken(q) /\ redeem'[q] = redeem[q]
      BY <2>2 DEF Redeeming!HoldsToken
    <3>2. redeem[q].tok # t
      BY <1>5, <3>1 DEF Redeeming!DeleteExpired, Redeeming!Locked
    <3>3. redeem[q].tok \in Token
      BY <3>1 DEF Redeeming!HoldsToken, Typing, RedeemTyping, Redeeming!NoRedemption,
         Redeeming!Redemption
    <3> QED BY <2>4, <3>1, <3>2, <3>3 DEF Typing, RedeemTyping
  <2> QED BY <2>2, <2>3, <2>4, <2>5 DEF Typing, RedeemTyping
<1>6. CASE Redeeming!ReuseClient(r)
  <2>1. PICK c \in Redeeming!Reusable(redeem[r].tok, redeem[r].man) :
          redeem' = [redeem EXCEPT ![r].stage = "attach", ![r].client = c,
                                   ![r].secret = clients[c].secret]
    BY <1>6 DEF Redeeming!ReuseClient
  <2>2. c \in RowId /\ clients[c].secret \in RowId
    BY SameRows DEF Redeeming!Reusable, Live, Typing, RegistryTypeOK, Client
  <2>3. redeem[r] \in Redeeming!Redemption
    BY <1>6, <1>t DEF Redeeming!ReuseClient
  <2>4. redeem'[r] = [redeem[r] EXCEPT !.stage = "attach", !.client = c,
                                       !.secret = clients[c].secret]
    BY <2>1 DEF Typing, RedeemTyping
  <2>5. /\ redeem'[r] \in Redeeming!Redemption
        /\ redeem'[r].client = c /\ redeem'[r].secret = clients[c].secret
        /\ redeem'[r].tok = redeem[r].tok
    BY <2>2, <2>3, <2>4, SameRows DEF Redeeming!Redemption
  <2>6. /\ redeem' \in [RedeemRequest -> Redeeming!Redemption \cup {Redeeming!NoRedemption}]
        /\ \A q \in RedeemRequest \ {r} : redeem'[q] = redeem[q]
    BY <2>1, <2>5 DEF Typing, RedeemTyping
  <2>7. RegistryTypeOK' /\ RegistrationShape' /\ Live' = Live /\ UNCHANGED <<tokens, grants>>
    BY <1>6, RegistryStays, SameStutter DEF Redeeming!ReuseClient, Typing
  <2>8. Redeeming!HoldsToken(r)
    BY <1>6 DEF Redeeming!ReuseClient, Redeeming!HoldsToken
  <2>9. \A q \in RedeemRequest :
          /\ Redeeming!HoldsToken(q)' =>
               Redeeming!HoldsToken(q) /\ redeem'[q].tok = redeem[q].tok
          /\ redeem'[q].stage = "attach" =>
               redeem'[q].client \in RowId /\ redeem'[q].secret \in RowId
    BY <2>2, <2>5, <2>6, <2>8 DEF Redeeming!HoldsToken, Typing, RedeemTyping
  <2> QED BY <2>6, <2>7, <2>9 DEF Typing, RedeemTyping
<1>7. CASE Redeeming!NeedClient(r)
  <2>1. redeem[r] \in Redeeming!Redemption
    BY <1>7, <1>t DEF Redeeming!NeedClient
  <2>2. redeem[r].tok \in Token /\ redeem[r].man \in Manifest
    BY <2>1 DEF Redeeming!Redemption
  <2>3. /\ TokenUser[redeem[r].tok] \in User /\ TokenComp[redeem[r].tok] \in Comp
        /\ OrgOf[TokenComp[redeem[r].tok]] \in Org
    BY <2>2, RegistryAssumption, FaktsAssumption
  <2>4. Enter(r, TokenUser[redeem[r].tok], OrgOf[TokenComp[redeem[r].tok]],
              TokenComp[redeem[r].tok], redeem[r].man)
    BY <1>7, SameSteps DEF Redeeming!NeedClient
  <2>5. /\ RegistryTypeOK' /\ RegistrationShape' /\ Live' = Live
    BY <1>7, <1>r, <2>2, <2>3, <2>4, EnterTyping DEF Redeeming!NeedClient, Typing, Live
  <2>6. Redeeming!HoldsToken(r)
    BY <1>7 DEF Redeeming!NeedClient, Redeeming!HoldsToken
  <2> QED BY <1>7, <2>1, <2>5, <2>6, AnswerTyping DEF Redeeming!NeedClient, Typing, RedeemTyping
<1>8. CASE Redeeming!RegisterStep(r)
  <2>1. Register(r) /\ UNCHANGED redeemVars
    BY <1>8, SameSteps DEF Redeeming!RegisterStep, Redeeming!redeemVars, redeemVars
  <2>2. RegistryTypeOK' /\ RegistrationShape' /\ Live' = Live
    BY <1>r, <2>1, RegisterTyping DEF Typing, Live
  <2> QED BY <2>1, <2>2, RedeemStays DEF Typing
<1>9. CASE Redeeming!CommitReused(r)
  <2>1. /\ Redeeming!HoldsToken(r) /\ redeem[r].client \in RowId /\ redeem[r].secret \in RowId
        /\ Redeeming!Bind(r, redeem[r].client, redeem[r].secret)
    BY <1>9 DEF Redeeming!CommitReused, Redeeming!HoldsToken, Typing, RedeemTyping
  <2>2. RegistryTypeOK' /\ RegistrationShape' /\ Live' = Live /\ redeem[r].client \in Live
    BY <1>9, RegistryStays, SameStutter, SameRows DEF Redeeming!CommitReused, Typing
  <2> QED BY <2>1, <2>2, BindTyping DEF Typing
<1>10. CASE Redeeming!CommitRegistered(r)
  <2>1. /\ Redeeming!HoldsToken(r) /\ CommitRegistration(r)
        /\ Redeeming!Bind(r, reg[r].target, r)
    BY <1>10, SameSteps DEF Redeeming!CommitRegistered, Redeeming!HoldsToken
  <2>2. /\ RegistryTypeOK' /\ RegistrationShape'
        /\ Live' = Live \cup {reg[r].target}
        /\ reg[r].target \in RowId
    BY <1>r, <2>1, CommitTyping DEF Typing
  <2> QED BY <1>r, <2>1, <2>2, BindTyping DEF Typing
<1>11. CASE Redeeming!Fail(r)
  <2>1. redeem[r] \in Redeeming!Redemption
    BY <1>11, <1>t DEF Redeeming!Fail
  <2>2. RegistryTypeOK' /\ RegistrationShape' /\ Live' = Live
    <3>1. CASE Redeeming!Rollback(r)
      BY <3>1, <1>r, RollbackTyping, SameSteps DEF Typing, Live
    <3>2. CASE UNCHANGED registryVars
      BY <3>2, RegistryStays DEF Typing
    <3> QED BY <1>11, <3>1, <3>2, SameStutter DEF Redeeming!Fail
  <2> QED BY <1>11, <2>1, <2>2, AnswerTyping DEF Redeeming!Fail, Typing
<1> QED BY <1>1, <1>2, <1>3, <1>4, <1>5, <1>6, <1>7, <1>8, <1>9, <1>10, <1>11
        DEF Redeeming!RedeemStep, Redeeming!Proceed

\* A redemption arrives, a token expires or is configured.
TokenStep ==
  \/ \E r \in RedeemRequest, t \in Token, m \in Manifest : Redeeming!Redeem(r, t, m)
  \/ \E t \in Token : Redeeming!Lapse(t)
  \/ \E t \in Configured : Redeeming!EnsureToken(t)

LEMMA TokenStepTyping ==
  ASSUME Typing, TokenStep
  PROVE  UNCHANGED registryVars /\ RedeemTyping'
<1>r. UNCHANGED registryVars /\ Live' = Live
  BY SameStutter DEF TokenStep, Redeeming!Redeem, Redeeming!Lapse, Redeeming!EnsureToken,
     registryVars, Live

\* A step that writes the token rows alone and deletes none.
<1>s. ASSUME UNCHANGED <<redeem, grants>>,
             tokens' \in [Token -> Redeeming!TokenRow \cup {None}],
             \A t \in Token : tokens'[t] # None =>
               \/ tokens'[t].client = None
               \/ tokens[t] # None /\ tokens'[t].client = tokens[t].client,
             \A t \in Token : tokens[t] # None => tokens'[t] # None
      PROVE  RedeemTyping'
  <2>1. \A r \in RedeemRequest : Redeeming!HoldsToken(r) => redeem[r].tok \in Token
    BY DEF Redeeming!HoldsToken, Typing, RedeemTyping, Redeeming!NoRedemption,
       Redeeming!Redemption
  <2> QED BY <1>r, <1>s, <2>1 DEF Typing, RedeemTyping, Redeeming!HoldsToken
<1>1. ASSUME NEW r \in RedeemRequest, NEW t \in Token, NEW m \in Manifest,
             Redeeming!Redeem(r, t, m)
      PROVE  RedeemTyping'
  <2>1. /\ redeem' \in [RedeemRequest -> Redeeming!Redemption \cup {Redeeming!NoRedemption}]
        /\ redeem'[r].stage = "lock" /\ \A q \in RedeemRequest \ {r} : redeem'[q] = redeem[q]
        /\ UNCHANGED <<tokens, grants>>
    BY <1>1 DEF Redeeming!Redeem, Redeeming!Redemption, Typing, RedeemTyping
  <2> QED BY <1>r, <2>1 DEF Typing, RedeemTyping, Redeeming!HoldsToken
<1>2. ASSUME NEW t \in Token, Redeeming!Lapse(t) PROVE RedeemTyping'
  <2>1. tokens[t] \in Redeeming!TokenRow /\ tokens[t] # None
    BY <1>2 DEF Redeeming!Lapse, Typing, RedeemTyping
  <2>2. tokens' = [tokens EXCEPT ![t].expiry = "past"]
    BY <1>2 DEF Redeeming!Lapse
  <2>3. /\ tokens'[t] \in Redeeming!TokenRow /\ tokens'[t].client = tokens[t].client
        /\ \A u \in Token \ {t} : tokens'[u] = tokens[u]
        /\ tokens' \in [Token -> Redeeming!TokenRow \cup {None}]
    BY <2>1, <2>2 DEF Redeeming!TokenRow, Typing, RedeemTyping
  <2>4. /\ \A u \in Token : tokens[u] # None => tokens'[u] # None
        /\ \A u \in Token : tokens'[u] # None =>
             tokens[u] # None /\ tokens'[u].client = tokens[u].client
    BY <2>1, <2>3, FaktsAssumption
  <2> QED BY <1>2, <1>s, <2>3, <2>4 DEF Redeeming!Lapse
<1>3. ASSUME NEW t \in Configured, Redeeming!EnsureToken(t) PROVE RedeemTyping'
  <2>1. /\ tokens' = [tokens EXCEPT ![t] = [client |-> None, man |-> None, expiry |-> "never"]]
        /\ t \in Token
    BY <1>3, FaktsAssumption DEF Redeeming!EnsureToken
  <2>2. [client |-> None, man |-> None, expiry |-> "never"] \in Redeeming!TokenRow
    BY DEF Redeeming!TokenRow
  <2>3. /\ tokens' \in [Token -> Redeeming!TokenRow \cup {None}]
        /\ tokens'[t] # None /\ tokens'[t].client = None
        /\ \A u \in Token \ {t} : tokens'[u] = tokens[u]
    BY <2>1, <2>2, FaktsAssumption DEF Typing, RedeemTyping
  <2> QED BY <1>3, <1>s, <2>3 DEF Redeeming!EnsureToken
<1> QED BY <1>r, <1>1, <1>2, <1>3 DEF TokenStep

-----------------------------------------------------------------------------
(* The types: device codes and reports *)

\* The app's side of a code.
AppStep ==
  \/ \E c \in Code, m \in Manifest : Device!StartDeviceCode(c, m)
  \/ \E c \in Code : \/ Device!Lapse(c) \/ Device!PollGranted(c)
                     \/ Device!PollFindsExpired(c) \/ Device!DeleteExpiredCode(c)

LEMMA AppTyping ==
  ASSUME Typing, AppStep
  PROVE  UNCHANGED registryVars /\ UNCHANGED accept /\ CodeTyping'
<1> USE FaktsAssumption
<1>r. UNCHANGED registryVars /\ UNCHANGED accept /\ Live' = Live
  BY SameStutter DEF AppStep, Device!StartDeviceCode, Device!Lapse, Device!PollGranted,
     Device!PollFindsExpired, Device!DeleteExpiredCode, registryVars, Live
<1>1. CASE \E c \in Code, m \in Manifest : Device!StartDeviceCode(c, m)
  <2>1. PICK c \in Code, m \in Manifest : Device!StartDeviceCode(c, m)
    BY <1>1
  <2>2. [man |-> m, client |-> None] \in Device!CodeRow
    BY DEF Device!CodeRow
  <2> QED BY <1>r, <2>1, <2>2 DEF Device!StartDeviceCode, Typing, CodeTyping
<1>2. ASSUME NEW c \in Code, Device!Lapse(c) PROVE CodeTyping'
  BY <1>r, <1>2 DEF Device!Lapse, Typing, CodeTyping
<1>3. ASSUME NEW c \in Code, Device!PollGranted(c) PROVE CodeTyping'
  <2>1. codes[c].client \in Live /\ codes[c].client \in RowId
    BY <1>3 DEF Device!PollGranted, Typing, CodeTyping, Live
  <2>2. clients[codes[c].client] \in Client
    BY <2>1 DEF Live, Typing, RegistryTypeOK
  <2>3. [code |-> c, client |-> codes[c].client, row |-> clients[codes[c].client]]
          \in Device!CodeAnswer
    BY <2>1, <2>2, SameRows DEF Device!CodeAnswer
  <2> QED BY <1>3, <1>r, <2>3 DEF Device!PollGranted, Typing, CodeTyping
<1>4. ASSUME NEW c \in Code, Device!PollFindsExpired(c) PROVE CodeTyping'
  BY <1>4, <1>r DEF Device!PollFindsExpired, Typing, CodeTyping
<1>5. ASSUME NEW c \in Code, Device!DeleteExpiredCode(c) PROVE CodeTyping'
  BY <1>5, <1>r DEF Device!DeleteExpiredCode, Typing, CodeTyping
<1> QED BY <1>r, <1>1, <1>2, <1>3, <1>4, <1>5 DEF AppStep

\* An acceptance, or a client that registers another one, begins.
BeginsAccept(r, c, u, o, k, m) ==
  /\ accept[r].stage = "new"
  /\ accept' = [accept EXCEPT ![r] =
       [stage |-> "register", code |-> c, user |-> u, org |-> o, comp |-> k]]
  /\ Enter(r, u, o, k, m)
  /\ UNCHANGED <<apps, clients, members, codes, lapsed, device, answers>>

\* An acceptance begins or goes on.
AcceptStepOf(r) ==
  \/ \E c \in Code, u \in User, k \in Comp :
       Device!BeginAccept(r, c, u, k) \/ Device!ValidateCode(r, c, u, k)
  \/ \E b \in Device!Live, u \in User, o \in Org, m \in Manifest :
       Device!BeginDevelop(r, b, u, o, m)
  \/ Device!AcceptStep(r)

LEMMA AcceptSteps ==
  ASSUME Typing, NEW r \in AcceptRequest, AcceptStepOf(r)
  PROVE  \/ \E c \in Code \cup {None}, u \in User, o \in Org, k \in Comp, m \in Manifest :
              BeginsAccept(r, c, u, o, k, m)
         \/ Device!AcceptStep(r)
<1>1. ASSUME NEW c \in Code, NEW u \in User, NEW k \in Comp, Device!BeginAccept(r, c, u, k)
      PROVE  \E d \in Code \cup {None}, v \in User, o \in Org, l \in Comp, m \in Manifest :
               BeginsAccept(r, d, v, o, l, m)
  <2>1. codes[c].man \in Manifest /\ OrgOf[k] \in Org
    BY <1>1, RegistryAssumption DEF Device!BeginAccept, Device!CodeRow, Typing, CodeTyping
  <2>2. BeginsAccept(r, c, u, OrgOf[k], k, codes[c].man)
    BY <1>1, SameSteps DEF Device!BeginAccept, BeginsAccept
  <2> QED BY <2>1, <2>2
<1>2. ASSUME NEW b \in Device!Live, NEW u \in User, NEW o \in Org, NEW m \in Manifest,
             Device!BeginDevelop(r, b, u, o, m)
      PROVE  \E d \in Code \cup {None}, v \in User, p \in Org, l \in Comp, n \in Manifest :
               BeginsAccept(r, d, v, p, l, n)
  <2>1. clients[b].comp \in Comp
    BY SameRows DEF Live, Typing, RegistryTypeOK, Client
  <2>2. BeginsAccept(r, None, u, o, clients[b].comp, m)
    BY <1>2, SameSteps DEF Device!BeginDevelop, BeginsAccept
  <2> QED BY <2>1, <2>2
<1> QED BY <1>1, <1>2 DEF AcceptStepOf, Device!ValidateCode

LEMMA AcceptTyping ==
  ASSUME NEW r \in AcceptRequest, Typing, AcceptStepOf(r)
  PROVE  RegistryTypeOK' /\ RegistrationShape' /\ CodeTyping' /\ Live \subseteq Live'
<1> USE FaktsAssumption
<1>1. ASSUME NEW c \in Code \cup {None}, NEW u \in User, NEW o \in Org, NEW k \in Comp,
             NEW m \in Manifest, BeginsAccept(r, c, u, o, k, m)
      PROVE  RegistryTypeOK' /\ RegistrationShape' /\ CodeTyping' /\ Live \subseteq Live'
  <2>1. RegistryTypeOK' /\ RegistrationShape' /\ Live' = Live
    BY <1>1, EnterTyping DEF BeginsAccept, Typing, Live
  <2> QED BY <1>1, <2>1 DEF BeginsAccept, Device!Acceptance, Typing, CodeTyping
<1>2. CASE Device!AcceptRegisters(r)
  <2>1. Register(r) /\ UNCHANGED deviceVars
    BY <1>2, SameSteps DEF Device!AcceptRegisters, Device!deviceVars, deviceVars
  <2>2. RegistryTypeOK' /\ RegistrationShape' /\ Live' = Live
    BY <2>1, RegisterTyping DEF Typing, Live
  <2> QED BY <2>1, <2>2, DeviceStays DEF Typing
<1>3. CASE Device!CommitAccept(r)
  <2>1. /\ RegistryTypeOK' /\ RegistrationShape'
        /\ Live' = Live \cup {reg[r].target} /\ reg[r].target \in RowId
    BY <1>3, CommitTyping, SameSteps DEF Device!CommitAccept, Typing
  <2>2. reg[r] \in Registration
    BY <1>3, SameSteps DEF Device!CommitAccept, CommitRegistration, Typing, RegistryTypeOK,
       NoRegistration
  <2>3. [man |-> reg[r].man, client |-> reg[r].target] \in Device!CodeRow
    BY <2>1, <2>2, SameRows DEF Device!CodeRow, Registration
  <2>4. /\ codes' \in [Code -> Device!CodeRow \cup {None}]
        /\ \A c \in Code : codes'[c] # None /\ codes'[c].client # None =>
             codes'[c].client \in Live'
    BY <1>3, <2>1, <2>3 DEF Device!CommitAccept, Typing, CodeTyping
  <2>5. accept' \in [AcceptRequest -> Device!Acceptance \cup {Device!NoAcceptance}]
    BY <1>3 DEF Device!CommitAccept, Device!Acceptance, Device!NoAcceptance, Typing, CodeTyping
  <2> QED BY <1>3, <2>1, <2>4, <2>5 DEF Device!CommitAccept, Typing, CodeTyping
<1>4. CASE Device!FailAccept(r)
  <2>1. RegistryTypeOK' /\ RegistrationShape' /\ Live' = Live
    BY <1>4, RollbackTyping, SameSteps DEF Device!FailAccept, Typing, Live
  <2>2. accept' \in [AcceptRequest -> Device!Acceptance \cup {Device!NoAcceptance}]
    BY <1>4 DEF Device!FailAccept, Device!Acceptance, Device!NoAcceptance, Typing, CodeTyping
  <2> QED BY <1>4, <2>1, <2>2 DEF Device!FailAccept, Typing, CodeTyping
<1> QED BY <1>1, <1>2, <1>3, <1>4, AcceptSteps DEF Device!AcceptStep

\* A report reads a client, writes its row as it read it, or fails.
LEMMA ReportTypes ==
  ASSUME Typing, Reporting!ReportSteps
  PROVE  RegistryTypeOK' /\ RegistrationShape' /\ ReportTyping' /\ Live' = Live
<1>1. ASSUME NEW p \in ReportRequest, NEW c \in RowId, Reporting!ReadClient(p, c)
      PROVE  RegistryTypeOK' /\ RegistrationShape' /\ ReportTyping' /\ Live' = Live
  <2>1. clients[c] \in Client
    BY <1>1, SameRows DEF Reporting!ReadClient, Live, Typing, RegistryTypeOK
  <2>2. [stage |-> "read", client |-> c, row |-> clients[c]] \in Reporting!Report
    BY <2>1, SameRows DEF Reporting!Report
  <2> QED BY <1>1, <2>2, RegistryStays, SameStutter
          DEF Reporting!ReadClient, Typing, ReportTyping
<1>2. ASSUME NEW p \in ReportRequest, Reporting!SaveReport(p)
      PROVE  RegistryTypeOK' /\ RegistrationShape' /\ ReportTyping' /\ Live' = Live
  <2>1. /\ report[p] \in Reporting!Report
        /\ report[p].client \in RowId /\ report[p].row \in Client /\ report[p].client \in Live
    BY <1>2, SameRows DEF Reporting!SaveReport, Typing, ReportTyping, Reporting!NoReport,
       Reporting!Report
  <2>2. clients' = [clients EXCEPT ![report[p].client] = report[p].row]
    BY <1>2 DEF Reporting!SaveReport
  <2>3. RegistryTypeOK' /\ RegistrationShape'
    BY <1>2, <2>1, <2>2 DEF Reporting!SaveReport, Typing, RegistryTypeOK, RegistrationShape
  <2>4. Live' = Live
    BY <2>1, <2>2, RegistryAssumption DEF Live, Typing, RegistryTypeOK
  <2>5. ReportTyping'
    BY <1>2, <2>1 DEF Reporting!SaveReport, Typing, ReportTyping, Reporting!Report
  <2> QED BY <2>3, <2>4, <2>5
<1>3. ASSUME NEW p \in ReportRequest, Reporting!FailReport(p)
      PROVE  RegistryTypeOK' /\ RegistrationShape' /\ ReportTyping' /\ Live' = Live
  <2>1. report[p] \in Reporting!Report
    BY <1>3 DEF Reporting!FailReport, Typing, ReportTyping, Reporting!NoReport
  <2> QED BY <1>3, <2>1, RegistryStays, SameStutter
          DEF Reporting!FailReport, Typing, ReportTyping, Reporting!Report
<1> QED BY <1>1, <1>2, <1>3, SameRows DEF Reporting!ReportSteps

-----------------------------------------------------------------------------
(* The types: all steps *)

LEMMA RemovedTyping ==
  ASSUME NEW u \in User, NEW o \in Org, Typing, MemberRemoved(u, o)
  PROVE  Typing'
<1>1. RemoveMember(u, o) /\ UNCHANGED <<redeem, lapsed, device, accept, answers, report>>
  BY SameRemoval DEF MemberRemoved, Redeeming!MemberRemoved
<1>2. RegistryTypeOK' /\ RegistrationShape' /\ Live' = Live \ ClientsOf(u, o)
  BY <1>1, RemoveTyping DEF Typing
<1>3. CodeTyping'
  BY <1>1, <1>2, SameRemoval DEF MemberRemoved, Device!CascadeCodes, Typing, CodeTyping
<1>4. RedeemTyping'
  <2> DEFINE gone == {t \in Token : tokens[t] # None /\ tokens[t].client \in ClientsOf(u, o)}
  <2>1. /\ tokens' = [t \in Token |-> IF t \in gone THEN None ELSE tokens[t]]
        /\ \A t \in gone : ~Redeeming!Locked(t)
        /\ grants' \subseteq grants
    BY SameRemoval DEF MemberRemoved, Redeeming!MemberRemoved, Redeeming!Forget
  <2>2. ASSUME NEW q \in RedeemRequest, Redeeming!HoldsToken(q)
        PROVE  tokens'[redeem[q].tok] # None
    <3>1. redeem[q].tok \in Token /\ tokens[redeem[q].tok] # None
      BY <2>2 DEF Redeeming!HoldsToken, Typing, RedeemTyping, Redeeming!NoRedemption,
         Redeeming!Redemption
    <3>2. redeem[q].tok \notin gone
      BY <2>1, <2>2 DEF Redeeming!Locked
    <3> QED BY <2>1, <3>1, <3>2
  <2>3. \A t \in Token : tokens'[t] # None /\ tokens'[t].client # None =>
          tokens'[t].client \in Live'
    BY <1>2, <2>1 DEF Typing, RedeemTyping
  <2>4. tokens' \in [Token -> Redeeming!TokenRow \cup {None}]
    BY <2>1 DEF Typing, RedeemTyping
  <2> HIDE DEF gone
  <2> QED BY <1>1, <2>1, <2>2, <2>3, <2>4 DEF Typing, RedeemTyping, Redeeming!HoldsToken
<1> QED BY <1>1, <1>2, <1>3, <1>4 DEF Typing, ReportTyping

\* The steps, flow by flow.
RedeemFlow ==
  /\ TokenStep \/ \E r \in RedeemRequest : Redeeming!RedeemStep(r)
  /\ UNCHANGED <<deviceVars, report>>

DeviceFlow ==
  /\ AppStep \/ \E r \in AcceptRequest : AcceptStepOf(r)
  /\ UNCHANGED <<redeemVars, report>>

DeviceGone ==
  \E n \in DeletableNode, o \in Org :
    DeleteDevice(n, o) /\ UNCHANGED <<redeemVars, deviceVars, report>>

LEMMA NextSteps ==
  ASSUME Next
  PROVE  \/ RedeemFlow \/ DeviceFlow
         \/ Reporting!ReportSteps /\ UNCHANGED <<redeemVars, deviceVars>>
         \/ DeviceGone
         \/ \E u \in User, o \in Org : MemberRemoved(u, o)
BY DEF Next, RedeemFlow, DeviceFlow, DeviceGone, TokenStep, Device!DeviceSteps, AppStep,
       AcceptStepOf

LEMMA TypingStep == Typing /\ [Next]_vars => Typing'
<1> SUFFICES ASSUME Typing, [Next]_vars PROVE Typing'
  OBVIOUS
<1>1. CASE RedeemFlow
  <2>1. RegistryTypeOK' /\ RegistrationShape' /\ RedeemTyping' /\ Live \subseteq Live'
    BY <1>1, RedeemStepTyping, TokenStepTyping, RegistryStays DEF RedeemFlow, Typing
  <2> QED BY <1>1, <2>1, DeviceStays DEF RedeemFlow, Typing, ReportTyping
<1>2. CASE DeviceFlow
  <2>1. RegistryTypeOK' /\ RegistrationShape' /\ CodeTyping' /\ Live \subseteq Live'
    BY <1>2, AcceptTyping, AppTyping, RegistryStays DEF DeviceFlow, Typing
  <2> QED BY <1>2, <2>1, RedeemStays DEF DeviceFlow, Typing, ReportTyping
<1>3. CASE Reporting!ReportSteps /\ UNCHANGED <<redeemVars, deviceVars>>
  BY <1>3, ReportTypes, RedeemStays, DeviceStays DEF Typing
<1>4. CASE DeviceGone
  <2>1. PICK n \in DeletableNode, o \in Org :
          DeleteDevice(n, o) /\ UNCHANGED <<redeemVars, deviceVars, report>>
    BY <1>4 DEF DeviceGone
  <2>2. RegistryTypeOK' /\ RegistrationShape' /\ Live' = Live
    BY <2>1, DeviceTyping, RegistryAssumption DEF Typing
  <2> QED BY <2>1, <2>2, RedeemStays, DeviceStays DEF Typing, ReportTyping
<1>5. CASE UNCHANGED vars
  BY <1>5, RegistryStays, RedeemStays, DeviceStays DEF vars, Typing, ReportTyping
<1> QED BY <1>1, <1>2, <1>3, <1>4, <1>5, RemovedTyping, NextSteps

\* All flows running against one set of tables keep them well-typed: the client
\* a token or a code is bound to exists, though other flows register over it and
\* a removed membership takes clients, tokens and codes with it.
THEOREM FlowsTyped == Spec => []FaktsTypeOK
BY InitTyping, TypingStep, TypingIsTypeOK, PTL DEF Spec

-----------------------------------------------------------------------------
(* A token's client is a client of its user *)

\* A client that exists, or will not come back, and that while it exists is
\* one of user u in organization o.
Tied(c, u, o) ==
  /\ c \in Seed \/ (c \in Request /\ reg[c].stage = "ended")
  /\ c \in Live => clients[c].user = u /\ clients[c].org = o

\* A redemption works with a client of its token's user, registers for that
\* user and organization, and has not registered before.
OneFits(r) ==
  /\ redeem[r].stage = "attach" =>
       Tied(redeem[r].client, TokenUser[redeem[r].tok], OrgOf[TokenComp[redeem[r].tok]])
  /\ redeem[r].stage = "register" =>
       /\ reg[r].stage # "none"
       /\ reg[r].user = TokenUser[redeem[r].tok]
       /\ reg[r].org = OrgOf[TokenComp[redeem[r].tok]]
  /\ redeem[r].stage \notin {"register", "done"} => reg[r].stage = "none"

RedeemFits == TokenClientFitsUser /\ \A r \in RedeemRequest : OneFits(r)

AcceptFits == \A r \in AcceptRequest : accept[r].stage = "new" => reg[r].stage = "none"

\* The row a report is about to write says of the client what the table says.
ReportFits ==
  \A p \in ReportRequest : report[p].stage = "read" =>
    Tied(report[p].client, report[p].row.user, report[p].row.org)

Fitting == Typing /\ Settled /\ RedeemFits /\ AcceptFits /\ ReportFits

\* What a step of another request leaves of a registration.
RegKept(r) ==
  /\ reg'[r].stage = reg[r].stage
  /\ reg[r].stage # "none" => reg'[r].user = reg[r].user /\ reg'[r].org = reg[r].org

LEMMA TiedKept ==
  ASSUME NEW c \in RowId, NEW u, NEW o, Tied(c, u, o), HomesKept
  PROVE  Tied(c, u, o)'
BY RegistryAssumption DEF Tied, HomesKept, RowId

LEMMA StutterSettles ==
  ASSUME Settled, UNCHANGED registryVars
  PROVE  Settled' /\ HomesKept /\ \A r \in Request : RegKept(r)
BY DEF Settled, HomesKept, RegKept, registryVars, Live

LEMMA OneFitsStays ==
  ASSUME NEW r \in RedeemRequest, RedeemTyping, OneFits(r), HomesKept,
         redeem'[r] = redeem[r], RegKept(r)
  PROVE  OneFits(r)'
<1>1. redeem'[r].stage = "attach" =>
        Tied(redeem[r].client, TokenUser[redeem[r].tok], OrgOf[TokenComp[redeem[r].tok]])'
  <2> SUFFICES ASSUME redeem'[r].stage = "attach"
               PROVE  /\ redeem'[r].client \in Seed
                         \/ /\ redeem'[r].client \in Request
                            /\ reg'[redeem'[r].client].stage = "ended"
                      /\ redeem'[r].client \in Live' =>
                           /\ clients'[redeem'[r].client].user = TokenUser[redeem'[r].tok]
                           /\ clients'[redeem'[r].client].org
                                = OrgOf[TokenComp[redeem'[r].tok]]
    BY DEF Tied
  <2>1. PICK c, u, o : /\ c \in RowId /\ c = redeem[r].client
                       /\ u = TokenUser[redeem[r].tok] /\ o = OrgOf[TokenComp[redeem[r].tok]]
    BY DEF RedeemTyping
  <2>2. Tied(c, u, o)
    BY <2>1 DEF OneFits, Tied
  <2>3. Tied(c, u, o)'
    BY <2>1, <2>2, TiedKept
  <2> QED BY <2>1, <2>3 DEF Tied
<1> QED BY <1>1 DEF OneFits, RegKept

\* The tokens that are left are bound as they were.
LEMMA TokensFitStay ==
  ASSUME RedeemTyping, RedeemTyping', TokenClientFitsUser, HomesKept,
         \A t \in Token : tokens'[t] # None /\ tokens'[t].client # None =>
           tokens[t] # None /\ tokens'[t].client = tokens[t].client
  PROVE  TokenClientFitsUser'
<1> SUFFICES ASSUME NEW t \in Token, tokens'[t] # None, tokens'[t].client # None
             PROVE  LET cl == clients'[tokens'[t].client] IN
                    /\ cl # None
                    /\ cl.user = TokenUser[t]
                    /\ cl.org = OrgOf[TokenComp[t]]
  BY DEF TokenClientFitsUser
<1>1. PICK c : c = tokens[t].client /\ c = tokens'[t].client
  OBVIOUS
<1>2. c \in Live /\ c \in Live'
  BY <1>1 DEF RedeemTyping
<1>3. clients[c].user = TokenUser[t] /\ clients[c].org = OrgOf[TokenComp[t]]
  BY <1>1 DEF TokenClientFitsUser
<1> QED BY <1>1, <1>2, <1>3 DEF HomesKept, Live

LEMMA RedeemFitsStays ==
  ASSUME RedeemTyping, RedeemTyping', RedeemFits, HomesKept, UNCHANGED redeem,
         \A r \in RedeemRequest : RegKept(r),
         \A t \in Token : tokens'[t] # None => tokens'[t] = tokens[t]
  PROVE  RedeemFits'
BY TokensFitStay, OneFitsStays DEF RedeemFits

LEMMA AcceptFitsStays ==
  ASSUME AcceptFits, UNCHANGED accept, \A r \in AcceptRequest : RegKept(r)
  PROVE  AcceptFits'
BY DEF AcceptFits, RegKept

LEMMA OneReportStays ==
  ASSUME NEW p \in ReportRequest, ReportTyping, ReportFits, HomesKept, report'[p] = report[p],
         report'[p].stage = "read"
  PROVE  Tied(report[p].client, report[p].row.user, report[p].row.org)'
<1> SUFFICES /\ report'[p].client \in Seed
                \/ (report'[p].client \in Request /\ reg'[report'[p].client].stage = "ended")
             /\ report'[p].client \in Live' =>
                  /\ clients'[report'[p].client].user = report'[p].row.user
                  /\ clients'[report'[p].client].org = report'[p].row.org
  BY DEF Tied
<1>1. report[p].client \in RowId
  BY SameRows DEF ReportTyping, Reporting!Report, Reporting!NoReport
<1>2. PICK c, u, o : /\ c \in RowId /\ c = report[p].client
                       /\ u = report[p].row.user /\ o = report[p].row.org
  BY <1>1
<1>3. Tied(c, u, o)
  BY <1>2 DEF ReportFits, Tied
<1>4. Tied(c, u, o)'
  BY <1>2, <1>3, TiedKept
<1> QED BY <1>2, <1>4 DEF Tied

LEMMA ReportFitsStays ==
  ASSUME ReportTyping, ReportFits, HomesKept, UNCHANGED report
  PROVE  ReportFits'
BY OneReportStays DEF ReportFits

-----------------------------------------------------------------------------
(* A token's client is a client of its user: the steps *)

LEMMA InitFitting == FaktsInit => Fitting
<1> SUFFICES ASSUME FaktsInit PROVE Fitting
  OBVIOUS
<1> USE RegistryAssumption, FaktsAssumption
<1>1. Typing
  BY InitTyping
<1>2. /\ clients = [c \in RowId |->
           IF c \in Seed
             THEN [app |-> c, user |-> SeedUser[c], org |-> OrgOf[SeedComp[c]],
                   comp |-> SeedComp[c], node |-> NodeOf[SeedMan[c]], man |-> SeedMan[c],
                   secret |-> c]
             ELSE None]
      /\ reg = [r \in Request |-> NoRegistration]
      /\ tokens = [t \in Token |->
           [client |-> IF t \in Seed THEN t ELSE None, man |-> None,
            expiry |-> IF t \in Expiring THEN "ahead" ELSE "never"]]
      /\ redeem = [r \in RedeemRequest |-> Redeeming!NoRedemption]
      /\ report = [p \in ReportRequest |-> Reporting!NoReport]
  BY SameRows DEF FaktsInit, Redeeming!RedeemInit, Redeeming!RegistryInit,
     Redeeming!NoRegistration, NoRegistration, Reporting!ReportInit
<1>3. Settled
  BY <1>2 DEF Settled, Live, NoRegistration, RowId
<1>4. TokenClientFitsUser
  <2> SUFFICES ASSUME NEW t \in Token, tokens[t] # None, tokens[t].client # None
               PROVE  /\ clients[tokens[t].client] # None
                      /\ clients[tokens[t].client].user = TokenUser[t]
                      /\ clients[tokens[t].client].org = OrgOf[TokenComp[t]]
    BY DEF TokenClientFitsUser
  <2>1. t \in Seed /\ tokens[t].client = t
    BY <1>2
  <2>2. clients[t] # None
    BY <1>1, <2>1 DEF Typing, RedeemTyping, Live
  <2>3. clients[t].user = SeedUser[t] /\ clients[t].org = OrgOf[SeedComp[t]]
    BY <1>2, <2>1 DEF RowId
  <2> QED BY <2>1, <2>2, <2>3
<1>5. \A r \in RedeemRequest : OneFits(r)
  BY <1>2 DEF OneFits, Redeeming!NoRedemption, NoRegistration
<1>6. AcceptFits /\ ReportFits
  BY <1>2 DEF AcceptFits, ReportFits, NoRegistration, Reporting!NoReport
<1> QED BY <1>1, <1>3, <1>4, <1>5, <1>6 DEF Fitting, RedeemFits

\* What a redemption's step leaves of its own state.
LEMMA AnswerFits ==
  ASSUME NEW r \in RedeemRequest, RedeemTyping, OneFits(r),
         redeem[r].stage \in {"lock", "expired", "lookup", "attach", "register"},
         NEW status \in {"expired", "lookup", "done"},
         redeem[r].stage \in {"lock", "expired"} \/ status = "done",
         redeem'[r].stage = status, reg'[r] = reg[r] \/ status = "done"
  PROVE  OneFits(r)'
BY DEF OneFits

\* A redemption that binds its token to a client of the token's user.
LEMMA BindFits ==
  ASSUME NEW r \in RedeemRequest, NEW c \in RowId, NEW s \in RowId, Typing, RedeemFits,
         Redeeming!HoldsToken(r), Redeeming!Bind(r, c, s), Live' = Live \cup {c}, HomesKept,
         \A q \in RedeemRequest \ {r} : RegKept(q),
         clients'[c].user = TokenUser[redeem[r].tok],
         clients'[c].org = OrgOf[TokenComp[redeem[r].tok]]
  PROVE  RedeemFits'
<1> DEFINE t == redeem[r].tok
<1>1. /\ RedeemTyping'
      /\ t \in Token /\ tokens'[t].client = c
      /\ \A u \in Token \ {t} : tokens'[u] = tokens[u]
      /\ redeem'[r].stage = "done"
      /\ \A q \in RedeemRequest \ {r} : redeem'[q] = redeem[q]
  BY BindTyping DEF Typing
<1>2. \A q \in RedeemRequest \ {r} : OneFits(q)'
  BY <1>1, OneFitsStays DEF Typing, RedeemFits
<1>3. OneFits(r)'
  BY <1>1 DEF OneFits
<1>4. TokenClientFitsUser'
  <2> SUFFICES ASSUME NEW u \in Token, tokens'[u] # None, tokens'[u].client # None
               PROVE  /\ clients'[tokens'[u].client] # None
                      /\ clients'[tokens'[u].client].user = TokenUser[u]
                      /\ clients'[tokens'[u].client].org = OrgOf[TokenComp[u]]
    BY DEF TokenClientFitsUser
  <2>1. PICK d : d = tokens'[u].client
    OBVIOUS
  <2>2. d \in Live'
    BY <1>1, <2>1 DEF RedeemTyping
  <2>3. CASE u = t
    BY <1>1, <2>1, <2>2, <2>3 DEF Live
  <2>4. CASE u # t
    <3>1. /\ tokens[u] # None /\ d = tokens[u].client /\ d \in Live
          /\ clients[d].user = TokenUser[u] /\ clients[d].org = OrgOf[TokenComp[u]]
      BY <1>1, <2>1, <2>4 DEF Typing, RedeemTyping, RedeemFits, TokenClientFitsUser
    <3> QED BY <2>1, <2>2, <3>1 DEF HomesKept, Live
  <2> QED BY <2>3, <2>4
<1> QED BY <1>2, <1>3, <1>4 DEF RedeemFits

LEMMA RedeemStepFits ==
  ASSUME Fitting, NEW r \in RedeemRequest, Redeeming!RedeemStep(r)
  PROVE  Settled' /\ HomesKept /\ RedeemFits' /\ \A q \in Request \ {r} : RegKept(q)
<1>r. r \in Request /\ r \in RowId
  BY FaktsAssumption DEF RowId
<1>t. redeem[r].stage # "new" => redeem[r] \in Redeeming!Redemption
  BY DEF Redeeming!NoRedemption, Fitting, Typing, RedeemTyping
<1>y. RegistryTypeOK' /\ RegistrationShape' /\ RedeemTyping'
  BY RedeemStepTyping DEF Fitting
<1>f. RegistryTypeOK /\ RegistrationShape /\ RedeemTyping /\ Settled /\ RedeemFits
  BY DEF Fitting, Typing

\* The step registers nothing, and leaves the tokens or deletes some.
<1>s. ASSUME UNCHANGED registryVars, NEW status \in {"expired", "lookup", "done"},
             redeem[r].stage \in {"lock", "expired", "lookup", "attach", "register"},
             redeem[r].stage \in {"lock", "expired"} \/ status = "done",
             redeem' = [redeem EXCEPT ![r].stage = status],
             \A t \in Token : tokens'[t] # None /\ tokens'[t].client # None =>
               tokens[t] # None /\ tokens'[t].client = tokens[t].client
      PROVE  Settled' /\ HomesKept /\ RedeemFits' /\ \A q \in Request \ {r} : RegKept(q)
  <2>1. Settled' /\ HomesKept /\ \A q \in Request : RegKept(q)
    BY <1>f, <1>s, StutterSettles
  <2>2. /\ redeem'[r].stage = status /\ reg' = reg
        /\ \A q \in RedeemRequest \ {r} : redeem'[q] = redeem[q]
    BY <1>s, <1>f, <1>t DEF RedeemTyping, Redeeming!Redemption, registryVars
  <2>3. OneFits(r)'
    BY <1>f, <1>s, <2>2, AnswerFits DEF RedeemFits
  <2>4. \A q \in RedeemRequest \ {r} : OneFits(q)'
    BY <1>f, <2>1, <2>2, OneFitsStays, FaktsAssumption DEF RedeemFits
  <2>5. TokenClientFitsUser'
    BY <1>f, <1>y, <1>s, <2>1, TokensFitStay DEF RedeemFits
  <2> QED BY <2>1, <2>3, <2>4, <2>5 DEF RedeemFits
<1>1. CASE Redeeming!Refuse(r)
  BY <1>1, <1>s, SameStutter DEF Redeeming!Refuse, Redeeming!Answer
<1>2. CASE Redeeming!RedeemAgain(r)
  <2>1. tokens[redeem[r].tok] # None /\ redeem[r] \in Redeeming!Redemption
    BY <1>2, <1>t DEF Redeeming!RedeemAgain
  <2>2. tokens' = [tokens EXCEPT ![redeem[r].tok].man = redeem[r].man]
    BY <1>2 DEF Redeeming!RedeemAgain
  <2>3. redeem[r].tok \in Token /\ tokens[redeem[r].tok] \in Redeeming!TokenRow
    BY <1>f, <2>1 DEF Redeeming!Redemption, RedeemTyping
  <2>4. \A t \in Token : tokens'[t] # None /\ tokens'[t].client # None =>
          tokens[t] # None /\ tokens'[t].client = tokens[t].client
    BY <1>f, <2>1, <2>2, <2>3 DEF Redeeming!TokenRow, RedeemTyping
  <2> QED BY <1>2, <1>s, <2>4, SameStutter DEF Redeeming!RedeemAgain, Redeeming!Answer
<1>3. CASE Redeeming!BeginValidation(r)
  BY <1>3, <1>s, SameStutter DEF Redeeming!BeginValidation, Redeeming!Answer
<1>4. CASE Redeeming!FindExpired(r)
  BY <1>4, <1>s, SameStutter DEF Redeeming!FindExpired, Redeeming!Answer
<1>5. CASE Redeeming!DeleteExpired(r)
  <2>1. \A t \in Token : tokens'[t] # None => tokens'[t] = tokens[t]
    BY <1>5, <1>f DEF Redeeming!DeleteExpired, RedeemTyping
  <2>2. \A t \in Token : tokens'[t] # None /\ tokens'[t].client # None =>
          tokens[t] # None /\ tokens'[t].client = tokens[t].client
    BY <2>1
  <2> QED BY <1>5, <1>s, <2>2, SameStutter DEF Redeeming!DeleteExpired, Redeeming!Answer
<1>6. CASE Redeeming!ReuseClient(r)
  <2>1. PICK c \in Redeeming!Reusable(redeem[r].tok, redeem[r].man) :
          redeem' = [redeem EXCEPT ![r].stage = "attach", ![r].client = c,
                                   ![r].secret = clients[c].secret]
    BY <1>6 DEF Redeeming!ReuseClient
  <2>2. /\ c \in Live /\ clients[c].user = TokenUser[redeem[r].tok]
        /\ clients[c].org = OrgOf[TokenComp[redeem[r].tok]]
    BY SameRows DEF Redeeming!Reusable
  <2>3. redeem[r] \in Redeeming!Redemption
    BY <1>6, <1>t DEF Redeeming!ReuseClient
  <2>4. /\ redeem'[r].stage = "attach" /\ redeem'[r].client = c
        /\ redeem'[r].tok = redeem[r].tok
        /\ \A q \in RedeemRequest \ {r} : redeem'[q] = redeem[q]
    BY <2>1, <2>3, <1>f DEF RedeemTyping, Redeeming!Redemption
  <2>5. /\ UNCHANGED registryVars /\ tokens' = tokens
        /\ Settled' /\ HomesKept /\ \A q \in Request : RegKept(q)
    BY <1>6, <1>f, StutterSettles, SameStutter DEF Redeeming!ReuseClient
  <2>6. c \in Seed \/ (c \in Request /\ reg[c].stage = "ended")
    BY <2>2, <1>f DEF Live, RowId, Settled
  <2>7. reg[r].stage = "none"
    BY <1>6, <1>f DEF Redeeming!ReuseClient, RedeemFits, OneFits
  <2>8. OneFits(r)'
    BY <2>2, <2>4, <2>5, <2>6, <2>7 DEF OneFits, Tied, registryVars, Live
  <2>9. \A q \in RedeemRequest \ {r} : OneFits(q)'
    BY <1>f, <2>4, <2>5, OneFitsStays, FaktsAssumption DEF RedeemFits
  <2>10. TokenClientFitsUser'
    BY <1>f, <1>y, <2>5, TokensFitStay DEF RedeemFits
  <2> QED BY <2>5, <2>8, <2>9, <2>10 DEF RedeemFits
<1>7. CASE Redeeming!NeedClient(r)
  <2> DEFINE u == TokenUser[redeem[r].tok]
             k == TokenComp[redeem[r].tok]
             o == OrgOf[TokenComp[redeem[r].tok]]
             m == redeem[r].man
  <2>1. redeem[r] \in Redeeming!Redemption /\ redeem[r].stage = "lookup"
    BY <1>7, <1>t DEF Redeeming!NeedClient
  <2>2. u \in User /\ o \in Org /\ k \in Comp /\ m \in Manifest
    BY <2>1, RegistryAssumption, FaktsAssumption DEF Redeeming!Redemption
  <2>3. /\ Enter(r, u, o, k, m) /\ UNCHANGED clients /\ tokens' = tokens
        /\ redeem' = [redeem EXCEPT ![r].stage = "register"]
    BY <1>7, SameSteps DEF Redeeming!NeedClient, Redeeming!Answer
  <2>4. reg[r].stage = "none"
    BY <1>f, <2>1 DEF RedeemFits, OneFits
  <2> HIDE DEF u, o, k, m
  <2>5. /\ Settled' /\ HomesKept
        /\ \A q \in Request \ {r} : reg'[q] = reg[q]
        /\ reg'[r].user = u /\ reg'[r].org = o
    BY <1>f, <1>r, <2>2, <2>3, <2>4, EnterSettles
  <2>6. reg'[r].stage # "none"
    BY <1>f, <1>r, <2>3 DEF Enter, RegistryTypeOK
  <2>7. /\ redeem'[r].stage = "register" /\ redeem'[r].tok = redeem[r].tok
        /\ \A q \in RedeemRequest \ {r} : redeem'[q] = redeem[q]
    BY <2>1, <2>3, <1>f DEF RedeemTyping, Redeeming!Redemption
  <2>8. OneFits(r)'
    BY <2>5, <2>6, <2>7 DEF OneFits, u, o
  <2>9. \A q \in Request \ {r} : RegKept(q)
    BY <2>5 DEF RegKept
  <2>10. \A q \in RedeemRequest \ {r} : OneFits(q)'
    BY <1>f, <2>5, <2>7, <2>9, OneFitsStays, FaktsAssumption DEF RedeemFits
  <2>11. TokenClientFitsUser'
    BY <1>f, <1>y, <2>3, <2>5, TokensFitStay DEF RedeemFits
  <2> QED BY <2>5, <2>8, <2>9, <2>10, <2>11 DEF RedeemFits
<1>8. CASE Redeeming!RegisterStep(r)
  <2>1. Register(r) /\ UNCHANGED redeemVars /\ redeem[r].stage = "register"
    BY <1>8, SameSteps DEF Redeeming!RegisterStep, Redeeming!redeemVars, redeemVars
  <2>2. Settled' /\ HomesKept /\ OwnStep(r)
    BY <1>f, <1>r, <2>1, RegisterSettles
  <2>3. reg'[r].stage # "none"
    BY <1>f, <1>r, <2>1 DEF Register, GetOrCreateApp, LockRelease, Upsert, RegistryTypeOK,
       NoRegistration, Registration, Running
  <2>4. \A q \in Request \ {r} : RegKept(q)
    BY <2>2 DEF OwnStep, RegKept
  <2>5. redeem' = redeem /\ tokens' = tokens
    BY <2>1 DEF redeemVars
  <2>6. OneFits(r)'
    BY <1>f, <2>1, <2>2, <2>3, <2>5 DEF OneFits, OwnStep, RedeemFits
  <2>7. \A q \in RedeemRequest \ {r} : OneFits(q)'
    BY <1>f, <2>2, <2>4, <2>5, OneFitsStays, FaktsAssumption DEF RedeemFits
  <2>8. TokenClientFitsUser'
    BY <1>f, <1>y, <2>2, <2>5, TokensFitStay DEF RedeemFits
  <2> QED BY <2>2, <2>4, <2>6, <2>7, <2>8 DEF RedeemFits
<1>9. CASE Redeeming!CommitReused(r)
  <2>1. PICK c \in RowId, s \in RowId : c = redeem[r].client /\ s = redeem[r].secret
    BY <1>9, <1>f DEF Redeeming!CommitReused, RedeemTyping
  <2>2. Redeeming!HoldsToken(r) /\ Redeeming!Bind(r, c, s) /\ c \in Live
    BY <1>9, <2>1, SameRows DEF Redeeming!CommitReused, Redeeming!HoldsToken
  <2>3. /\ UNCHANGED registryVars
        /\ Settled' /\ HomesKept /\ \A q \in Request : RegKept(q)
    BY <1>9, <1>f, StutterSettles, SameStutter DEF Redeeming!CommitReused
  <2>4. Live' = Live \cup {c} /\ clients' = clients
    BY <2>2, <2>3 DEF registryVars, Live
  <2>5. /\ clients[c].user = TokenUser[redeem[r].tok]
        /\ clients[c].org = OrgOf[TokenComp[redeem[r].tok]]
    BY <1>9, <1>f, <2>1, <2>2 DEF Redeeming!CommitReused, RedeemFits, OneFits, Tied
  <2>6. RedeemFits'
    BY <1>f, <2>2, <2>3, <2>4, <2>5, BindFits, FaktsAssumption DEF Fitting
  <2> QED BY <2>3, <2>6
<1>10. CASE Redeeming!CommitRegistered(r)
  <2>1. PICK c : c = reg[r].target
    OBVIOUS
  <2>2. /\ Redeeming!HoldsToken(r) /\ CommitRegistration(r)
        /\ Redeeming!Bind(r, c, r) /\ redeem[r].stage = "register"
    BY <1>10, <2>1, SameSteps DEF Redeeming!CommitRegistered, Redeeming!HoldsToken
  <2>3. Live' = Live \cup {c} /\ c \in RowId
    BY <1>f, <1>r, <2>1, <2>2, CommitTyping
  <2>4. /\ Settled' /\ HomesKept /\ OwnStep(r)
        /\ clients'[c].user = reg[r].user /\ clients'[c].org = reg[r].org
    BY <1>f, <1>r, <2>1, <2>2, CommitSettles
  <2>5. \A q \in Request \ {r} : RegKept(q)
    BY <2>4 DEF OwnStep, RegKept
  <2>6. reg[r].user = TokenUser[redeem[r].tok] /\ reg[r].org = OrgOf[TokenComp[redeem[r].tok]]
    BY <1>f, <2>2 DEF RedeemFits, OneFits
  <2>7. RedeemFits'
    BY <1>f, <1>r, <2>2, <2>3, <2>4, <2>5, <2>6, BindFits, FaktsAssumption DEF Fitting
  <2> QED BY <2>4, <2>5, <2>7
<1>11. CASE Redeeming!Fail(r)
  <2>1. /\ redeem[r].stage \in {"attach", "register"} /\ tokens' = tokens
        /\ redeem' = [redeem EXCEPT ![r].stage = "done"]
    BY <1>11 DEF Redeeming!Fail, Redeeming!Answer
  <2>2. CASE UNCHANGED registryVars
    BY <1>s, <2>1, <2>2
  <2>3. CASE Rollback(r)
    <3>1. Settled' /\ HomesKept /\ OwnStep(r)
      BY <1>f, <1>r, <2>3, RollbackSettles
    <3>2. \A q \in Request \ {r} : RegKept(q)
      BY <3>1 DEF OwnStep, RegKept
    <3>3. /\ redeem'[r].stage = "done"
          /\ \A q \in RedeemRequest \ {r} : redeem'[q] = redeem[q]
      BY <2>1, <1>t, <1>f DEF RedeemTyping, Redeeming!Redemption
    <3>4. OneFits(r)'
      BY <3>3 DEF OneFits
    <3>5. \A q \in RedeemRequest \ {r} : OneFits(q)'
      BY <1>f, <3>1, <3>2, <3>3, OneFitsStays, FaktsAssumption DEF RedeemFits
    <3>6. TokenClientFitsUser'
      BY <1>f, <1>y, <2>1, <3>1, TokensFitStay DEF RedeemFits
    <3> QED BY <3>1, <3>2, <3>4, <3>5, <3>6 DEF RedeemFits
  <2> QED BY <1>11, <2>2, <2>3, SameStutter, SameSteps DEF Redeeming!Fail
<1> QED BY <1>1, <1>2, <1>3, <1>4, <1>5, <1>6, <1>7, <1>8, <1>9, <1>10, <1>11
        DEF Redeeming!RedeemStep, Redeeming!Proceed

\* A redemption that arrives has registered nothing; an expiry or a configured
\* token binds no client.
LEMMA TokenStepFits ==
  ASSUME Fitting, TokenStep
  PROVE  RedeemFits'
<1>f. RedeemTyping /\ RedeemTyping' /\ RedeemFits /\ RegistryTypeOK
  BY TokenStepTyping DEF Fitting, Typing
<1>r. HomesKept /\ \A r \in Request : RegKept(r)
  BY TokenStepTyping, StutterSettles DEF Fitting
<1>1. ASSUME NEW r \in RedeemRequest, NEW t \in Token, NEW m \in Manifest,
             Redeeming!Redeem(r, t, m)
      PROVE  RedeemFits'
  <2>1. /\ redeem'[r].stage = "lock" /\ redeem[r].stage = "new" /\ tokens' = tokens
        /\ \A q \in RedeemRequest \ {r} : redeem'[q] = redeem[q]
    BY <1>1, <1>f DEF Redeeming!Redeem, RedeemTyping
  <2>2. OneFits(r)'
    BY <1>f, <1>r, <2>1, FaktsAssumption DEF RedeemFits, OneFits, RegKept
  <2>3. \A q \in RedeemRequest \ {r} : OneFits(q)'
    BY <1>f, <1>r, <2>1, OneFitsStays, FaktsAssumption DEF RedeemFits
  <2>4. TokenClientFitsUser'
    BY <1>f, <1>r, <2>1, TokensFitStay DEF RedeemFits
  <2> QED BY <2>2, <2>3, <2>4 DEF RedeemFits
<1>2. ASSUME UNCHANGED redeem,
             \A t \in Token : tokens'[t] # None /\ tokens'[t].client # None =>
               tokens[t] # None /\ tokens'[t].client = tokens[t].client
      PROVE  RedeemFits'
  <2>1. \A q \in RedeemRequest : OneFits(q)'
    BY <1>f, <1>r, <1>2, OneFitsStays, FaktsAssumption DEF RedeemFits
  <2>2. TokenClientFitsUser'
    BY <1>f, <1>r, <1>2, TokensFitStay DEF RedeemFits
  <2> QED BY <2>1, <2>2 DEF RedeemFits
<1>3. ASSUME NEW t \in Token, Redeeming!Lapse(t) PROVE RedeemFits'
  <2>1. tokens[t] \in Redeeming!TokenRow /\ tokens[t] # None
    BY <1>3, <1>f DEF Redeeming!Lapse, RedeemTyping
  <2>2. tokens' = [tokens EXCEPT ![t].expiry = "past"]
    BY <1>3 DEF Redeeming!Lapse
  <2>3. /\ tokens'[t].client = tokens[t].client
        /\ \A u \in Token \ {t} : tokens'[u] = tokens[u]
    BY <1>f, <2>1, <2>2 DEF Redeeming!TokenRow, RedeemTyping
  <2> QED BY <1>2, <1>3, <2>1, <2>3 DEF Redeeming!Lapse
<1>4. ASSUME NEW t \in Configured, Redeeming!EnsureToken(t) PROVE RedeemFits'
  <2>1. /\ tokens' = [tokens EXCEPT ![t] = [client |-> None, man |-> None, expiry |-> "never"]]
        /\ t \in Token
    BY <1>4, FaktsAssumption DEF Redeeming!EnsureToken
  <2>2. tokens'[t].client = None /\ \A u \in Token \ {t} : tokens'[u] = tokens[u]
    BY <1>f, <2>1 DEF RedeemTyping
  <2> QED BY <1>2, <1>4, <2>2 DEF Redeeming!EnsureToken
<1> QED BY <1>1, <1>3, <1>4 DEF TokenStep

\* An acceptance registers for itself alone.
LEMMA AcceptStepFits ==
  ASSUME Fitting, NEW r \in AcceptRequest, AcceptStepOf(r)
  PROVE  Settled' /\ HomesKept /\ AcceptFits' /\ \A q \in Request \ {r} : RegKept(q)
<1> USE FaktsAssumption
<1>f. RegistryTypeOK /\ RegistrationShape /\ Settled /\ AcceptFits /\ r \in Request
  BY DEF Fitting, Typing
<1>a. accept \in [AcceptRequest -> Device!Acceptance \cup {Device!NoAcceptance}]
  BY DEF Fitting, Typing, CodeTyping

\* The acceptance is under way or ended after the step.
<1>s. ASSUME HomesKept, \A q \in Request \ {r} : reg'[q] = reg[q],
             accept'[r].stage # "new",
             \A q \in AcceptRequest \ {r} : accept'[q] = accept[q]
      PROVE  AcceptFits' /\ \A q \in Request \ {r} : RegKept(q)
  BY <1>f, <1>s DEF AcceptFits, RegKept
<1>1. ASSUME NEW c \in Code \cup {None}, NEW u \in User, NEW o \in Org, NEW k \in Comp,
             NEW m \in Manifest, BeginsAccept(r, c, u, o, k, m)
      PROVE  Settled' /\ HomesKept /\ AcceptFits' /\ \A q \in Request \ {r} : RegKept(q)
  <2>1. /\ reg[r].stage = "none" /\ Enter(r, u, o, k, m) /\ UNCHANGED clients
        /\ accept' = [accept EXCEPT ![r] =
             [stage |-> "register", code |-> c, user |-> u, org |-> o, comp |-> k]]
    BY <1>1, <1>f DEF BeginsAccept, AcceptFits
  <2>2. Settled' /\ HomesKept /\ \A q \in Request \ {r} : reg'[q] = reg[q]
    BY <1>f, <2>1, EnterSettles
  <2>3. accept'[r].stage # "new" /\ \A q \in AcceptRequest \ {r} : accept'[q] = accept[q]
    BY <1>a, <2>1
  <2> QED BY <1>s, <2>2, <2>3
<1>2. CASE Device!AcceptRegisters(r)
  <2>1. Register(r) /\ UNCHANGED deviceVars /\ accept[r].stage = "register"
    BY <1>2, SameSteps DEF Device!AcceptRegisters, Device!deviceVars, deviceVars
  <2>2. Settled' /\ HomesKept /\ OwnStep(r)
    BY <1>f, <2>1, RegisterSettles
  <2> QED BY <1>s, <2>1, <2>2 DEF OwnStep, deviceVars
<1>3. CASE Device!CommitAccept(r)
  <2>1. CommitRegistration(r) /\ accept' = [accept EXCEPT ![r].stage = "done"]
    BY <1>3, SameSteps DEF Device!CommitAccept
  <2>2. Settled' /\ HomesKept /\ OwnStep(r)
    BY <1>f, <2>1, CommitSettles
  <2>3. accept'[r].stage # "new" /\ \A q \in AcceptRequest \ {r} : accept'[q] = accept[q]
    BY <1>a, <2>1 DEF Device!Acceptance, Device!NoAcceptance
  <2> QED BY <1>s, <2>2, <2>3 DEF OwnStep
<1>4. CASE Device!FailAccept(r)
  <2>1. Rollback(r) /\ accept' = [accept EXCEPT ![r].stage = "failed"]
    BY <1>4, SameSteps DEF Device!FailAccept
  <2>2. Settled' /\ HomesKept /\ OwnStep(r)
    BY <1>f, <2>1, RollbackSettles
  <2>3. accept'[r].stage # "new" /\ \A q \in AcceptRequest \ {r} : accept'[q] = accept[q]
    BY <1>a, <2>1 DEF Device!Acceptance, Device!NoAcceptance
  <2> QED BY <1>s, <2>2, <2>3 DEF OwnStep
<1> QED BY <1>1, <1>2, <1>3, <1>4, AcceptSteps DEF Device!AcceptStep, Fitting

\* A report that is saved writes back the user and the composition it read.
LEMMA ReportStepFits ==
  ASSUME Fitting, Reporting!ReportSteps
  PROVE  Settled' /\ HomesKept /\ ReportFits' /\ \A q \in Request : RegKept(q)
<1>f. /\ RegistryTypeOK /\ Settled /\ ReportTyping /\ ReportFits
      /\ report \in [ReportRequest -> Reporting!Report \cup {Reporting!NoReport}]
  BY DEF Fitting, Typing, ReportTyping

\* The other reports are not touched.
<1>s. ASSUME HomesKept, NEW p \in ReportRequest,
             \A q \in ReportRequest \ {p} : report'[q] = report[q],
             report'[p].stage = "read" =>
               Tied(report[p].client, report[p].row.user, report[p].row.org)'
      PROVE  ReportFits'
  BY <1>f, <1>s, OneReportStays DEF ReportFits
<1>1. ASSUME NEW p \in ReportRequest, NEW c \in RowId, Reporting!ReadClient(p, c)
      PROVE  Settled' /\ HomesKept /\ ReportFits' /\ \A q \in Request : RegKept(q)
  <2>1. /\ UNCHANGED registryVars /\ c \in Live
        /\ report'[p] = [stage |-> "read", client |-> c, row |-> clients[c]]
        /\ \A q \in ReportRequest \ {p} : report'[q] = report[q]
    BY <1>1, <1>f, SameRows, SameStutter DEF Reporting!ReadClient
  <2>2. Settled' /\ HomesKept /\ \A q \in Request : RegKept(q)
    BY <1>f, <2>1, StutterSettles
  <2>3. c \in Seed \/ (c \in Request /\ reg[c].stage = "ended")
    BY <2>1, <1>f DEF Live, RowId, Settled
  <2>4. Tied(report[p].client, report[p].row.user, report[p].row.org)'
    BY <2>1, <2>3 DEF Tied, registryVars, Live
  <2> QED BY <1>s, <2>1, <2>2, <2>4
<1>2. ASSUME NEW p \in ReportRequest, Reporting!SaveReport(p)
      PROVE  Settled' /\ HomesKept /\ ReportFits' /\ \A q \in Request : RegKept(q)
  <2>1. PICK c, row : /\ c = report[p].client /\ row = report[p].row
    OBVIOUS
  <2>2. /\ c \in Live /\ reg' = reg
        /\ clients' = [clients EXCEPT ![c] = row]
        /\ report' = [report EXCEPT ![p].stage = "done"]
        /\ report[p].stage = "read"
    BY <1>2, <2>1, SameRows DEF Reporting!SaveReport
  <2>3. clients[c].user = row.user /\ clients[c].org = row.org
    BY <1>f, <2>1, <2>2 DEF ReportFits, Tied
  <2>4. Live' = Live
    BY ReportTypes DEF Fitting
  <2>5. \A d \in Live : clients'[d].user = clients[d].user
                        /\ clients'[d].org = clients[d].org
    BY <1>f, <2>2, <2>3 DEF RegistryTypeOK, Live
  <2>6. HomesKept /\ Settled' /\ \A q \in Request : RegKept(q)
    BY <1>f, <2>2, <2>4, <2>5 DEF HomesKept, Settled, RegKept
  <2>7. /\ report'[p].stage = "done"
        /\ \A q \in ReportRequest \ {p} : report'[q] = report[q]
    BY <1>f, <2>2 DEF Reporting!Report, Reporting!NoReport
  <2> QED BY <1>s, <2>6, <2>7
<1>3. ASSUME NEW p \in ReportRequest, Reporting!FailReport(p)
      PROVE  Settled' /\ HomesKept /\ ReportFits' /\ \A q \in Request : RegKept(q)
  <2>1. UNCHANGED registryVars /\ report' = [report EXCEPT ![p].stage = "done"]
    BY <1>3, SameStutter DEF Reporting!FailReport
  <2>2. Settled' /\ HomesKept /\ \A q \in Request : RegKept(q)
    BY <1>f, <2>1, StutterSettles
  <2>3. /\ report'[p].stage # "read"
        /\ \A q \in ReportRequest \ {p} : report'[q] = report[q]
    BY <1>f, <2>1 DEF Reporting!Report, Reporting!NoReport
  <2> QED BY <1>s, <2>2, <2>3
<1> QED BY <1>1, <1>2, <1>3, SameRows DEF Reporting!ReportSteps

LEMMA RemovedFits ==
  ASSUME NEW u \in User, NEW o \in Org, Fitting, MemberRemoved(u, o)
  PROVE  Fitting'
<1> USE FaktsAssumption
<1>1. Typing'
  BY RemovedTyping DEF Fitting
<1>2. /\ RemoveMember(u, o) /\ UNCHANGED <<redeem, accept, report>>
      /\ \A t \in Token : tokens'[t] # None => tokens'[t] = tokens[t]
  BY SameRemoval DEF MemberRemoved, Redeeming!MemberRemoved
<1>3. Settled' /\ HomesKept /\ \A r \in Request : RegKept(r)
  BY <1>2, RemoveSettles DEF Fitting, Typing, RegKept
<1>4. RedeemFits' /\ AcceptFits' /\ ReportFits'
  BY <1>1, <1>2, <1>3, RedeemFitsStays, AcceptFitsStays, ReportFitsStays DEF Fitting, Typing
<1> QED BY <1>1, <1>3, <1>4 DEF Fitting

LEMMA FittingStep == Fitting /\ [Next]_vars => Fitting'
<1> SUFFICES ASSUME Fitting, [Next]_vars PROVE Fitting'
  OBVIOUS
<1> USE FaktsAssumption
<1>t. Typing'
  BY TypingStep DEF Fitting
<1>f. Typing /\ Settled /\ RedeemFits /\ AcceptFits /\ ReportFits
  BY DEF Fitting
<1>y. RedeemTyping /\ RedeemTyping' /\ ReportTyping
  BY <1>t, <1>f DEF Typing

\* What a step that leaves the tokens and the redemptions keeps of them, and
\* likewise the acceptances and the reports.
<1>r. ASSUME HomesKept, UNCHANGED redeemVars, \A r \in RedeemRequest : RegKept(r)
      PROVE  RedeemFits'
  BY <1>f, <1>y, <1>r, RedeemFitsStays DEF redeemVars
<1>a. ASSUME UNCHANGED deviceVars, \A r \in AcceptRequest : RegKept(r)
      PROVE  AcceptFits'
  BY <1>f, <1>a, AcceptFitsStays DEF deviceVars
<1>p. ASSUME HomesKept, UNCHANGED report
      PROVE  ReportFits'
  BY <1>f, <1>y, <1>p, ReportFitsStays
<1>1. CASE RedeemFlow
  <2>1. UNCHANGED deviceVars /\ UNCHANGED report
    BY <1>1 DEF RedeemFlow
  <2>2. CASE TokenStep
    <3>1. Settled' /\ HomesKept /\ \A q \in Request : RegKept(q)
      BY <1>f, <2>2, TokenStepTyping, StutterSettles
    <3>2. RedeemFits'
      BY <2>2, TokenStepFits
    <3> QED BY <1>t, <1>a, <1>p, <2>1, <3>1, <3>2 DEF Fitting
  <2>3. CASE \E r \in RedeemRequest : Redeeming!RedeemStep(r)
    <3>1. PICK r \in RedeemRequest : Redeeming!RedeemStep(r)
      BY <2>3
    <3>2. Settled' /\ HomesKept /\ RedeemFits' /\ \A q \in Request \ {r} : RegKept(q)
      BY <3>1, RedeemStepFits
    <3> QED BY <1>t, <1>a, <1>p, <2>1, <3>2 DEF Fitting
  <2> QED BY <1>1, <2>2, <2>3 DEF RedeemFlow
<1>2. CASE DeviceFlow
  <2>1. UNCHANGED redeemVars /\ UNCHANGED report
    BY <1>2 DEF DeviceFlow
  <2>2. CASE AppStep
    <3>1. Settled' /\ HomesKept /\ \A q \in Request : RegKept(q)
      BY <1>f, <2>2, AppTyping, StutterSettles
    <3>2. AcceptFits'
      BY <1>f, <2>2, <3>1, AppTyping, AcceptFitsStays
    <3> QED BY <1>t, <1>r, <1>p, <2>1, <3>1, <3>2 DEF Fitting
  <2>3. CASE \E r \in AcceptRequest : AcceptStepOf(r)
    <3>1. PICK r \in AcceptRequest : AcceptStepOf(r)
      BY <2>3
    <3>2. Settled' /\ HomesKept /\ AcceptFits' /\ \A q \in Request \ {r} : RegKept(q)
      BY <3>1, AcceptStepFits
    <3> QED BY <1>t, <1>r, <1>p, <2>1, <3>2 DEF Fitting
  <2> QED BY <1>2, <2>2, <2>3 DEF DeviceFlow
<1>3. CASE Reporting!ReportSteps /\ UNCHANGED <<redeemVars, deviceVars>>
  <2>1. Settled' /\ HomesKept /\ ReportFits' /\ \A q \in Request : RegKept(q)
    BY <1>3, ReportStepFits
  <2> QED BY <1>t, <1>r, <1>a, <1>3, <2>1 DEF Fitting
<1>4. CASE DeviceGone
  <2>1. PICK n \in DeletableNode, o \in Org :
          DeleteDevice(n, o) /\ UNCHANGED <<redeemVars, deviceVars, report>>
    BY <1>4 DEF DeviceGone
  <2>2. Settled' /\ HomesKept /\ \A r \in Request : RegKept(r)
    BY <1>f, <2>1, DeviceSettles, RegistryAssumption DEF Typing, RegKept
  <2> QED BY <1>t, <1>r, <1>a, <1>p, <2>1, <2>2 DEF Fitting
<1>5. CASE UNCHANGED vars
  <2>1. Settled' /\ HomesKept /\ \A r \in Request : RegKept(r)
    BY <1>f, <1>5, StutterSettles DEF vars
  <2> QED BY <1>t, <1>r, <1>a, <1>p, <1>5, <2>1 DEF Fitting, vars
<1> QED BY <1>1, <1>2, <1>3, <1>4, <1>5, RemovedFits, NextSteps

\* However many redemptions, acceptances, reports and removals interleave, the
\* client a token is bound to is one of the token's user in the organization of
\* its composition: a registration updates only clients of its own user and
\* organization, and a report writes back whose the client is.
THEOREM TokenClientsFit == Spec => []TokenClientFitsUser
<1>1. Fitting => TokenClientFitsUser
  BY DEF Fitting, RedeemFits
<1> QED BY <1>1, InitFitting, FittingStep, PTL DEF Spec

-----------------------------------------------------------------------------
(* Secrets stay home *)

\* The secrets minted so far, with the user and the organization of each.
Minted == {x \in RowId \X User \X Org : MintedFor(x[1], x[2], x[3])}

\* Whom each secret that is kept, read or handed out is used for.
ClientMints == {<<clients[c].secret, clients[c].user, clients[c].org>> : c \in Live}

RedeemMints ==
  {<<redeem[r].secret, TokenUser[redeem[r].tok], OrgOf[TokenComp[redeem[r].tok]]>> :
     r \in {q \in RedeemRequest : redeem[q].stage = "attach"}}

ReportMints ==
  {<<report[p].row.secret, report[p].row.user, report[p].row.org>> :
     p \in {q \in ReportRequest : report[q].stage = "read"}}

GrantMints == {<<g.secret, TokenUser[g.tok], OrgOf[TokenComp[g.tok]]>> : g \in grants}

AnswerMints == {<<a.row.secret, a.row.user, a.row.org>> : a \in answers}

Home ==
  ClientMints \cup RedeemMints \cup ReportMints \cup GrantMints \cup AnswerMints
    \subseteq Minted

\* A registration that has ended is not written again.
EndedKept ==
  \A r \in Request : reg[r].stage = "ended" =>
    reg'[r].stage = "ended" /\ reg'[r].user = reg[r].user /\ reg'[r].org = reg[r].org

LEMMA MintedKept ==
  ASSUME EndedKept
  PROVE  Minted \subseteq Minted'
BY DEF Minted, MintedFor, EndedKept, RowId

LEMMA HomeIsHome == Home => SecretsStayHome
<1> SUFFICES ASSUME Home PROVE SecretsStayHome
  OBVIOUS
<1>1. ASSUME NEW g \in grants
      PROVE  MintedFor(g.secret, TokenUser[g.tok], OrgOf[TokenComp[g.tok]])
  <2>1. <<g.secret, TokenUser[g.tok], OrgOf[TokenComp[g.tok]]>> \in Minted
    BY DEF Home, GrantMints
  <2> QED BY <2>1 DEF Minted
<1>2. ASSUME NEW a \in answers
      PROVE  MintedFor(a.row.secret, a.row.user, a.row.org)
  <2>1. <<a.row.secret, a.row.user, a.row.org>> \in Minted
    BY DEF Home, AnswerMints
  <2> QED BY <2>1 DEF Minted
<1> QED BY <1>1, <1>2 DEF SecretsStayHome

LEMMA InitHome == FaktsInit => Home
<1> SUFFICES ASSUME FaktsInit PROVE Home
  OBVIOUS
<1> USE RegistryAssumption, FaktsAssumption
<1>1. /\ clients = [c \in RowId |->
           IF c \in Seed
             THEN [app |-> c, user |-> SeedUser[c], org |-> OrgOf[SeedComp[c]],
                   comp |-> SeedComp[c], node |-> NodeOf[SeedMan[c]], man |-> SeedMan[c],
                   secret |-> c]
             ELSE None]
      /\ redeem = [r \in RedeemRequest |-> Redeeming!NoRedemption]
      /\ report = [p \in ReportRequest |-> Reporting!NoReport]
      /\ grants = {} /\ answers = {}
  BY SameRows DEF FaktsInit, Redeeming!RedeemInit, Redeeming!RegistryInit,
     Reporting!ReportInit, Device!DeviceOwnInit
<1>2. RedeemMints = {} /\ ReportMints = {} /\ GrantMints = {} /\ AnswerMints = {}
  BY <1>1 DEF RedeemMints, ReportMints, GrantMints, AnswerMints, Redeeming!NoRedemption,
     Reporting!NoReport
<1>3. ASSUME NEW c \in Live
      PROVE  <<clients[c].secret, clients[c].user, clients[c].org>> \in Minted
  <2>1. /\ c \in Seed /\ clients[c].secret = c
        /\ clients[c].user = SeedUser[c] /\ clients[c].org = OrgOf[SeedComp[c]]
    BY <1>1 DEF Live, RowId
  <2>2. c \in RowId /\ SeedUser[c] \in User /\ OrgOf[SeedComp[c]] \in Org
    BY <2>1 DEF RowId
  <2> QED BY <2>1, <2>2 DEF Minted, MintedFor
<1>4. ClientMints \subseteq Minted
  BY <1>3 DEF ClientMints
<1> QED BY <1>2, <1>4 DEF Home

\* The steps of a registration.
LEMMA SameClientMints ==
  ASSUME \A c \in Live' : /\ c \in Live
                          /\ clients'[c].secret = clients[c].secret
                          /\ clients'[c].user = clients[c].user
                          /\ clients'[c].org = clients[c].org
  PROVE  ClientMints' \subseteq ClientMints
BY DEF ClientMints

LEMMA StutterMints ==
  ASSUME UNCHANGED registryVars
  PROVE  EndedKept /\ ClientMints' \subseteq ClientMints
BY DEF registryVars, EndedKept, ClientMints, Live

LEMMA RegisterMints ==
  ASSUME NEW r \in Request, Register(r) \/ Rollback(r), RegistryTypeOK
  PROVE  EndedKept /\ ClientMints' \subseteq ClientMints
<1>1. clients' = clients /\ reg[r].stage # "ended" /\ \A q \in Request \ {r} : reg'[q] = reg[q]
  BY DEF Register, GetOrCreateApp, LockRelease, Upsert, Rollback, RegistryTypeOK, Running
<1> QED BY <1>1 DEF EndedKept, ClientMints, Live

LEMMA EnterMints ==
  ASSUME NEW r \in Request, NEW u, NEW o, NEW k, NEW m, reg[r].stage = "none",
         Enter(r, u, o, k, m), UNCHANGED clients, RegistryTypeOK
  PROVE  EndedKept /\ ClientMints' \subseteq ClientMints
<1>1. \A q \in Request \ {r} : reg'[q] = reg[q]
  BY DEF Enter, RegistryTypeOK
<1> QED BY <1>1 DEF EndedKept, ClientMints, Live

\* A client is written with the secret its registration minted.
LEMMA CommitMints ==
  ASSUME NEW r \in Request, CommitRegistration(r), RegistryTypeOK, RegistrationShape
  PROVE  /\ EndedKept
         /\ ClientMints' \subseteq ClientMints \cup Minted'
         /\ <<r, reg[r].user, reg[r].org>> \in Minted'
<1>1. /\ reg[r] \in Registration /\ reg[r].stage = "written"
      /\ reg' = [reg EXCEPT ![r].stage = "ended"]
      /\ clients' = [clients EXCEPT ![reg[r].target] = Registered(r)]
  BY DEF CommitRegistration, RegistryTypeOK, NoRegistration
<1>2. /\ reg'[r].stage = "ended" /\ reg'[r].user = reg[r].user /\ reg'[r].org = reg[r].org
      /\ \A q \in Request \ {r} : reg'[q] = reg[q]
  BY <1>1 DEF RegistryTypeOK, Registration
<1>3. EndedKept
  BY <1>1, <1>2 DEF EndedKept
<1>4. <<r, reg[r].user, reg[r].org>> \in Minted'
  <2>1. r \in RowId /\ r \notin Seed /\ reg[r].user \in User /\ reg[r].org \in Org
    BY <1>1, RegistryAssumption DEF RowId, Registration
  <2> QED BY <1>2, <2>1 DEF Minted, MintedFor
<1>5. ASSUME NEW c \in Live'
      PROVE  <<clients'[c].secret, clients'[c].user, clients'[c].org>> \in ClientMints \cup Minted'
  <2>1. CASE c = reg[r].target
    <3>1. clients'[c] = Registered(r)
      BY <1>1, <2>1 DEF RegistryTypeOK, Live
    <3> QED BY <1>4, <3>1 DEF Registered
  <2>2. CASE c # reg[r].target
    <3>1. c \in Live /\ clients'[c] = clients[c]
      BY <1>1, <2>2 DEF RegistryTypeOK, Live
    <3> QED BY <3>1 DEF ClientMints
  <2> QED BY <2>1, <2>2
<1>6. ClientMints' \subseteq ClientMints \cup Minted'
  BY <1>5 DEF ClientMints
<1> QED BY <1>3, <1>4, <1>6

LEMMA DeviceMints ==
  ASSUME NEW n \in Node, NEW o \in Org, DeleteDevice(n, o), RegistryTypeOK
  PROVE  EndedKept /\ ClientMints' \subseteq ClientMints
<1>1. \A c \in Live' : /\ c \in Live
                       /\ clients'[c].secret = clients[c].secret
                       /\ clients'[c].user = clients[c].user
                       /\ clients'[c].org = clients[c].org
  BY DEF DeleteDevice, RegistryTypeOK, Live, Client
<1>2. \A r \in Request : reg[r].stage # "written" => reg'[r] = reg[r]
  BY DEF DeleteDevice, Doom
<1> QED BY <1>1, <1>2, SameClientMints DEF EndedKept

LEMMA RemovedMints ==
  ASSUME NEW u \in User, NEW o \in Org, RemoveMember(u, o), RegistryTypeOK
  PROVE  EndedKept /\ ClientMints' \subseteq ClientMints
<1>1. \A c \in Live' : c \in Live /\ clients'[c] = clients[c]
  BY DEF RemoveMember, RegistryTypeOK, Live
<1>2. \A r \in Request : reg[r].stage # "written" => reg'[r] = reg[r]
  BY DEF RemoveMember, Doom
<1> QED BY <1>1, <1>2, SameClientMints DEF EndedKept

-----------------------------------------------------------------------------
(* Secrets stay home: the steps *)

\* A redemption hands out the secret of its token's client, the one it read, or
\* the one it minted.
LEMMA RedeemStepMints ==
  ASSUME Fitting, NEW r \in RedeemRequest, Redeeming!RedeemStep(r)
  PROVE  /\ EndedKept
         /\ ClientMints' \subseteq ClientMints \cup Minted'
         /\ RedeemMints' \subseteq RedeemMints \cup ClientMints
         /\ GrantMints' \subseteq GrantMints \cup ClientMints \cup RedeemMints \cup Minted'
<1>f. /\ RegistryTypeOK /\ RegistrationShape /\ RedeemTyping /\ RedeemFits /\ r \in Request
      /\ redeem \in [RedeemRequest -> Redeeming!Redemption \cup {Redeeming!NoRedemption}]
  BY FaktsAssumption DEF Fitting, Typing, RedeemTyping
<1>t. redeem[r].stage # "new" => redeem[r] \in Redeeming!Redemption
  BY <1>f DEF Redeeming!NoRedemption
<1>u. UNCHANGED registryVars => EndedKept /\ ClientMints' \subseteq ClientMints
  BY StutterMints

\* The request goes on without having read a client.
<1>a. ASSUME NEW status \in {"expired", "lookup", "register", "done"},
             redeem[r] \in Redeeming!Redemption, Redeeming!Answer(r, status)
      PROVE  RedeemMints' \subseteq RedeemMints
  <2>1. redeem'[r].stage # "attach" /\ \A q \in RedeemRequest \ {r} : redeem'[q] = redeem[q]
    BY <1>a, <1>f DEF Redeeming!Answer, Redeeming!Redemption
  <2> QED BY <2>1 DEF RedeemMints

\* An answer is recorded.
<1>g. ASSUME NEW c, NEW s, Redeeming!Granted(r, c, s),
             NEW S, <<s, TokenUser[redeem[r].tok], OrgOf[TokenComp[redeem[r].tok]]>> \in S
      PROVE  GrantMints' \subseteq GrantMints \cup S
  BY <1>g DEF Redeeming!Granted, GrantMints
<1>1. CASE Redeeming!Refuse(r)
  BY <1>1, <1>t, <1>u, <1>a, SameStutter DEF Redeeming!Refuse, GrantMints
<1>2. CASE Redeeming!RedeemAgain(r)
  <2>1. PICK t, c, s :
          /\ t \in Token /\ t = redeem[r].tok /\ c = tokens[t].client /\ s = clients[c].secret
          /\ redeem[r] \in Redeeming!Redemption
          /\ tokens[t] # None /\ c # None /\ Redeeming!Granted(r, c, s)
          /\ Redeeming!Answer(r, "done") /\ UNCHANGED registryVars
    BY <1>2, <1>t, SameStutter DEF Redeeming!RedeemAgain, Redeeming!Redemption
  <2>2. c \in Live
    BY <2>1, <1>f DEF RedeemTyping
  <2>3. clients[c].user = TokenUser[t] /\ clients[c].org = OrgOf[TokenComp[t]]
    BY <2>1, <1>f DEF RedeemFits, TokenClientFitsUser
  <2>4. <<s, TokenUser[t], OrgOf[TokenComp[t]]>> \in ClientMints
    BY <2>1, <2>2, <2>3 DEF ClientMints
  <2>5. GrantMints' \subseteq GrantMints \cup ClientMints
    BY <2>1, <2>4, <1>g
  <2> QED BY <1>a, <1>u, <2>1, <2>5
<1>3. CASE Redeeming!BeginValidation(r)
  BY <1>3, <1>t, <1>u, <1>a, SameStutter DEF Redeeming!BeginValidation, GrantMints
<1>4. CASE Redeeming!FindExpired(r)
  BY <1>4, <1>t, <1>u, <1>a, SameStutter DEF Redeeming!FindExpired, GrantMints
<1>5. CASE Redeeming!DeleteExpired(r)
  BY <1>5, <1>t, <1>u, <1>a, SameStutter
     DEF Redeeming!DeleteExpired, Redeeming!Forget, GrantMints
<1>6. CASE Redeeming!ReuseClient(r)
  <2>1. PICK c \in Redeeming!Reusable(redeem[r].tok, redeem[r].man) :
          redeem' = [redeem EXCEPT ![r].stage = "attach", ![r].client = c,
                                   ![r].secret = clients[c].secret]
    BY <1>6 DEF Redeeming!ReuseClient
  <2>2. /\ c \in Live /\ clients[c].user = TokenUser[redeem[r].tok]
        /\ clients[c].org = OrgOf[TokenComp[redeem[r].tok]]
    BY SameRows DEF Redeeming!Reusable
  <2>3. redeem[r] \in Redeeming!Redemption /\ UNCHANGED registryVars /\ grants' = grants
    BY <1>6, <1>t, SameStutter DEF Redeeming!ReuseClient
  <2>4. /\ redeem'[r].secret = clients[c].secret /\ redeem'[r].tok = redeem[r].tok
        /\ \A q \in RedeemRequest \ {r} : redeem'[q] = redeem[q]
    BY <2>1, <2>3, <1>f DEF Redeeming!Redemption
  <2>5. <<clients[c].secret, TokenUser[redeem[r].tok], OrgOf[TokenComp[redeem[r].tok]]>>
          \in ClientMints
    BY <2>2 DEF ClientMints
  <2>6. RedeemMints' \subseteq RedeemMints \cup ClientMints
    BY <2>4, <2>5 DEF RedeemMints
  <2> QED BY <1>u, <2>3, <2>6 DEF GrantMints
<1>7. CASE Redeeming!NeedClient(r)
  <2>1. /\ redeem[r] \in Redeeming!Redemption /\ redeem[r].stage = "lookup"
        /\ Redeeming!Answer(r, "register") /\ grants' = grants /\ UNCHANGED clients
    BY <1>7, <1>t DEF Redeeming!NeedClient
  <2>2. PICK u, o, k, m : Enter(r, u, o, k, m)
    BY <1>7, SameSteps DEF Redeeming!NeedClient
  <2>3. reg[r].stage = "none"
    BY <1>f, <2>1 DEF RedeemFits, OneFits
  <2>4. EndedKept /\ ClientMints' \subseteq ClientMints
    BY <1>f, <2>1, <2>2, <2>3, EnterMints
  <2> QED BY <1>a, <2>1, <2>4 DEF GrantMints
<1>8. CASE Redeeming!RegisterStep(r)
  <2>1. Register(r) /\ redeem' = redeem /\ grants' = grants
    BY <1>8, SameSteps DEF Redeeming!RegisterStep, Redeeming!redeemVars
  <2> QED BY <1>f, <2>1, RegisterMints DEF RedeemMints, GrantMints
<1>9. CASE Redeeming!CommitReused(r)
  <2>1. PICK c, s : /\ c = redeem[r].client /\ s = redeem[r].secret
                    /\ redeem[r].stage = "attach" /\ Redeeming!Bind(r, c, s)
                    /\ UNCHANGED registryVars /\ redeem[r] \in Redeeming!Redemption
    BY <1>9, <1>t, SameStutter DEF Redeeming!CommitReused
  <2>2. Redeeming!Granted(r, c, s) /\ Redeeming!Answer(r, "done")
    BY <2>1 DEF Redeeming!Bind
  <2>3. <<s, TokenUser[redeem[r].tok], OrgOf[TokenComp[redeem[r].tok]]>> \in RedeemMints
    BY <2>1 DEF RedeemMints
  <2>4. GrantMints' \subseteq GrantMints \cup RedeemMints
    BY <1>g, <2>2, <2>3
  <2> QED BY <1>a, <1>u, <2>1, <2>2, <2>4
<1>10. CASE Redeeming!CommitRegistered(r)
  <2>1. PICK c : c = reg[r].target /\ Redeeming!Bind(r, c, r)
    BY <1>10 DEF Redeeming!CommitRegistered
  <2>2. /\ CommitRegistration(r) /\ redeem[r].stage = "register"
        /\ redeem[r] \in Redeeming!Redemption
        /\ Redeeming!Granted(r, c, r) /\ Redeeming!Answer(r, "done")
    BY <1>10, <1>t, <2>1, SameSteps DEF Redeeming!CommitRegistered, Redeeming!Bind
  <2>3. /\ EndedKept /\ ClientMints' \subseteq ClientMints \cup Minted'
        /\ <<r, reg[r].user, reg[r].org>> \in Minted'
    BY <1>f, <2>2, CommitMints
  <2>4. reg[r].user = TokenUser[redeem[r].tok] /\ reg[r].org = OrgOf[TokenComp[redeem[r].tok]]
    BY <1>f, <2>2 DEF RedeemFits, OneFits
  <2>5. GrantMints' \subseteq GrantMints \cup Minted'
    BY <1>g, <2>2, <2>3, <2>4
  <2> QED BY <1>a, <2>2, <2>3, <2>5
<1>11. CASE Redeeming!Fail(r)
  <2>1. /\ redeem[r] \in Redeeming!Redemption /\ grants' = grants
        /\ Redeeming!Answer(r, "done")
        /\ UNCHANGED registryVars \/ Rollback(r)
    BY <1>11, <1>t, SameStutter, SameSteps DEF Redeeming!Fail
  <2>2. EndedKept /\ ClientMints' \subseteq ClientMints
    BY <1>f, <1>u, <2>1, RegisterMints
  <2> QED BY <1>a, <2>1, <2>2 DEF GrantMints
<1> QED BY <1>1, <1>2, <1>3, <1>4, <1>5, <1>6, <1>7, <1>8, <1>9, <1>10, <1>11
        DEF Redeeming!RedeemStep, Redeeming!Proceed

\* A redemption that arrives has read no client.
LEMMA TokenStepMints ==
  ASSUME Typing, TokenStep
  PROVE  /\ EndedKept /\ ClientMints' \subseteq ClientMints
         /\ RedeemMints' \subseteq RedeemMints /\ GrantMints' \subseteq GrantMints
<1>1. EndedKept /\ ClientMints' \subseteq ClientMints
  BY TokenStepTyping, StutterMints
<1>2. grants' = grants
  BY DEF TokenStep, Redeeming!Redeem, Redeeming!Lapse, Redeeming!EnsureToken
<1>3. ASSUME NEW r \in RedeemRequest, NEW t \in Token, NEW m \in Manifest,
             Redeeming!Redeem(r, t, m)
      PROVE  RedeemMints' \subseteq RedeemMints
  <2>1. /\ redeem'[r].stage = "lock"
        /\ \A q \in RedeemRequest \ {r} : redeem'[q] = redeem[q]
    BY <1>3 DEF Redeeming!Redeem, Typing, RedeemTyping
  <2> QED BY <2>1 DEF RedeemMints
<1>4. redeem' = redeem => RedeemMints' = RedeemMints
  BY DEF RedeemMints
<1> QED BY <1>1, <1>2, <1>3, <1>4
        DEF TokenStep, Redeeming!Lapse, Redeeming!EnsureToken, GrantMints

\* An app is handed the client of its code; an acceptance mints a secret.
LEMMA DeviceFlowMints ==
  ASSUME Fitting, DeviceFlow
  PROVE  /\ EndedKept
         /\ ClientMints' \subseteq ClientMints \cup Minted'
         /\ AnswerMints' \subseteq AnswerMints \cup ClientMints
<1>f. RegistryTypeOK /\ RegistrationShape /\ Typing /\ CodeTyping /\ AcceptFits
  BY DEF Fitting, Typing
<1>1. CASE AppStep
  <2>1. EndedKept /\ ClientMints' \subseteq ClientMints
    BY <1>1, <1>f, AppTyping, StutterMints
  <2>2. ASSUME NEW c \in Code, Device!PollGranted(c)
        PROVE  AnswerMints' \subseteq AnswerMints \cup ClientMints
    <3>1. PICK d, row : /\ d = codes[c].client /\ row = clients[d]
                        /\ codes[c] # None /\ d # None
                        /\ answers' = answers \cup {[code |-> c, client |-> d, row |-> row]}
      BY <2>2 DEF Device!PollGranted
    <3>2. d \in Live
      BY <1>f, <3>1 DEF CodeTyping
    <3>3. <<row.secret, row.user, row.org>> \in ClientMints
      BY <3>1, <3>2 DEF ClientMints
    <3> QED BY <3>1, <3>3 DEF AnswerMints
  <2>3. answers' = answers => AnswerMints' = AnswerMints
    BY DEF AnswerMints
  <2> QED BY <1>1, <2>1, <2>2, <2>3
          DEF AppStep, Device!StartDeviceCode, Device!Lapse, Device!PollFindsExpired,
              Device!DeleteExpiredCode
<1>2. ASSUME NEW r \in AcceptRequest, AcceptStepOf(r)
      PROVE  /\ EndedKept
             /\ ClientMints' \subseteq ClientMints \cup Minted'
             /\ answers' = answers
  <2>r. r \in Request
    BY FaktsAssumption
  <2>1. ASSUME NEW c \in Code \cup {None}, NEW u \in User, NEW o \in Org, NEW k \in Comp,
               NEW m \in Manifest, BeginsAccept(r, c, u, o, k, m)
        PROVE  EndedKept /\ ClientMints' \subseteq ClientMints /\ answers' = answers
    BY <1>f, <2>r, <2>1, EnterMints DEF BeginsAccept, AcceptFits
  <2>2. CASE Device!AcceptRegisters(r) \/ Device!FailAccept(r)
    <3>1. (Register(r) \/ Rollback(r)) /\ answers' = answers
      BY <2>2, SameSteps DEF Device!AcceptRegisters, Device!FailAccept, Device!deviceVars
    <3> QED BY <1>f, <2>r, <3>1, RegisterMints
  <2>3. CASE Device!CommitAccept(r)
    <3>1. CommitRegistration(r) /\ answers' = answers
      BY <2>3, SameSteps DEF Device!CommitAccept
    <3> QED BY <1>f, <2>r, <3>1, CommitMints
  <2> QED BY <1>2, <1>f, <2>1, <2>2, <2>3, AcceptSteps DEF Device!AcceptStep
<1> QED BY <1>1, <1>2 DEF DeviceFlow, AnswerMints

\* A report writes back the secret it read.
LEMMA ReportMinting ==
  ASSUME Fitting, Reporting!ReportSteps
  PROVE  /\ EndedKept
         /\ ClientMints' \subseteq ClientMints \cup ReportMints
         /\ ReportMints' \subseteq ReportMints \cup ClientMints
<1>f. /\ RegistryTypeOK
      /\ report \in [ReportRequest -> Reporting!Report \cup {Reporting!NoReport}]
  BY DEF Fitting, Typing, ReportTyping
<1>1. ASSUME NEW p \in ReportRequest, NEW c \in RowId, Reporting!ReadClient(p, c)
      PROVE  /\ EndedKept /\ ClientMints' \subseteq ClientMints
             /\ ReportMints' \subseteq ReportMints \cup ClientMints
  <2>1. /\ UNCHANGED registryVars /\ c \in Live
        /\ report'[p] = [stage |-> "read", client |-> c, row |-> clients[c]]
        /\ \A q \in ReportRequest \ {p} : report'[q] = report[q]
    BY <1>1, <1>f, SameRows, SameStutter DEF Reporting!ReadClient
  <2>2. <<clients[c].secret, clients[c].user, clients[c].org>> \in ClientMints
    BY <2>1 DEF ClientMints
  <2>3. ReportMints' \subseteq ReportMints \cup ClientMints
    BY <2>1, <2>2 DEF ReportMints
  <2> QED BY <2>1, <2>3, StutterMints
<1>2. ASSUME NEW p \in ReportRequest, Reporting!SaveReport(p)
      PROVE  /\ EndedKept /\ ClientMints' \subseteq ClientMints \cup ReportMints
             /\ ReportMints' \subseteq ReportMints
  <2>1. PICK c, row : /\ c = report[p].client /\ row = report[p].row
                      /\ clients' = [clients EXCEPT ![c] = row]
                      /\ report[p].stage = "read" /\ reg' = reg /\ c \in Live
                      /\ report' = [report EXCEPT ![p].stage = "done"]
    BY <1>2, SameRows DEF Reporting!SaveReport
  <2>2. <<row.secret, row.user, row.org>> \in ReportMints
    BY <2>1 DEF ReportMints
  <2>3. ASSUME NEW d \in Live'
        PROVE  <<clients'[d].secret, clients'[d].user, clients'[d].org>>
                 \in ClientMints \cup ReportMints
    <3>1. d = c => clients'[d] = row
      BY <1>f, <2>1 DEF RegistryTypeOK, Live
    <3>2. d # c => d \in Live /\ clients'[d] = clients[d]
      BY <1>f, <2>1 DEF RegistryTypeOK, Live
    <3> QED BY <2>2, <3>1, <3>2 DEF ClientMints
  <2>4. ClientMints' \subseteq ClientMints \cup ReportMints
    BY <2>3 DEF ClientMints
  <2>5. /\ report'[p].stage = "done"
        /\ \A q \in ReportRequest \ {p} : report'[q] = report[q]
    BY <1>f, <2>1 DEF Reporting!Report, Reporting!NoReport
  <2>6. ReportMints' \subseteq ReportMints
    BY <2>5 DEF ReportMints
  <2> QED BY <2>1, <2>4, <2>6 DEF EndedKept
<1>3. ASSUME NEW p \in ReportRequest, Reporting!FailReport(p)
      PROVE  /\ EndedKept /\ ClientMints' \subseteq ClientMints
             /\ ReportMints' \subseteq ReportMints
  <2>1. UNCHANGED registryVars /\ report' = [report EXCEPT ![p].stage = "done"]
        /\ report[p].stage = "read"
    BY <1>3, SameStutter DEF Reporting!FailReport
  <2>2. /\ report'[p].stage # "read"
        /\ \A q \in ReportRequest \ {p} : report'[q] = report[q]
    BY <1>f, <2>1 DEF Reporting!Report, Reporting!NoReport
  <2>3. ReportMints' \subseteq ReportMints
    BY <2>2 DEF ReportMints
  <2> QED BY <2>1, <2>3, StutterMints
<1> QED BY <1>1, <1>2, <1>3, SameRows DEF Reporting!ReportSteps

\* Whatever happens, what is used comes from what was used or was just minted.
LEMMA HomeStep == Fitting /\ Home /\ [Next]_vars => Home'
<1> SUFFICES ASSUME Fitting, Home, [Next]_vars PROVE Home'
  OBVIOUS
<1>f. Typing /\ RegistryTypeOK
  BY DEF Fitting, Typing
<1>s. /\ UNCHANGED redeemVars => RedeemMints' = RedeemMints /\ GrantMints' = GrantMints
      /\ UNCHANGED deviceVars => AnswerMints' = AnswerMints
      /\ UNCHANGED report => ReportMints' = ReportMints
  BY DEF redeemVars, deviceVars, RedeemMints, GrantMints, AnswerMints, ReportMints
<1>1. CASE RedeemFlow
  <2>1. AnswerMints' = AnswerMints /\ ReportMints' = ReportMints
    BY <1>1, <1>s DEF RedeemFlow
  <2>2. CASE TokenStep
    BY <1>f, <2>1, <2>2, TokenStepMints, MintedKept DEF Home
  <2>3. CASE \E r \in RedeemRequest : Redeeming!RedeemStep(r)
    <3>1. /\ EndedKept /\ ClientMints' \subseteq ClientMints \cup Minted'
          /\ RedeemMints' \subseteq RedeemMints \cup ClientMints
          /\ GrantMints' \subseteq GrantMints \cup ClientMints \cup RedeemMints \cup Minted'
      BY <2>3, RedeemStepMints
    <3> QED BY <2>1, <3>1, MintedKept DEF Home
  <2> QED BY <1>1, <2>2, <2>3 DEF RedeemFlow
<1>2. CASE DeviceFlow
  <2>1. /\ RedeemMints' = RedeemMints /\ GrantMints' = GrantMints
        /\ ReportMints' = ReportMints
    BY <1>2, <1>s DEF DeviceFlow
  <2> QED BY <1>2, <2>1, DeviceFlowMints, MintedKept DEF Home
<1>3. CASE Reporting!ReportSteps /\ UNCHANGED <<redeemVars, deviceVars>>
  BY <1>3, <1>s, ReportMinting, MintedKept DEF Home
<1>4. CASE DeviceGone
  <2>1. PICK n \in DeletableNode, o \in Org :
          DeleteDevice(n, o) /\ UNCHANGED <<redeemVars, deviceVars, report>>
    BY <1>4 DEF DeviceGone
  <2>2. EndedKept /\ ClientMints' \subseteq ClientMints
    BY <1>f, <2>1, DeviceMints, RegistryAssumption
  <2> QED BY <1>s, <2>1, <2>2, MintedKept DEF Home
<1>5. ASSUME NEW u \in User, NEW o \in Org, MemberRemoved(u, o)
      PROVE  Home'
  <2>1. /\ RemoveMember(u, o) /\ UNCHANGED <<redeem, answers, report>>
        /\ grants' \subseteq grants
    BY <1>5, SameRemoval DEF MemberRemoved, Redeeming!MemberRemoved, Redeeming!Forget
  <2>2. EndedKept /\ ClientMints' \subseteq ClientMints
    BY <1>f, <2>1, RemovedMints
  <2>3. /\ RedeemMints' = RedeemMints /\ AnswerMints' = AnswerMints
        /\ ReportMints' = ReportMints /\ GrantMints' \subseteq GrantMints
    BY <2>1 DEF RedeemMints, AnswerMints, ReportMints, GrantMints
  <2> QED BY <2>2, <2>3, MintedKept DEF Home
<1>6. CASE UNCHANGED vars
  <2>1. EndedKept /\ ClientMints' \subseteq ClientMints
    BY <1>6, StutterMints DEF vars
  <2> QED BY <1>6, <1>s, <2>1, MintedKept DEF Home, vars
<1> QED BY <1>1, <1>2, <1>3, <1>4, <1>5, <1>6, NextSteps

\* However many redemptions, acceptances, developmental registrations, reports
\* and removals interleave, and whatever becomes of the client between the read
\* and the answer, no answer hands out a secret minted for another user or
\* another organization than it is for.
THEOREM SecretsHome == Spec => []SecretsStayHome
<1>1. FaktsInit => Fitting /\ Home
  BY InitFitting, InitHome
<1>2. (Fitting /\ Home) /\ [Next]_vars => (Fitting /\ Home)'
  BY FittingStep, HomeStep
<1>3. Fitting /\ Home => SecretsStayHome
  BY HomeIsHome
<1> QED BY <1>1, <1>2, <1>3, PTL DEF Spec

-----------------------------------------------------------------------------
(* One manifest and one client per token *)

\* The one-to-one relation.
TokenClientsDiffer ==
  \A t, u \in Token :
    ( /\ t # u /\ tokens[t] # None /\ tokens[u] # None
      /\ tokens[t].client # None )
    => tokens[t].client # tokens[u].client

\* At most one transaction holds a token row.
OneHolder ==
  \A r, q \in RedeemRequest :
    Redeeming!HoldsToken(r) /\ Redeeming!HoldsToken(q) /\ redeem[r].tok = redeem[q].tok => r = q

\* While a row is held it stays as it was when it was read: not bound unless
\* it may be bound again.
HeldMayBeBound ==
  \A r \in RedeemRequest : Redeeming!HoldsToken(r) =>
    \/ tokens[redeem[r].tok].client = None
    \/ /\ redeem[r].tok \in Reredeemable
       /\ tokens[redeem[r].tok].man \notin {None, redeem[r].man}

\* A request that goes on with the same token and manifest.
SameTokenAndManifest(r) ==
  redeem'[r].tok = redeem[r].tok /\ redeem'[r].man = redeem[r].man

\* The grants for a token that may not be redeemed again are its binding.
GrantsAreBindings ==
  \A g \in grants : g.tok \notin Reredeemable =>
    /\ tokens[g.tok] # None
    /\ tokens[g.tok].client = g.client
    /\ tokens[g.tok].man = g.man

Binding ==
  /\ TokenClientsDiffer
  /\ OneHolder
  /\ HeldMayBeBound
  /\ GrantsAreBindings

LEMMA InitBinding == FaktsInit => Binding
<1> SUFFICES ASSUME FaktsInit PROVE Binding
  OBVIOUS
<1>1. TokenClientsDiffer
  BY DEF FaktsInit, Redeeming!RedeemInit, TokenClientsDiffer
<1>2. OneHolder /\ HeldMayBeBound
  BY DEF FaktsInit, Redeeming!RedeemInit, OneHolder, HeldMayBeBound,
     Redeeming!HoldsToken, Redeeming!NoRedemption
<1>3. GrantsAreBindings
  BY DEF FaktsInit, Redeeming!RedeemInit, GrantsAreBindings
<1> QED BY <1>1, <1>2, <1>3 DEF Binding

\* Nothing is written to the tokens and the grants, and nobody begins to hold
\* a token.
LEMMA QuietBinding ==
  ASSUME Binding, tokens' = tokens, grants' = grants,
         \A q \in RedeemRequest :
           Redeeming!HoldsToken(q)' => Redeeming!HoldsToken(q) /\ SameTokenAndManifest(q)
  PROVE  Binding'
<1> USE DEF SameTokenAndManifest
<1>1. TokenClientsDiffer' /\ GrantsAreBindings'
  BY DEF Binding, TokenClientsDiffer, GrantsAreBindings
<1>2. OneHolder'
  BY DEF Binding, OneHolder
<1>3. HeldMayBeBound'
  BY DEF Binding, HeldMayBeBound
<1> QED BY <1>1, <1>2, <1>3 DEF Binding

\* What a commit that binds a token writes.
LEMMA BindWrites ==
  ASSUME Typing, NEW r \in RedeemRequest, NEW c \in RowId, NEW s,
         Redeeming!HoldsToken(r), Redeeming!Bind(r, c, s)
  PROVE  /\ redeem[r].tok \in Token /\ redeem[r].man \in Manifest
         /\ tokens[redeem[r].tok] # None
         /\ tokens'[redeem[r].tok] \in Redeeming!TokenRow
         /\ tokens'[redeem[r].tok].client = c
         /\ tokens'[redeem[r].tok].man = redeem[r].man
         /\ \A u \in Token \ {redeem[r].tok} : tokens'[u] = tokens[u]
         /\ \A q \in RedeemRequest :
              Redeeming!HoldsToken(q)' =>
                q # r /\ Redeeming!HoldsToken(q) /\ SameTokenAndManifest(q)
<1> PICK t : t = redeem[r].tok
  OBVIOUS
<1>1. /\ redeem[r] \in Redeeming!Redemption /\ tokens[t] # None
      /\ redeem \in [RedeemRequest -> Redeeming!Redemption \cup {Redeeming!NoRedemption}]
  BY DEF Typing, RedeemTyping, Redeeming!HoldsToken, Redeeming!NoRedemption
<1>2. t \in Token /\ redeem[r].man \in Manifest /\ tokens[t] \in Redeeming!TokenRow
  BY <1>1 DEF Redeeming!Redemption, Typing, RedeemTyping
<1>3. tokens' = [tokens EXCEPT ![t].client = c, ![t].man = redeem[r].man]
  BY DEF Redeeming!Bind
<1>4. tokens'[t] = [tokens[t] EXCEPT !.client = c, !.man = redeem[r].man]
  BY <1>2, <1>3 DEF Typing, RedeemTyping
<1>5. /\ tokens'[t] \in Redeeming!TokenRow
      /\ tokens'[t].client = c /\ tokens'[t].man = redeem[r].man
  BY <1>2, <1>4, SameRows DEF Redeeming!TokenRow
<1>6. \A u \in Token \ {t} : tokens'[u] = tokens[u]
  BY <1>2, <1>3 DEF Typing, RedeemTyping
<1>7. \A q \in RedeemRequest :
        Redeeming!HoldsToken(q)' => q # r /\ Redeeming!HoldsToken(q) /\ SameTokenAndManifest(q)
  BY <1>1 DEF Redeeming!Bind, Redeeming!Answer, Redeeming!HoldsToken, Redeeming!Redemption,
     SameTokenAndManifest
<1> QED BY <1>1, <1>2, <1>5, <1>6, <1>7

\* A held token is bound: it was not bound, or it may be bound again.
LEMMA BindBinding ==
  ASSUME Typing, Binding, NEW r \in RedeemRequest, NEW c \in RowId, NEW s \in RowId,
         Redeeming!HoldsToken(r), Redeeming!Bind(r, c, s)
  PROVE  Binding'
<1> USE DEF SameTokenAndManifest
<1> DEFINE t == redeem[r].tok
<1>1. /\ t \in Token /\ tokens[t] # None /\ tokens'[t] # None
      /\ tokens'[t].client = c /\ tokens'[t].man = redeem[r].man
      /\ \A u \in Token \ {t} : tokens'[u] = tokens[u]
  BY BindWrites, FaktsAssumption
<1>2. \A q \in RedeemRequest : Redeeming!HoldsToken(q) => redeem[q].tok \in Token
  BY DEF Redeeming!HoldsToken, Redeeming!NoRedemption, Redeeming!Redemption, Typing, RedeemTyping
<1>3. \A q \in RedeemRequest :
        Redeeming!HoldsToken(q)' => q # r /\ Redeeming!HoldsToken(q) /\ SameTokenAndManifest(q)
  BY BindWrites
<1>4. TokenClientsDiffer'
  <2>1. \A u \in Token \ {t} : tokens[u] = None \/ tokens[u].client # c
    BY DEF Redeeming!Bind, Redeeming!TakenByOther
  <2> HIDE DEF t
  <2> QED BY <1>1, <2>1 DEF Binding, TokenClientsDiffer
<1>5. OneHolder'
  BY <1>3 DEF Binding, OneHolder
<1>6. HeldMayBeBound'
  <2> SUFFICES ASSUME NEW q \in RedeemRequest, Redeeming!HoldsToken(q)'
               PROVE  \/ tokens'[redeem'[q].tok].client = None
                      \/ /\ redeem'[q].tok \in Reredeemable
                         /\ tokens'[redeem'[q].tok].man \notin {None, redeem'[q].man}
    BY DEF HeldMayBeBound
  <2>1. q # r /\ Redeeming!HoldsToken(q) /\ SameTokenAndManifest(q)
    BY <1>3
  <2>2. redeem[q].tok # t
    BY <2>1 DEF Binding, OneHolder
  <2>3. redeem[q].tok \in Token
    BY <1>2, <2>1
  <2> QED BY <1>1, <2>1, <2>2, <2>3 DEF Binding, HeldMayBeBound
<1>7. GrantsAreBindings'
  <2> SUFFICES ASSUME NEW g \in grants', g.tok \notin Reredeemable
               PROVE  /\ tokens'[g.tok] # None
                      /\ tokens'[g.tok].client = g.client
                      /\ tokens'[g.tok].man = g.man
    BY DEF GrantsAreBindings
  <2>2. CASE g \notin grants
    <3>1. g = [req |-> r, tok |-> t, man |-> redeem[r].man, client |-> c, secret |-> s]
      BY <2>2 DEF Redeeming!Bind, Redeeming!Granted
    <3> QED BY <1>1, <3>1
  <2>3. CASE g \in grants
    <3>1. g.tok \in Token /\ g.client \in RowId
      BY <2>3, SameRows DEF Typing, RedeemTyping, Redeeming!Grant
    <3>2. g.tok # t
      BY <2>3, <3>1, RegistryAssumption DEF Binding, GrantsAreBindings, HeldMayBeBound
    <3> QED BY <1>1, <2>3, <3>1, <3>2 DEF Binding, GrantsAreBindings
  <2> QED BY <2>2, <2>3
<1> QED BY <1>4, <1>5, <1>6, <1>7 DEF Binding

\* Both commits of a redemption bind the token it holds.
LEMMA CommitBinds ==
  ASSUME Typing, NEW r \in RedeemRequest,
         Redeeming!CommitReused(r) \/ Redeeming!CommitRegistered(r)
  PROVE  Redeeming!HoldsToken(r) /\ \E c, s \in RowId : Redeeming!Bind(r, c, s)
<1>1. CASE Redeeming!CommitReused(r)
  BY <1>1 DEF Redeeming!CommitReused, Redeeming!HoldsToken, Typing, RedeemTyping
<1>2. CASE Redeeming!CommitRegistered(r)
  <2>1. r \in RowId /\ reg[r].target \in RowId
    BY <1>2, FaktsAssumption DEF Redeeming!CommitRegistered, Redeeming!CommitRegistration, RowId,
       Typing, RegistrationShape
  <2> QED BY <1>2, <2>1 DEF Redeeming!CommitRegistered, Redeeming!HoldsToken
<1> QED BY <1>1, <1>2

LEMMA RequestBinding ==
  ASSUME Typing, Binding, NEW r \in RedeemRequest, Redeeming!RedeemStep(r)
  PROVE  Binding'
<1> USE DEF SameTokenAndManifest
<1>r. redeem \in [RedeemRequest -> Redeeming!Redemption \cup {Redeeming!NoRedemption}]
  BY DEF Typing, RedeemTyping
<1>t. redeem[r].stage # "new" => redeem[r] \in Redeeming!Redemption
  BY <1>r DEF Redeeming!NoRedemption
\* A step after which the request holds its token only if it did before.
<1>s. ASSUME NEW status \in {"expired", "done"}, Redeeming!Answer(r, status),
             redeem[r] \in Redeeming!Redemption
      PROVE  \A q \in RedeemRequest :
               Redeeming!HoldsToken(q)' => Redeeming!HoldsToken(q) /\ SameTokenAndManifest(q)
  BY <1>s, <1>r DEF Redeeming!Answer, Redeeming!HoldsToken, Redeeming!Redemption
<1>1. CASE Redeeming!Refuse(r)
  BY <1>1, <1>t, <1>s, QuietBinding DEF Redeeming!Refuse
<1>2. CASE Redeeming!RedeemAgain(r)
  <2> DEFINE t == redeem[r].tok
  <2>1. /\ redeem[r] \in Redeeming!Redemption /\ t \in Token /\ redeem[r].man \in Manifest
        /\ tokens[t] \in Redeeming!TokenRow /\ tokens[t] # None
    BY <1>2, <1>t DEF Redeeming!RedeemAgain, Redeeming!Redemption, Typing, RedeemTyping
  <2>2. tokens' = [tokens EXCEPT ![t].man = redeem[r].man]
    BY <1>2 DEF Redeeming!RedeemAgain
  <2>3. /\ tokens'[t] # None /\ tokens'[t].client = tokens[t].client
        /\ tokens'[t].man = redeem[r].man
        /\ \A u \in Token \ {t} : tokens'[u] = tokens[u]
    BY <2>1, <2>2, FaktsAssumption DEF Redeeming!TokenRow, Typing, RedeemTyping
  <2>4. \A q \in RedeemRequest :
          Redeeming!HoldsToken(q)' => Redeeming!HoldsToken(q) /\ SameTokenAndManifest(q)
    BY <1>2, <2>1, <1>s DEF Redeeming!RedeemAgain
  <2>5. TokenClientsDiffer'
    BY <2>1, <2>3 DEF Binding, TokenClientsDiffer
  <2>6. OneHolder'
    BY <2>4 DEF Binding, OneHolder
  <2>7. HeldMayBeBound'
    <3>1. \A q \in RedeemRequest : Redeeming!HoldsToken(q) => redeem[q].tok \in Token
      BY <1>r DEF Redeeming!HoldsToken, Redeeming!NoRedemption, Redeeming!Redemption
    <3>2. \A q \in RedeemRequest : Redeeming!HoldsToken(q) => redeem[q].tok # t
      BY <1>2 DEF Redeeming!RedeemAgain, Redeeming!Locked
    <3> QED BY <2>3, <2>4, <3>1, <3>2 DEF Binding, HeldMayBeBound
  <2>8. GrantsAreBindings'
    <3> SUFFICES ASSUME NEW g \in grants', g.tok \notin Reredeemable
                 PROVE  /\ tokens'[g.tok] # None
                        /\ tokens'[g.tok].client = g.client
                        /\ tokens'[g.tok].man = g.man
      BY DEF GrantsAreBindings
    <3>1. CASE g \notin grants
      <4>1. /\ g.tok = t /\ g.man = redeem[r].man /\ g.client = tokens[t].client
        BY <1>2, <3>1 DEF Redeeming!RedeemAgain, Redeeming!Granted
      <4> QED BY <4>1, <2>3
    <3>2. CASE g \in grants
      <4>1. g.tok \in Token /\ g.man \in Manifest
        BY <3>2 DEF Typing, RedeemTyping, Redeeming!Grant
      <4>2. g.tok = t => g.man = redeem[r].man
        BY <1>2, <3>2, <4>1, RegistryAssumption
           DEF Redeeming!RedeemAgain, Binding, GrantsAreBindings
      <4> QED BY <2>3, <3>2, <4>1, <4>2 DEF Binding, GrantsAreBindings
    <3> QED BY <3>1, <3>2
  <2> QED BY <2>5, <2>6, <2>7, <2>8 DEF Binding
<1>3. CASE Redeeming!BeginValidation(r)
  <2> DEFINE t == redeem[r].tok
  <2>1. redeem[r] \in Redeeming!Redemption /\ t \in Token
    BY <1>3, <1>t DEF Redeeming!BeginValidation, Redeeming!Redemption
  <2>2. \A q \in RedeemRequest :
          Redeeming!HoldsToken(q)' => SameTokenAndManifest(q) /\ (q = r \/ Redeeming!HoldsToken(q))
    BY <1>3, <1>r, <2>1 DEF Redeeming!BeginValidation, Redeeming!Answer,
       Redeeming!HoldsToken, Redeeming!Redemption
  <2>3. OneHolder'
    BY <1>3, <2>2 DEF Redeeming!BeginValidation, Redeeming!Locked, Binding, OneHolder
  <2>4. HeldMayBeBound'
    BY <1>3, <2>2 DEF Redeeming!BeginValidation, Binding, HeldMayBeBound
  <2> QED BY <1>3, <2>3, <2>4
          DEF Redeeming!BeginValidation, Binding, TokenClientsDiffer, GrantsAreBindings
<1>4. CASE Redeeming!FindExpired(r)
  BY <1>4, <1>t, <1>s, QuietBinding DEF Redeeming!FindExpired
<1>5. CASE Redeeming!DeleteExpired(r)
  <2> DEFINE t == redeem[r].tok
  <2>1. redeem[r] \in Redeeming!Redemption /\ t \in Token
    BY <1>5, <1>t DEF Redeeming!DeleteExpired, Redeeming!Redemption
  <2>2. tokens'[t] = None /\ \A u \in Token \ {t} : tokens'[u] = tokens[u]
    BY <1>5, <2>1 DEF Redeeming!DeleteExpired, Typing, RedeemTyping
  <2>3. \A q \in RedeemRequest :
          Redeeming!HoldsToken(q)' => Redeeming!HoldsToken(q) /\ SameTokenAndManifest(q)
    BY <1>5, <2>1, <1>s DEF Redeeming!DeleteExpired
  <2>4. TokenClientsDiffer'
    BY <2>1, <2>2 DEF Binding, TokenClientsDiffer
  <2>5. OneHolder'
    BY <2>3 DEF Binding, OneHolder
  <2>6. HeldMayBeBound'
    <3>1. \A q \in RedeemRequest :
            Redeeming!HoldsToken(q) => redeem[q].tok \in Token /\ redeem[q].tok # t
      BY <1>r, <1>5 DEF Redeeming!HoldsToken, Redeeming!NoRedemption, Redeeming!Redemption,
         Redeeming!DeleteExpired, Redeeming!Locked
    <3> QED BY <2>2, <2>3, <3>1 DEF Binding, HeldMayBeBound
  <2>7. GrantsAreBindings'
    <3>1. \A g \in grants' : g \in grants /\ g.tok \in Token /\ g.tok # t
      BY <1>5 DEF Redeeming!DeleteExpired, Redeeming!Forget, Typing, RedeemTyping, Redeeming!Grant
    <3> QED BY <2>2, <3>1 DEF Binding, GrantsAreBindings
  <2> QED BY <2>4, <2>5, <2>6, <2>7 DEF Binding
<1>6. CASE Redeeming!ReuseClient(r)
  <2>1. PICK c \in Redeeming!Reusable(redeem[r].tok, redeem[r].man) :
          redeem' = [redeem EXCEPT ![r].stage = "attach", ![r].client = c,
                                   ![r].secret = clients[c].secret]
    BY <1>6 DEF Redeeming!ReuseClient
  <2>2. redeem[r] \in Redeeming!Redemption
    BY <1>6, <1>t DEF Redeeming!ReuseClient
  <2>3. \A q \in RedeemRequest :
          Redeeming!HoldsToken(q)' => Redeeming!HoldsToken(q) /\ SameTokenAndManifest(q)
    BY <1>6, <1>r, <2>1, <2>2 DEF Redeeming!ReuseClient, Redeeming!HoldsToken, Redeeming!Redemption
  <2> QED BY <1>6, <2>3, QuietBinding DEF Redeeming!ReuseClient
<1>7. CASE Redeeming!NeedClient(r)
  <2>1. redeem[r] \in Redeeming!Redemption
    BY <1>7, <1>t DEF Redeeming!NeedClient
  <2>2. \A q \in RedeemRequest :
          Redeeming!HoldsToken(q)' => Redeeming!HoldsToken(q) /\ SameTokenAndManifest(q)
    BY <1>7, <1>r, <2>1 DEF Redeeming!NeedClient, Redeeming!Answer, Redeeming!HoldsToken,
       Redeeming!Redemption
  <2> QED BY <1>7, <2>2, QuietBinding DEF Redeeming!NeedClient
<1>8. CASE Redeeming!RegisterStep(r)
  BY <1>8, QuietBinding DEF Redeeming!RegisterStep, Redeeming!redeemVars, Redeeming!HoldsToken
<1>9. CASE Redeeming!CommitReused(r) \/ Redeeming!CommitRegistered(r)
  BY <1>9, CommitBinds, BindBinding
<1>11. CASE Redeeming!Fail(r)
  BY <1>11, <1>t, <1>s, QuietBinding DEF Redeeming!Fail
<1> QED BY <1>1, <1>2, <1>3, <1>4, <1>5, <1>6, <1>7, <1>8, <1>9, <1>11
        DEF Redeeming!RedeemStep, Redeeming!Proceed

LEMMA TokenStepBinding ==
  ASSUME Typing, Binding, TokenStep
  PROVE  Binding'
<1> USE DEF SameTokenAndManifest
<1>y. /\ tokens \in [Token -> Redeeming!TokenRow \cup {None}]
      /\ redeem \in [RedeemRequest -> Redeeming!Redemption \cup {Redeeming!NoRedemption}]
      /\ \A q \in RedeemRequest : Redeeming!HoldsToken(q) => tokens[redeem[q].tok] # None
      /\ \A g \in grants : g.tok \in Token
  BY DEF Typing, RedeemTyping, Redeeming!Grant
<1>h. \A q \in RedeemRequest : Redeeming!HoldsToken(q) => redeem[q].tok \in Token
  BY <1>y DEF Redeeming!HoldsToken, Redeeming!NoRedemption, Redeeming!Redemption
<1>1. ASSUME NEW r \in RedeemRequest, NEW t \in Token, NEW m \in Manifest,
             Redeeming!Redeem(r, t, m)
      PROVE  Binding'
  <2>1. /\ redeem[r].stage = "new" /\ redeem'[r].stage = "lock"
        /\ \A q \in RedeemRequest \ {r} : redeem'[q] = redeem[q]
        /\ tokens' = tokens /\ grants' = grants
    BY <1>1, <1>y DEF Redeeming!Redeem
  <2> QED BY <2>1, QuietBinding DEF Redeeming!HoldsToken
<1>2. ASSUME NEW t \in Token, Redeeming!Lapse(t) PROVE Binding'
  <2>1. /\ tokens[t] \in Redeeming!TokenRow /\ tokens[t] # None
        /\ tokens' = [tokens EXCEPT ![t].expiry = "past"]
        /\ redeem' = redeem /\ grants' = grants
    BY <1>2, <1>y DEF Redeeming!Lapse
  <2>2. /\ tokens'[t] \in Redeeming!TokenRow
        /\ tokens'[t].client = tokens[t].client /\ tokens'[t].man = tokens[t].man
        /\ \A u \in Token \ {t} : tokens'[u] = tokens[u]
    BY <1>y, <2>1 DEF Redeeming!TokenRow
  <2>3. tokens'[t] # None
    BY <2>2, FaktsAssumption
  <2>4. TokenClientsDiffer'
    BY <2>1, <2>2 DEF Binding, TokenClientsDiffer
  <2>5. GrantsAreBindings'
    BY <1>y, <2>1, <2>2, <2>3 DEF Binding, GrantsAreBindings
  <2>6. OneHolder' /\ HeldMayBeBound'
    BY <1>h, <2>1, <2>2 DEF Redeeming!HoldsToken, Binding, OneHolder, HeldMayBeBound
  <2> QED BY <2>4, <2>5, <2>6 DEF Binding
<1>3. ASSUME NEW t \in Configured, Redeeming!EnsureToken(t) PROVE Binding'
  <2>1. /\ tokens[t] = None /\ tokens'[t].client = None
        /\ \A u \in Token \ {t} : tokens'[u] = tokens[u]
        /\ redeem' = redeem /\ grants' = grants
    BY <1>3, <1>y, FaktsAssumption DEF Redeeming!EnsureToken
  <2>2. TokenClientsDiffer'
    BY <2>1 DEF Binding, TokenClientsDiffer
  <2>3. GrantsAreBindings'
    BY <1>y, <2>1 DEF Binding, GrantsAreBindings
  <2>4. OneHolder' /\ HeldMayBeBound'
    BY <1>y, <1>h, <2>1 DEF Redeeming!HoldsToken, Binding, OneHolder, HeldMayBeBound
  <2> QED BY <2>2, <2>3, <2>4 DEF Binding
<1> QED BY <1>1, <1>2, <1>3 DEF TokenStep

\* The tokens that go with a removed membership are held by nobody.
LEMMA RemovedTokens ==
  ASSUME NEW u \in User, NEW o \in Org, MemberRemoved(u, o)
  PROVE  \E gone \in SUBSET Token :
           /\ \A t \in gone : ~Redeeming!Locked(t) /\ tokens'[t] = None
           /\ \A t \in Token \ gone : tokens'[t] = tokens[t]
           /\ Redeeming!Forget(gone)
           /\ redeem' = redeem
<1> DEFINE gone == {t \in Token : /\ tokens[t] # None
                                  /\ tokens[t].client \in Redeeming!ClientsOf(u, o)}
<1>1. /\ \A t \in gone : ~Redeeming!Locked(t)
      /\ tokens' = [t \in Token |-> IF t \in gone THEN None ELSE tokens[t]]
      /\ Redeeming!Forget(gone)
      /\ redeem' = redeem
  BY DEF MemberRemoved, Redeeming!MemberRemoved
<1>2. gone \in SUBSET Token
  OBVIOUS
<1> HIDE DEF gone
<1> QED BY <1>1, <1>2

LEMMA RemovedBinding ==
  ASSUME Typing, Binding, NEW u \in User, NEW o \in Org, MemberRemoved(u, o)
  PROVE  Binding'
<1>h. \A q \in RedeemRequest : Redeeming!HoldsToken(q) => redeem[q].tok \in Token
  BY DEF Typing, RedeemTyping, Redeeming!HoldsToken, Redeeming!NoRedemption,
         Redeeming!Redemption
<1>1. PICK gone \in SUBSET Token :
        /\ \A t \in gone : ~Redeeming!Locked(t) /\ tokens'[t] = None
        /\ \A t \in Token \ gone : tokens'[t] = tokens[t]
        /\ Redeeming!Forget(gone)
        /\ redeem' = redeem
  BY RemovedTokens
<1>2. TokenClientsDiffer'
  BY <1>1 DEF Binding, TokenClientsDiffer
<1>3. GrantsAreBindings'
  <2>1. \A g \in grants' : g \in grants /\ g.tok \in Token \ gone
    BY <1>1 DEF Redeeming!Forget, Typing, RedeemTyping, Redeeming!Grant
  <2> QED BY <1>1, <2>1 DEF Binding, GrantsAreBindings
<1>4. OneHolder'
  BY <1>1 DEF Redeeming!HoldsToken, Binding, OneHolder
<1>5. HeldMayBeBound'
  <2>1. \A q \in RedeemRequest : Redeeming!HoldsToken(q) => redeem[q].tok \in Token \ gone
    BY <1>h, <1>1 DEF Redeeming!Locked
  <2> QED BY <1>1, <2>1 DEF Redeeming!HoldsToken, Binding, HeldMayBeBound
<1> QED BY <1>2, <1>3, <1>4, <1>5 DEF Binding

LEMMA BindingStep == Typing /\ Binding /\ [Next]_vars => Binding'
<1> SUFFICES ASSUME Typing, Binding, [Next]_vars PROVE Binding'
  OBVIOUS
\* The other flows leave the redemptions alone.
<1>q. ASSUME UNCHANGED redeemVars PROVE Binding'
  BY <1>q, QuietBinding DEF redeemVars, Redeeming!HoldsToken, SameTokenAndManifest
<1>1. CASE RedeemFlow
  BY <1>1, RequestBinding, TokenStepBinding DEF RedeemFlow
<1>2. CASE \E u \in User, o \in Org : MemberRemoved(u, o)
  BY <1>2, RemovedBinding
<1>3. CASE UNCHANGED vars
  BY <1>3, <1>q DEF vars
<1>4. CASE \/ DeviceFlow \/ DeviceGone
           \/ Reporting!ReportSteps /\ UNCHANGED <<redeemVars, deviceVars>>
  BY <1>4, <1>q DEF DeviceFlow, DeviceGone
<1> QED BY <1>1, <1>2, <1>3, <1>4, NextSteps

\* With device codes, reports and removed memberships around, one token still
\* means one manifest and one client, unless it may be redeemed again.
THEOREM OneManifestAmongFlows == Spec => []Redeeming!OneManifestPerToken
<1>1. Binding => Redeeming!OneManifestPerToken
  BY DEF Binding, GrantsAreBindings, Redeeming!OneManifestPerToken
<1>2. FaktsInit => Typing /\ Binding
  BY InitTyping, InitBinding
<1>3. (Typing /\ Binding) /\ [Next]_vars => (Typing /\ Binding)'
  BY TypingStep, BindingStep
<1> QED BY <1>1, <1>2, <1>3, PTL DEF Spec

-----------------------------------------------------------------------------
(* Redeeming stays atomic *)

\* The refinement mapping of RedeemTokens, by name.
Held == [t \in Token |-> Redeeming!TicketOf(tokens[t])]

ToldOf(g) == [tok |-> g.tok, man |-> g.man, client |-> g.client]

Told == {ToldOf(g) : g \in grants}

\* A token row and its ticket.
LEMMA TicketFacts ==
  ASSUME NEW row \in Redeeming!TokenRow \cup {None}
  PROVE  /\ Redeeming!TicketOf(row) = None <=> row = None
         /\ row # None => /\ Redeeming!TicketOf(row) = [client |-> row.client, man |-> row.man]
                          /\ Redeeming!TicketOf(row).client = row.client
                          /\ Redeeming!TicketOf(row).man = row.man
<1>1. CASE row = None
  BY <1>1 DEF Redeeming!TicketOf
<1>2. CASE row # None
  <2>1. Redeeming!TicketOf(row) = [client |-> row.client, man |-> row.man]
    BY <1>2 DEF Redeeming!TicketOf
  <2>2. row.client \in RowId \cup {None} /\ row.man \in Manifest \cup {None}
    BY <1>2, SameRows DEF Redeeming!TokenRow
  <2>3. [client |-> row.client, man |-> row.man] \in Redeeming!TicketRow
    BY <2>2, SameRows DEF Redeeming!TicketRow
  <2>4. Redeeming!TicketOf(row) # None
    BY <2>1, <2>3, FaktsAssumption
  <2> QED BY <1>2, <2>1, <2>4
<1> QED BY <1>1, <1>2

\* A step that changes at most the expiry of tokens is a stutter.
LEMMA QuietRefines ==
  ASSUME Typing, Typing', grants' = grants,
         \A t \in Token : Redeeming!TicketOf(tokens'[t]) = Redeeming!TicketOf(tokens[t])
  PROVE  UNCHANGED Redeeming!Ticketing!vars
<1>1. Held' = Held /\ Told' = Told
  BY DEF Held, Told
<1> QED BY <1>1 DEF Held, Told, ToldOf, Redeeming!Ticketing!vars

\* An answer adds what it says to what was told.
LEMMA GrantedRefines ==
  ASSUME NEW r \in RedeemRequest, NEW c, NEW s, Redeeming!Granted(r, c, s)
  PROVE  Told' = Told \cup {[tok |-> redeem[r].tok, man |-> redeem[r].man, client |-> c]}
<1> DEFINE g0 == [req |-> r, tok |-> redeem[r].tok, man |-> redeem[r].man,
                  client |-> c, secret |-> s]
<1>1. ToldOf(g0) = [tok |-> redeem[r].tok, man |-> redeem[r].man, client |-> c]
  BY DEF ToldOf
<1>2. grants' = grants \cup {g0}
  BY DEF Redeeming!Granted
<1> HIDE DEF g0
<1>3. Told' = Told \cup {ToldOf(g0)}
  BY <1>2 DEF Told
<1> QED BY <1>1, <1>3

\* A commit that binds a held token settles its ticket.
LEMMA BindRefines ==
  ASSUME Typing, Binding, NEW r \in RedeemRequest, NEW c \in RowId, NEW s \in RowId,
         Redeeming!HoldsToken(r), Redeeming!Bind(r, c, s)
  PROVE  Redeeming!Ticketing!Next
<1>0. PICK t \in Token, m \in Manifest : t = redeem[r].tok /\ m = redeem[r].man
  BY DEF Redeeming!HoldsToken, Typing, RedeemTyping, Redeeming!NoRedemption, Redeeming!Redemption
<1>1. tokens[t] # None /\ tokens \in [Token -> Redeeming!TokenRow \cup {None}]
  BY <1>0 DEF Typing, RedeemTyping, Redeeming!HoldsToken, Redeeming!NoRedemption,
     Redeeming!Redemption
<1>2. /\ tokens'[t] \in Redeeming!TokenRow /\ tokens'[t].client = c /\ tokens'[t].man = m
      /\ \A u \in Token \ {t} : tokens'[u] = tokens[u]
  BY <1>0, BindWrites
<1>3. \/ tokens[t].client = None
      \/ t \in Reredeemable /\ tokens[t].man \notin {None, m}
  BY <1>0 DEF Binding, HeldMayBeBound
<1>4. ~Redeeming!TakenByOther(c, t)
  BY <1>0 DEF Redeeming!Bind
<1>5. Held[t] # None /\ Held[t].client = tokens[t].client /\ Held[t].man = tokens[t].man
  BY <1>1, TicketFacts DEF Held
<1>6. \A u \in Token \ {t} : Held[u] = None \/ Held[u].client # c
  <2> SUFFICES ASSUME NEW u \in Token \ {t}, Held[u] # None PROVE Held[u].client # c
    OBVIOUS
  <2>1. tokens[u] \in Redeeming!TokenRow \cup {None} /\ Held[u] = Redeeming!TicketOf(tokens[u])
    BY <1>1 DEF Held
  <2>2. tokens[u] # None /\ Held[u].client = tokens[u].client
    BY <2>1, TicketFacts
  <2> QED BY <1>4, <2>2 DEF Redeeming!TakenByOther
<1>7. Held' = [Held EXCEPT ![t] = [client |-> c, man |-> m]]
  <2>1. Redeeming!TicketOf(tokens'[t]) = [client |-> c, man |-> m]
    BY <1>2, FaktsAssumption, TicketFacts
  <2> QED BY <1>1, <1>2, <2>1 DEF Held
<1>8. Told' = Told \cup {[tok |-> t, man |-> Held'[t].man, client |-> Held'[t].client]}
  <2>1. Told' = Told \cup {[tok |-> t, man |-> m, client |-> c]}
    BY <1>0, GrantedRefines DEF Redeeming!Bind
  <2>2. Held'[t] = [client |-> c, man |-> m]
    BY <1>1, <1>7 DEF Held
  <2> QED BY <2>1, <2>2
<1>9. Redeeming!Ticketing!Settle(t, c, m)
  BY <1>3, <1>5, <1>6, <1>7, <1>8
     DEF Redeeming!Ticketing!Settle, Redeeming!Ticketing!Free,
         Redeeming!Ticketing!Told, Held, Told, ToldOf
<1> QED BY <1>9, SameRows DEF Redeeming!Ticketing!Next

\* Redeeming again with the recorded manifest, or the first one recorded,
\* repeats the answer.
LEMMA AgainRefines ==
  ASSUME Typing, Typing', NEW r \in RedeemRequest, Redeeming!RedeemAgain(r)
  PROVE  Redeeming!Ticketing!Next
<1>0. PICK t \in Token, m \in Manifest : t = redeem[r].tok /\ m = redeem[r].man
  BY DEF Redeeming!RedeemAgain, Typing, RedeemTyping, Redeeming!NoRedemption, Redeeming!Redemption
<1>1. /\ tokens[t] \in Redeeming!TokenRow
      /\ tokens[t] # None /\ tokens[t].client # None /\ tokens[t].man \in {None, m}
      /\ tokens \in [Token -> Redeeming!TokenRow \cup {None}]
  BY <1>0 DEF Redeeming!RedeemAgain, Typing, RedeemTyping
<1>2. tokens' = [tokens EXCEPT ![t].man = m]
  BY <1>0 DEF Redeeming!RedeemAgain
<1>3. Redeeming!Granted(r, tokens[t].client, clients[tokens[t].client].secret)
  BY <1>0 DEF Redeeming!RedeemAgain
<1>4. /\ tokens'[t] \in Redeeming!TokenRow
      /\ tokens'[t].client = tokens[t].client /\ tokens'[t].man = m
      /\ \A u \in Token \ {t} : tokens'[u] = tokens[u]
  BY <1>1, <1>2 DEF Redeeming!TokenRow
<1>5. Told' = Told \cup {[tok |-> t, man |-> m, client |-> tokens[t].client]}
  BY <1>0, <1>3, GrantedRefines
<1>6. Held[t] # None /\ Held[t].client = tokens[t].client /\ Held[t].man = tokens[t].man
  BY <1>1, TicketFacts DEF Held
<1>7. Held' = [Held EXCEPT ![t] = [client |-> Held[t].client, man |-> m]]
  <2>1. Redeeming!TicketOf(tokens'[t]) = [client |-> Held[t].client, man |-> m]
    BY <1>4, <1>6, FaktsAssumption, TicketFacts
  <2> QED BY <1>1, <1>4, <2>1 DEF Held
<1>8. Held'[t] = [client |-> tokens[t].client, man |-> m]
  BY <1>1, <1>6, <1>7 DEF Held
<1>9. Redeeming!Ticketing!Repeat(t, m)
  BY <1>1, <1>5, <1>6, <1>7, <1>8 DEF Redeeming!Ticketing!Repeat,
     Redeeming!Ticketing!Told, Held, Told, ToldOf
<1> QED BY <1>9 DEF Redeeming!Ticketing!Next

\* Deleted rows are withdrawn tickets.
LEMMA DeletedRefines ==
  ASSUME Typing, NEW S \in SUBSET Token, Redeeming!Forget(S),
         \A t \in S : tokens'[t] = None,
         \A t \in Token \ S : tokens'[t] = tokens[t]
  PROVE  Redeeming!Ticketing!Next
<1>1. Held' = [t \in Token |-> IF t \in S THEN None ELSE Held[t]]
  BY DEF Held, Redeeming!TicketOf
<1>2. Told' = {a \in Told : a.tok \notin S}
  BY DEF Redeeming!Forget, Told, ToldOf
<1>3. Redeeming!Ticketing!Withdraw(S)
  BY <1>1, <1>2 DEF Redeeming!Ticketing!Withdraw, Held, Told, ToldOf
<1> QED BY <1>3 DEF Redeeming!Ticketing!Next

LEMMA InitRefines == FaktsInit => Redeeming!Ticketing!Init
<1> SUFFICES ASSUME FaktsInit PROVE Redeeming!Ticketing!Init
  OBVIOUS
<1>1. \A t \in Token : tokens[t] \in Redeeming!TokenRow /\ tokens[t].man = None
  BY FaktsAssumption DEF FaktsInit, Redeeming!RedeemInit, Redeeming!TokenRow, Redeeming!RowId
<1>2. \A t \in Token :
        Redeeming!TicketOf(tokens[t]) \in [client : Redeeming!RowId \cup {None}, man : {None}]
  BY <1>1, FaktsAssumption DEF Redeeming!TicketOf, Redeeming!TokenRow
<1> QED BY <1>2 DEF FaktsInit, Redeeming!RedeemInit, Redeeming!Ticketing!Init

LEMMA StepRefines ==
  ASSUME Typing, Typing', Binding, [Next]_vars
  PROVE  [Redeeming!Ticketing!Next]_(Redeeming!Ticketing!vars)
<1>q. ASSUME tokens' = tokens, grants' = grants PROVE UNCHANGED Redeeming!Ticketing!vars
  BY <1>q, QuietRefines
<1>1. ASSUME NEW r \in RedeemRequest, Redeeming!RedeemStep(r)
      PROVE  [Redeeming!Ticketing!Next]_(Redeeming!Ticketing!vars)
  <2>1. CASE tokens' = tokens /\ grants' = grants
    BY <1>q, <2>1
  <2>2. CASE Redeeming!RedeemAgain(r)
    BY <2>2, AgainRefines
  <2>3. CASE Redeeming!DeleteExpired(r)
    <3>1. /\ tokens \in [Token -> Redeeming!TokenRow \cup {None}]
          /\ tokens' = [tokens EXCEPT ![redeem[r].tok] = None]
          /\ Redeeming!Forget({redeem[r].tok}) /\ redeem[r].tok \in Token
      BY <2>3 DEF Redeeming!DeleteExpired, Typing, RedeemTyping,
         Redeeming!NoRedemption, Redeeming!Redemption
    <3> QED BY <3>1, DeletedRefines
  <2>4. CASE Redeeming!CommitReused(r) \/ Redeeming!CommitRegistered(r)
    BY <2>4, CommitBinds, BindRefines
  <2> QED BY <1>1, <2>1, <2>2, <2>3, <2>4
          DEF Redeeming!RedeemStep, Redeeming!Proceed, Redeeming!Refuse, Redeeming!BeginValidation,
              Redeeming!FindExpired, Redeeming!ReuseClient, Redeeming!NeedClient,
              Redeeming!RegisterStep, Redeeming!redeemVars, Redeeming!Fail
<1>2. CASE TokenStep
  <2>1. ASSUME NEW t \in Token, Redeeming!Lapse(t) PROVE UNCHANGED Redeeming!Ticketing!vars
    <3>1. /\ tokens[t] \in Redeeming!TokenRow /\ tokens[t] # None
          /\ tokens' = [tokens EXCEPT ![t].expiry = "past"]
          /\ tokens \in [Token -> Redeeming!TokenRow \cup {None}]
      BY <2>1 DEF Redeeming!Lapse, Typing, RedeemTyping
    <3>2. /\ tokens'[t] \in Redeeming!TokenRow
          /\ tokens'[t].client = tokens[t].client /\ tokens'[t].man = tokens[t].man
          /\ \A u \in Token \ {t} : tokens'[u] = tokens[u]
      BY <3>1 DEF Redeeming!TokenRow
    <3>3. Redeeming!TicketOf(tokens'[t]) = Redeeming!TicketOf(tokens[t])
      <4>1. tokens'[t] # None
        BY <3>2, FaktsAssumption
      <4> QED BY <3>1, <3>2, <4>1 DEF Redeeming!TicketOf
    <3> QED BY <2>1, <3>2, <3>3, QuietRefines DEF Redeeming!Lapse
  <2>2. ASSUME NEW t \in Configured, Redeeming!EnsureToken(t) PROVE Redeeming!Ticketing!Next
    <3> DEFINE row == [client |-> None, man |-> None, expiry |-> "never"]
    <3>1. row \in Redeeming!TokenRow
      BY DEF Redeeming!TokenRow
    <3>2. Redeeming!TicketOf(row) = [client |-> None, man |-> None]
      BY <3>1, FaktsAssumption, TicketFacts
    <3>3. /\ tokens[t] = None /\ tokens' = [tokens EXCEPT ![t] = row] /\ grants' = grants
          /\ tokens \in [Token -> Redeeming!TokenRow \cup {None}]
      BY <2>2 DEF Redeeming!EnsureToken, Typing, RedeemTyping
    <3>0. t \in Token
      BY FaktsAssumption
    <3> HIDE DEF row
    <3>4. Held[t] = None
      BY <3>0, <3>3 DEF Held, Redeeming!TicketOf
    <3>5. Held' = [Held EXCEPT ![t] = [client |-> None, man |-> None]]
      BY <3>0, <3>2, <3>3 DEF Held
    <3>6. Told' = Told
      BY <3>3 DEF Told
    <3>7. Redeeming!Ticketing!Issue(t)
      BY <3>4, <3>5, <3>6 DEF Redeeming!Ticketing!Issue, Held, Told, ToldOf
    <3> QED BY <3>0, <3>7 DEF Redeeming!Ticketing!Next
  <2>3. ASSUME NEW r \in RedeemRequest, NEW t \in Token, NEW m \in Manifest,
               Redeeming!Redeem(r, t, m)
        PROVE  UNCHANGED Redeeming!Ticketing!vars
    BY <2>3, <1>q DEF Redeeming!Redeem
  <2> QED BY <1>2, <2>1, <2>2, <2>3 DEF TokenStep
<1>3. CASE RedeemFlow
  BY <1>1, <1>2, <1>3 DEF RedeemFlow
<1>4. ASSUME NEW u \in User, NEW o \in Org, MemberRemoved(u, o)
      PROVE  Redeeming!Ticketing!Next
  BY <1>4, RemovedTokens, DeletedRefines
<1>5. CASE \/ DeviceFlow \/ DeviceGone
           \/ Reporting!ReportSteps /\ UNCHANGED <<redeemVars, deviceVars>>
  BY <1>5, <1>q DEF DeviceFlow, DeviceGone, redeemVars
<1>6. CASE UNCHANGED vars
  BY <1>6, <1>q DEF vars, redeemVars
<1> QED BY <1>3, <1>4, <1>5, <1>6, NextSteps

\* The device codes, reports and removals that share the tables with the
\* redemptions change nothing about what redeeming promises: the tokens and the
\* answers given for them are still those of RedeemTicket.
THEOREM RedeemingStaysAtomic == Spec => Redeeming!RedeemingIsAtomic
<1>1. FaktsInit => Typing /\ Binding /\ Redeeming!Ticketing!Init
  BY InitTyping, InitBinding, InitRefines
<1>2. Typing /\ Binding /\ [Next]_vars
        => Typing' /\ Binding' /\ [Redeeming!Ticketing!Next]_(Redeeming!Ticketing!vars)
  BY TypingStep, BindingStep, StepRefines
<1> QED BY <1>1, <1>2, PTL DEF Spec, Redeeming!RedeemingIsAtomic, Redeeming!Ticketing!Spec

=============================================================================
