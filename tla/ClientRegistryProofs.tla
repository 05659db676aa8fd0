-------------------------- MODULE ClientRegistryProofs --------------------------
(***************************************************************************)
(* Lemmas about the steps of ClientRegistry, for the modules whose         *)
(* requests register clients: what each step keeps of the typing of the    *)
(* registrations and of "one client per key".                              *)
(***************************************************************************)
EXTENDS ClientRegistry, TLAPS

\* What a running registration has decided so far.
RegistrationShape ==
  \A r \in Request :
    /\ reg[r].stage \in {"release", "upsert", "written"} => reg[r].app \in RowId
    /\ reg[r].stage = "written" => reg[r].target \in RowId

-----------------------------------------------------------------------------
(* Typing *)

\* The steps of a registration before its commit.
LEMMA RegisterTyping ==
  ASSUME NEW r \in Request, Register(r), RegistryTypeOK, RegistrationShape
  PROVE  RegistryTypeOK' /\ RegistrationShape' /\ clients' = clients
<1> USE RegistryAssumption DEF RegistryTypeOK, RegistrationShape, Registration,
        NoRegistration, Running
<1>1. CASE GetOrCreateApp(r)
  BY <1>1 DEF GetOrCreateApp, RowId
<1>2. CASE LockRelease(r)
  BY <1>2 DEF LockRelease
<1>3. CASE Upsert(r)
  BY <1>3 DEF Upsert, RowId
<1> QED BY <1>1, <1>2, <1>3 DEF Register

\* The row a registration writes is a client.
LEMMA RegisteredTyping ==
  ASSUME NEW r \in Request, reg[r].stage = "written",
         RegistryTypeOK, RegistrationShape
  PROVE  /\ Registered(r) \in Client
         /\ reg[r].app \in RowId
         /\ reg[r].target \in RowId
<1>1. reg[r] \in Registration /\ reg[r].app \in RowId /\ reg[r].target \in RowId
  BY DEF RegistryTypeOK, RegistrationShape, NoRegistration
<1>2. NodeOf[reg[r].man] \in Node \cup {None}
  BY <1>1, RegistryAssumption DEF Registration
<1> QED BY <1>1, <1>2 DEF Registered, Client, Registration, RowId

LEMMA CommitTyping ==
  ASSUME NEW r \in Request, CommitRegistration(r), RegistryTypeOK, RegistrationShape
  PROVE  /\ RegistryTypeOK' /\ RegistrationShape'
         /\ Live' = Live \cup {reg[r].target}
         /\ reg[r].target \in RowId
<1>1. reg[r].stage = "written"
  BY DEF CommitRegistration
<1>2. /\ Registered(r) \in Client
      /\ reg[r].app \in RowId
      /\ reg[r].target \in RowId
  BY <1>1, RegisteredTyping
<1>3. reg[r] \in Registration
  BY <1>1 DEF RegistryTypeOK, NoRegistration
<1>4. apps' \in [RowId -> Ident \cup {None}]
  <2>1. IdentOf[reg[r].man] \in Ident
    BY <1>3, RegistryAssumption DEF Registration
  <2> QED BY <2>1 DEF CommitRegistration, RegistryTypeOK
<1>5. clients' \in [RowId -> Client \cup {None}]
  BY <1>2 DEF CommitRegistration, RegistryTypeOK
<1>6. reg' \in [Request -> Registration \cup {NoRegistration}] /\ RegistrationShape'
  BY <1>3 DEF CommitRegistration, RegistryTypeOK, RegistrationShape, Registration, NoRegistration
<1>7. Live' = Live \cup {reg[r].target}
  BY <1>2, RegistryAssumption DEF CommitRegistration, RegistryTypeOK, Live
<1> QED BY <1>2, <1>4, <1>5, <1>6, <1>7 DEF CommitRegistration, RegistryTypeOK

LEMMA RollbackTyping ==
  ASSUME NEW r \in Request, Rollback(r), RegistryTypeOK, RegistrationShape
  PROVE  RegistryTypeOK' /\ RegistrationShape' /\ clients' = clients
BY DEF Rollback, RegistryTypeOK, RegistrationShape, Registration, NoRegistration, Running

LEMMA EnterTyping ==
  ASSUME NEW r \in Request, NEW u \in User, NEW o \in Org, NEW k \in Comp,
         NEW m \in Manifest, Enter(r, u, o, k, m), UNCHANGED <<apps, clients, members>>,
         RegistryTypeOK, RegistrationShape
  PROVE  RegistryTypeOK' /\ RegistrationShape'
BY DEF Enter, RegistryTypeOK, RegistrationShape, Registration, Running

\* Dooming registrations changes nothing else of them.
LEMMA DoomTyping ==
  ASSUME NEW S, \A r \in Request : r \in S => reg[r].stage = "written", Doom(S),
         reg \in [Request -> Registration \cup {NoRegistration}], RegistrationShape
  PROVE  /\ reg' \in [Request -> Registration \cup {NoRegistration}]
         /\ RegistrationShape'
<1>1. ASSUME NEW r \in Request
      PROVE  /\ reg'[r] \in Registration \cup {NoRegistration}
             /\ reg'[r].stage = reg[r].stage
             /\ reg[r].stage # "none" => /\ reg'[r].app = reg[r].app
                                         /\ reg'[r].target = reg[r].target
  <2>1. CASE r \in S
    <3>1. reg[r] \in Registration
      BY <2>1 DEF NoRegistration
    <3>2. reg'[r] = [reg[r] EXCEPT !.doomed = TRUE]
      BY <2>1 DEF Doom
    <3> QED BY <3>1, <3>2 DEF Registration
  <2>2. CASE r \notin S
    BY <2>2 DEF Doom
  <2> QED BY <2>1, <2>2
<1>2. reg' \in [Request -> Registration \cup {NoRegistration}]
  BY <1>1 DEF Doom
<1>3. RegistrationShape'
  BY <1>1 DEF RegistrationShape
<1> QED BY <1>2, <1>3

LEMMA DeviceTyping ==
  ASSUME NEW n \in Node, NEW o \in Org, DeleteDevice(n, o),
         RegistryTypeOK, RegistrationShape
  PROVE  RegistryTypeOK' /\ RegistrationShape' /\ Live' = Live
<1> DEFINE onIt == {r \in Request : /\ reg[r].stage = "written"
                                    /\ NodeOf[reg[r].man] = n
                                    /\ reg[r].org = o}
<1>1. reg' \in [Request -> Registration \cup {NoRegistration}] /\ RegistrationShape'
  <2>1. Doom(onIt)
    BY DEF DeleteDevice
  <2>2. \A r \in Request : r \in onIt => reg[r].stage = "written"
    OBVIOUS
  <2> HIDE DEF onIt
  <2> QED BY <2>1, <2>2, DoomTyping DEF RegistryTypeOK
<1>2. clients' \in [RowId -> Client \cup {None}]
  BY DEF DeleteDevice, RegistryTypeOK, Client, Live
<1>3. Live' = Live
  <2> SUFFICES ASSUME NEW c \in RowId PROVE clients'[c] = None <=> clients[c] = None
    BY DEF Live
  <2> QED BY RegistryAssumption DEF DeleteDevice, RegistryTypeOK, Client, Live
<1> QED BY <1>1, <1>2, <1>3 DEF DeleteDevice, RegistryTypeOK

LEMMA RemoveTyping ==
  ASSUME NEW u \in User, NEW o \in Org, RemoveMember(u, o),
         RegistryTypeOK, RegistrationShape
  PROVE  RegistryTypeOK' /\ RegistrationShape' /\ Live' = Live \ ClientsOf(u, o)
<1> DEFINE onIt == {r \in Request : /\ reg[r].stage = "written"
                                    /\ reg[r].user = u
                                    /\ reg[r].org = o}
<1>1. reg' \in [Request -> Registration \cup {NoRegistration}] /\ RegistrationShape'
  <2>1. Doom(onIt)
    BY DEF RemoveMember
  <2>2. \A r \in Request : r \in onIt => reg[r].stage = "written"
    OBVIOUS
  <2> HIDE DEF onIt
  <2> QED BY <2>1, <2>2, DoomTyping DEF RegistryTypeOK
<1>2. clients' \in [RowId -> Client \cup {None}] /\ Live' = Live \ ClientsOf(u, o)
  BY DEF RemoveMember, RegistryTypeOK, Live, ClientsOf
<1>3. members' \in SUBSET (User \X Org)
  BY DEF RemoveMember, RegistryTypeOK
<1> QED BY <1>1, <1>2, <1>3 DEF RemoveMember, RegistryTypeOK

-----------------------------------------------------------------------------
(* One client per key *)

\* One transaction at a time holds a Release row.
OneReleaseHolder ==
  \A r, q \in Request :
    HoldsRelease(r) /\ HoldsRelease(q) /\ SameRelease(r, q) => r = q

\* What a registration found is still so while it holds the Release row: no
\* client but its target has the key it registers.
TargetIsTheMatch ==
  \A r \in Request : reg[r].stage = "written" => Matching(r) \subseteq {reg[r].target}

Keyed == OneClientPerKey /\ OneReleaseHolder /\ TargetIsTheMatch

\* The clients may be fewer, and no registration moves forward.
LEMMA ShrinkKeyed ==
  ASSUME Keyed, Live' \subseteq Live,
         \A c \in Live' : Key(clients'[c]) = Key(clients[c]),
         \A r \in Request :
           HoldsRelease(r)' => /\ HoldsRelease(r)
                               /\ reg'[r].stage = reg[r].stage
                               /\ reg'[r].app = reg[r].app
                               /\ reg'[r].target = reg[r].target
                               /\ Registered(r)' = Registered(r)
                               /\ reg'[r].man = reg[r].man
  PROVE  Keyed'
<1>1. OneClientPerKey'
  BY DEF Keyed, OneClientPerKey, Key
<1>2. OneReleaseHolder'
  BY DEF Keyed, OneReleaseHolder, SameRelease
<1>3. TargetIsTheMatch'
  <2> SUFFICES ASSUME NEW r \in Request, reg'[r].stage = "written",
                      NEW c \in Live', Key(clients'[c]) = Key(Registered(r)')
               PROVE  c = reg'[r].target
    BY DEF TargetIsTheMatch, Matching, Key
  <2>1. HoldsRelease(r)'
    BY DEF HoldsRelease
  <2>2. c \in Matching(r)
    BY <2>1 DEF Matching
  <2> QED BY <2>1, <2>2 DEF Keyed, TargetIsTheMatch
<1> QED BY <1>1, <1>2, <1>3 DEF Keyed

LEMMA RegisterKeyed ==
  ASSUME NEW r \in Request, Register(r), RegistryTypeOK, Keyed
  PROVE  Keyed'
<1>r. reg[r].stage # "none" => reg[r] \in Registration
  BY DEF RegistryTypeOK, NoRegistration
<1>c. clients' = clients /\ Live' = Live
  BY DEF Register, GetOrCreateApp, LockRelease, Upsert, Live
<1>1. OneClientPerKey'
  BY <1>c DEF Keyed, OneClientPerKey, Key
<1>2. CASE GetOrCreateApp(r)
  <2>1. \A q \in Request : HoldsRelease(q)' => q # r /\ reg'[q] = reg[q]
    BY <1>2, <1>r DEF GetOrCreateApp, HoldsRelease, RegistryTypeOK, Registration, Running
  <2> QED BY <1>c, <2>1, ShrinkKeyed DEF HoldsRelease, Registered
<1>3. CASE LockRelease(r)
  <2>1. reg' = [reg EXCEPT ![r].stage = "upsert"] /\ reg[r] \in Registration
    BY <1>3, <1>r DEF LockRelease
  <2>2. /\ reg'[r].stage = "upsert" /\ reg'[r].app = reg[r].app /\ reg'[r].man = reg[r].man
        /\ \A q \in Request \ {r} : reg'[q] = reg[q]
    BY <2>1 DEF RegistryTypeOK, Registration, Running
  <2>3. OneReleaseHolder'
    BY <1>3, <2>2 DEF LockRelease, HoldsRelease, SameRelease, Keyed, OneReleaseHolder
  <2>4. TargetIsTheMatch'
    BY <1>c, <2>2 DEF Keyed, TargetIsTheMatch, Matching, Registered, Key
  <2> QED BY <1>1, <2>3, <2>4 DEF Keyed
<1>4. CASE Upsert(r)
  <2>1. PICK c \in RowId : /\ reg' = [reg EXCEPT ![r].stage = "written", ![r].target = c]
                           /\ Matching(r) \subseteq {c}
    BY <1>4 DEF Upsert, RowId
  <2>2. reg[r] \in Registration /\ reg[r].stage = "upsert"
    BY <1>4, <1>r DEF Upsert
  <2>3. /\ reg'[r].stage = "written" /\ reg'[r].app = reg[r].app /\ reg'[r].man = reg[r].man
        /\ reg'[r].user = reg[r].user /\ reg'[r].org = reg[r].org
        /\ reg'[r].comp = reg[r].comp /\ reg'[r].target = c
        /\ \A q \in Request \ {r} : reg'[q] = reg[q]
    BY <2>1, <2>2 DEF RegistryTypeOK, Registration, Running
  <2>4. OneReleaseHolder'
    BY <2>2, <2>3 DEF HoldsRelease, SameRelease, Keyed, OneReleaseHolder
  <2>5. \A q \in Request : Registered(q)' = Registered(q)
    BY <2>3 DEF Registered
  <2>6. \A q \in Request : Matching(q)' = Matching(q)
    BY <1>c, <2>5 DEF Matching, Key
  <2>7. TargetIsTheMatch'
    BY <2>1, <2>3, <2>6 DEF Keyed, TargetIsTheMatch
  <2> QED BY <1>1, <2>4, <2>7 DEF Keyed
<1> QED BY <1>2, <1>3, <1>4 DEF Register

\* The committed row has the key its registration looked for.
LEMMA CommitKeyed ==
  ASSUME NEW r \in Request, CommitRegistration(r), RegistryTypeOK, RegistrationShape, Keyed
  PROVE  Keyed'
<1> DEFINE c == reg[r].target
<1>1. /\ reg[r].stage = "written" /\ reg[r] \in Registration
      /\ clients' = [clients EXCEPT ![c] = Registered(r)]
      /\ reg' = [reg EXCEPT ![r].stage = "ended"]
  BY DEF CommitRegistration, RegistryTypeOK, NoRegistration
<1>2. c \in RowId /\ Live' = Live \cup {c} /\ Registered(r) \in Client
  BY <1>1, CommitTyping, RegisteredTyping
<1>3. clients'[c] = Registered(r) /\ \A d \in RowId \ {c} : clients'[d] = clients[d]
  BY <1>1, <1>2 DEF RegistryTypeOK
<1>4. Matching(r) \subseteq {c}
  BY <1>1 DEF Keyed, TargetIsTheMatch
<1>5. /\ \A q \in Request \ {r} : reg'[q] = reg[q]
      /\ reg'[r].stage = "ended"
  BY <1>1 DEF RegistryTypeOK, Registration, Running
<1> HIDE DEF c
<1>6. OneClientPerKey'
  <2> SUFFICES ASSUME NEW d \in Live', NEW e \in Live', Key(clients'[d]) = Key(clients'[e])
               PROVE  d = e
    BY DEF OneClientPerKey, Key
  <2>1. CASE d = c \/ e = c
    BY <1>2, <1>3, <1>4, <2>1 DEF Matching, Live
  <2>2. CASE d # c /\ e # c
    BY <1>2, <1>3, <2>2 DEF Keyed, OneClientPerKey, Live
  <2> QED BY <2>1, <2>2
<1>7. OneReleaseHolder'
  BY <1>5 DEF HoldsRelease, SameRelease, Keyed, OneReleaseHolder
<1>8. TargetIsTheMatch'
  <2> SUFFICES ASSUME NEW q \in Request, reg'[q].stage = "written", NEW d \in Matching(q)'
               PROVE  d = reg'[q].target
    BY DEF TargetIsTheMatch
  <2>1. q # r /\ reg'[q] = reg[q] /\ Registered(q)' = Registered(q)
    BY <1>5 DEF Registered
  <2>2. d \in Live' /\ Key(clients'[d]) = Key(Registered(q))
    BY <2>1 DEF Matching, Key
  <2>3. d # c
    <3>1. ~SameRelease(r, q)
      BY <1>1, <2>1 DEF Keyed, OneReleaseHolder, HoldsRelease
    <3>2. Key(Registered(r)) # Key(Registered(q))
      BY <3>1 DEF SameRelease, Key, Registered
    <3> QED BY <1>3, <2>2, <3>2
  <2>4. d \in Matching(q)
    BY <1>2, <1>3, <2>2, <2>3 DEF Matching, Live
  <2> QED BY <2>1, <2>4 DEF Keyed, TargetIsTheMatch
<1> QED BY <1>6, <1>7, <1>8 DEF Keyed

LEMMA RollbackKeyed ==
  ASSUME NEW r \in Request, Rollback(r), RegistryTypeOK, Keyed
  PROVE  Keyed'
<1>1. clients' = clients /\ Live' = Live /\ reg[r] \in Registration
  BY DEF Rollback, Live, RegistryTypeOK, NoRegistration, Running
<1>2. \A q \in Request : HoldsRelease(q)' => q # r /\ reg'[q] = reg[q]
  BY <1>1 DEF Rollback, HoldsRelease, RegistryTypeOK, Registration, Running
<1> QED BY <1>1, <1>2, ShrinkKeyed DEF HoldsRelease, Registered

LEMMA EnterKeyed ==
  ASSUME NEW r \in Request, NEW u, NEW o, NEW k, NEW m, Enter(r, u, o, k, m),
         clients' = clients, RegistryTypeOK, Keyed
  PROVE  Keyed'
<1>1. Live' = Live
  BY DEF Live
<1>2. \A q \in Request : HoldsRelease(q)' => q # r /\ reg'[q] = reg[q]
  BY DEF Enter, HoldsRelease, RegistryTypeOK
<1> QED BY <1>1, <1>2, ShrinkKeyed DEF HoldsRelease, Registered

LEMMA RemoveKeyed ==
  ASSUME NEW u \in User, NEW o \in Org, RemoveMember(u, o),
         RegistryTypeOK, RegistrationShape, Keyed
  PROVE  Keyed'
<1>1. Live' \subseteq Live /\ \A c \in Live' : clients'[c] = clients[c]
  BY DEF RemoveMember, Live
<1>2. \A q \in Request :
        /\ reg'[q].stage = reg[q].stage
        /\ reg[q].stage # "none" => /\ reg'[q].app = reg[q].app
                                    /\ reg'[q].target = reg[q].target
                                    /\ reg'[q].man = reg[q].man
                                    /\ reg'[q].user = reg[q].user
                                    /\ reg'[q].org = reg[q].org
                                    /\ reg'[q].comp = reg[q].comp
  <2> SUFFICES ASSUME NEW q \in Request, reg'[q] # reg[q]
               PROVE  \E b \in BOOLEAN : reg[q] \in Registration
                                         /\ reg'[q] = [reg[q] EXCEPT !.doomed = b]
    BY DEF Registration
  <2> QED BY DEF RemoveMember, Doom, RegistryTypeOK, NoRegistration
<1> QED BY <1>1, <1>2, ShrinkKeyed DEF HoldsRelease, Registered

-----------------------------------------------------------------------------
(* Whose a client is *)

\* A registration that updates a client found one of its own user in its own
\* organization, and the client a request inserts appears as it ends.
Settled ==
  /\ \A r \in Request : reg[r].stage = "written" /\ reg[r].target # r =>
       /\ reg[r].target \in Live
       /\ clients[reg[r].target].user = reg[r].user
       /\ clients[reg[r].target].org = reg[r].org
  /\ \A r \in Request : r \in Live => reg[r].stage = "ended"

\* A step moves no client to another user or organization, inserts none but
\* that of a registration which ends, and starts no ended registration again.
HomesKept ==
  /\ \A c \in Live : c \in Live' =>
       /\ clients'[c].user = clients[c].user
       /\ clients'[c].org = clients[c].org
  /\ \A c \in Live' : c \in Live \/ (c \in Request /\ reg[c].stage = "written")
  /\ \A r \in Request : reg[r].stage = "ended" => reg'[r].stage = "ended"

\* A step of one registration leaves the others alone and keeps what it is for.
OwnStep(r) ==
  /\ \A q \in Request \ {r} : reg'[q] = reg[q]
  /\ reg'[r].user = reg[r].user /\ reg'[r].org = reg[r].org

LEMMA RegisterSettles ==
  ASSUME NEW r \in Request, Register(r), RegistryTypeOK, Settled
  PROVE  Settled' /\ HomesKept /\ OwnStep(r)
<1>1. /\ clients' = clients /\ OwnStep(r)
      /\ reg[r].stage \in Running /\ reg'[r].stage \in Running /\ reg[r] \in Registration
  BY DEF Register, GetOrCreateApp, LockRelease, Upsert, OwnStep, RegistryTypeOK, Registration,
         NoRegistration, Running
<1>2. HomesKept
  BY <1>1 DEF HomesKept, OwnStep, Live, Running
<1>3. \A q \in Request : q \in Live' => reg'[q].stage = "ended"
  BY <1>1 DEF Settled, OwnStep, Live, Running
<1>4. reg'[r].stage = "written" /\ reg'[r].target # r =>
        /\ reg'[r].target \in Live
        /\ clients[reg'[r].target].user = reg'[r].user
        /\ clients[reg'[r].target].org = reg'[r].org
  <2> SUFFICES ASSUME reg'[r].stage = "written", reg'[r].target # r
               PROVE  /\ reg'[r].target \in Live
                      /\ clients[reg'[r].target].user = reg'[r].user
                      /\ clients[reg'[r].target].org = reg'[r].org
    OBVIOUS
  <2>1. PICK c \in RowId : /\ Matching(r) = {c}
                           /\ reg' = [reg EXCEPT ![r].stage = "written", ![r].target = c]
    BY <1>1 DEF Register, GetOrCreateApp, LockRelease, Upsert, RegistryTypeOK, Registration
  <2>2. /\ reg'[r].target = c /\ reg'[r].user = reg[r].user /\ reg'[r].org = reg[r].org
    BY <1>1, <2>1 DEF RegistryTypeOK, Registration
  <2>3. c \in Live /\ Key(clients[c]) = Key(Registered(r))
    BY <2>1 DEF Matching
  <2>4. clients[c].user = reg[r].user /\ clients[c].org = reg[r].org
    BY <2>3 DEF Key, Registered
  <2> QED BY <2>2, <2>3, <2>4
<1> QED BY <1>1, <1>2, <1>3, <1>4 DEF Settled, OwnStep, Live

LEMMA CommitSettles ==
  ASSUME NEW r \in Request, CommitRegistration(r), RegistryTypeOK, RegistrationShape, Settled
  PROVE  /\ Settled' /\ HomesKept /\ OwnStep(r)
         /\ clients'[reg[r].target].user = reg[r].user
         /\ clients'[reg[r].target].org = reg[r].org
         /\ reg[r].target \in Seed \/ reg'[reg[r].target].stage = "ended"
<1> DEFINE c == reg[r].target
<1>1. /\ Live' = Live \cup {c} /\ c \in RowId /\ reg[r].stage = "written"
      /\ reg[r] \in Registration
  <2>1. Live' = Live \cup {c} /\ c \in RowId
    BY CommitTyping
  <2>2. reg[r].stage = "written" /\ reg[r] \in Registration
    BY DEF CommitRegistration, RegistryTypeOK, NoRegistration
  <2> QED BY <2>1, <2>2
<1>2. /\ clients'[c] = Registered(r) /\ \A d \in RowId \ {c} : clients'[d] = clients[d]
      /\ reg'[r].stage = "ended" /\ OwnStep(r)
  BY <1>1 DEF CommitRegistration, RegistryTypeOK, OwnStep, Registration
<1>3. clients'[c].user = reg[r].user /\ clients'[c].org = reg[r].org
  BY <1>2 DEF Registered
<1>4. c # r => /\ c \in Live /\ clients[c].user = reg[r].user
               /\ clients[c].org = reg[r].org
  BY <1>1 DEF Settled
<1>5. c = r => r \notin Live
  BY <1>1 DEF Settled
<1>6. c \in Seed \/ reg'[c].stage = "ended"
  BY <1>1, <1>2, <1>4 DEF RowId, Settled, OwnStep
<1> HIDE DEF c
<1>7. HomesKept
  BY <1>1, <1>2, <1>3, <1>4, <1>5 DEF HomesKept, OwnStep, Live
<1>8. \A q \in Request : q \in Live' => reg'[q].stage = "ended"
  BY <1>1, <1>2, <1>6, RegistryAssumption DEF Settled, OwnStep
<1>9. ASSUME NEW q \in Request, reg'[q].stage = "written", reg'[q].target # q
      PROVE  /\ reg'[q].target \in Live'
             /\ clients'[reg'[q].target].user = reg'[q].user
             /\ clients'[reg'[q].target].org = reg'[q].org
  <2>1. reg'[q] = reg[q]
    BY <1>2, <1>9 DEF OwnStep
  <2>2. /\ reg[q].target \in Live
        /\ clients[reg[q].target].user = reg[q].user
        /\ clients[reg[q].target].org = reg[q].org
    BY <1>9, <2>1 DEF Settled
  <2> QED BY <1>1, <1>7, <2>1, <2>2 DEF HomesKept
<1> QED BY <1>2, <1>3, <1>6, <1>7, <1>8, <1>9 DEF Settled, c

LEMMA RollbackSettles ==
  ASSUME NEW r \in Request, Rollback(r), RegistryTypeOK, Settled
  PROVE  Settled' /\ HomesKept /\ OwnStep(r)
<1>1. /\ clients' = clients /\ OwnStep(r) /\ reg'[r].stage = "ended"
  BY DEF Rollback, OwnStep, RegistryTypeOK, Registration, NoRegistration, Running
<1> QED BY <1>1 DEF Settled, HomesKept, OwnStep, Live

LEMMA EnterSettles ==
  ASSUME NEW r \in Request, NEW u \in User, NEW o \in Org, NEW k \in Comp,
         NEW m \in Manifest, reg[r].stage = "none", Enter(r, u, o, k, m), UNCHANGED clients,
         RegistryTypeOK, Settled
  PROVE  /\ Settled' /\ HomesKept
         /\ \A q \in Request \ {r} : reg'[q] = reg[q]
         /\ reg'[r].user = u /\ reg'[r].org = o
<1>1. /\ \A q \in Request \ {r} : reg'[q] = reg[q]
      /\ reg'[r].stage = "app" /\ reg'[r].user = u /\ reg'[r].org = o
  BY DEF Enter, RegistryTypeOK
<1> QED BY <1>1 DEF Settled, HomesKept, Live

\* Dooming changes nothing of a registration but that it cannot commit.
LEMMA DoomKeepsHomes ==
  ASSUME NEW S, \A r \in Request : r \in S => reg[r].stage = "written", Doom(S),
         RegistryTypeOK
  PROVE  \A r \in Request :
           /\ reg'[r].stage = reg[r].stage
           /\ reg[r].stage # "none" =>
                /\ reg'[r].user = reg[r].user /\ reg'[r].org = reg[r].org
                /\ reg'[r].target = reg[r].target
<1> TAKE r \in Request
<1>1. CASE r \in S
  <2>1. reg[r] \in Registration
    BY <1>1 DEF RegistryTypeOK, NoRegistration
  <2>2. reg'[r] = [reg[r] EXCEPT !.doomed = TRUE]
    BY <1>1 DEF Doom
  <2> QED BY <2>1, <2>2 DEF Registration
<1>2. CASE r \notin S
  BY <1>2 DEF Doom
<1> QED BY <1>1, <1>2

LEMMA DeviceSettles ==
  ASSUME NEW n \in Node, NEW o \in Org, DeleteDevice(n, o), RegistryTypeOK,
         RegistrationShape, Settled
  PROVE  /\ Settled' /\ HomesKept
         /\ \A r \in Request :
              /\ reg'[r].stage = reg[r].stage
              /\ reg[r].stage # "none" =>
                   reg'[r].user = reg[r].user /\ reg'[r].org = reg[r].org
<1> DEFINE onIt == {r \in Request : /\ reg[r].stage = "written"
                                    /\ NodeOf[reg[r].man] = n
                                    /\ reg[r].org = o}
<1>1. \A r \in Request :
        /\ reg'[r].stage = reg[r].stage
        /\ reg[r].stage # "none" =>
             /\ reg'[r].user = reg[r].user /\ reg'[r].org = reg[r].org
             /\ reg'[r].target = reg[r].target
  <2>1. Doom(onIt) /\ \A r \in Request : r \in onIt => reg[r].stage = "written"
    BY DEF DeleteDevice
  <2> HIDE DEF onIt
  <2> QED BY <2>1, DoomKeepsHomes
<1>2. Live' = Live
  BY DeviceTyping
<1>3. \A c \in Live : clients'[c].user = clients[c].user /\ clients'[c].org = clients[c].org
  <2> SUFFICES ASSUME NEW c \in Live
               PROVE  clients'[c].user = clients[c].user /\ clients'[c].org = clients[c].org
    OBVIOUS
  <2>1. c \in RowId /\ clients[c] \in Client
    BY DEF Live, RegistryTypeOK
  <2>2. clients'[c] \in {clients[c], [clients[c] EXCEPT !.node = None]}
    BY <2>1 DEF DeleteDevice
  <2> QED BY <2>1, <2>2 DEF Client
<1> QED BY <1>1, <1>2, <1>3 DEF Settled, HomesKept

LEMMA RemoveSettles ==
  ASSUME NEW u \in User, NEW o \in Org, RemoveMember(u, o), RegistryTypeOK,
         RegistrationShape, Settled
  PROVE  /\ Settled' /\ HomesKept
         /\ \A r \in Request :
              /\ reg'[r].stage = reg[r].stage
              /\ reg[r].stage # "none" =>
                   reg'[r].user = reg[r].user /\ reg'[r].org = reg[r].org
<1> DEFINE onIt == {r \in Request : /\ reg[r].stage = "written"
                                    /\ reg[r].user = u
                                    /\ reg[r].org = o}
<1>1. \A r \in Request :
        /\ reg'[r].stage = reg[r].stage
        /\ reg[r].stage # "none" =>
             /\ reg'[r].user = reg[r].user /\ reg'[r].org = reg[r].org
             /\ reg'[r].target = reg[r].target
  <2>1. Doom(onIt) /\ \A r \in Request : r \in onIt => reg[r].stage = "written"
    BY DEF RemoveMember
  <2> HIDE DEF onIt
  <2> QED BY <2>1, DoomKeepsHomes
<1>2. Live' = Live \ ClientsOf(u, o)
  BY RemoveTyping
<1>3. \A c \in Live' : clients'[c] = clients[c]
  BY <1>2 DEF RemoveMember, Live
<1>4. \A r \in Request : reg[r].stage = "written" /\ reg[r].target \in Live =>
        reg[r].target \in Live'
  BY <1>2 DEF RemoveMember, LockedClients, Live
<1> QED BY <1>1, <1>2, <1>3, <1>4 DEF Settled, HomesKept

=============================================================================
