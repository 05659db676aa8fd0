------------------------------ MODULE RedeemTicket ------------------------------
(***************************************************************************)
(* What redeeming promises, without requests, locks, transactions or the   *)
(* registration of clients: a ticket is settled once, in one step, on the  *)
(* manifest and the client of whoever comes first; who comes again with    *)
(* the same manifest is told the same client, and only a ticket marked     *)
(* renewable is ever settled on something else.                            *)
(***************************************************************************)
CONSTANTS Ticket, Client, Manifest, Renewable, Unset

VARIABLES
  held,     \* the tickets out there: the client and manifest of each, or Unset
  answers   \* what was answered for them

vars == <<held, answers>>

Told(t) ==
  answers' = answers \cup {[tok |-> t, man |-> held'[t].man, client |-> held'[t].client]}

Init ==
  /\ held \in [Ticket -> [client : Client \cup {Unset}, man : {Unset}]]
  /\ answers = {}

Free(c, t) == \A u \in Ticket \ {t} : held[u] = Unset \/ held[u].client # c

\* First come, first served.
Settle(t, c, m) ==
  /\ held[t] # Unset
  /\ held[t].client = Unset \/ (t \in Renewable /\ held[t].man \notin {Unset, m})
  /\ Free(c, t)
  /\ held' = [held EXCEPT ![t] = [client |-> c, man |-> m]]
  /\ Told(t)

\* A ticket settled before manifests were recorded is completed by the next.
Repeat(t, m) ==
  /\ held[t] # Unset
  /\ held[t].client # Unset
  /\ held[t].man \in {Unset, m}
  /\ held' = [held EXCEPT ![t] = [client |-> held[t].client, man |-> m]]
  /\ Told(t)

Withdraw(S) ==
  /\ held' = [t \in Ticket |-> IF t \in S THEN Unset ELSE held[t]]
  /\ answers' = {a \in answers : a.tok \notin S}

Issue(t) ==
  /\ held[t] = Unset
  /\ held' = [held EXCEPT ![t] = [client |-> Unset, man |-> Unset]]
  /\ UNCHANGED answers

Next ==
  \/ \E t \in Ticket, c \in Client, m \in Manifest : Settle(t, c, m)
  \/ \E t \in Ticket, m \in Manifest : Repeat(t, m)
  \/ \E S \in SUBSET Ticket : Withdraw(S)
  \/ \E t \in Ticket : Issue(t)

Spec == Init /\ [][Next]_vars

=============================================================================
