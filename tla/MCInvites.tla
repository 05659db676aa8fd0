------------------------------- MODULE MCInvites -------------------------------
(* Model values for Invites: the organization of o, to which u and v may come. *)
EXTENDS Invites, TLC

CONSTANTS o, u, v, s0, s1, admin, guest, i1, i2

MCOwnerSeeded == s0 :> o

MCBothSeeded == s0 :> o @@ s1 :> u

MCAsked == [i \in Invite |-> IF i = i1 THEN {admin, Unknown} ELSE {Unknown}]

Alike == Permutations(Request)

==============================================================================
