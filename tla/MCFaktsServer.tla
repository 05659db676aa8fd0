----------------------------- MODULE MCFaktsServer -----------------------------
(***************************************************************************)
(* Values for model checking FaktsServer: compositions of one organization *)
(* or of two (k1 is of o1, k2 of o2 when there is one), an app with a      *)
(* token of u1 for k1, and another app (manifest mz) with a client in k2   *)
(* that no token is bound to, which may ask for developmental clients.     *)
(***************************************************************************)
EXTENDS FaktsServer, TLC

CONSTANTS
  u1, u2, o1, o2, k1, k2, m1, m1b, md, mz, app1, app2, v1, n1, ta, s2

MCOrgOf == [k \in Comp |-> IF k = k2 /\ o2 \in Org THEN o2 ELSE o1]
MCIdentOf == [m \in Manifest |-> IF m = mz THEN app2 ELSE app1]
MCVersionOf == [m \in Manifest |-> v1]
MCNodeOf == [m \in Manifest |-> IF m = md THEN n1 ELSE None]
MCSeedUser == [s \in Seed |-> u1]
MCSeedComp == [s \in Seed |-> IF s = s2 THEN k2 ELSE k1]
MCSeedMan == [s \in Seed |-> IF s = s2 THEN mz ELSE IF md \in Manifest THEN md ELSE m1]
MCTokenUser == [t \in Token |-> u1]
MCTokenComp == [t \in Token |-> k1]

=============================================================================
