---------------------------- MODULE MCRedeemTokens ----------------------------
(***************************************************************************)
(* Values for model checking RedeemTokens: one user in one organization    *)
(* with two compositions, one app with manifests that differ in content    *)
(* (m1, m1b) or in version (m2), all without a device, and one on a device *)
(* (md).  A request beside the redemptions registers clients otherwise.    *)
(***************************************************************************)
EXTENDS RedeemTokens, TLC

CONSTANTS u1, o1, k1, k2, m1, m1b, m2, md, app1, v1, v2, n1, ta, tb, tc, s0

MCOrgOf == [k \in Comp |-> o1]
MCIdentOf == [m \in Manifest |-> app1]
MCVersionOf == [m \in Manifest |-> IF m = m2 THEN v2 ELSE v1]
MCNodeOf == [m \in Manifest |-> IF m = md THEN n1 ELSE None]
MCSeedUser == [s \in Seed |-> u1]
MCSeedComp == [s \in Seed |-> k1]
MCSeedMan == [s \in Seed |-> m1]
MCTokenUser == [t \in Token |-> u1]
MCTokenComp == [t \in Token |-> IF t = tb /\ k2 \in Comp THEN k2 ELSE k1]

Requests == Permutations(RedeemRequest)

=============================================================================
