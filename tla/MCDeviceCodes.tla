----------------------------- MODULE MCDeviceCodes -----------------------------
(***************************************************************************)
(* Values for model checking DeviceCodes: users of two organizations, a    *)
(* composition of the first (k1) and one of the second (k2), one app, a    *)
(* manifest on a device (md) and two that differ in content only (m1, m1b) *)
(* without one.                                                            *)
(***************************************************************************)
EXTENDS DeviceCodes, TLC

CONSTANTS u1, u2, o1, o2, k1, k2, m1, m1b, md, app1, v1, n1, s1

MCOrgOf == [k \in Comp |-> IF k = k2 THEN o2 ELSE o1]
MCIdentOf == [m \in Manifest |-> app1]
MCVersionOf == [m \in Manifest |-> v1]
MCNodeOf == [m \in Manifest |-> IF m = md THEN n1 ELSE None]
MCSeedUser == [s \in Seed |-> u1]
MCSeedComp == [s \in Seed |-> k1]
MCSeedMan == [s \in Seed |-> IF m1 \in Manifest THEN m1 ELSE md]

=============================================================================
