---------------------------- MODULE MCDeploymentHub ----------------------------
(***************************************************************************)
(* Values for model checking DeploymentHub.  Partners p1 and p2 are        *)
(* connected when it starts.  p1 has a hook and is connected again by an   *)
(* admin or at a boot, p3 has none and is connected at a boot, p2 would be *)
(* but does not apply to the owner u1.  The composition code k1 brings an  *)
(* instance on a device, another one and a client, k2 only a client.  The  *)
(* app a1 sends a manifest that requires nothing (bare), or one service    *)
(* and optionally another (wants).                                         *)
(***************************************************************************)
EXTENDS DeploymentHub, TLC

CONSTANTS p1, p2, p3, k1, k2, i1, i2, i3, n1, n3, s1, s2, admin, x1, a1,
          bare, wants, q1, q2, u1, u2, g1

Staging(i, I, A, key) ==
  [identifier |-> i, instances |-> I, clients |-> A, request_auth_key |-> key]

MCManifestOf ==
  p1 :> Staging(i1, {n1}, {}, FALSE) @@ p2 :> Staging(i2, {n1}, {}, FALSE)
  @@ p3 :> Staging(i3, {n3}, {}, FALSE)
  @@ k1 :> Staging(i3, {n1, n3}, {a1}, TRUE) @@ k2 :> Staging(i3, {}, {a1}, FALSE)
MCDescribes ==
  n1 :> [service |-> s1, roles |-> {x1}] @@ n3 :> [service |-> s2, roles |-> {admin}]
MCContents ==
  bare :> [requirements |-> <<>>, scopes |-> {x1}]
  @@ wants :> [requirements |-> <<[key |-> q1, service |-> s1, optional |-> FALSE],
                                  [key |-> q2, service |-> s2, optional |-> TRUE]>>,
               scopes |-> {}]
MCRegisteredBy == [a \in App |-> u1]
MCGroupsOf == [u \in User |-> {g1}]
MCOpen == [n \in Name |-> {}]
MCAllowedUsers == n1 :> {} @@ n3 :> {u1}
MCAllowedGroups == n1 :> {} @@ n3 :> {g1}
PartnerRow(hook, kind, filter) ==
  [pre_authorize_hook |-> hook, preauthorized |-> kind, auto_configure |-> TRUE,
   filter |-> filter]

MCColumns ==
  p1 :> PartnerRow(TRUE, TRUE, {{u1}, {u1, u2}})
  @@ p2 :> PartnerRow(FALSE, FALSE, {{u1}, {u2}}) @@ p3 :> PartnerRow(FALSE, FALSE, {})
MCNamedBy == [k \in ServiceCode |-> n3]
MCClientMan == [a \in App |-> bare]

=============================================================================
