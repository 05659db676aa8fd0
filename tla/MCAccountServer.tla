---------------------------- MODULE MCAccountServer ----------------------------
(***************************************************************************)
(* Values for model checking AccountServer.  The organization Old, of u1   *)
(* with the member u2, has a tailnet; ENSURE_ORGANIZATIONS wants u2 for    *)
(* its owner, ENSURED_MEMBERSHIPS wants u3, who has to sign up first.      *)
(* Organizations, tokens and social requests have no rows in common but    *)
(* users and memberships; each topic explores some of them together.       *)
(***************************************************************************)
EXTENDS AccountServer, TLC

CONSTANTS u1, u2, u3, k1, k2, n1, n2

MCTopics == {
  {"create", "signup", "boot"},
  {"delete", "boot"},
  {"unmakeAdmin", "leave", "boot"},
  {"update", "boot"},
  {"update", "delete"},
  {"delete", "leave", "makeAdmin"},
  {"accept", "exchange", "refresh"},
  {"accept", "refresh", "info"},
  {"accept", "credentials", "leave"},
  {"exchange", "refresh", "leave"},
  {"register", "drop", "delete", "leave", "join", "credentials"},
  {"exchange", "signup", "leave", "api"},
  {"signup", "join", "api"},
  {"update", "api"},
  {"create", "delete", "api"},
  {"delete", "choose", "quit"},
  {"tailnet", "authkey", "delete"},
  {"tailnet", "boot"},
  {"tailnet", "update"},
  {"authkey", "leave", "join"},
  {"channel", "boot"},
  {"channel", "comment"},
  {"comment", "boot"},
  {"message", "boot"},
  {"channel"},
  {"stash", "additems", "boot"},
  {"stash", "restash", "unstash", "additems", "removeitems"},
  {"device", "boot"},
  {"device", "remove", "enlist"},
  {"device", "group", "remove"},
  {"device", "edit"},
  {"edit", "remove"},
  {"profile", "upload"},
  {"profile", "permit"}}

\* The requests that arrive in a behaviour; a boot comes on top of them.
MCLimit == [t \in MCTopics |->
  IF t \in {{"comment", "boot"}, {"message", "boot"}} THEN 1
  ELSE IF t \cap {"boot", "comment"} # {} \/ t = {"edit", "remove"} THEN 2
  ELSE 3]

MCSymmetry == Permutations(Request \ Boot)

MCListSets == {{"allowedGroups", "allowedUsers", "deniedGroups", "deniedUsers"},
               {"allowedUsers", "deniedUsers"}}

MCMentionSets == {{u1, u2}, {u2, Unknown}}

=============================================================================
