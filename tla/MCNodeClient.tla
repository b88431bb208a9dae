---------------------------- MODULE MCNodeClient ----------------------------
(* TLC instance of NodeClient. *)
EXTENDS NodeClient

MCKinds ==
  {[type |-> "json", expecting |-> "body", fields |-> <<>>],
   [type |-> "json", expecting |-> "raw", fields |-> <<>>],
   [type |-> "file", expecting |-> "body", fields |-> <<"text", "stream", "text">>],
   [type |-> "file", expecting |-> "body", fields |-> <<"text">>],
   [type |-> "raw", expecting |-> "body", fields |-> <<"stream">>]}

MCOneKind == {[type |-> "json", expecting |-> "body", fields |-> <<>>]}

(* A call by a user with a token, one by an administrator, and one of no project. *)
MCHeaders ==
  {[project |-> TRUE, type |-> "user", adminType |-> "ticket", userType |-> "token",
    userToken |-> TRUE, cookie |-> FALSE],
   [project |-> TRUE, type |-> "admin", adminType |-> "token", userType |-> "none",
    userToken |-> FALSE, cookie |-> FALSE],
   [project |-> FALSE, type |-> "admin", adminType |-> "token", userType |-> "none",
    userToken |-> FALSE, cookie |-> FALSE]}

MCObjectKind == [o \in Objects |-> "refresh"]
=============================================================================
