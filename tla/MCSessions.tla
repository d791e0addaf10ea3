---------------------------- MODULE MCSessions -----------------------------
(* Sessions on a small instance: an administrator, a user and an account   *)
(* that is yet to be made.                                                 *)
EXTENDS Sessions, TLC

CONSTANTS r1, r2, b1, b2

MCPasswordOf == [root |-> "secret", alice |-> "hunter2"]

MCNewUsers == {[user |-> "bob", password |-> "secret", role |-> "viewer"],
               [user |-> "alice", password |-> "secret", role |-> "admin"]}

Symmetry == Permutations(Requests) \cup Permutations(Browsers)
=============================================================================
