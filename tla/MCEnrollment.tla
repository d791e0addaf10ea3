---------------------------- MODULE MCEnrollment ----------------------------
(* Enrollment with one host of one collector and one of two. *)
EXTENDS Enrollment, TLC

CONSTANTS alone, eth0, eth1, small, big

MCHostOf == (alone :> small) @@ (eth0 :> big) @@ (eth1 :> big)
=============================================================================
