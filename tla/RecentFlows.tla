---------------------------- MODULE RecentFlows ----------------------------
(***************************************************************************)
(* What the buffer of recent flows promises its users, with no array, no   *)
(* indices and no lock: a sequence of at most Capacity records to which    *)
(* whole batches are added, the oldest records giving way, and which is    *)
(* read as a whole.                                                        *)
(***************************************************************************)
EXTENDS Integers, Sequences

CONSTANTS Capacity, Readers, Batches

VARIABLES
  recent, \* the records kept, oldest first
  view    \* per reader, the last snapshot it returned

vars == <<recent, view>>

Newest(s) == IF Len(s) <= Capacity THEN s ELSE SubSeq(s, Len(s) - Capacity + 1, Len(s))

Init ==
  /\ recent = << >>
  /\ view = [r \in Readers |-> << >>]

Add(b) ==
  /\ recent' = Newest(recent \o b)
  /\ UNCHANGED view

Look(r) ==
  /\ view' = [view EXCEPT ![r] = recent]
  /\ UNCHANGED recent

Next ==
  \/ \E b \in Batches : Add(b)
  \/ \E r \in Readers : Look(r)

Spec == Init /\ [][Next]_vars
=============================================================================
