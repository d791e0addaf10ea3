---------------------------- MODULE MCRingBuffer ----------------------------
(* RingBuffer on small instances. *)
EXTENDS RingBuffer

CONSTANTS w1, w2, r1, r2

\* Empty batches are real: the collector sends one at every idle tick.
MCBatches == {<< >>, <<"a">>, <<"a", "b", "c">>}
=============================================================================
