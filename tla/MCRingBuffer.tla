---------------------------- MODULE MCRingBuffer ----------------------------
(* RingBuffer for TLC.  The buffer never looks at a byte, so one byte that   *)
(* differs from the others shows every loss, repetition or change of order:  *)
(* states with more of them need not be looked at.                           *)
EXTENDS RingBuffer

CONSTANT Marked  \* the byte that differs

ASSUME MarkedAssumption == Marked \in Byte

\* The bound: one marked byte in the array and the message together.
OneMarked ==
    Cardinality({i \in DOMAIN data : data[i] = Marked})
        + Cardinality({i \in DOMAIN insert : insert[i] = Marked}) <= 1
=============================================================================
