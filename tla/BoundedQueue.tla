---------------------------- MODULE BoundedQueue ----------------------------
(***************************************************************************)
(* What lib/Buffer promises the connections that use it: a FIFO of bytes   *)
(* with a largest size.  message is what the caller is writing, out what   *)
(* the last transfer took from the queue.  The promise ends when a write() *)
(* to the socket fails: from then on anything may happen.                  *)
(***************************************************************************)
EXTENDS Naturals, Sequences

CONSTANTS Byte,      \* the bytes
          MaxLength  \* the most the queue may hold

VARIABLES queue, message, out, failed

Init == queue = <<>> /\ message = <<>> /\ out = <<>> /\ failed = FALSE

\* A message is accepted only if all of it fits.
Accept ==
    /\ ~failed /\ message = <<>>
    /\ message' \in Seq(Byte) \ {<<>>}
    /\ Len(queue) + Len(message') <= MaxLength
    /\ UNCHANGED <<queue, out, failed>>

\* The whole message that was accepted is appended.
Put ==
    /\ ~failed /\ message # <<>>
    /\ queue' = queue \o message
    /\ message' = <<>>
    /\ out' = <<>>
    /\ UNCHANGED failed

\* The oldest bytes leave, in order.
Take ==
    /\ ~failed /\ message = <<>>
    /\ \E k \in 1 .. Len(queue) :
         /\ out' = SubSeq(queue, 1, k)
         /\ queue' = SubSeq(queue, k + 1, Len(queue))
    /\ UNCHANGED <<message, failed>>

Fail == failed' = TRUE

Next == Accept \/ Put \/ Take \/ Fail

Spec == Init /\ [][Next]_<<queue, message, out, failed>>
=============================================================================
