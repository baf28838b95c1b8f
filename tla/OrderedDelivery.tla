--------------------------- MODULE OrderedDelivery ---------------------------
(***************************************************************************)
(* What the serial event uploader (cli/transports/                         *)
(* SerialBatchEventUploader.ts) promises to its callers: the events it has *)
(* accepted reach the server in the order of acceptance, each batch at     *)
(* least once unless it is given up, and never two batches at a time.      *)
(* A batch whose answer is lost is sent again from the same position.      *)
(***************************************************************************)
EXTENDS Naturals, Sequences

VARIABLES
    queue,   \* accepted and not yet settled, in the order of acceptance
    server   \* what the server has received, in the order of arrival

First(s, n) == SubSeq(s, 1, n)
Without(s, n) == SubSeq(s, n + 1, Len(s))

Init == queue = <<>> /\ server = <<>>

\* enqueue(): events are added behind all others.
Accept ==
    /\ Len(queue) =< Len(queue')
    /\ First(queue', Len(queue)) = queue
    /\ server' = server

\* A POST arrives; its events are settled, or sent again if the answer is lost.
Deliver(n) ==
    /\ server' = server \o First(queue, n)
    /\ queue' \in {queue, Without(queue, n)}

\* A batch is refused for good, or has failed too often.
GiveUp(n) ==
    /\ queue' = Without(queue, n)
    /\ server' = server

\* close(): what is not in flight is dropped.
Drop(n) ==
    /\ queue' = First(queue, n)
    /\ server' = server

Next ==
    \/ Accept
    \/ \E n \in 0..Len(queue) : Deliver(n) \/ GiveUp(n) \/ Drop(n)

Spec == Init /\ [][Next]_<<queue, server>>
=============================================================================
