-------------------------------- MODULE Fifo --------------------------------
(***************************************************************************)
(* A bounded queue of bytes: what fw/ringbuf.c promises fw/samples.c.  A   *)
(* call takes effect whole, when it returns, or fails and changes nothing. *)
(***************************************************************************)
EXTENDS Naturals, Sequences

CONSTANTS Size, Value

VARIABLES queue,     \* the bytes written and not yet read
          got        \* the bytes the last read returned

vars == <<queue, got>>

Init == queue = <<>> /\ got = <<>>

(* all of the new bytes, behind the old ones *)
Put == \E n \in 1 .. Size - Len(queue) :
          /\ Len(queue') = Len(queue) + n
          /\ \A k \in 1 .. n : queue'[Len(queue) + k] \in Value
          /\ SubSeq(queue', 1, Len(queue)) = queue
          /\ got' = <<>>

(* the oldest bytes, in order *)
Get == \E n \in 1 .. Len(queue) :
          /\ got' = SubSeq(queue, 1, n)
          /\ queue' = SubSeq(queue, n + 1, Len(queue))

Fail == got' = <<>> /\ UNCHANGED queue

(* samples_init starts again with an empty queue *)
Clear == queue' = <<>> /\ got' = <<>>

Next == Put \/ Get \/ Fail \/ Clear

Spec == Init /\ [][Next]_vars

=============================================================================
