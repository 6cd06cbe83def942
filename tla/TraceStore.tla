----------------------------- MODULE TraceStore -----------------------------
(***************************************************************************)
(* What the file system promises its callers (fw/samples.c, fw/control.c): *)
(* a list of traces, numbered from 1.  A recording is saved whole or not   *)
(* at all, a saved trace never changes, and the traces only ever go away   *)
(* all together, between recordings.                                       *)
(***************************************************************************)
EXTENDS Naturals, Sequences

CONSTANT Times        \* values of the real-time clock

VARIABLES traces,     \* the saved traces
          cur         \* <<>>, or the recording in progress alone

vars == <<traces, cur>>

Trace == [len : Nat, rtc : Times \cup {0}]

TypeOK == /\ traces \in Seq(Trace)
          /\ cur \in Seq(Trace) /\ Len(cur) <= 1

Init == traces = <<>> /\ cur = <<>>

Start == cur' = <<[len |-> 0, rtc |-> 0]>> /\ UNCHANGED traces

(* more bytes are accepted *)
Extend == /\ cur # <<>> /\ cur' # <<>>
          /\ cur'[1].len > cur[1].len
          /\ cur' = <<[cur[1] EXCEPT !.len = cur'[1].len]>>
          /\ UNCHANGED traces

Stamp == /\ cur # <<>>
         /\ \E now \in Times : cur' = <<[cur[1] EXCEPT !.rtc = now]>>
         /\ UNCHANGED traces

Save == cur # <<>> /\ traces' = traces \o cur /\ cur' = <<>>

Lose == cur # <<>> /\ cur' = <<>> /\ UNCHANGED traces

Erase == cur = <<>> /\ traces' = <<>> /\ UNCHANGED cur

Next == Start \/ Extend \/ Stamp \/ Save \/ Lose \/ Erase

Spec == Init /\ [][Next]_vars

=============================================================================
