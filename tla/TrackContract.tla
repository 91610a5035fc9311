----------------------------- MODULE TrackContract -----------------------------
(***************************************************************************)
(* What the four-core tracker promises, without buffers, interrupts or     *)
(* messages: every core answers the frames 0, 1, 2, ... once each and in   *)
(* order; the answer to a frame is computed from that frame and from the   *)
(* template trained through the frame before it; and no core gets more     *)
(* than one whole frame ahead of the frame another core is working on.     *)
(***************************************************************************)
EXTENDS Integers

CONSTANTS Cores, FRAME_NUM

VARIABLES results,   \* the answers, one array per core
          next       \* the frame each core answers next

Frames == 0 .. FRAME_NUM - 1
NoResult == [frame |-> -1, tmpl |-> -1]

\* Frame 0 is answered with the given region, frame f > 0 by matching it
\* against the template last trained on frame f - 1.
Expected(f) == IF f = 0 THEN NoResult ELSE [frame |-> f, tmpl |-> f - 1]

Init ==
  /\ results = [c \in Cores |-> [f \in Frames |-> NoResult]]
  /\ next = [c \in Cores |-> 0]

Answer(c) ==
  /\ next[c] < FRAME_NUM
  /\ \A d \in Cores : next[c] <= next[d] + 1
  /\ results' = [results EXCEPT ![c][next[c]] = Expected(next[c])]
  /\ next' = [next EXCEPT ![c] = @ + 1]

Next == \E c \in Cores : Answer(c)

Spec == Init /\ [][Next]_<<results, next>>
================================================================================
