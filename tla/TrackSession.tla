----------------------------- MODULE TrackSession -----------------------------
(***************************************************************************)
(* What the host program kcf_dsp and the DSP programs Kcf_SF and Kcf_SA    *)
(* promise together: for every sequence the host asks for, the tracker is  *)
(* given each frame of that sequence once, in order, and the host gets the *)
(* results of all of them before it is told that the DSP is ready again.   *)
(***************************************************************************)
EXTENDS Naturals, Sequences

CONSTANTS FRAME_NUM,    \* frames in a sequence
          SEQUENCES     \* sequences the host asks for, one run of kcf_dsp each

VARIABLES run,          \* the sequence asked for last
          tracked,      \* for each call of the tracker, the frames it used
          results       \* the results the host has of it

Frame(r, i) == [run |-> r, part |-> i]

Init == run = 0 /\ tracked = <<>> /\ results = <<>>

Finished == Len(results) = FRAME_NUM \/ run = 0

Request ==
    /\ Finished /\ run < SEQUENCES
    /\ run' = run + 1 /\ tracked' = <<>> /\ results' = <<>>

Track ==
    /\ run > 0 /\ Len(tracked) < FRAME_NUM
    /\ tracked' = Append(tracked, {Frame(run, Len(tracked))})
    /\ UNCHANGED <<run, results>>

Return ==
    /\ run > 0 /\ Len(tracked) = FRAME_NUM /\ results = <<>>
    /\ results' = tracked
    /\ UNCHANGED <<run, tracked>>

Next == Request \/ Track \/ Return

Spec == Init /\ [][Next]_<<run, tracked, results>>
=============================================================================
