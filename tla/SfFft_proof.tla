----------------------------- MODULE SfFft_proof -----------------------------
(***************************************************************************)
(* Proofs about the FFT task of the single-core trackers, for any size of  *)
(* a batch, any number of detections, of frames and of sequences.  As in   *)
(* FftService_proof there are two halves: which transforms the main task   *)
(* has queued and which it has waited for at every place of its program,   *)
(* by the numbers of Nth, and that what was queued and not waited for is,  *)
(* in that order, done, in service and in the queue (InOrder).  The drain  *)
(* of hFFTDoneSem alone waits for a number of transforms that depends on   *)
(* how far the FFT task has come.                                          *)
(***************************************************************************)
EXTENDS SfFft, SequenceTheorems, TLAPS

(* The commands of an update, in the order they are queued in; the first   *)
(* N were queued by the training before.                                   *)
Nth(n) ==
    IF n <= N THEN tmplFft(n)
    ELSE IF n <= 2 * N THEN crossFft(n - N)
    ELSE IF n = 2 * N + 1 THEN crossIfft
    ELSE IF n = 2 * N + 2 THEN detectFft
    ELSE IF n = 2 * N + 3 THEN detectIfft
    ELSE IF n <= 3 * N + 3 THEN autoFft(n - (2 * N + 3))
    ELSE IF n = 3 * N + 4 THEN autoIfft
    ELSE IF n = 3 * N + 5 THEN trainFft
    ELSE peakFft

Commands == {Nth(n) : n \in Nat}

-----------------------------------------------------------------------------
(* The program, place by place.                                            *)

\* The function that place p is in.
Part(p) ==
    IF p.run = 0 THEN "peak"
    ELSE IF p.frame = 0
    THEN <<"features", "drain", "auto", "train", "free">>[p.call]
    ELSE <<"features", "cross", "detect", "features", "auto", "train", "free">>[p.call]

Calls(p) == IF p.run = 0 THEN 1 ELSE IF p.frame = 0 THEN 5 ELSE 7

Lines(p) ==
    CASE Part(p) = "peak" -> 6 [] Part(p) = "auto" -> 15 [] Part(p) = "cross" -> 16
      [] Part(p) = "detect" -> 14 [] Part(p) = "train" -> 12 [] OTHER -> 1

InLoop(p) ==
    \/ Part(p) = "auto" /\ p.line \in {1, 2, 3, 4, 6, 7}
    \/ Part(p) = "cross" /\ p.line \in {1, 2, 3, 4, 7, 8}
    \/ Part(p) = "cross" /\ p.line = 5 /\ p.round = 1
    \/ Part(p) = "train" /\ p.line \in 8 .. 11

Places ==
    {p \in [run : Nat, frame : Nat, round : Nat \ {0}, call : 1 .. 7, line : 1 .. 16,
            i : 1 .. N] :
        /\ p.run = 0 => p.frame = 0
        /\ p.call <= Calls(p) /\ p.line <= Lines(p)
        /\ p.i = 1 \/ InLoop(p)}

InstrAt(p) == Program(p)[p.call][p.line]

\* The number of the last command queued when the main task is in line l of a
\* function, at chunk j.
PeakSent(l) == IF l <= 3 THEN 3 * N + 5 ELSE 3 * N + 6
AutoSent(l, j) ==
    IF l <= 3 THEN 2 * N + 2 + j ELSE IF l = 4 THEN 2 * N + 3 + j
    ELSE IF l <= 10 THEN 3 * N + 3 ELSE 3 * N + 4
TrainSent(l, j) ==
    IF l <= 3 THEN 3 * N + 4 ELSE IF l <= 7 THEN 3 * N + 5
    ELSE IF l <= 10 THEN j - 1 ELSE IF l = 11 THEN j ELSE N
CrossSent(l, j) ==
    IF l <= 3 THEN N + j - 1 ELSE IF l = 4 THEN N + j
    ELSE IF l <= 11 THEN 2 * N ELSE 2 * N + 1
DetectSent(l) ==
    IF l <= 3 THEN 2 * N + 1 ELSE IF l <= 9 THEN 2 * N + 2 ELSE 2 * N + 3

Sent(p) ==
    CASE Part(p) = "peak" -> PeakSent(p.line)
      [] Part(p) = "features" -> IF p.frame # 0 /\ p.call = 4 THEN 2 * N + 3 ELSE N
      [] Part(p) \in {"drain", "free"} -> N
      [] Part(p) = "auto" -> AutoSent(p.line, p.i)
      [] Part(p) = "train" -> TrainSent(p.line, p.i)
      [] Part(p) = "cross" -> CrossSent(p.line, p.i)
      [] Part(p) = "detect" -> DetectSent(p.line)

\* That of the last one it has waited for; while it drains the semaphore, that of the
\* last one before.
PeakWaited(l) == IF l <= 5 THEN 3 * N + 5 ELSE 3 * N + 6
AutoWaited(l, j) ==
    IF l <= 5 THEN 2 * N + 3 ELSE IF l = 6 THEN 2 * N + 2 + j
    ELSE IF l = 7 THEN 2 * N + 3 + j
    ELSE IF l <= 12 THEN 3 * N + 3 ELSE 3 * N + 4
TrainWaited(l, j) == IF l <= 5 THEN 3 * N + 4 ELSE IF l <= 7 THEN 3 * N + 5 ELSE 0
CrossWaited(first, l, j) ==
    IF l <= 4 THEN IF first THEN 0 ELSE N
    ELSE IF l = 5 THEN IF first THEN j - 1 ELSE N
    ELSE IF l = 6 THEN N ELSE IF l = 7 THEN N + j - 1 ELSE IF l = 8 THEN N + j
    ELSE IF l <= 13 THEN 2 * N ELSE 2 * N + 1
DetectWaited(l) ==
    IF l <= 5 THEN 2 * N + 1 ELSE IF l <= 11 THEN 2 * N + 2 ELSE 2 * N + 3

Waited(p) ==
    CASE Part(p) = "peak" -> PeakWaited(p.line)
      [] Part(p) = "features" ->
            IF p.frame = 0 THEN IF p.run = 1 THEN N ELSE 0
            ELSE IF p.call = 4 THEN 2 * N + 3 ELSE IF p.round = 1 THEN 0 ELSE N
      [] Part(p) = "drain" -> IF p.run = 1 THEN N ELSE 0
      [] Part(p) = "free" -> 0
      [] Part(p) = "auto" -> AutoWaited(p.line, p.i)
      [] Part(p) = "train" -> TrainWaited(p.line, p.i)
      [] Part(p) = "cross" -> CrossWaited(p.round = 1, p.line, p.i)
      [] Part(p) = "detect" -> DetectWaited(p.line)

\* The results it may take to be complete.
AutoHeld(l, j) ==
    {prob} \cup IF l = 7 THEN {<<"tmplDft", j>>} ELSE IF l \in {13, 14} THEN {kxx} ELSE {}
TrainHeld(l) == {prob} \cup IF l = 6 THEN {kxx} ELSE {}
CrossHeld(first, l, j) ==
    {prob} \cup
    IF first /\ l <= 5 THEN IF l = 5 THEN {<<"tmplDft", k>> : k \in 1 .. j - 1} ELSE {}
    ELSE Batch("tmplDft") \cup
         IF l = 8 THEN {<<"zHat", j>>} ELSE IF l \in {14, 15} THEN {kzx} ELSE {}
DetectHeld(l) ==
    {prob} \cup Batch("tmplDft") \cup
    IF l = 6 THEN {kzxHat} ELSE IF l \in {12, 13} THEN {kzx} ELSE {}

Held(p) ==
    CASE Part(p) = "peak" -> IF p.line <= 5 THEN {} ELSE {prob}
      [] Part(p) = "features" ->
            {prob} \cup IF p.frame # 0 /\ p.call = 1 /\ p.round # 1 THEN Batch("tmplDft") ELSE {}
      [] Part(p) \in {"drain", "free"} -> {prob}
      [] Part(p) = "auto" -> AutoHeld(p.line, p.i)
      [] Part(p) = "train" -> TrainHeld(p.line)
      [] Part(p) = "cross" -> CrossHeld(p.round = 1, p.line, p.i)
      [] Part(p) = "detect" -> DetectHeld(p.line)

-----------------------------------------------------------------------------
(* An instruction fits the commands under way when it is reached, and the  *)
(* next place those after it.                                              *)

LinkFits(p, q) ==
    /\ Sent(q) = Sent(p) + 1 /\ Waited(q) = Waited(p)
    /\ InstrAt(p).cmd = Nth(Sent(p) + 1)
    /\ \A k \in Waited(p) + 1 .. Sent(p) : Nth(k).dst # InstrAt(p).cmd.dst
    /\ Held(q) \subseteq Held(p) \ {InstrAt(p).cmd.dst}

WaitFits(p, q) ==
    /\ Sent(q) = Sent(p) /\ Waited(q) = Waited(p) + 1
    /\ Held(q) \subseteq Held(p) \cup {Nth(Waited(p) + 1).dst}

DrainFits(p, q) == Sent(q) = Waited(q) /\ Held(q) \subseteq Held(p)

Clear(bs, p) ==
    \A k \in Waited(p) + 1 .. Sent(p) : {Nth(k).cmd, Nth(k).src, Nth(k).dst} \cap bs = {}

OtherFits(p, q) ==
    /\ Held(q) \subseteq Held(p)
    /\ \/ Sent(q) = Sent(p) /\ Waited(q) = Waited(p)
       \/ Sent(p) = Waited(p) /\ Sent(q) = Waited(q)
    /\ InstrAt(p).op = "use" => InstrAt(p).bufs \subseteq Held(p)
    /\ InstrAt(p).op = "change" => Clear(InstrAt(p).bufs, p)

Disciplined(n, p) ==
    /\ InstrAt(p).op \in {"wait", "use", "change", "enqueue", "link", "post", "drain"}
    /\ InstrAt(p).op = "drain" <=> Part(p) = "drain"
    /\ After(n, p) \in Places
    /\ Sent(p) \in Nat /\ Waited(p) \in Nat /\ Waited(p) <= Sent(p)
    /\ InstrAt(p).op = "link" => LinkFits(p, After(n, p))
    /\ InstrAt(p).op = "wait" => WaitFits(p, After(n, p))
    /\ InstrAt(p).op = "drain" => DrainFits(p, After(n, p))
    /\ InstrAt(p).op \notin {"link", "wait", "drain"} => OtherFits(p, After(n, p))

-----------------------------------------------------------------------------
(* The inductive invariant.                                                *)

Typing ==
    /\ detects \in Detects /\ pc \in Places
    /\ queue \in Seq(Commands) /\ doneSem \in Nat
    /\ fftPc \in {"get", "pass1", "pass2", "aborted"}
    /\ IF fftPc \in {"pass1", "pass2"} THEN cur \in Commands ELSE cur = NoCommand
    /\ raced \in BOOLEAN /\ early \in BOOLEAN

InPass == IF fftPc \in {"pass1", "pass2"} THEN 1 ELSE 0

\* How far the main task has waited when it is at place p.
Reached(p) == Waited(p) .. (IF Part(p) = "drain" THEN Sent(p) ELSE Waited(p))

\* The main task is at place p and has waited for w commands: done of those after
\* them are complete, in is one if one is in service, which then is r, and the others
\* are in the queue q; f are the fresh buffers.
Ordered(p, w, done, in, q, f, r) ==
    /\ w \in Reached(p)
    /\ Sent(p) = w + done + in + Len(q)
    /\ in = 1 => r = Nth(w + done + 1)
    /\ \A j \in 1 .. Len(q) : q[j] = Nth(w + done + in + j)
    /\ \A k \in w + 1 .. w + done : Nth(k).dst \in f
    /\ Held(p) \subseteq f

InOrder == \E w \in Int : Ordered(pc, w, doneSem, InPass, queue, fresh, cur)

IInv == Typing /\ (Undisturbed => InOrder)

-----------------------------------------------------------------------------
(* Places and the functions they are in.                                   *)

LEMMA PlaceFields ==
  ASSUME NEW r, NEW f, NEW d, NEW c, NEW l, NEW j
  PROVE  /\ Place(r, f, d, c, l, j).run = r /\ Place(r, f, d, c, l, j).frame = f
         /\ Place(r, f, d, c, l, j).round = d /\ Place(r, f, d, c, l, j).call = c
         /\ Place(r, f, d, c, l, j).line = l /\ Place(r, f, d, c, l, j).i = j
BY DEF Place

\* The same place but for the line and the chunk.
Here(p, l, j) == Place(p.run, p.frame, p.round, p.call, l, j)

LEMMA PlaceFacts ==
  ASSUME NEW p \in Places
  PROVE  /\ p.run \in Nat /\ p.frame \in Nat /\ p.round \in Nat \ {0}
         /\ p.call \in 1 .. Calls(p) /\ p.line \in 1 .. Lines(p) /\ p.i \in 1 .. N
         /\ p.run = 0 => p.frame = 0
         /\ p.i = 1 \/ InLoop(p)
         /\ Calls(p) \in {1, 5, 7} /\ Lines(p) \in {1, 6, 12, 14, 15, 16}
<1>1. p \in [run : Nat, frame : Nat, round : Nat \ {0}, call : 1 .. 7, line : 1 .. 16,
             i : 1 .. N]
  BY DEF Places
<1>2. Calls(p) \in {1, 5, 7}
  BY DEF Calls
<1>3. Lines(p) \in {1, 6, 12, 14, 15, 16}
  BY DEF Lines
<1>4. p.call \in 1 .. Calls(p)
  BY <1>1, <1>2 DEF Places
<1>5. p.line \in 1 .. Lines(p)
  BY <1>1, <1>3 DEF Places
<1>6. QED
  BY <1>1, <1>2, <1>3, <1>4, <1>5 DEF Places

LEMMA HereFacts ==
  ASSUME NEW p \in Places, NEW l \in Int, NEW j \in 1 .. N, l >= 1, l <= Lines(p)
  PROVE  /\ Part(Here(p, l, j)) = Part(p)
         /\ j = 1 \/ InLoop(Here(p, l, j)) => Here(p, l, j) \in Places
<1> DEFINE h == Here(p, l, j)
<1>1. /\ h.run = p.run /\ h.frame = p.frame /\ h.round = p.round /\ h.call = p.call
      /\ h.line = l /\ h.i = j
  BY PlaceFields DEF Here
<1>2. h \in [run : Nat, frame : Nat, round : Nat \ {0}, call : 1 .. 7, line : 1 .. 16,
             i : 1 .. N]
  <2>1. l \in 1 .. 16
    BY PlaceFacts
  <2>2. p.call \in 1 .. 7
    BY PlaceFacts
  <2>3. QED
    BY <2>1, <2>2, PlaceFacts DEF Here, Place
<1> HIDE DEF h
<1>3. Part(h) = Part(p) /\ Calls(h) = Calls(p)
  BY <1>1 DEF Part, Calls
<1>4. Lines(h) = Lines(p)
  BY <1>3 DEF Lines
<1>5. ASSUME j = 1 \/ InLoop(h) PROVE h \in Places
  <2>1. h.run = 0 => h.frame = 0
    BY <1>1, PlaceFacts
  <2>2. h.call <= Calls(h) /\ h.line <= Lines(h)
    BY <1>1, <1>3, <1>4, PlaceFacts
  <2>3. QED
    BY <1>1, <1>2, <1>5, <2>1, <2>2 DEF Places
<1>6. QED
  BY <1>3, <1>5 DEF h

LEMMA Entry ==
  ASSUME NEW r \in Nat, NEW f \in Nat, NEW d \in Nat \ {0}, NEW c \in Int,
         r = 0 => f = 0, c >= 1,
         c <= IF r = 0 THEN 1 ELSE IF f = 0 THEN 5 ELSE 7
  PROVE  /\ Place(r, f, d, c, 1, 1) \in Places
         /\ Part(Place(r, f, d, c, 1, 1)) =
              IF r = 0 THEN "peak"
              ELSE IF f = 0
              THEN <<"features", "drain", "auto", "train", "free">>[c]
              ELSE <<"features", "cross", "detect", "features", "auto", "train", "free">>[c]
<1> DEFINE e == Place(r, f, d, c, 1, 1)
<1>1. /\ e.run = r /\ e.frame = f /\ e.round = d /\ e.call = c /\ e.line = 1 /\ e.i = 1
  BY PlaceFields
<1>2. e \in [run : Nat, frame : Nat, round : Nat \ {0}, call : 1 .. 7, line : 1 .. 16,
             i : 1 .. N]
  <2>1. c \in 1 .. 7
    OBVIOUS
  <2>2. 1 \in 1 .. N /\ 1 \in 1 .. 16
    BY SfFftAssumption
  <2>3. QED
    BY <2>1, <2>2 DEF Place
<1> HIDE DEF e
<1>3. e.call <= Calls(e)
  BY <1>1 DEF Calls
<1>4. e.line <= Lines(e)
  <2>1. Lines(e) \in {1, 6, 12, 14, 15, 16}
    BY DEF Lines
  <2>2. QED
    BY <1>1, <2>1
<1>5. e \in Places
  BY <1>1, <1>2, <1>3, <1>4 DEF Places
<1>6. QED
  BY <1>1, <1>5 DEF Part, e

\* The text of a function.
Text(p) == Program(p)[p.call]

LEMMA TextFacts ==
  ASSUME NEW p \in Places
  PROVE  /\ Len(Program(p)) = Calls(p)
         /\ Part(p) = "peak" => Text(p) = createGaussianPeak
         /\ Part(p) = "features" => Text(p) = getFeatures
         /\ Part(p) = "drain" => Text(p) = drain
         /\ Part(p) = "auto" => Text(p) = gaussAutoCorrelation(p.i)
         /\ Part(p) = "cross" => Text(p) = gaussCrossCorrelation(p.round = 1, p.i)
         /\ Part(p) = "detect" => Text(p) = detect
         /\ Part(p) = "train" => Text(p) = train(p.i)
         /\ Part(p) = "free" => Text(p) = freeTmplData
<1>1. p.i \in 1 .. N /\ p.call \in 1 .. Calls(p)
  BY PlaceFacts
<1>2. CASE p.run = 0
  <2>1. Program(p) = <<createGaussianPeak>>
    BY <1>2 DEF Program, start
  <2>2. p.call = 1 /\ Part(p) = "peak" /\ Calls(p) = 1
    BY <1>1, <1>2 DEF Calls, Part
  <2> HIDE DEF Program
  <2>3. QED
    BY <2>1, <2>2 DEF Text
<1>3. CASE p.run # 0 /\ p.frame = 0
  <2>1. Program(p) = <<getFeatures, drain, gaussAutoCorrelation(p.i), train(p.i), freeTmplData>>
    BY <1>1, <1>3 DEF Program, init
  <2>2. p.call \in 1 .. 5 /\ Calls(p) = 5
    BY <1>1, <1>3 DEF Calls
  <2>3. /\ Part(p) = <<"features", "drain", "auto", "train", "free">>[p.call]
    BY <1>3 DEF Part
  <2>4. QED
    BY <2>1, <2>2, <2>3 DEF Text
<1>4. CASE p.run # 0 /\ p.frame # 0
  <2>1. Program(p) = <<getFeatures, gaussCrossCorrelation(p.round = 1, p.i), detect,
                       getFeatures, gaussAutoCorrelation(p.i), train(p.i), freeTmplData>>
    BY <1>1, <1>4 DEF Program, update
  <2>2. p.call \in 1 .. 7 /\ Calls(p) = 7
    BY <1>1, <1>4 DEF Calls
  <2>3. /\ Part(p) = <<"features", "cross", "detect", "features", "auto", "train",
                       "free">>[p.call]
    BY <1>4 DEF Part
  <2>4. QED
    BY <2>1, <2>2, <2>3 DEF Text
<1>5. QED
  BY <1>2, <1>3, <1>4

LEMMA TextLengths ==
  /\ Len(createGaussianPeak) = 6 /\ Len(getFeatures) = 1 /\ Len(drain) = 1
  /\ Len(detect) = 14 /\ Len(freeTmplData) = 1
  /\ \A i : Len(gaussAutoCorrelation(i)) = 15 /\ Len(train(i)) = 12
  /\ \A first, i : Len(gaussCrossCorrelation(first, i)) = 16
BY DEF createGaussianPeak, getFeatures, drain, detect, freeTmplData, gaussAutoCorrelation,
   train, gaussCrossCorrelation

LEMMA PartKinds ==
  ASSUME NEW p \in Places
  PROVE  Part(p) \in {"peak", "features", "drain", "auto", "cross", "detect", "train", "free"}
<1>1. p.call \in 1 .. Calls(p)
  BY PlaceFacts
<1>2. CASE p.run = 0
  BY <1>2 DEF Part
<1>3. CASE p.run # 0 /\ p.frame = 0
  <2>1. p.call \in 1 .. 5
    BY <1>1, <1>3 DEF Calls
  <2>2. QED
    BY <1>3, <2>1 DEF Part
<1>4. CASE p.run # 0 /\ p.frame # 0
  <2>1. p.call \in 1 .. 7
    BY <1>1, <1>4 DEF Calls
  <2>2. QED
    BY <1>4, <2>1 DEF Part
<1>5. QED
  BY <1>2, <1>3, <1>4

\* Where a function that ends at place p goes on.
Onward(n, p) ==
    IF p.frame > 0 /\ p.call = 3 /\ p.round < n
    THEN Place(p.run, p.frame, p.round + 1, 1, 1, p.i)
    ELSE IF p.call < Calls(p) THEN Place(p.run, p.frame, p.round, p.call + 1, 1, p.i)
    ELSE IF p.run > 0 /\ p.frame < Updates
    THEN First(p.run, p.frame + 1) ELSE First(p.run + 1, 0)

LEMMA NextPlace ==
  ASSUME NEW p \in Places, NEW n
  PROVE  /\ InstrAt(p) = Text(p)[p.line]
         /\ InstrAt(p).loop = 0 /\ p.line < Lines(p) => After(n, p) = Here(p, p.line + 1, p.i)
         /\ InstrAt(p).loop # 0 /\ p.i < N =>
              After(n, p) = Here(p, p.line + 1 - InstrAt(p).loop, p.i + 1)
         /\ InstrAt(p).loop # 0 /\ p.i = N /\ p.line < Lines(p) =>
              After(n, p) = Here(p, p.line + 1, 1)
         /\ InstrAt(p).loop = 0 /\ p.line = Lines(p) => After(n, p) = Onward(n, p)
<1>1. Len(Text(p)) = Lines(p) /\ Len(Program(p)) = Calls(p)
  BY TextFacts, TextLengths, PartKinds DEF Lines
<1>2. InstrAt(p) = Text(p)[p.line]
  BY DEF InstrAt, Text
<1>3. p.line \in Int /\ Lines(p) \in Int /\ p.i \in Int /\ N \in Int
  BY PlaceFacts, SfFftAssumption
<1> DEFINE loop == InstrAt(p).loop
           i == IF loop = 0 THEN p.i ELSE 1
<1>4. After(n, p) =
        IF loop # 0 /\ p.i < N THEN Here(p, p.line + 1 - loop, p.i + 1)
        ELSE IF p.line < Lines(p) THEN Here(p, p.line + 1, i)
        ELSE IF p.frame > 0 /\ p.call = 3 /\ p.round < n
        THEN Place(p.run, p.frame, p.round + 1, 1, 1, i)
        ELSE IF p.call < Calls(p) THEN Place(p.run, p.frame, p.round, p.call + 1, 1, i)
        ELSE IF p.run > 0 /\ p.frame < Updates
        THEN First(p.run, p.frame + 1) ELSE First(p.run + 1, 0)
  BY <1>1 DEF After, Text, InstrAt, Here
<1> HIDE DEF loop
<1>5. CASE loop = 0
  <2>1. p.line = Lines(p) => ~(p.line < Lines(p))
    BY <1>3
  <2>2. QED
    BY <1>2, <1>4, <1>5, <2>1 DEF Onward, loop
<1>6. CASE loop # 0
  <2>1. p.i = N => ~(p.i < N)
    BY <1>3
  <2>2. QED
    BY <1>2, <1>4, <1>6, <2>1 DEF loop
<1>7. QED
  BY <1>5, <1>6

-----------------------------------------------------------------------------
(* Commands by their numbers.                                              *)

LEMMA NthFacts ==
  ASSUME NEW k \in Int
  PROVE  /\ k >= 1 /\ k <= N => Nth(k) = tmplFft(k)
         /\ k >= N + 1 /\ k <= 2 * N => Nth(k) = crossFft(k - N)
         /\ k = 2 * N + 1 => Nth(k) = crossIfft
         /\ k = 2 * N + 2 => Nth(k) = detectFft
         /\ k = 2 * N + 3 => Nth(k) = detectIfft
         /\ k >= 2 * N + 4 /\ k <= 3 * N + 3 => Nth(k) = autoFft(k - (2 * N + 3))
         /\ k = 3 * N + 4 => Nth(k) = autoIfft
         /\ k = 3 * N + 5 => Nth(k) = trainFft
         /\ k = 3 * N + 6 => Nth(k) = peakFft
BY SfFftAssumption DEF Nth

LEMMA NoneUnderWay ==
  ASSUME NEW p, NEW bs, NEW s \in Int, Sent(p) = s, Waited(p) = s
  PROVE  Clear(bs, p)
<1>1. s + 1 .. s = {}
  OBVIOUS
<1>2. QED
  BY <1>1 DEF Clear

\* The features, and the regions they are transformed from, while the template's
\* transforms are under way.
LEMMA TemplateClear ==
  ASSUME NEW p, NEW bs, NEW s \in Int, NEW w \in Int, Sent(p) = s, Waited(p) = w,
         0 <= w, s <= N,
         \A k \in 1 .. s : {<<"m_pFFTCmd", k>>, <<"tmpl", k>>, <<"tmplDft", k>>} \cap bs = {}
  PROVE  Clear(bs, p)
<1> SUFFICES ASSUME NEW k \in w + 1 .. s
             PROVE  {Nth(k).cmd, Nth(k).src, Nth(k).dst} \cap bs = {}
  BY DEF Clear
<1>1. k \in Int /\ k >= 1 /\ k <= N /\ k \in 1 .. s
  BY SfFftAssumption
<1>2. Nth(k) = tmplFft(k)
  BY <1>1, NthFacts
<1>3. Nth(k).cmd = <<"m_pFFTCmd", k>> /\ Nth(k).src = <<"tmpl", k>>
      /\ Nth(k).dst = <<"tmplDft", k>>
  BY <1>2 DEF tmplFft, Command
<1>4. QED
  BY <1>1, <1>3

LEMMA AutoFits == ASSUME NEW p \in Places, NEW n, Part(p) = "auto" PROVE Disciplined(n, p)
<1> DEFINE a == After(n, p)
<1>1. /\ Lines(p) = 15 /\ p.line \in 1 .. 15 /\ p.i \in 1 .. N /\ p.i \in Int /\ N \in Int
      /\ p.i = 1 \/ p.line \in {1, 2, 3, 4, 6, 7}
  <2>1. Lines(p) = 15
    BY DEF Lines
  <2>2. QED
    BY <2>1, PlaceFacts, SfFftAssumption DEF InLoop
<1>2. InstrAt(p) = gaussAutoCorrelation(p.i)[p.line]
  BY TextFacts, NextPlace
<1>3. Sent(p) = AutoSent(p.line, p.i) /\ Waited(p) = AutoWaited(p.line, p.i)
      /\ Held(p) = AutoHeld(p.line, p.i)
  BY DEF Sent, Waited, Held
<1>4. ASSUME NEW l \in 1 .. 15, NEW j \in 1 .. N, j = 1 \/ l \in {1, 2, 3, 4, 6, 7}
      PROVE  /\ Here(p, l, j) \in Places
             /\ Sent(Here(p, l, j)) = AutoSent(l, j) /\ Waited(Here(p, l, j)) = AutoWaited(l, j)
             /\ Held(Here(p, l, j)) = AutoHeld(l, j)
  <2>1. /\ Here(p, l, j).line = l /\ Here(p, l, j).i = j /\ Here(p, l, j).round = p.round
    BY PlaceFields DEF Here
  <2>2. Part(Here(p, l, j)) = "auto"
    BY <1>1, HereFacts
  <2>3. j = 1 \/ InLoop(Here(p, l, j))
    BY <1>4, <2>1, <2>2 DEF InLoop
  <2>4. Here(p, l, j) \in Places
    BY <1>1, <2>3, HereFacts
  <2>5. QED
    BY <2>1, <2>2, <2>4 DEF Sent, Waited, Held
<1> HIDE DEF a
<1>5. CASE p.line = 1
  <2>1. InstrAt(p) = Change({autoFft(p.i).cmd})
    BY <1>2, <1>5 DEF gaussAutoCorrelation
  <2>2. /\ InstrAt(p).op = "change" /\ InstrAt(p).loop = 0
        /\ InstrAt(p).bufs = {autoFft(p.i).cmd}
    BY <2>1 DEF Change, Instruction
  <2>3. Sent(p) = 2 * N + 2 + p.i /\ Waited(p) = 2 * N + 3 /\ Held(p) = {prob}
    BY <1>1, <1>3, <1>5 DEF AutoSent, AutoWaited, AutoHeld
  <2>4. a \in Places /\ Sent(a) = 2 * N + 2 + p.i /\ Waited(a) = 2 * N + 3 /\ Held(a) \subseteq {prob}
    <3>1. a = Here(p, 2, p.i)
      BY <1>1, <1>5, <2>2, NextPlace DEF a
    <3>2. a \in Places /\ Sent(a) = AutoSent(2, p.i) /\ Waited(a) = AutoWaited(2, p.i)
          /\ Held(a) = AutoHeld(2, p.i)
      BY <1>1, <1>4, <1>5, <3>1
    <3>3. QED
      BY <1>1, <1>5, <3>2 DEF AutoSent, AutoWaited, AutoHeld
  <2>5. Clear({autoFft(p.i).cmd}, p)
    <3> SUFFICES ASSUME NEW k \in 2 * N + 4 .. 2 * N + 2 + p.i
                 PROVE  {Nth(k).cmd, Nth(k).src, Nth(k).dst} \cap {autoFft(p.i).cmd} = {}
      BY <1>1, <2>3 DEF Clear
    <3>1. PICK m \in Int : m = k - (2 * N + 3) /\ m >= 1 /\ m < p.i
      BY <1>1
    <3>2. Nth(k) = autoFft(m)
      BY <1>1, <3>1, NthFacts
    <3>3. QED
      BY <1>1, <3>1, <3>2 DEF autoFft, Command
  <2>6. OtherFits(p, a)
    BY <1>1, <2>2, <2>3, <2>4, <2>5 DEF OtherFits
  <2>7. QED
    BY <1>1, <2>2, <2>3, <2>4, <2>6, SfFftAssumption DEF Disciplined, a
<1>6. CASE p.line = 2
  <2>1. InstrAt(p) = Enqueue
    BY <1>2, <1>6 DEF gaussAutoCorrelation
  <2>2. /\ InstrAt(p).op = "enqueue" /\ InstrAt(p).loop = 0
    BY <2>1 DEF Enqueue, Instruction
  <2>3. Sent(p) = 2 * N + 2 + p.i /\ Waited(p) = 2 * N + 3 /\ Held(p) = {prob}
    BY <1>1, <1>3, <1>6 DEF AutoSent, AutoWaited, AutoHeld
  <2>4. a \in Places /\ Sent(a) = 2 * N + 2 + p.i /\ Waited(a) = 2 * N + 3 /\ Held(a) \subseteq {prob}
    <3>1. a = Here(p, 3, p.i)
      BY <1>1, <1>6, <2>2, NextPlace DEF a
    <3>2. a \in Places /\ Sent(a) = AutoSent(3, p.i) /\ Waited(a) = AutoWaited(3, p.i)
          /\ Held(a) = AutoHeld(3, p.i)
      BY <1>1, <1>4, <1>6, <3>1
    <3>3. QED
      BY <1>1, <1>6, <3>2 DEF AutoSent, AutoWaited, AutoHeld
  <2>5. OtherFits(p, a)
    BY <1>1, <2>2, <2>3, <2>4 DEF OtherFits
  <2>6. QED
    BY <1>1, <2>2, <2>3, <2>4, <2>5, SfFftAssumption DEF Disciplined, a
<1>7. CASE p.line = 3
  <2>1. InstrAt(p) = Link(autoFft(p.i))
    BY <1>2, <1>7 DEF gaussAutoCorrelation
  <2>2. /\ InstrAt(p).op = "link" /\ InstrAt(p).loop = 0
        /\ InstrAt(p).cmd = autoFft(p.i)
    BY <2>1 DEF Link, Instruction
  <2>3. Sent(p) = 2 * N + 2 + p.i /\ Waited(p) = 2 * N + 3 /\ Held(p) = {prob}
    BY <1>1, <1>3, <1>7 DEF AutoSent, AutoWaited, AutoHeld
  <2>4. a \in Places /\ Sent(a) = 2 * N + 2 + p.i + 1 /\ Waited(a) = 2 * N + 3 /\ Held(a) \subseteq {prob}
    <3>1. a = Here(p, 4, p.i)
      BY <1>1, <1>7, <2>2, NextPlace DEF a
    <3>2. a \in Places /\ Sent(a) = AutoSent(4, p.i) /\ Waited(a) = AutoWaited(4, p.i)
          /\ Held(a) = AutoHeld(4, p.i)
      BY <1>1, <1>4, <1>7, <3>1
    <3>3. QED
      BY <1>1, <1>7, <3>2 DEF AutoSent, AutoWaited, AutoHeld
  <2>5. autoFft(p.i) = Nth(Sent(p) + 1) /\ autoFft(p.i).dst = <<"tmplDft", p.i>>
    <3>1. PICK m \in Int : m = Sent(p) + 1 /\ m = 2 * N + 3 + p.i
      BY <1>1, <2>3
    <3>2. Nth(m) = autoFft(p.i)
      <4>1. m - (2 * N + 3) = p.i
        BY <1>1, <3>1
      <4>2. QED
        BY <1>1, <3>1, <4>1, NthFacts
    <3>3. QED
      BY <3>1, <3>2 DEF autoFft, Command
  <2>6. \A k \in Waited(p) + 1 .. Sent(p) : Nth(k).dst # <<"tmplDft", p.i>>
    <3> SUFFICES ASSUME NEW k \in 2 * N + 4 .. 2 * N + 2 + p.i
                 PROVE  Nth(k).dst # <<"tmplDft", p.i>>
      BY <1>1, <2>3
    <3>1. PICK m \in Int : m = k - (2 * N + 3) /\ m >= 1 /\ m < p.i
      BY <1>1
    <3>2. Nth(k) = autoFft(m)
      BY <1>1, <3>1, NthFacts
    <3>3. QED
      BY <1>1, <3>1, <3>2 DEF autoFft, Command
  <2>7. LinkFits(p, a)
    <3>1. Held(a) \subseteq Held(p) \ {<<"tmplDft", p.i>>}
      BY <1>1, <2>3, <2>4 DEF prob
    <3>2. QED
      BY <1>1, <2>2, <2>3, <2>4, <2>5, <2>6, <3>1 DEF LinkFits
  <2>8. QED
    BY <1>1, <2>2, <2>3, <2>4, <2>7 DEF Disciplined, a
<1>8. CASE p.line = 4
  <2>1. InstrAt(p) = Loop(4, Post)
    BY <1>2, <1>8 DEF gaussAutoCorrelation
  <2>2. /\ InstrAt(p).op = "post" /\ InstrAt(p).loop = 4
    BY <2>1 DEF Post, Instruction, Loop
  <2>3. Sent(p) = 2 * N + 3 + p.i /\ Waited(p) = 2 * N + 3 /\ Held(p) = {prob}
    BY <1>1, <1>3, <1>8 DEF AutoSent, AutoWaited, AutoHeld
  <2>4. a \in Places /\ Sent(a) = 2 * N + 3 + p.i /\ Waited(a) = 2 * N + 3 /\ Held(a) \subseteq {prob}
    <3>1. CASE p.i < N
      <4>1. a = Here(p, 1, p.i + 1) /\ p.i + 1 \in 1 .. N
        BY <1>1, <1>8, <2>2, <3>1, NextPlace DEF a
      <4>2. a \in Places /\ Sent(a) = AutoSent(1, p.i + 1) /\ Waited(a) = AutoWaited(1, p.i + 1)
            /\ Held(a) = AutoHeld(1, p.i + 1)
        BY <1>4, <1>8, <4>1
      <4>3. QED
        BY <1>1, <1>8, <3>1, <4>2 DEF AutoSent, AutoWaited, AutoHeld
    <3>2. CASE p.i = N
      <4>1. a = Here(p, 5, 1) /\ 1 \in 1 .. N
        BY <1>1, <1>8, <2>2, <3>2, NextPlace, SfFftAssumption DEF a
      <4>2. a \in Places /\ Sent(a) = AutoSent(5, 1) /\ Waited(a) = AutoWaited(5, 1)
            /\ Held(a) = AutoHeld(5, 1)
        BY <1>4, <4>1
      <4>3. QED
        BY <1>1, <1>8, <3>2, <4>2 DEF AutoSent, AutoWaited, AutoHeld
    <3>3. QED
      BY <1>1, <3>1, <3>2
  <2>5. OtherFits(p, a)
    BY <1>1, <2>2, <2>3, <2>4 DEF OtherFits
  <2>6. QED
    BY <1>1, <2>2, <2>3, <2>4, <2>5, SfFftAssumption DEF Disciplined, a
<1>9. CASE p.line = 5
  <2>1. InstrAt(p) = Change({sum})
    BY <1>2, <1>9 DEF gaussAutoCorrelation
  <2>2. /\ InstrAt(p).op = "change" /\ InstrAt(p).loop = 0
        /\ InstrAt(p).bufs = {sum}
    BY <2>1 DEF Change, Instruction
  <2>3. Sent(p) = 3 * N + 3 /\ Waited(p) = 2 * N + 3 /\ Held(p) = {prob}
    BY <1>1, <1>3, <1>9 DEF AutoSent, AutoWaited, AutoHeld
  <2>4. a \in Places /\ Sent(a) = 3 * N + 3 /\ Waited(a) = 2 * N + 3 /\ Held(a) \subseteq {prob}
    <3>1. a = Here(p, 6, p.i)
      BY <1>1, <1>9, <2>2, NextPlace DEF a
    <3>2. a \in Places /\ Sent(a) = AutoSent(6, p.i) /\ Waited(a) = AutoWaited(6, p.i)
          /\ Held(a) = AutoHeld(6, p.i)
      BY <1>1, <1>4, <1>9, <3>1
    <3>3. QED
      BY <1>1, <1>9, <3>2 DEF AutoSent, AutoWaited, AutoHeld
  <2>5. Clear({sum}, p)
    <3> SUFFICES ASSUME NEW k \in 2 * N + 4 .. 3 * N + 3
                 PROVE  {Nth(k).cmd, Nth(k).src, Nth(k).dst} \cap {sum} = {}
      BY <1>1, <2>3 DEF Clear
    <3>1. PICK m \in Int : m = k - (2 * N + 3)
      BY <1>1
    <3>2. Nth(k) = autoFft(m)
      BY <1>1, <3>1, NthFacts
    <3>3. QED
      BY <3>2 DEF autoFft, Command, sum
  <2>6. OtherFits(p, a)
    BY <1>1, <2>2, <2>3, <2>4, <2>5 DEF OtherFits
  <2>7. QED
    BY <1>1, <2>2, <2>3, <2>4, <2>6, SfFftAssumption DEF Disciplined, a
<1>10. CASE p.line = 6
  <2>1. InstrAt(p) = Wait
    BY <1>2, <1>10 DEF gaussAutoCorrelation
  <2>2. /\ InstrAt(p).op = "wait" /\ InstrAt(p).loop = 0
    BY <2>1 DEF Wait, Instruction
  <2>3. Sent(p) = 3 * N + 3 /\ Waited(p) = 2 * N + 2 + p.i /\ Held(p) = {prob}
    BY <1>1, <1>3, <1>10 DEF AutoSent, AutoWaited, AutoHeld
  <2>4. a \in Places /\ Sent(a) = 3 * N + 3 /\ Waited(a) = 2 * N + 2 + p.i + 1 /\ Held(a) \subseteq {prob} \cup {<<"tmplDft", p.i>>}
    <3>1. a = Here(p, 7, p.i)
      BY <1>1, <1>10, <2>2, NextPlace DEF a
    <3>2. a \in Places /\ Sent(a) = AutoSent(7, p.i) /\ Waited(a) = AutoWaited(7, p.i)
          /\ Held(a) = AutoHeld(7, p.i)
      BY <1>1, <1>4, <1>10, <3>1
    <3>3. QED
      BY <1>1, <1>10, <3>2 DEF AutoSent, AutoWaited, AutoHeld
  <2>5. Held(a) \subseteq Held(p) \cup {Nth(Waited(p) + 1).dst}
    <3>1. PICK m \in Int : m = Waited(p) + 1 /\ m = 2 * N + 3 + p.i
      BY <1>1, <2>3
    <3>2. Nth(m) = autoFft(p.i)
      <4>1. m - (2 * N + 3) = p.i
        BY <1>1, <3>1
      <4>2. QED
        BY <1>1, <3>1, <4>1, NthFacts
    <3>3. Nth(m).dst = <<"tmplDft", p.i>>
      BY <3>2 DEF autoFft, Command
    <3>4. QED
      BY <2>3, <2>4, <3>1, <3>3
  <2>6. WaitFits(p, a)
    BY <1>1, <2>3, <2>4, <2>5 DEF WaitFits
  <2>7. QED
    BY <1>1, <2>2, <2>3, <2>4, <2>6, SfFftAssumption DEF Disciplined, a
<1>11. CASE p.line = 7
  <2>1. InstrAt(p) = Loop(2, Use({autoFft(p.i).dst}))
    BY <1>2, <1>11 DEF gaussAutoCorrelation
  <2>2. /\ InstrAt(p).op = "use" /\ InstrAt(p).loop = 2
        /\ InstrAt(p).bufs = {autoFft(p.i).dst}
    BY <2>1 DEF Use, Instruction, Loop
  <2>3. Sent(p) = 3 * N + 3 /\ Waited(p) = 2 * N + 3 + p.i /\ Held(p) = {prob} \cup {<<"tmplDft", p.i>>}
    BY <1>1, <1>3, <1>11 DEF AutoSent, AutoWaited, AutoHeld
  <2>4. a \in Places /\ Sent(a) = 3 * N + 3 /\ Waited(a) = 2 * N + 3 + p.i /\ Held(a) \subseteq {prob}
    <3>1. CASE p.i < N
      <4>1. a = Here(p, 6, p.i + 1) /\ p.i + 1 \in 1 .. N
        BY <1>1, <1>11, <2>2, <3>1, NextPlace DEF a
      <4>2. a \in Places /\ Sent(a) = AutoSent(6, p.i + 1) /\ Waited(a) = AutoWaited(6, p.i + 1)
            /\ Held(a) = AutoHeld(6, p.i + 1)
        BY <1>4, <1>11, <4>1
      <4>3. QED
        BY <1>1, <1>11, <3>1, <4>2 DEF AutoSent, AutoWaited, AutoHeld
    <3>2. CASE p.i = N
      <4>1. a = Here(p, 8, 1) /\ 1 \in 1 .. N
        BY <1>1, <1>11, <2>2, <3>2, NextPlace, SfFftAssumption DEF a
      <4>2. a \in Places /\ Sent(a) = AutoSent(8, 1) /\ Waited(a) = AutoWaited(8, 1)
            /\ Held(a) = AutoHeld(8, 1)
        BY <1>4, <4>1
      <4>3. QED
        BY <1>1, <1>11, <3>2, <4>2 DEF AutoSent, AutoWaited, AutoHeld
    <3>3. QED
      BY <1>1, <3>1, <3>2
  <2>5. {autoFft(p.i).dst} \subseteq Held(p)
    BY <2>3 DEF autoFft, Command
  <2>6. OtherFits(p, a)
    BY <1>1, <2>2, <2>3, <2>4, <2>5 DEF OtherFits
  <2>7. QED
    BY <1>1, <2>2, <2>3, <2>4, <2>6, SfFftAssumption DEF Disciplined, a
<1>12. CASE p.line = 8
  <2>1. InstrAt(p) = Change({sum, autoIfft.cmd})
    BY <1>2, <1>12 DEF gaussAutoCorrelation
  <2>2. /\ InstrAt(p).op = "change" /\ InstrAt(p).loop = 0
        /\ InstrAt(p).bufs = {sum, autoIfft.cmd}
    BY <2>1 DEF Change, Instruction
  <2>3. Sent(p) = 3 * N + 3 /\ Waited(p) = 3 * N + 3 /\ Held(p) = {prob}
    BY <1>1, <1>3, <1>12 DEF AutoSent, AutoWaited, AutoHeld
  <2>4. a \in Places /\ Sent(a) = 3 * N + 3 /\ Waited(a) = 3 * N + 3 /\ Held(a) \subseteq {prob}
    <3>1. a = Here(p, 9, p.i)
      BY <1>1, <1>12, <2>2, NextPlace DEF a
    <3>2. a \in Places /\ Sent(a) = AutoSent(9, p.i) /\ Waited(a) = AutoWaited(9, p.i)
          /\ Held(a) = AutoHeld(9, p.i)
      BY <1>1, <1>4, <1>12, <3>1
    <3>3. QED
      BY <1>1, <1>12, <3>2 DEF AutoSent, AutoWaited, AutoHeld
  <2>5. Clear({sum, autoIfft.cmd}, p)
    BY <1>1, <2>3, NoneUnderWay
  <2>6. OtherFits(p, a)
    BY <1>1, <2>2, <2>3, <2>4, <2>5 DEF OtherFits
  <2>7. QED
    BY <1>1, <2>2, <2>3, <2>4, <2>6, SfFftAssumption DEF Disciplined, a
<1>13. CASE p.line = 9
  <2>1. InstrAt(p) = Enqueue
    BY <1>2, <1>13 DEF gaussAutoCorrelation
  <2>2. /\ InstrAt(p).op = "enqueue" /\ InstrAt(p).loop = 0
    BY <2>1 DEF Enqueue, Instruction
  <2>3. Sent(p) = 3 * N + 3 /\ Waited(p) = 3 * N + 3 /\ Held(p) = {prob}
    BY <1>1, <1>3, <1>13 DEF AutoSent, AutoWaited, AutoHeld
  <2>4. a \in Places /\ Sent(a) = 3 * N + 3 /\ Waited(a) = 3 * N + 3 /\ Held(a) \subseteq {prob}
    <3>1. a = Here(p, 10, p.i)
      BY <1>1, <1>13, <2>2, NextPlace DEF a
    <3>2. a \in Places /\ Sent(a) = AutoSent(10, p.i) /\ Waited(a) = AutoWaited(10, p.i)
          /\ Held(a) = AutoHeld(10, p.i)
      BY <1>1, <1>4, <1>13, <3>1
    <3>3. QED
      BY <1>1, <1>13, <3>2 DEF AutoSent, AutoWaited, AutoHeld
  <2>5. OtherFits(p, a)
    BY <1>1, <2>2, <2>3, <2>4 DEF OtherFits
  <2>6. QED
    BY <1>1, <2>2, <2>3, <2>4, <2>5, SfFftAssumption DEF Disciplined, a
<1>14. CASE p.line = 10
  <2>1. InstrAt(p) = Link(autoIfft)
    BY <1>2, <1>14 DEF gaussAutoCorrelation
  <2>2. /\ InstrAt(p).op = "link" /\ InstrAt(p).loop = 0
        /\ InstrAt(p).cmd = autoIfft
    BY <2>1 DEF Link, Instruction
  <2>3. Sent(p) = 3 * N + 3 /\ Waited(p) = 3 * N + 3 /\ Held(p) = {prob}
    BY <1>1, <1>3, <1>14 DEF AutoSent, AutoWaited, AutoHeld
  <2>4. a \in Places /\ Sent(a) = 3 * N + 3 + 1 /\ Waited(a) = 3 * N + 3 /\ Held(a) \subseteq {prob}
    <3>1. a = Here(p, 11, p.i)
      BY <1>1, <1>14, <2>2, NextPlace DEF a
    <3>2. a \in Places /\ Sent(a) = AutoSent(11, p.i) /\ Waited(a) = AutoWaited(11, p.i)
          /\ Held(a) = AutoHeld(11, p.i)
      BY <1>1, <1>4, <1>14, <3>1
    <3>3. QED
      BY <1>1, <1>14, <3>2 DEF AutoSent, AutoWaited, AutoHeld
  <2>5. autoIfft = Nth(Sent(p) + 1) /\ autoIfft.dst = kxx
    <3>1. PICK m \in Int : m = Sent(p) + 1 /\ m = 3 * N + 4
      BY <1>1, <2>3
    <3>2. Nth(m) = autoIfft
      BY <1>1, <3>1, NthFacts, SfFftAssumption
    <3>3. QED
      BY <3>1, <3>2 DEF autoIfft, Command
  <2>6. \A k \in Waited(p) + 1 .. Sent(p) : Nth(k).dst # kxx
    BY <1>1, <2>3
  <2>7. LinkFits(p, a)
    <3>1. Held(a) \subseteq Held(p) \ {kxx}
      BY <1>1, <2>3, <2>4 DEF prob, kxx
    <3>2. QED
      BY <1>1, <2>2, <2>3, <2>4, <2>5, <2>6, <3>1 DEF LinkFits
  <2>8. QED
    BY <1>1, <2>2, <2>3, <2>4, <2>7 DEF Disciplined, a
<1>15. CASE p.line = 11
  <2>1. InstrAt(p) = Post
    BY <1>2, <1>15 DEF gaussAutoCorrelation
  <2>2. /\ InstrAt(p).op = "post" /\ InstrAt(p).loop = 0
    BY <2>1 DEF Post, Instruction
  <2>3. Sent(p) = 3 * N + 4 /\ Waited(p) = 3 * N + 3 /\ Held(p) = {prob}
    BY <1>1, <1>3, <1>15 DEF AutoSent, AutoWaited, AutoHeld
  <2>4. a \in Places /\ Sent(a) = 3 * N + 4 /\ Waited(a) = 3 * N + 3 /\ Held(a) \subseteq {prob}
    <3>1. a = Here(p, 12, p.i)
      BY <1>1, <1>15, <2>2, NextPlace DEF a
    <3>2. a \in Places /\ Sent(a) = AutoSent(12, p.i) /\ Waited(a) = AutoWaited(12, p.i)
          /\ Held(a) = AutoHeld(12, p.i)
      BY <1>1, <1>4, <1>15, <3>1
    <3>3. QED
      BY <1>1, <1>15, <3>2 DEF AutoSent, AutoWaited, AutoHeld
  <2>5. OtherFits(p, a)
    BY <1>1, <2>2, <2>3, <2>4 DEF OtherFits
  <2>6. QED
    BY <1>1, <2>2, <2>3, <2>4, <2>5, SfFftAssumption DEF Disciplined, a
<1>16. CASE p.line = 12
  <2>1. InstrAt(p) = Wait
    BY <1>2, <1>16 DEF gaussAutoCorrelation
  <2>2. /\ InstrAt(p).op = "wait" /\ InstrAt(p).loop = 0
    BY <2>1 DEF Wait, Instruction
  <2>3. Sent(p) = 3 * N + 4 /\ Waited(p) = 3 * N + 3 /\ Held(p) = {prob}
    BY <1>1, <1>3, <1>16 DEF AutoSent, AutoWaited, AutoHeld
  <2>4. a \in Places /\ Sent(a) = 3 * N + 4 /\ Waited(a) = 3 * N + 3 + 1 /\ Held(a) \subseteq {prob} \cup {kxx}
    <3>1. a = Here(p, 13, p.i)
      BY <1>1, <1>16, <2>2, NextPlace DEF a
    <3>2. a \in Places /\ Sent(a) = AutoSent(13, p.i) /\ Waited(a) = AutoWaited(13, p.i)
          /\ Held(a) = AutoHeld(13, p.i)
      BY <1>1, <1>4, <1>16, <3>1
    <3>3. QED
      BY <1>1, <1>16, <3>2 DEF AutoSent, AutoWaited, AutoHeld
  <2>5. Held(a) \subseteq Held(p) \cup {Nth(Waited(p) + 1).dst}
    <3>1. PICK m \in Int : m = Waited(p) + 1 /\ m = 3 * N + 4
      BY <1>1, <2>3
    <3>2. Nth(m) = autoIfft
      BY <1>1, <3>1, NthFacts, SfFftAssumption
    <3>3. Nth(m).dst = kxx
      BY <3>2 DEF autoIfft, Command
    <3>4. QED
      BY <2>3, <2>4, <3>1, <3>3
  <2>6. WaitFits(p, a)
    BY <1>1, <2>3, <2>4, <2>5 DEF WaitFits
  <2>7. QED
    BY <1>1, <2>2, <2>3, <2>4, <2>6, SfFftAssumption DEF Disciplined, a
<1>17. CASE p.line = 13
  <2>1. InstrAt(p) = Change({sum})
    BY <1>2, <1>17 DEF gaussAutoCorrelation
  <2>2. /\ InstrAt(p).op = "change" /\ InstrAt(p).loop = 0
        /\ InstrAt(p).bufs = {sum}
    BY <2>1 DEF Change, Instruction
  <2>3. Sent(p) = 3 * N + 4 /\ Waited(p) = 3 * N + 4 /\ Held(p) = {prob} \cup {kxx}
    BY <1>1, <1>3, <1>17 DEF AutoSent, AutoWaited, AutoHeld
  <2>4. a \in Places /\ Sent(a) = 3 * N + 4 /\ Waited(a) = 3 * N + 4 /\ Held(a) \subseteq {prob} \cup {kxx}
    <3>1. a = Here(p, 14, p.i)
      BY <1>1, <1>17, <2>2, NextPlace DEF a
    <3>2. a \in Places /\ Sent(a) = AutoSent(14, p.i) /\ Waited(a) = AutoWaited(14, p.i)
          /\ Held(a) = AutoHeld(14, p.i)
      BY <1>1, <1>4, <1>17, <3>1
    <3>3. QED
      BY <1>1, <1>17, <3>2 DEF AutoSent, AutoWaited, AutoHeld
  <2>5. Clear({sum}, p)
    BY <1>1, <2>3, NoneUnderWay
  <2>6. OtherFits(p, a)
    BY <1>1, <2>2, <2>3, <2>4, <2>5 DEF OtherFits
  <2>7. QED
    BY <1>1, <2>2, <2>3, <2>4, <2>6, SfFftAssumption DEF Disciplined, a
<1>18. CASE p.line = 14
  <2>1. InstrAt(p) = Use({kxx})
    BY <1>2, <1>18 DEF gaussAutoCorrelation
  <2>2. /\ InstrAt(p).op = "use" /\ InstrAt(p).loop = 0
        /\ InstrAt(p).bufs = {kxx}
    BY <2>1 DEF Use, Instruction
  <2>3. Sent(p) = 3 * N + 4 /\ Waited(p) = 3 * N + 4 /\ Held(p) = {prob} \cup {kxx}
    BY <1>1, <1>3, <1>18 DEF AutoSent, AutoWaited, AutoHeld
  <2>4. a \in Places /\ Sent(a) = 3 * N + 4 /\ Waited(a) = 3 * N + 4 /\ Held(a) \subseteq {prob}
    <3>1. a = Here(p, 15, p.i)
      BY <1>1, <1>18, <2>2, NextPlace DEF a
    <3>2. a \in Places /\ Sent(a) = AutoSent(15, p.i) /\ Waited(a) = AutoWaited(15, p.i)
          /\ Held(a) = AutoHeld(15, p.i)
      BY <1>1, <1>4, <1>18, <3>1
    <3>3. QED
      BY <1>1, <1>18, <3>2 DEF AutoSent, AutoWaited, AutoHeld
  <2>5. {kxx} \subseteq Held(p)
    BY <1>1, <2>3
  <2>6. OtherFits(p, a)
    BY <1>1, <2>2, <2>3, <2>4, <2>5 DEF OtherFits
  <2>7. QED
    BY <1>1, <2>2, <2>3, <2>4, <2>6, SfFftAssumption DEF Disciplined, a
<1>19. CASE p.line = 15
  <2>1. InstrAt(p) = Change({kxx} \cup Batch("autoCmd"))
    BY <1>2, <1>19 DEF gaussAutoCorrelation
  <2>2. /\ InstrAt(p).op = "change" /\ InstrAt(p).loop = 0
        /\ InstrAt(p).bufs = {kxx} \cup Batch("autoCmd")
    BY <2>1 DEF Change, Instruction
  <2>3. Sent(p) = 3 * N + 4 /\ Waited(p) = 3 * N + 4 /\ Held(p) = {prob}
    BY <1>1, <1>3, <1>19 DEF AutoSent, AutoWaited, AutoHeld
  <2>4. a \in Places /\ Sent(a) = 3 * N + 4 /\ Waited(a) = 3 * N + 4 /\ Held(a) \subseteq {prob}
    <3>1. a = Place(p.run, p.frame, p.round, p.call + 1, 1, 1) /\ Part(a) = "train" /\ a \in Places
      <4>1. \/ p.run # 0 /\ p.frame = 0 /\ p.call = 3
            \/ p.run # 0 /\ p.frame # 0 /\ p.call = 5
        BY PlaceFacts DEF Part, Calls
      <4>2. Onward(n, p) = Place(p.run, p.frame, p.round, p.call + 1, 1, 1)
        BY <1>1, <1>19, <4>1 DEF Onward, Calls
      <4>3. a = Onward(n, p)
        BY <1>1, <1>19, <2>2, NextPlace DEF a
      <4>4. /\ p.run \in Nat /\ p.frame \in Nat /\ p.round \in Nat \ {0} /\ p.call + 1 \in Int
            /\ p.run # 0
        BY <4>1, PlaceFacts
      <4>5. a = Place(p.run, p.frame, p.round, p.call + 1, 1, 1)
        BY <4>2, <4>3
      <4>6. CASE p.frame = 0
        <5>1. a = Place(p.run, p.frame, p.round, 4, 1, 1)
          BY <4>1, <4>5, <4>6
        <5>2. Part(a) = "train" /\ a \in Places
          BY <4>4, <4>6, <5>1, Entry
        <5>3. QED
          BY <4>5, <5>2
      <4>7. CASE p.frame # 0
        <5>1. a = Place(p.run, p.frame, p.round, 6, 1, 1)
          BY <4>1, <4>5, <4>7
        <5>2. Part(a) = "train" /\ a \in Places
          BY <4>4, <4>7, <5>1, Entry
        <5>3. QED
          BY <4>5, <5>2
      <4>8. QED
        BY <4>6, <4>7
    <3>2. a.line = 1 /\ a.i = 1
      BY <3>1, PlaceFields
    <3>3. QED
      BY <3>1, <3>2 DEF Sent, Waited, Held, TrainSent, TrainWaited, TrainHeld
  <2>5. Clear({kxx} \cup Batch("autoCmd"), p)
    BY <1>1, <2>3, NoneUnderWay
  <2>6. OtherFits(p, a)
    BY <1>1, <2>2, <2>3, <2>4, <2>5 DEF OtherFits
  <2>7. QED
    BY <1>1, <2>2, <2>3, <2>4, <2>6, SfFftAssumption DEF Disciplined, a
<1>20. QED
  BY <1>1, <1>5, <1>6, <1>7, <1>8, <1>9, <1>10, <1>11, <1>12, <1>13, <1>14, <1>15, <1>16, <1>17, <1>18, <1>19

LEMMA PeakFits == ASSUME NEW p \in Places, NEW n, Part(p) = "peak" PROVE Disciplined(n, p)
<1> DEFINE a == After(n, p)
<1>1. /\ Lines(p) = 6 /\ p.line \in 1 .. 6 /\ p.i \in 1 .. N /\ p.i \in Int /\ N \in Int
      /\ p.i = 1
  <2>1. Lines(p) = 6
    BY DEF Lines
  <2>2. QED
    BY <2>1, PlaceFacts, SfFftAssumption DEF InLoop
<1>2. InstrAt(p) = createGaussianPeak[p.line]
  BY TextFacts, NextPlace
<1>3. Sent(p) = PeakSent(p.line) /\ Waited(p) = PeakWaited(p.line)
      /\ Held(p) = (IF p.line <= 5 THEN {} ELSE {prob})
  BY DEF Sent, Waited, Held
<1>4. ASSUME NEW l \in 1 .. 6, NEW j \in 1 .. N, j = 1
      PROVE  /\ Here(p, l, j) \in Places
             /\ Sent(Here(p, l, j)) = PeakSent(l) /\ Waited(Here(p, l, j)) = PeakWaited(l)
             /\ Held(Here(p, l, j)) = (IF l <= 5 THEN {} ELSE {prob})
  <2>1. /\ Here(p, l, j).line = l /\ Here(p, l, j).i = j /\ Here(p, l, j).round = p.round
    BY PlaceFields DEF Here
  <2>2. Part(Here(p, l, j)) = "peak"
    BY <1>1, HereFacts
  <2>4. Here(p, l, j) \in Places
    BY <1>1, <1>4, HereFacts
  <2>5. QED
    BY <2>1, <2>2, <2>4 DEF Sent, Waited, Held
<1> HIDE DEF a
<1>5. CASE p.line = 1
  <2>1. InstrAt(p) = Change({prob, peakFft.cmd})
    BY <1>2, <1>5 DEF createGaussianPeak
  <2>2. /\ InstrAt(p).op = "change" /\ InstrAt(p).loop = 0
        /\ InstrAt(p).bufs = {prob, peakFft.cmd}
    BY <2>1 DEF Change, Instruction
  <2>3. Sent(p) = 3 * N + 5 /\ Waited(p) = 3 * N + 5 /\ Held(p) = {}
    BY <1>1, <1>3, <1>5 DEF PeakSent, PeakWaited
  <2>4. a \in Places /\ Sent(a) = 3 * N + 5 /\ Waited(a) = 3 * N + 5 /\ Held(a) \subseteq {}
    <3>1. a = Here(p, 2, p.i)
      BY <1>1, <1>5, <2>2, NextPlace DEF a
    <3>2. a \in Places /\ Sent(a) = PeakSent(2) /\ Waited(a) = PeakWaited(2)
          /\ Held(a) = (IF 2 <= 5 THEN {} ELSE {prob})
      BY <1>1, <1>4, <1>5, <3>1
    <3>3. QED
      BY <1>1, <1>5, <3>2 DEF PeakSent, PeakWaited
  <2>5. Clear({prob, peakFft.cmd}, p)
    BY <1>1, <2>3, NoneUnderWay
  <2>6. OtherFits(p, a)
    BY <1>1, <2>2, <2>3, <2>4, <2>5 DEF OtherFits
  <2>7. QED
    BY <1>1, <2>2, <2>3, <2>4, <2>6, SfFftAssumption DEF Disciplined, a
<1>6. CASE p.line = 2
  <2>1. InstrAt(p) = Enqueue
    BY <1>2, <1>6 DEF createGaussianPeak
  <2>2. /\ InstrAt(p).op = "enqueue" /\ InstrAt(p).loop = 0
    BY <2>1 DEF Enqueue, Instruction
  <2>3. Sent(p) = 3 * N + 5 /\ Waited(p) = 3 * N + 5 /\ Held(p) = {}
    BY <1>1, <1>3, <1>6 DEF PeakSent, PeakWaited
  <2>4. a \in Places /\ Sent(a) = 3 * N + 5 /\ Waited(a) = 3 * N + 5 /\ Held(a) \subseteq {}
    <3>1. a = Here(p, 3, p.i)
      BY <1>1, <1>6, <2>2, NextPlace DEF a
    <3>2. a \in Places /\ Sent(a) = PeakSent(3) /\ Waited(a) = PeakWaited(3)
          /\ Held(a) = (IF 3 <= 5 THEN {} ELSE {prob})
      BY <1>1, <1>4, <1>6, <3>1
    <3>3. QED
      BY <1>1, <1>6, <3>2 DEF PeakSent, PeakWaited
  <2>5. OtherFits(p, a)
    BY <1>1, <2>2, <2>3, <2>4 DEF OtherFits
  <2>6. QED
    BY <1>1, <2>2, <2>3, <2>4, <2>5, SfFftAssumption DEF Disciplined, a
<1>7. CASE p.line = 3
  <2>1. InstrAt(p) = Link(peakFft)
    BY <1>2, <1>7 DEF createGaussianPeak
  <2>2. /\ InstrAt(p).op = "link" /\ InstrAt(p).loop = 0
        /\ InstrAt(p).cmd = peakFft
    BY <2>1 DEF Link, Instruction
  <2>3. Sent(p) = 3 * N + 5 /\ Waited(p) = 3 * N + 5 /\ Held(p) = {}
    BY <1>1, <1>3, <1>7 DEF PeakSent, PeakWaited
  <2>4. a \in Places /\ Sent(a) = 3 * N + 5 + 1 /\ Waited(a) = 3 * N + 5 /\ Held(a) \subseteq {}
    <3>1. a = Here(p, 4, p.i)
      BY <1>1, <1>7, <2>2, NextPlace DEF a
    <3>2. a \in Places /\ Sent(a) = PeakSent(4) /\ Waited(a) = PeakWaited(4)
          /\ Held(a) = (IF 4 <= 5 THEN {} ELSE {prob})
      BY <1>1, <1>4, <1>7, <3>1
    <3>3. QED
      BY <1>1, <1>7, <3>2 DEF PeakSent, PeakWaited
  <2>5. peakFft = Nth(Sent(p) + 1) /\ peakFft.dst = prob
    <3>1. PICK m \in Int : m = Sent(p) + 1 /\ m = 3 * N + 6
      BY <1>1, <2>3
    <3>2. Nth(m) = peakFft
      BY <1>1, <3>1, NthFacts, SfFftAssumption
    <3>3. QED
      BY <3>1, <3>2 DEF peakFft, Command
  <2>6. \A k \in Waited(p) + 1 .. Sent(p) : Nth(k).dst # prob
    BY <1>1, <2>3
  <2>7. LinkFits(p, a)
    <3>1. Held(a) \subseteq Held(p) \ {prob}
      BY <1>1, <2>3, <2>4 DEF prob
    <3>2. QED
      BY <1>1, <2>2, <2>3, <2>4, <2>5, <2>6, <3>1 DEF LinkFits
  <2>8. QED
    BY <1>1, <2>2, <2>3, <2>4, <2>7 DEF Disciplined, a
<1>8. CASE p.line = 4
  <2>1. InstrAt(p) = Post
    BY <1>2, <1>8 DEF createGaussianPeak
  <2>2. /\ InstrAt(p).op = "post" /\ InstrAt(p).loop = 0
    BY <2>1 DEF Post, Instruction
  <2>3. Sent(p) = 3 * N + 6 /\ Waited(p) = 3 * N + 5 /\ Held(p) = {}
    BY <1>1, <1>3, <1>8 DEF PeakSent, PeakWaited
  <2>4. a \in Places /\ Sent(a) = 3 * N + 6 /\ Waited(a) = 3 * N + 5 /\ Held(a) \subseteq {}
    <3>1. a = Here(p, 5, p.i)
      BY <1>1, <1>8, <2>2, NextPlace DEF a
    <3>2. a \in Places /\ Sent(a) = PeakSent(5) /\ Waited(a) = PeakWaited(5)
          /\ Held(a) = (IF 5 <= 5 THEN {} ELSE {prob})
      BY <1>1, <1>4, <1>8, <3>1
    <3>3. QED
      BY <1>1, <1>8, <3>2 DEF PeakSent, PeakWaited
  <2>5. OtherFits(p, a)
    BY <1>1, <2>2, <2>3, <2>4 DEF OtherFits
  <2>6. QED
    BY <1>1, <2>2, <2>3, <2>4, <2>5, SfFftAssumption DEF Disciplined, a
<1>9. CASE p.line = 5
  <2>1. InstrAt(p) = Wait
    BY <1>2, <1>9 DEF createGaussianPeak
  <2>2. /\ InstrAt(p).op = "wait" /\ InstrAt(p).loop = 0
    BY <2>1 DEF Wait, Instruction
  <2>3. Sent(p) = 3 * N + 6 /\ Waited(p) = 3 * N + 5 /\ Held(p) = {}
    BY <1>1, <1>3, <1>9 DEF PeakSent, PeakWaited
  <2>4. a \in Places /\ Sent(a) = 3 * N + 6 /\ Waited(a) = 3 * N + 5 + 1 /\ Held(a) \subseteq {prob}
    <3>1. a = Here(p, 6, p.i)
      BY <1>1, <1>9, <2>2, NextPlace DEF a
    <3>2. a \in Places /\ Sent(a) = PeakSent(6) /\ Waited(a) = PeakWaited(6)
          /\ Held(a) = (IF 6 <= 5 THEN {} ELSE {prob})
      BY <1>1, <1>4, <1>9, <3>1
    <3>3. QED
      BY <1>1, <1>9, <3>2 DEF PeakSent, PeakWaited
  <2>5. Held(a) \subseteq Held(p) \cup {Nth(Waited(p) + 1).dst}
    <3>1. PICK m \in Int : m = Waited(p) + 1 /\ m = 3 * N + 6
      BY <1>1, <2>3
    <3>2. Nth(m) = peakFft
      BY <1>1, <3>1, NthFacts, SfFftAssumption
    <3>3. Nth(m).dst = prob
      BY <3>2 DEF peakFft, Command
    <3>4. QED
      BY <2>3, <2>4, <3>1, <3>3
  <2>6. WaitFits(p, a)
    BY <1>1, <2>3, <2>4, <2>5 DEF WaitFits
  <2>7. QED
    BY <1>1, <2>2, <2>3, <2>4, <2>6, SfFftAssumption DEF Disciplined, a
<1>10. CASE p.line = 6
  <2>1. InstrAt(p) = Change({peakFft.cmd})
    BY <1>2, <1>10 DEF createGaussianPeak
  <2>2. /\ InstrAt(p).op = "change" /\ InstrAt(p).loop = 0
        /\ InstrAt(p).bufs = {peakFft.cmd}
    BY <2>1 DEF Change, Instruction
  <2>3. Sent(p) = 3 * N + 6 /\ Waited(p) = 3 * N + 6 /\ Held(p) = {prob}
    BY <1>1, <1>3, <1>10 DEF PeakSent, PeakWaited
  <2>4. a \in Places /\ Sent(a) = N /\ Waited(a) = N /\ Held(a) \subseteq {prob}
    <3>1. p.run = 0 /\ p.frame = 0 /\ p.call = 1 /\ Calls(p) = 1
      BY PlaceFacts DEF Part, Calls
    <3>2. Onward(n, p) = Place(1, 0, 1, 1, 1, 1)
      BY <3>1 DEF Onward, First
    <3>3. a = Place(1, 0, 1, 1, 1, 1)
      BY <1>1, <1>10, <2>2, <3>2, NextPlace DEF a
    <3>4. a \in Places /\ Part(a) = "features"
      BY <3>3, Entry
    <3>5. a.run = 1 /\ a.frame = 0 /\ a.call = 1
      BY <3>3, PlaceFields
    <3>6. QED
      BY <3>4, <3>5 DEF Sent, Waited, Held
  <2>5. Clear({peakFft.cmd}, p)
    BY <1>1, <2>3, NoneUnderWay
  <2>6. OtherFits(p, a)
    BY <1>1, <2>2, <2>3, <2>4, <2>5 DEF OtherFits
  <2>7. QED
    BY <1>1, <2>2, <2>3, <2>4, <2>6, SfFftAssumption DEF Disciplined, a
<1>11. QED
  BY <1>1, <1>5, <1>6, <1>7, <1>8, <1>9, <1>10

LEMMA TrainFits == ASSUME NEW p \in Places, NEW n, Part(p) = "train" PROVE Disciplined(n, p)
<1> DEFINE a == After(n, p)
<1>1. /\ Lines(p) = 12 /\ p.line \in 1 .. 12 /\ p.i \in 1 .. N /\ p.i \in Int /\ N \in Int
      /\ p.i = 1 \/ p.line \in 8 .. 11
  <2>1. Lines(p) = 12
    BY DEF Lines
  <2>2. QED
    BY <2>1, PlaceFacts, SfFftAssumption DEF InLoop
<1>2. InstrAt(p) = train(p.i)[p.line]
  BY TextFacts, NextPlace
<1>3. Sent(p) = TrainSent(p.line, p.i) /\ Waited(p) = TrainWaited(p.line, p.i)
      /\ Held(p) = TrainHeld(p.line)
  BY DEF Sent, Waited, Held
<1>4. ASSUME NEW l \in 1 .. 12, NEW j \in 1 .. N, j = 1 \/ l \in 8 .. 11
      PROVE  /\ Here(p, l, j) \in Places
             /\ Sent(Here(p, l, j)) = TrainSent(l, j) /\ Waited(Here(p, l, j)) = TrainWaited(l, j)
             /\ Held(Here(p, l, j)) = TrainHeld(l)
  <2>1. /\ Here(p, l, j).line = l /\ Here(p, l, j).i = j /\ Here(p, l, j).round = p.round
    BY PlaceFields DEF Here
  <2>2. Part(Here(p, l, j)) = "train"
    BY <1>1, HereFacts
  <2>3. j = 1 \/ InLoop(Here(p, l, j))
    BY <1>4, <2>1, <2>2 DEF InLoop
  <2>4. Here(p, l, j) \in Places
    BY <1>1, <2>3, HereFacts
  <2>5. QED
    BY <2>1, <2>2, <2>4 DEF Sent, Waited, Held
<1> HIDE DEF a
<1>5. CASE p.line = 1
  <2>1. InstrAt(p) = Change({trainFft.cmd})
    BY <1>2, <1>5 DEF train
  <2>2. /\ InstrAt(p).op = "change" /\ InstrAt(p).loop = 0
        /\ InstrAt(p).bufs = {trainFft.cmd}
    BY <2>1 DEF Change, Instruction
  <2>3. Sent(p) = 3 * N + 4 /\ Waited(p) = 3 * N + 4 /\ Held(p) = {prob}
    BY <1>1, <1>3, <1>5 DEF TrainSent, TrainWaited, TrainHeld
  <2>4. a \in Places /\ Sent(a) = 3 * N + 4 /\ Waited(a) = 3 * N + 4 /\ Held(a) \subseteq {prob}
    <3>1. a = Here(p, 2, p.i)
      BY <1>1, <1>5, <2>2, NextPlace DEF a
    <3>2. a \in Places /\ Sent(a) = TrainSent(2, p.i) /\ Waited(a) = TrainWaited(2, p.i)
          /\ Held(a) = TrainHeld(2)
      BY <1>1, <1>4, <1>5, <3>1
    <3>3. QED
      BY <1>1, <1>5, <3>2 DEF TrainSent, TrainWaited, TrainHeld
  <2>5. Clear({trainFft.cmd}, p)
    BY <1>1, <2>3, NoneUnderWay
  <2>6. OtherFits(p, a)
    BY <1>1, <2>2, <2>3, <2>4, <2>5 DEF OtherFits
  <2>7. QED
    BY <1>1, <2>2, <2>3, <2>4, <2>6, SfFftAssumption DEF Disciplined, a
<1>6. CASE p.line = 2
  <2>1. InstrAt(p) = Enqueue
    BY <1>2, <1>6 DEF train
  <2>2. /\ InstrAt(p).op = "enqueue" /\ InstrAt(p).loop = 0
    BY <2>1 DEF Enqueue, Instruction
  <2>3. Sent(p) = 3 * N + 4 /\ Waited(p) = 3 * N + 4 /\ Held(p) = {prob}
    BY <1>1, <1>3, <1>6 DEF TrainSent, TrainWaited, TrainHeld
  <2>4. a \in Places /\ Sent(a) = 3 * N + 4 /\ Waited(a) = 3 * N + 4 /\ Held(a) \subseteq {prob}
    <3>1. a = Here(p, 3, p.i)
      BY <1>1, <1>6, <2>2, NextPlace DEF a
    <3>2. a \in Places /\ Sent(a) = TrainSent(3, p.i) /\ Waited(a) = TrainWaited(3, p.i)
          /\ Held(a) = TrainHeld(3)
      BY <1>1, <1>4, <1>6, <3>1
    <3>3. QED
      BY <1>1, <1>6, <3>2 DEF TrainSent, TrainWaited, TrainHeld
  <2>5. OtherFits(p, a)
    BY <1>1, <2>2, <2>3, <2>4 DEF OtherFits
  <2>6. QED
    BY <1>1, <2>2, <2>3, <2>4, <2>5, SfFftAssumption DEF Disciplined, a
<1>7. CASE p.line = 3
  <2>1. InstrAt(p) = Link(trainFft)
    BY <1>2, <1>7 DEF train
  <2>2. /\ InstrAt(p).op = "link" /\ InstrAt(p).loop = 0
        /\ InstrAt(p).cmd = trainFft
    BY <2>1 DEF Link, Instruction
  <2>3. Sent(p) = 3 * N + 4 /\ Waited(p) = 3 * N + 4 /\ Held(p) = {prob}
    BY <1>1, <1>3, <1>7 DEF TrainSent, TrainWaited, TrainHeld
  <2>4. a \in Places /\ Sent(a) = 3 * N + 4 + 1 /\ Waited(a) = 3 * N + 4 /\ Held(a) \subseteq {prob}
    <3>1. a = Here(p, 4, p.i)
      BY <1>1, <1>7, <2>2, NextPlace DEF a
    <3>2. a \in Places /\ Sent(a) = TrainSent(4, p.i) /\ Waited(a) = TrainWaited(4, p.i)
          /\ Held(a) = TrainHeld(4)
      BY <1>1, <1>4, <1>7, <3>1
    <3>3. QED
      BY <1>1, <1>7, <3>2 DEF TrainSent, TrainWaited, TrainHeld
  <2>5. trainFft = Nth(Sent(p) + 1) /\ trainFft.dst = kxx
    <3>1. PICK m \in Int : m = Sent(p) + 1 /\ m = 3 * N + 5
      BY <1>1, <2>3
    <3>2. Nth(m) = trainFft
      BY <1>1, <3>1, NthFacts, SfFftAssumption
    <3>3. QED
      BY <3>1, <3>2 DEF trainFft, Command
  <2>6. \A k \in Waited(p) + 1 .. Sent(p) : Nth(k).dst # kxx
    BY <1>1, <2>3
  <2>7. LinkFits(p, a)
    <3>1. Held(a) \subseteq Held(p) \ {kxx}
      BY <1>1, <2>3, <2>4 DEF prob, kxx
    <3>2. QED
      BY <1>1, <2>2, <2>3, <2>4, <2>5, <2>6, <3>1 DEF LinkFits
  <2>8. QED
    BY <1>1, <2>2, <2>3, <2>4, <2>7 DEF Disciplined, a
<1>8. CASE p.line = 4
  <2>1. InstrAt(p) = Post
    BY <1>2, <1>8 DEF train
  <2>2. /\ InstrAt(p).op = "post" /\ InstrAt(p).loop = 0
    BY <2>1 DEF Post, Instruction
  <2>3. Sent(p) = 3 * N + 5 /\ Waited(p) = 3 * N + 4 /\ Held(p) = {prob}
    BY <1>1, <1>3, <1>8 DEF TrainSent, TrainWaited, TrainHeld
  <2>4. a \in Places /\ Sent(a) = 3 * N + 5 /\ Waited(a) = 3 * N + 4 /\ Held(a) \subseteq {prob}
    <3>1. a = Here(p, 5, p.i)
      BY <1>1, <1>8, <2>2, NextPlace DEF a
    <3>2. a \in Places /\ Sent(a) = TrainSent(5, p.i) /\ Waited(a) = TrainWaited(5, p.i)
          /\ Held(a) = TrainHeld(5)
      BY <1>1, <1>4, <1>8, <3>1
    <3>3. QED
      BY <1>1, <1>8, <3>2 DEF TrainSent, TrainWaited, TrainHeld
  <2>5. OtherFits(p, a)
    BY <1>1, <2>2, <2>3, <2>4 DEF OtherFits
  <2>6. QED
    BY <1>1, <2>2, <2>3, <2>4, <2>5, SfFftAssumption DEF Disciplined, a
<1>9. CASE p.line = 5
  <2>1. InstrAt(p) = Wait
    BY <1>2, <1>9 DEF train
  <2>2. /\ InstrAt(p).op = "wait" /\ InstrAt(p).loop = 0
    BY <2>1 DEF Wait, Instruction
  <2>3. Sent(p) = 3 * N + 5 /\ Waited(p) = 3 * N + 4 /\ Held(p) = {prob}
    BY <1>1, <1>3, <1>9 DEF TrainSent, TrainWaited, TrainHeld
  <2>4. a \in Places /\ Sent(a) = 3 * N + 5 /\ Waited(a) = 3 * N + 4 + 1 /\ Held(a) \subseteq {prob} \cup {kxx}
    <3>1. a = Here(p, 6, p.i)
      BY <1>1, <1>9, <2>2, NextPlace DEF a
    <3>2. a \in Places /\ Sent(a) = TrainSent(6, p.i) /\ Waited(a) = TrainWaited(6, p.i)
          /\ Held(a) = TrainHeld(6)
      BY <1>1, <1>4, <1>9, <3>1
    <3>3. QED
      BY <1>1, <1>9, <3>2 DEF TrainSent, TrainWaited, TrainHeld
  <2>5. Held(a) \subseteq Held(p) \cup {Nth(Waited(p) + 1).dst}
    <3>1. PICK m \in Int : m = Waited(p) + 1 /\ m = 3 * N + 5
      BY <1>1, <2>3
    <3>2. Nth(m) = trainFft
      BY <1>1, <3>1, NthFacts, SfFftAssumption
    <3>3. Nth(m).dst = kxx
      BY <3>2 DEF trainFft, Command
    <3>4. QED
      BY <2>3, <2>4, <3>1, <3>3
  <2>6. WaitFits(p, a)
    BY <1>1, <2>3, <2>4, <2>5 DEF WaitFits
  <2>7. QED
    BY <1>1, <2>2, <2>3, <2>4, <2>6, SfFftAssumption DEF Disciplined, a
<1>10. CASE p.line = 6
  <2>1. InstrAt(p) = Use({kxx, prob})
    BY <1>2, <1>10 DEF train
  <2>2. /\ InstrAt(p).op = "use" /\ InstrAt(p).loop = 0
        /\ InstrAt(p).bufs = {kxx, prob}
    BY <2>1 DEF Use, Instruction
  <2>3. Sent(p) = 3 * N + 5 /\ Waited(p) = 3 * N + 5 /\ Held(p) = {prob} \cup {kxx}
    BY <1>1, <1>3, <1>10 DEF TrainSent, TrainWaited, TrainHeld
  <2>4. a \in Places /\ Sent(a) = 3 * N + 5 /\ Waited(a) = 3 * N + 5 /\ Held(a) \subseteq {prob}
    <3>1. a = Here(p, 7, p.i)
      BY <1>1, <1>10, <2>2, NextPlace DEF a
    <3>2. a \in Places /\ Sent(a) = TrainSent(7, p.i) /\ Waited(a) = TrainWaited(7, p.i)
          /\ Held(a) = TrainHeld(7)
      BY <1>1, <1>4, <1>10, <3>1
    <3>3. QED
      BY <1>1, <1>10, <3>2 DEF TrainSent, TrainWaited, TrainHeld
  <2>5. {kxx, prob} \subseteq Held(p)
    BY <1>1, <2>3
  <2>6. OtherFits(p, a)
    BY <1>1, <2>2, <2>3, <2>4, <2>5 DEF OtherFits
  <2>7. QED
    BY <1>1, <2>2, <2>3, <2>4, <2>6, SfFftAssumption DEF Disciplined, a
<1>11. CASE p.line = 7
  <2>1. InstrAt(p) = Change({kxx} \cup Batch("tmpl"))
    BY <1>2, <1>11 DEF train
  <2>2. /\ InstrAt(p).op = "change" /\ InstrAt(p).loop = 0
        /\ InstrAt(p).bufs = {kxx} \cup Batch("tmpl")
    BY <2>1 DEF Change, Instruction
  <2>3. Sent(p) = 3 * N + 5 /\ Waited(p) = 3 * N + 5 /\ Held(p) = {prob}
    BY <1>1, <1>3, <1>11 DEF TrainSent, TrainWaited, TrainHeld
  <2>4. a \in Places /\ Sent(a) = 0 /\ Waited(a) = 0 /\ Held(a) \subseteq {prob}
    <3>1. a = Here(p, 8, p.i)
      BY <1>1, <1>11, <2>2, NextPlace DEF a
    <3>2. a \in Places /\ Sent(a) = TrainSent(8, p.i) /\ Waited(a) = TrainWaited(8, p.i)
          /\ Held(a) = TrainHeld(8)
      BY <1>1, <1>4, <1>11, <3>1
    <3>3. QED
      BY <1>1, <1>11, <3>2 DEF TrainSent, TrainWaited, TrainHeld
  <2>5. Clear({kxx} \cup Batch("tmpl"), p)
    BY <1>1, <2>3, NoneUnderWay
  <2>6. OtherFits(p, a)
    BY <1>1, <2>2, <2>3, <2>4, <2>5 DEF OtherFits
  <2>7. QED
    BY <1>1, <2>2, <2>3, <2>4, <2>6, SfFftAssumption DEF Disciplined, a
<1>12. CASE p.line = 8
  <2>1. InstrAt(p) = Change({tmplFft(p.i).cmd})
    BY <1>2, <1>12 DEF train
  <2>2. /\ InstrAt(p).op = "change" /\ InstrAt(p).loop = 0
        /\ InstrAt(p).bufs = {tmplFft(p.i).cmd}
    BY <2>1 DEF Change, Instruction
  <2>3. Sent(p) = p.i - 1 /\ Waited(p) = 0 /\ Held(p) = {prob}
    BY <1>1, <1>3, <1>12 DEF TrainSent, TrainWaited, TrainHeld
  <2>4. a \in Places /\ Sent(a) = p.i - 1 /\ Waited(a) = 0 /\ Held(a) \subseteq {prob}
    <3>1. a = Here(p, 9, p.i)
      BY <1>1, <1>12, <2>2, NextPlace DEF a
    <3>2. a \in Places /\ Sent(a) = TrainSent(9, p.i) /\ Waited(a) = TrainWaited(9, p.i)
          /\ Held(a) = TrainHeld(9)
      BY <1>1, <1>4, <1>12, <3>1
    <3>3. QED
      BY <1>1, <1>12, <3>2 DEF TrainSent, TrainWaited, TrainHeld
  <2>5. Clear({tmplFft(p.i).cmd}, p)
    <3> SUFFICES ASSUME NEW k \in 1 .. p.i - 1
                 PROVE  {Nth(k).cmd, Nth(k).src, Nth(k).dst} \cap {tmplFft(p.i).cmd} = {}
      BY <1>1, <2>3 DEF Clear
    <3>1. k \in Int /\ k # p.i
      BY <1>1
    <3>2. Nth(k) = tmplFft(k)
      BY <1>1, <3>1, NthFacts
    <3>3. QED
      BY <1>1, <3>1, <3>2 DEF tmplFft, Command
  <2>6. OtherFits(p, a)
    BY <1>1, <2>2, <2>3, <2>4, <2>5 DEF OtherFits
  <2>7. QED
    BY <1>1, <2>2, <2>3, <2>4, <2>6, SfFftAssumption DEF Disciplined, a
<1>13. CASE p.line = 9
  <2>1. InstrAt(p) = Enqueue
    BY <1>2, <1>13 DEF train
  <2>2. /\ InstrAt(p).op = "enqueue" /\ InstrAt(p).loop = 0
    BY <2>1 DEF Enqueue, Instruction
  <2>3. Sent(p) = p.i - 1 /\ Waited(p) = 0 /\ Held(p) = {prob}
    BY <1>1, <1>3, <1>13 DEF TrainSent, TrainWaited, TrainHeld
  <2>4. a \in Places /\ Sent(a) = p.i - 1 /\ Waited(a) = 0 /\ Held(a) \subseteq {prob}
    <3>1. a = Here(p, 10, p.i)
      BY <1>1, <1>13, <2>2, NextPlace DEF a
    <3>2. a \in Places /\ Sent(a) = TrainSent(10, p.i) /\ Waited(a) = TrainWaited(10, p.i)
          /\ Held(a) = TrainHeld(10)
      BY <1>1, <1>4, <1>13, <3>1
    <3>3. QED
      BY <1>1, <1>13, <3>2 DEF TrainSent, TrainWaited, TrainHeld
  <2>5. OtherFits(p, a)
    BY <1>1, <2>2, <2>3, <2>4 DEF OtherFits
  <2>6. QED
    BY <1>1, <2>2, <2>3, <2>4, <2>5, SfFftAssumption DEF Disciplined, a
<1>14. CASE p.line = 10
  <2>1. InstrAt(p) = Link(tmplFft(p.i))
    BY <1>2, <1>14 DEF train
  <2>2. /\ InstrAt(p).op = "link" /\ InstrAt(p).loop = 0
        /\ InstrAt(p).cmd = tmplFft(p.i)
    BY <2>1 DEF Link, Instruction
  <2>3. Sent(p) = p.i - 1 /\ Waited(p) = 0 /\ Held(p) = {prob}
    BY <1>1, <1>3, <1>14 DEF TrainSent, TrainWaited, TrainHeld
  <2>4. a \in Places /\ Sent(a) = p.i - 1 + 1 /\ Waited(a) = 0 /\ Held(a) \subseteq {prob}
    <3>1. a = Here(p, 11, p.i)
      BY <1>1, <1>14, <2>2, NextPlace DEF a
    <3>2. a \in Places /\ Sent(a) = TrainSent(11, p.i) /\ Waited(a) = TrainWaited(11, p.i)
          /\ Held(a) = TrainHeld(11)
      BY <1>1, <1>4, <1>14, <3>1
    <3>3. QED
      BY <1>1, <1>14, <3>2 DEF TrainSent, TrainWaited, TrainHeld
  <2>5. tmplFft(p.i) = Nth(Sent(p) + 1) /\ tmplFft(p.i).dst = <<"tmplDft", p.i>>
    <3>1. PICK m \in Int : m = Sent(p) + 1 /\ m = p.i
      BY <1>1, <2>3
    <3>2. Nth(m) = tmplFft(p.i)
      BY <1>1, <3>1, NthFacts, SfFftAssumption
    <3>3. QED
      BY <3>1, <3>2 DEF tmplFft, Command
  <2>6. \A k \in Waited(p) + 1 .. Sent(p) : Nth(k).dst # <<"tmplDft", p.i>>
    <3> SUFFICES ASSUME NEW k \in 1 .. p.i - 1
                 PROVE  Nth(k).dst # <<"tmplDft", p.i>>
      BY <1>1, <2>3
    <3>1. k \in Int /\ k # p.i
      BY <1>1
    <3>2. Nth(k) = tmplFft(k)
      BY <1>1, <3>1, NthFacts
    <3>3. QED
      BY <1>1, <3>1, <3>2 DEF tmplFft, Command
  <2>7. LinkFits(p, a)
    <3>1. Held(a) \subseteq Held(p) \ {<<"tmplDft", p.i>>}
      BY <1>1, <2>3, <2>4 DEF prob
    <3>2. QED
      BY <1>1, <2>2, <2>3, <2>4, <2>5, <2>6, <3>1 DEF LinkFits
  <2>8. QED
    BY <1>1, <2>2, <2>3, <2>4, <2>7 DEF Disciplined, a
<1>15. CASE p.line = 11
  <2>1. InstrAt(p) = Loop(4, Post)
    BY <1>2, <1>15 DEF train
  <2>2. /\ InstrAt(p).op = "post" /\ InstrAt(p).loop = 4
    BY <2>1 DEF Post, Instruction, Loop
  <2>3. Sent(p) = p.i /\ Waited(p) = 0 /\ Held(p) = {prob}
    BY <1>1, <1>3, <1>15 DEF TrainSent, TrainWaited, TrainHeld
  <2>4. a \in Places /\ Sent(a) = p.i /\ Waited(a) = 0 /\ Held(a) \subseteq {prob}
    <3>1. CASE p.i < N
      <4>1. a = Here(p, 8, p.i + 1) /\ p.i + 1 \in 1 .. N
        BY <1>1, <1>15, <2>2, <3>1, NextPlace DEF a
      <4>2. a \in Places /\ Sent(a) = TrainSent(8, p.i + 1) /\ Waited(a) = TrainWaited(8, p.i + 1)
            /\ Held(a) = TrainHeld(8)
        BY <1>4, <1>15, <4>1
      <4>3. QED
        BY <1>1, <1>15, <3>1, <4>2 DEF TrainSent, TrainWaited, TrainHeld
    <3>2. CASE p.i = N
      <4>1. a = Here(p, 12, 1) /\ 1 \in 1 .. N
        BY <1>1, <1>15, <2>2, <3>2, NextPlace, SfFftAssumption DEF a
      <4>2. a \in Places /\ Sent(a) = TrainSent(12, 1) /\ Waited(a) = TrainWaited(12, 1)
            /\ Held(a) = TrainHeld(12)
        BY <1>4, <4>1
      <4>3. QED
        BY <1>1, <1>15, <3>2, <4>2 DEF TrainSent, TrainWaited, TrainHeld
    <3>3. QED
      BY <1>1, <3>1, <3>2
  <2>5. OtherFits(p, a)
    BY <1>1, <2>2, <2>3, <2>4 DEF OtherFits
  <2>6. QED
    BY <1>1, <2>2, <2>3, <2>4, <2>5, SfFftAssumption DEF Disciplined, a
<1>16. CASE p.line = 12
  <2>1. InstrAt(p) = Change({trainFft.cmd})
    BY <1>2, <1>16 DEF train
  <2>2. /\ InstrAt(p).op = "change" /\ InstrAt(p).loop = 0
        /\ InstrAt(p).bufs = {trainFft.cmd}
    BY <2>1 DEF Change, Instruction
  <2>3. Sent(p) = N /\ Waited(p) = 0 /\ Held(p) = {prob}
    BY <1>1, <1>3, <1>16 DEF TrainSent, TrainWaited, TrainHeld
  <2>4. a \in Places /\ Sent(a) = N /\ Waited(a) = 0 /\ Held(a) \subseteq {prob}
    <3>1. a = Place(p.run, p.frame, p.round, p.call + 1, 1, 1) /\ Part(a) = "free" /\ a \in Places
      <4>1. \/ p.run # 0 /\ p.frame = 0 /\ p.call = 4
            \/ p.run # 0 /\ p.frame # 0 /\ p.call = 6
        BY PlaceFacts DEF Part, Calls
      <4>2. Onward(n, p) = Place(p.run, p.frame, p.round, p.call + 1, 1, 1)
        BY <1>1, <1>16, <4>1 DEF Onward, Calls
      <4>3. a = Onward(n, p)
        BY <1>1, <1>16, <2>2, NextPlace DEF a
      <4>4. /\ p.run \in Nat /\ p.frame \in Nat /\ p.round \in Nat \ {0} /\ p.call + 1 \in Int
            /\ p.run # 0
        BY <4>1, PlaceFacts
      <4>5. a = Place(p.run, p.frame, p.round, p.call + 1, 1, 1)
        BY <4>2, <4>3
      <4>6. CASE p.frame = 0
        <5>1. a = Place(p.run, p.frame, p.round, 5, 1, 1)
          BY <4>1, <4>5, <4>6
        <5>2. Part(a) = "free" /\ a \in Places
          BY <4>4, <4>6, <5>1, Entry
        <5>3. QED
          BY <4>5, <5>2
      <4>7. CASE p.frame # 0
        <5>1. a = Place(p.run, p.frame, p.round, 7, 1, 1)
          BY <4>1, <4>5, <4>7
        <5>2. Part(a) = "free" /\ a \in Places
          BY <4>4, <4>7, <5>1, Entry
        <5>3. QED
          BY <4>5, <5>2
      <4>8. QED
        BY <4>6, <4>7
    <3>2. QED
      BY <3>1 DEF Sent, Waited, Held
  <2>5. Clear({trainFft.cmd}, p)
    <3>1. \A k \in 1 .. N : {<<"m_pFFTCmd", k>>, <<"tmpl", k>>, <<"tmplDft", k>>}
                              \cap {trainFft.cmd} = {}
      BY DEF trainFft, Command
    <3>2. PICK w \in Int, s \in Int : w = Waited(p) /\ 0 <= w /\ s = Sent(p) /\ s = N
      BY <1>1, <2>3
    <3>3. s <= N
      BY <3>2
    <3>4. QED
      BY <3>1, <3>2, <3>3, TemplateClear
  <2>6. OtherFits(p, a)
    BY <1>1, <2>2, <2>3, <2>4, <2>5 DEF OtherFits
  <2>7. QED
    BY <1>1, <2>2, <2>3, <2>4, <2>6, SfFftAssumption DEF Disciplined, a
<1>17. QED
  BY <1>1, <1>5, <1>6, <1>7, <1>8, <1>9, <1>10, <1>11, <1>12, <1>13, <1>14, <1>15, <1>16

LEMMA DetectFits == ASSUME NEW p \in Places, NEW n, Part(p) = "detect" PROVE Disciplined(n, p)
<1> DEFINE a == After(n, p)
<1>1. /\ Lines(p) = 14 /\ p.line \in 1 .. 14 /\ p.i \in 1 .. N /\ p.i \in Int /\ N \in Int
      /\ p.i = 1
  <2>1. Lines(p) = 14
    BY DEF Lines
  <2>2. QED
    BY <2>1, PlaceFacts, SfFftAssumption DEF InLoop
<1>2. InstrAt(p) = detect[p.line]
  BY TextFacts, NextPlace
<1>3. Sent(p) = DetectSent(p.line) /\ Waited(p) = DetectWaited(p.line)
      /\ Held(p) = DetectHeld(p.line)
  BY DEF Sent, Waited, Held
<1>4. ASSUME NEW l \in 1 .. 14, NEW j \in 1 .. N, j = 1
      PROVE  /\ Here(p, l, j) \in Places
             /\ Sent(Here(p, l, j)) = DetectSent(l) /\ Waited(Here(p, l, j)) = DetectWaited(l)
             /\ Held(Here(p, l, j)) = DetectHeld(l)
  <2>1. /\ Here(p, l, j).line = l /\ Here(p, l, j).i = j /\ Here(p, l, j).round = p.round
    BY PlaceFields DEF Here
  <2>2. Part(Here(p, l, j)) = "detect"
    BY <1>1, HereFacts
  <2>4. Here(p, l, j) \in Places
    BY <1>1, <1>4, HereFacts
  <2>5. QED
    BY <2>1, <2>2, <2>4 DEF Sent, Waited, Held
<1> HIDE DEF a
<1>5. CASE p.line = 1
  <2>1. InstrAt(p) = Change({detectFft.cmd})
    BY <1>2, <1>5 DEF detect
  <2>2. /\ InstrAt(p).op = "change" /\ InstrAt(p).loop = 0
        /\ InstrAt(p).bufs = {detectFft.cmd}
    BY <2>1 DEF Change, Instruction
  <2>3. Sent(p) = 2 * N + 1 /\ Waited(p) = 2 * N + 1 /\ Held(p) = {prob} \cup Batch("tmplDft")
    BY <1>1, <1>3, <1>5 DEF DetectSent, DetectWaited, DetectHeld
  <2>4. a \in Places /\ Sent(a) = 2 * N + 1 /\ Waited(a) = 2 * N + 1 /\ Held(a) \subseteq {prob} \cup Batch("tmplDft")
    <3>1. a = Here(p, 2, p.i)
      BY <1>1, <1>5, <2>2, NextPlace DEF a
    <3>2. a \in Places /\ Sent(a) = DetectSent(2) /\ Waited(a) = DetectWaited(2)
          /\ Held(a) = DetectHeld(2)
      BY <1>1, <1>4, <1>5, <3>1
    <3>3. QED
      BY <1>1, <1>5, <3>2 DEF DetectSent, DetectWaited, DetectHeld
  <2>5. Clear({detectFft.cmd}, p)
    BY <1>1, <2>3, NoneUnderWay
  <2>6. OtherFits(p, a)
    BY <1>1, <2>2, <2>3, <2>4, <2>5 DEF OtherFits
  <2>7. QED
    BY <1>1, <2>2, <2>3, <2>4, <2>6, SfFftAssumption DEF Disciplined, a
<1>6. CASE p.line = 2
  <2>1. InstrAt(p) = Enqueue
    BY <1>2, <1>6 DEF detect
  <2>2. /\ InstrAt(p).op = "enqueue" /\ InstrAt(p).loop = 0
    BY <2>1 DEF Enqueue, Instruction
  <2>3. Sent(p) = 2 * N + 1 /\ Waited(p) = 2 * N + 1 /\ Held(p) = {prob} \cup Batch("tmplDft")
    BY <1>1, <1>3, <1>6 DEF DetectSent, DetectWaited, DetectHeld
  <2>4. a \in Places /\ Sent(a) = 2 * N + 1 /\ Waited(a) = 2 * N + 1 /\ Held(a) \subseteq {prob} \cup Batch("tmplDft")
    <3>1. a = Here(p, 3, p.i)
      BY <1>1, <1>6, <2>2, NextPlace DEF a
    <3>2. a \in Places /\ Sent(a) = DetectSent(3) /\ Waited(a) = DetectWaited(3)
          /\ Held(a) = DetectHeld(3)
      BY <1>1, <1>4, <1>6, <3>1
    <3>3. QED
      BY <1>1, <1>6, <3>2 DEF DetectSent, DetectWaited, DetectHeld
  <2>5. OtherFits(p, a)
    BY <1>1, <2>2, <2>3, <2>4 DEF OtherFits
  <2>6. QED
    BY <1>1, <2>2, <2>3, <2>4, <2>5, SfFftAssumption DEF Disciplined, a
<1>7. CASE p.line = 3
  <2>1. InstrAt(p) = Link(detectFft)
    BY <1>2, <1>7 DEF detect
  <2>2. /\ InstrAt(p).op = "link" /\ InstrAt(p).loop = 0
        /\ InstrAt(p).cmd = detectFft
    BY <2>1 DEF Link, Instruction
  <2>3. Sent(p) = 2 * N + 1 /\ Waited(p) = 2 * N + 1 /\ Held(p) = {prob} \cup Batch("tmplDft")
    BY <1>1, <1>3, <1>7 DEF DetectSent, DetectWaited, DetectHeld
  <2>4. a \in Places /\ Sent(a) = 2 * N + 1 + 1 /\ Waited(a) = 2 * N + 1 /\ Held(a) \subseteq {prob} \cup Batch("tmplDft")
    <3>1. a = Here(p, 4, p.i)
      BY <1>1, <1>7, <2>2, NextPlace DEF a
    <3>2. a \in Places /\ Sent(a) = DetectSent(4) /\ Waited(a) = DetectWaited(4)
          /\ Held(a) = DetectHeld(4)
      BY <1>1, <1>4, <1>7, <3>1
    <3>3. QED
      BY <1>1, <1>7, <3>2 DEF DetectSent, DetectWaited, DetectHeld
  <2>5. detectFft = Nth(Sent(p) + 1) /\ detectFft.dst = kzxHat
    <3>1. PICK m \in Int : m = Sent(p) + 1 /\ m = 2 * N + 2
      BY <1>1, <2>3
    <3>2. Nth(m) = detectFft
      BY <1>1, <3>1, NthFacts, SfFftAssumption
    <3>3. QED
      BY <3>1, <3>2 DEF detectFft, Command
  <2>6. \A k \in Waited(p) + 1 .. Sent(p) : Nth(k).dst # kzxHat
    BY <1>1, <2>3
  <2>7. LinkFits(p, a)
    <3>1. Held(a) \subseteq Held(p) \ {kzxHat}
      BY <1>1, <2>3, <2>4 DEF prob, kzxHat, Batch
    <3>2. QED
      BY <1>1, <2>2, <2>3, <2>4, <2>5, <2>6, <3>1 DEF LinkFits
  <2>8. QED
    BY <1>1, <2>2, <2>3, <2>4, <2>7 DEF Disciplined, a
<1>8. CASE p.line = 4
  <2>1. InstrAt(p) = Post
    BY <1>2, <1>8 DEF detect
  <2>2. /\ InstrAt(p).op = "post" /\ InstrAt(p).loop = 0
    BY <2>1 DEF Post, Instruction
  <2>3. Sent(p) = 2 * N + 2 /\ Waited(p) = 2 * N + 1 /\ Held(p) = {prob} \cup Batch("tmplDft")
    BY <1>1, <1>3, <1>8 DEF DetectSent, DetectWaited, DetectHeld
  <2>4. a \in Places /\ Sent(a) = 2 * N + 2 /\ Waited(a) = 2 * N + 1 /\ Held(a) \subseteq {prob} \cup Batch("tmplDft")
    <3>1. a = Here(p, 5, p.i)
      BY <1>1, <1>8, <2>2, NextPlace DEF a
    <3>2. a \in Places /\ Sent(a) = DetectSent(5) /\ Waited(a) = DetectWaited(5)
          /\ Held(a) = DetectHeld(5)
      BY <1>1, <1>4, <1>8, <3>1
    <3>3. QED
      BY <1>1, <1>8, <3>2 DEF DetectSent, DetectWaited, DetectHeld
  <2>5. OtherFits(p, a)
    BY <1>1, <2>2, <2>3, <2>4 DEF OtherFits
  <2>6. QED
    BY <1>1, <2>2, <2>3, <2>4, <2>5, SfFftAssumption DEF Disciplined, a
<1>9. CASE p.line = 5
  <2>1. InstrAt(p) = Wait
    BY <1>2, <1>9 DEF detect
  <2>2. /\ InstrAt(p).op = "wait" /\ InstrAt(p).loop = 0
    BY <2>1 DEF Wait, Instruction
  <2>3. Sent(p) = 2 * N + 2 /\ Waited(p) = 2 * N + 1 /\ Held(p) = {prob} \cup Batch("tmplDft")
    BY <1>1, <1>3, <1>9 DEF DetectSent, DetectWaited, DetectHeld
  <2>4. a \in Places /\ Sent(a) = 2 * N + 2 /\ Waited(a) = 2 * N + 1 + 1 /\ Held(a) \subseteq {prob} \cup Batch("tmplDft") \cup {kzxHat}
    <3>1. a = Here(p, 6, p.i)
      BY <1>1, <1>9, <2>2, NextPlace DEF a
    <3>2. a \in Places /\ Sent(a) = DetectSent(6) /\ Waited(a) = DetectWaited(6)
          /\ Held(a) = DetectHeld(6)
      BY <1>1, <1>4, <1>9, <3>1
    <3>3. QED
      BY <1>1, <1>9, <3>2 DEF DetectSent, DetectWaited, DetectHeld
  <2>5. Held(a) \subseteq Held(p) \cup {Nth(Waited(p) + 1).dst}
    <3>1. PICK m \in Int : m = Waited(p) + 1 /\ m = 2 * N + 2
      BY <1>1, <2>3
    <3>2. Nth(m) = detectFft
      BY <1>1, <3>1, NthFacts, SfFftAssumption
    <3>3. Nth(m).dst = kzxHat
      BY <3>2 DEF detectFft, Command
    <3>4. QED
      BY <2>3, <2>4, <3>1, <3>3
  <2>6. WaitFits(p, a)
    BY <1>1, <2>3, <2>4, <2>5 DEF WaitFits
  <2>7. QED
    BY <1>1, <2>2, <2>3, <2>4, <2>6, SfFftAssumption DEF Disciplined, a
<1>10. CASE p.line = 6
  <2>1. InstrAt(p) = Use({kzxHat})
    BY <1>2, <1>10 DEF detect
  <2>2. /\ InstrAt(p).op = "use" /\ InstrAt(p).loop = 0
        /\ InstrAt(p).bufs = {kzxHat}
    BY <2>1 DEF Use, Instruction
  <2>3. Sent(p) = 2 * N + 2 /\ Waited(p) = 2 * N + 2 /\ Held(p) = {prob} \cup Batch("tmplDft") \cup {kzxHat}
    BY <1>1, <1>3, <1>10 DEF DetectSent, DetectWaited, DetectHeld
  <2>4. a \in Places /\ Sent(a) = 2 * N + 2 /\ Waited(a) = 2 * N + 2 /\ Held(a) \subseteq {prob} \cup Batch("tmplDft")
    <3>1. a = Here(p, 7, p.i)
      BY <1>1, <1>10, <2>2, NextPlace DEF a
    <3>2. a \in Places /\ Sent(a) = DetectSent(7) /\ Waited(a) = DetectWaited(7)
          /\ Held(a) = DetectHeld(7)
      BY <1>1, <1>4, <1>10, <3>1
    <3>3. QED
      BY <1>1, <1>10, <3>2 DEF DetectSent, DetectWaited, DetectHeld
  <2>5. {kzxHat} \subseteq Held(p)
    BY <1>1, <2>3
  <2>6. OtherFits(p, a)
    BY <1>1, <2>2, <2>3, <2>4, <2>5 DEF OtherFits
  <2>7. QED
    BY <1>1, <2>2, <2>3, <2>4, <2>6, SfFftAssumption DEF Disciplined, a
<1>11. CASE p.line = 7
  <2>1. InstrAt(p) = Change({kzxHat, detectIfft.cmd})
    BY <1>2, <1>11 DEF detect
  <2>2. /\ InstrAt(p).op = "change" /\ InstrAt(p).loop = 0
        /\ InstrAt(p).bufs = {kzxHat, detectIfft.cmd}
    BY <2>1 DEF Change, Instruction
  <2>3. Sent(p) = 2 * N + 2 /\ Waited(p) = 2 * N + 2 /\ Held(p) = {prob} \cup Batch("tmplDft")
    BY <1>1, <1>3, <1>11 DEF DetectSent, DetectWaited, DetectHeld
  <2>4. a \in Places /\ Sent(a) = 2 * N + 2 /\ Waited(a) = 2 * N + 2 /\ Held(a) \subseteq {prob} \cup Batch("tmplDft")
    <3>1. a = Here(p, 8, p.i)
      BY <1>1, <1>11, <2>2, NextPlace DEF a
    <3>2. a \in Places /\ Sent(a) = DetectSent(8) /\ Waited(a) = DetectWaited(8)
          /\ Held(a) = DetectHeld(8)
      BY <1>1, <1>4, <1>11, <3>1
    <3>3. QED
      BY <1>1, <1>11, <3>2 DEF DetectSent, DetectWaited, DetectHeld
  <2>5. Clear({kzxHat, detectIfft.cmd}, p)
    BY <1>1, <2>3, NoneUnderWay
  <2>6. OtherFits(p, a)
    BY <1>1, <2>2, <2>3, <2>4, <2>5 DEF OtherFits
  <2>7. QED
    BY <1>1, <2>2, <2>3, <2>4, <2>6, SfFftAssumption DEF Disciplined, a
<1>12. CASE p.line = 8
  <2>1. InstrAt(p) = Enqueue
    BY <1>2, <1>12 DEF detect
  <2>2. /\ InstrAt(p).op = "enqueue" /\ InstrAt(p).loop = 0
    BY <2>1 DEF Enqueue, Instruction
  <2>3. Sent(p) = 2 * N + 2 /\ Waited(p) = 2 * N + 2 /\ Held(p) = {prob} \cup Batch("tmplDft")
    BY <1>1, <1>3, <1>12 DEF DetectSent, DetectWaited, DetectHeld
  <2>4. a \in Places /\ Sent(a) = 2 * N + 2 /\ Waited(a) = 2 * N + 2 /\ Held(a) \subseteq {prob} \cup Batch("tmplDft")
    <3>1. a = Here(p, 9, p.i)
      BY <1>1, <1>12, <2>2, NextPlace DEF a
    <3>2. a \in Places /\ Sent(a) = DetectSent(9) /\ Waited(a) = DetectWaited(9)
          /\ Held(a) = DetectHeld(9)
      BY <1>1, <1>4, <1>12, <3>1
    <3>3. QED
      BY <1>1, <1>12, <3>2 DEF DetectSent, DetectWaited, DetectHeld
  <2>5. OtherFits(p, a)
    BY <1>1, <2>2, <2>3, <2>4 DEF OtherFits
  <2>6. QED
    BY <1>1, <2>2, <2>3, <2>4, <2>5, SfFftAssumption DEF Disciplined, a
<1>13. CASE p.line = 9
  <2>1. InstrAt(p) = Link(detectIfft)
    BY <1>2, <1>13 DEF detect
  <2>2. /\ InstrAt(p).op = "link" /\ InstrAt(p).loop = 0
        /\ InstrAt(p).cmd = detectIfft
    BY <2>1 DEF Link, Instruction
  <2>3. Sent(p) = 2 * N + 2 /\ Waited(p) = 2 * N + 2 /\ Held(p) = {prob} \cup Batch("tmplDft")
    BY <1>1, <1>3, <1>13 DEF DetectSent, DetectWaited, DetectHeld
  <2>4. a \in Places /\ Sent(a) = 2 * N + 2 + 1 /\ Waited(a) = 2 * N + 2 /\ Held(a) \subseteq {prob} \cup Batch("tmplDft")
    <3>1. a = Here(p, 10, p.i)
      BY <1>1, <1>13, <2>2, NextPlace DEF a
    <3>2. a \in Places /\ Sent(a) = DetectSent(10) /\ Waited(a) = DetectWaited(10)
          /\ Held(a) = DetectHeld(10)
      BY <1>1, <1>4, <1>13, <3>1
    <3>3. QED
      BY <1>1, <1>13, <3>2 DEF DetectSent, DetectWaited, DetectHeld
  <2>5. detectIfft = Nth(Sent(p) + 1) /\ detectIfft.dst = kzx
    <3>1. PICK m \in Int : m = Sent(p) + 1 /\ m = 2 * N + 3
      BY <1>1, <2>3
    <3>2. Nth(m) = detectIfft
      BY <1>1, <3>1, NthFacts, SfFftAssumption
    <3>3. QED
      BY <3>1, <3>2 DEF detectIfft, Command
  <2>6. \A k \in Waited(p) + 1 .. Sent(p) : Nth(k).dst # kzx
    BY <1>1, <2>3
  <2>7. LinkFits(p, a)
    <3>1. Held(a) \subseteq Held(p) \ {kzx}
      BY <1>1, <2>3, <2>4 DEF prob, kzx, Batch
    <3>2. QED
      BY <1>1, <2>2, <2>3, <2>4, <2>5, <2>6, <3>1 DEF LinkFits
  <2>8. QED
    BY <1>1, <2>2, <2>3, <2>4, <2>7 DEF Disciplined, a
<1>14. CASE p.line = 10
  <2>1. InstrAt(p) = Post
    BY <1>2, <1>14 DEF detect
  <2>2. /\ InstrAt(p).op = "post" /\ InstrAt(p).loop = 0
    BY <2>1 DEF Post, Instruction
  <2>3. Sent(p) = 2 * N + 3 /\ Waited(p) = 2 * N + 2 /\ Held(p) = {prob} \cup Batch("tmplDft")
    BY <1>1, <1>3, <1>14 DEF DetectSent, DetectWaited, DetectHeld
  <2>4. a \in Places /\ Sent(a) = 2 * N + 3 /\ Waited(a) = 2 * N + 2 /\ Held(a) \subseteq {prob} \cup Batch("tmplDft")
    <3>1. a = Here(p, 11, p.i)
      BY <1>1, <1>14, <2>2, NextPlace DEF a
    <3>2. a \in Places /\ Sent(a) = DetectSent(11) /\ Waited(a) = DetectWaited(11)
          /\ Held(a) = DetectHeld(11)
      BY <1>1, <1>4, <1>14, <3>1
    <3>3. QED
      BY <1>1, <1>14, <3>2 DEF DetectSent, DetectWaited, DetectHeld
  <2>5. OtherFits(p, a)
    BY <1>1, <2>2, <2>3, <2>4 DEF OtherFits
  <2>6. QED
    BY <1>1, <2>2, <2>3, <2>4, <2>5, SfFftAssumption DEF Disciplined, a
<1>15. CASE p.line = 11
  <2>1. InstrAt(p) = Wait
    BY <1>2, <1>15 DEF detect
  <2>2. /\ InstrAt(p).op = "wait" /\ InstrAt(p).loop = 0
    BY <2>1 DEF Wait, Instruction
  <2>3. Sent(p) = 2 * N + 3 /\ Waited(p) = 2 * N + 2 /\ Held(p) = {prob} \cup Batch("tmplDft")
    BY <1>1, <1>3, <1>15 DEF DetectSent, DetectWaited, DetectHeld
  <2>4. a \in Places /\ Sent(a) = 2 * N + 3 /\ Waited(a) = 2 * N + 2 + 1 /\ Held(a) \subseteq {prob} \cup Batch("tmplDft") \cup {kzx}
    <3>1. a = Here(p, 12, p.i)
      BY <1>1, <1>15, <2>2, NextPlace DEF a
    <3>2. a \in Places /\ Sent(a) = DetectSent(12) /\ Waited(a) = DetectWaited(12)
          /\ Held(a) = DetectHeld(12)
      BY <1>1, <1>4, <1>15, <3>1
    <3>3. QED
      BY <1>1, <1>15, <3>2 DEF DetectSent, DetectWaited, DetectHeld
  <2>5. Held(a) \subseteq Held(p) \cup {Nth(Waited(p) + 1).dst}
    <3>1. PICK m \in Int : m = Waited(p) + 1 /\ m = 2 * N + 3
      BY <1>1, <2>3
    <3>2. Nth(m) = detectIfft
      BY <1>1, <3>1, NthFacts, SfFftAssumption
    <3>3. Nth(m).dst = kzx
      BY <3>2 DEF detectIfft, Command
    <3>4. QED
      BY <2>3, <2>4, <3>1, <3>3
  <2>6. WaitFits(p, a)
    BY <1>1, <2>3, <2>4, <2>5 DEF WaitFits
  <2>7. QED
    BY <1>1, <2>2, <2>3, <2>4, <2>6, SfFftAssumption DEF Disciplined, a
<1>16. CASE p.line = 12
  <2>1. InstrAt(p) = Change({kzxHat})
    BY <1>2, <1>16 DEF detect
  <2>2. /\ InstrAt(p).op = "change" /\ InstrAt(p).loop = 0
        /\ InstrAt(p).bufs = {kzxHat}
    BY <2>1 DEF Change, Instruction
  <2>3. Sent(p) = 2 * N + 3 /\ Waited(p) = 2 * N + 3 /\ Held(p) = {prob} \cup Batch("tmplDft") \cup {kzx}
    BY <1>1, <1>3, <1>16 DEF DetectSent, DetectWaited, DetectHeld
  <2>4. a \in Places /\ Sent(a) = 2 * N + 3 /\ Waited(a) = 2 * N + 3 /\ Held(a) \subseteq {prob} \cup Batch("tmplDft") \cup {kzx}
    <3>1. a = Here(p, 13, p.i)
      BY <1>1, <1>16, <2>2, NextPlace DEF a
    <3>2. a \in Places /\ Sent(a) = DetectSent(13) /\ Waited(a) = DetectWaited(13)
          /\ Held(a) = DetectHeld(13)
      BY <1>1, <1>4, <1>16, <3>1
    <3>3. QED
      BY <1>1, <1>16, <3>2 DEF DetectSent, DetectWaited, DetectHeld
  <2>5. Clear({kzxHat}, p)
    BY <1>1, <2>3, NoneUnderWay
  <2>6. OtherFits(p, a)
    BY <1>1, <2>2, <2>3, <2>4, <2>5 DEF OtherFits
  <2>7. QED
    BY <1>1, <2>2, <2>3, <2>4, <2>6, SfFftAssumption DEF Disciplined, a
<1>17. CASE p.line = 13
  <2>1. InstrAt(p) = Use({kzx})
    BY <1>2, <1>17 DEF detect
  <2>2. /\ InstrAt(p).op = "use" /\ InstrAt(p).loop = 0
        /\ InstrAt(p).bufs = {kzx}
    BY <2>1 DEF Use, Instruction
  <2>3. Sent(p) = 2 * N + 3 /\ Waited(p) = 2 * N + 3 /\ Held(p) = {prob} \cup Batch("tmplDft") \cup {kzx}
    BY <1>1, <1>3, <1>17 DEF DetectSent, DetectWaited, DetectHeld
  <2>4. a \in Places /\ Sent(a) = 2 * N + 3 /\ Waited(a) = 2 * N + 3 /\ Held(a) \subseteq {prob} \cup Batch("tmplDft")
    <3>1. a = Here(p, 14, p.i)
      BY <1>1, <1>17, <2>2, NextPlace DEF a
    <3>2. a \in Places /\ Sent(a) = DetectSent(14) /\ Waited(a) = DetectWaited(14)
          /\ Held(a) = DetectHeld(14)
      BY <1>1, <1>4, <1>17, <3>1
    <3>3. QED
      BY <1>1, <1>17, <3>2 DEF DetectSent, DetectWaited, DetectHeld
  <2>5. {kzx} \subseteq Held(p)
    BY <1>1, <2>3
  <2>6. OtherFits(p, a)
    BY <1>1, <2>2, <2>3, <2>4, <2>5 DEF OtherFits
  <2>7. QED
    BY <1>1, <2>2, <2>3, <2>4, <2>6, SfFftAssumption DEF Disciplined, a
<1>18. CASE p.line = 14
  <2>1. InstrAt(p) = Change({kzx, detectIfft.cmd})
    BY <1>2, <1>18 DEF detect
  <2>2. /\ InstrAt(p).op = "change" /\ InstrAt(p).loop = 0
        /\ InstrAt(p).bufs = {kzx, detectIfft.cmd}
    BY <2>1 DEF Change, Instruction
  <2>3. Sent(p) = 2 * N + 3 /\ Waited(p) = 2 * N + 3 /\ Held(p) = {prob} \cup Batch("tmplDft")
    BY <1>1, <1>3, <1>18 DEF DetectSent, DetectWaited, DetectHeld
  <2>4. a \in Places /\ Sent(a) = Waited(a) /\ Waited(a) = Sent(a) /\ Held(a) \subseteq {prob} \cup Batch("tmplDft")
    <3>1. p.run # 0 /\ p.frame # 0 /\ p.call = 3 /\ Calls(p) = 7 /\ p.run \in Nat
          /\ p.frame \in Nat /\ p.frame > 0 /\ p.round \in Nat \ {0}
      BY PlaceFacts DEF Part, Calls
    <3>2. a = Onward(n, p)
      BY <1>1, <1>18, <2>2, NextPlace DEF a
    <3>3. CASE p.round < n
      <4>1. a = Place(p.run, p.frame, p.round + 1, 1, 1, 1)
        BY <1>1, <3>1, <3>2, <3>3 DEF Onward
      <4>2. p.round + 1 \in Nat \ {0} /\ p.round + 1 # 1
        BY <3>1
      <4>3. a \in Places /\ Part(a) = "features"
        <5>1. PICK d \in Nat \ {0} : d = p.round + 1
          BY <4>2
        <5>2. a = Place(p.run, p.frame, d, 1, 1, 1)
          BY <4>1, <5>1
        <5>3. p.run # 0 /\ p.frame # 0 /\ p.run \in Nat /\ p.frame \in Nat
          BY <3>1
        <5>4. QED
          BY <5>2, <5>3, Entry
      <4>4. a.frame # 0 /\ a.call = 1 /\ a.round # 1
        BY <3>1, <4>1, <4>2, PlaceFields
      <4>5. QED
        BY <4>3, <4>4 DEF Sent, Waited, Held
    <3>4. CASE ~(p.round < n)
      <4>1. a = Place(p.run, p.frame, p.round, 4, 1, 1)
        BY <1>1, <3>1, <3>2, <3>4 DEF Onward
      <4>2. a \in Places /\ Part(a) = "features"
        BY <3>1, <4>1, Entry
      <4>3. a.frame # 0 /\ a.call = 4
        BY <3>1, <4>1, PlaceFields
      <4>4. QED
        BY <4>2, <4>3 DEF Sent, Waited, Held
    <3>5. QED
      BY <3>3, <3>4
  <2>5. Clear({kzx, detectIfft.cmd}, p)
    BY <1>1, <2>3, NoneUnderWay
  <2>6. OtherFits(p, a)
    BY <1>1, <2>2, <2>3, <2>4, <2>5 DEF OtherFits
  <2>7. QED
    BY <1>1, <2>2, <2>3, <2>4, <2>6, SfFftAssumption DEF Disciplined, a
<1>19. QED
  BY <1>1, <1>5, <1>6, <1>7, <1>8, <1>9, <1>10, <1>11, <1>12, <1>13, <1>14, <1>15, <1>16, <1>17, <1>18

LEMMA CrossFits == ASSUME NEW p \in Places, NEW n, Part(p) = "cross" PROVE Disciplined(n, p)
<1> DEFINE a == After(n, p)
<1>1. /\ Lines(p) = 16 /\ p.line \in 1 .. 16 /\ p.i \in 1 .. N /\ p.i \in Int /\ N \in Int
      /\ p.i = 1 \/ p.line \in {1, 2, 3, 4, 7, 8} \/ (p.line = 5 /\ p.round = 1)
  <2>1. Lines(p) = 16
    BY DEF Lines
  <2>2. QED
    BY <2>1, PlaceFacts, SfFftAssumption DEF InLoop
<1>2. InstrAt(p) = gaussCrossCorrelation(p.round = 1, p.i)[p.line]
  BY TextFacts, NextPlace
<1>3. Sent(p) = CrossSent(p.line, p.i) /\ Waited(p) = CrossWaited(p.round = 1, p.line, p.i)
      /\ Held(p) = CrossHeld(p.round = 1, p.line, p.i)
  BY DEF Sent, Waited, Held
<1>4. ASSUME NEW l \in 1 .. 16, NEW j \in 1 .. N, j = 1 \/ l \in {1, 2, 3, 4, 7, 8} \/ (l = 5 /\ p.round = 1)
      PROVE  /\ Here(p, l, j) \in Places
             /\ Sent(Here(p, l, j)) = CrossSent(l, j) /\ Waited(Here(p, l, j)) = CrossWaited(p.round = 1, l, j)
             /\ Held(Here(p, l, j)) = CrossHeld(p.round = 1, l, j)
  <2>1. /\ Here(p, l, j).line = l /\ Here(p, l, j).i = j /\ Here(p, l, j).round = p.round
    BY PlaceFields DEF Here
  <2>2. Part(Here(p, l, j)) = "cross"
    BY <1>1, HereFacts
  <2>3. j = 1 \/ InLoop(Here(p, l, j))
    BY <1>4, <2>1, <2>2 DEF InLoop
  <2>4. Here(p, l, j) \in Places
    BY <1>1, <2>3, HereFacts
  <2>5. QED
    BY <2>1, <2>2, <2>4 DEF Sent, Waited, Held, CrossWaited, CrossHeld
<1> HIDE DEF a
<1>5. PICK w \in Int : w = (IF p.round = 1 THEN 0 ELSE N) /\ 0 <= w /\ w <= N
  BY <1>1
<1> DEFINE h == {prob} \cup IF p.round = 1 THEN {} ELSE Batch("tmplDft")
<1>6. CASE p.line = 1
  <2>1. InstrAt(p) = Change({crossFft(p.i).cmd})
    BY <1>2, <1>6 DEF gaussCrossCorrelation
  <2>2. /\ InstrAt(p).op = "change" /\ InstrAt(p).loop = 0
        /\ InstrAt(p).bufs = {crossFft(p.i).cmd}
    BY <2>1 DEF Change, Instruction
  <2>3. Sent(p) = N + p.i - 1 /\ Waited(p) = w /\ Held(p) = h
    BY <1>1, <1>5, <1>3, <1>6 DEF CrossSent, CrossWaited, CrossHeld
  <2>4. a \in Places /\ Sent(a) = N + p.i - 1 /\ Waited(a) = w /\ Held(a) \subseteq h
    <3>1. a = Here(p, 2, p.i)
      BY <1>1, <1>5, <1>6, <2>2, NextPlace DEF a
    <3>2. a \in Places /\ Sent(a) = CrossSent(2, p.i) /\ Waited(a) = CrossWaited(p.round = 1, 2, p.i)
          /\ Held(a) = CrossHeld(p.round = 1, 2, p.i)
      BY <1>1, <1>5, <1>4, <1>6, <3>1
    <3>3. QED
      BY <1>1, <1>5, <1>6, <3>2 DEF CrossSent, CrossWaited, CrossHeld
  <2>5. Clear({crossFft(p.i).cmd}, p)
    <3> SUFFICES ASSUME NEW k \in w + 1 .. N + p.i - 1
                 PROVE  {Nth(k).cmd, Nth(k).src, Nth(k).dst} \cap {crossFft(p.i).cmd} = {}
      BY <1>1, <1>5, <2>3 DEF Clear
    <3>1. k \in Int /\ k >= 1 /\ k <= N + p.i - 1
      BY <1>1, <1>5
    <3>2. CASE k <= N
      <4>1. Nth(k) = tmplFft(k)
        BY <1>1, <1>5, <3>1, <3>2, NthFacts
      <4>2. QED
        BY <4>1 DEF tmplFft, crossFft, Command
    <3>3. CASE k > N
      <4>1. PICK m \in Int : m = k - N /\ m >= 1 /\ m < p.i
        BY <1>1, <1>5, <3>1, <3>3
      <4>2. Nth(k) = crossFft(m)
        BY <1>1, <1>5, <3>1, <3>3, <4>1, NthFacts
      <4>3. QED
        BY <1>1, <1>5, <4>1, <4>2 DEF crossFft, Command
    <3>4. QED
      BY <1>1, <1>5, <3>1, <3>2, <3>3
  <2>6. OtherFits(p, a)
    BY <1>1, <1>5, <2>2, <2>3, <2>4, <2>5 DEF OtherFits
  <2>7. QED
    BY <1>1, <1>5, <2>2, <2>3, <2>4, <2>6, SfFftAssumption DEF Disciplined, a
<1>7. CASE p.line = 2
  <2>1. InstrAt(p) = Enqueue
    BY <1>2, <1>7 DEF gaussCrossCorrelation
  <2>2. /\ InstrAt(p).op = "enqueue" /\ InstrAt(p).loop = 0
    BY <2>1 DEF Enqueue, Instruction
  <2>3. Sent(p) = N + p.i - 1 /\ Waited(p) = w /\ Held(p) = h
    BY <1>1, <1>5, <1>3, <1>7 DEF CrossSent, CrossWaited, CrossHeld
  <2>4. a \in Places /\ Sent(a) = N + p.i - 1 /\ Waited(a) = w /\ Held(a) \subseteq h
    <3>1. a = Here(p, 3, p.i)
      BY <1>1, <1>5, <1>7, <2>2, NextPlace DEF a
    <3>2. a \in Places /\ Sent(a) = CrossSent(3, p.i) /\ Waited(a) = CrossWaited(p.round = 1, 3, p.i)
          /\ Held(a) = CrossHeld(p.round = 1, 3, p.i)
      BY <1>1, <1>5, <1>4, <1>7, <3>1
    <3>3. QED
      BY <1>1, <1>5, <1>7, <3>2 DEF CrossSent, CrossWaited, CrossHeld
  <2>5. OtherFits(p, a)
    BY <1>1, <1>5, <2>2, <2>3, <2>4 DEF OtherFits
  <2>6. QED
    BY <1>1, <1>5, <2>2, <2>3, <2>4, <2>5, SfFftAssumption DEF Disciplined, a
<1>8. CASE p.line = 3
  <2>1. InstrAt(p) = Link(crossFft(p.i))
    BY <1>2, <1>8 DEF gaussCrossCorrelation
  <2>2. /\ InstrAt(p).op = "link" /\ InstrAt(p).loop = 0
        /\ InstrAt(p).cmd = crossFft(p.i)
    BY <2>1 DEF Link, Instruction
  <2>3. Sent(p) = N + p.i - 1 /\ Waited(p) = w /\ Held(p) = h
    BY <1>1, <1>5, <1>3, <1>8 DEF CrossSent, CrossWaited, CrossHeld
  <2>4. a \in Places /\ Sent(a) = N + p.i - 1 + 1 /\ Waited(a) = w /\ Held(a) \subseteq h
    <3>1. a = Here(p, 4, p.i)
      BY <1>1, <1>5, <1>8, <2>2, NextPlace DEF a
    <3>2. a \in Places /\ Sent(a) = CrossSent(4, p.i) /\ Waited(a) = CrossWaited(p.round = 1, 4, p.i)
          /\ Held(a) = CrossHeld(p.round = 1, 4, p.i)
      BY <1>1, <1>5, <1>4, <1>8, <3>1
    <3>3. QED
      BY <1>1, <1>5, <1>8, <3>2 DEF CrossSent, CrossWaited, CrossHeld
  <2>5. crossFft(p.i) = Nth(Sent(p) + 1) /\ crossFft(p.i).dst = <<"zHat", p.i>>
    <3>1. PICK m \in Int : m = Sent(p) + 1 /\ m = N + p.i
      BY <1>1, <1>5, <2>3
    <3>2. Nth(m) = crossFft(p.i)
      <4>1. m - N = p.i
        BY <1>1, <1>5, <3>1
      <4>2. QED
        BY <1>1, <1>5, <3>1, <4>1, NthFacts
    <3>3. QED
      BY <3>1, <3>2 DEF crossFft, Command
  <2>6. \A k \in Waited(p) + 1 .. Sent(p) : Nth(k).dst # <<"zHat", p.i>>
    <3> SUFFICES ASSUME NEW k \in w + 1 .. N + p.i - 1
                 PROVE  Nth(k).dst # <<"zHat", p.i>>
      BY <1>1, <1>5, <2>3
    <3>1. k \in Int /\ k >= 1 /\ k <= N + p.i - 1
      BY <1>1, <1>5
    <3>2. CASE k <= N
      <4>1. Nth(k) = tmplFft(k)
        BY <1>1, <1>5, <3>1, <3>2, NthFacts
      <4>2. QED
        BY <4>1 DEF tmplFft, crossFft, Command
    <3>3. CASE k > N
      <4>1. PICK m \in Int : m = k - N /\ m >= 1 /\ m < p.i
        BY <1>1, <1>5, <3>1, <3>3
      <4>2. Nth(k) = crossFft(m)
        BY <1>1, <1>5, <3>1, <3>3, <4>1, NthFacts
      <4>3. QED
        BY <1>1, <1>5, <4>1, <4>2 DEF crossFft, Command
    <3>4. QED
      BY <1>1, <1>5, <3>1, <3>2, <3>3
  <2>7. LinkFits(p, a)
    <3>1. Held(a) \subseteq Held(p) \ {<<"zHat", p.i>>}
      BY <1>1, <1>5, <2>3, <2>4 DEF prob, Batch
    <3>2. QED
      BY <1>1, <1>5, <2>2, <2>3, <2>4, <2>5, <2>6, <3>1 DEF LinkFits
  <2>8. QED
    BY <1>1, <1>5, <2>2, <2>3, <2>4, <2>7 DEF Disciplined, a
<1>9. CASE p.line = 4
  <2>1. InstrAt(p) = Loop(4, Post)
    BY <1>2, <1>9 DEF gaussCrossCorrelation
  <2>2. /\ InstrAt(p).op = "post" /\ InstrAt(p).loop = 4
    BY <2>1 DEF Post, Instruction, Loop
  <2>3. Sent(p) = N + p.i /\ Waited(p) = w /\ Held(p) = h
    BY <1>1, <1>5, <1>3, <1>9 DEF CrossSent, CrossWaited, CrossHeld
  <2>4. a \in Places /\ Sent(a) = N + p.i /\ Waited(a) = w /\ Held(a) \subseteq h
    <3>1. CASE p.i < N
      <4>1. a = Here(p, 1, p.i + 1) /\ p.i + 1 \in 1 .. N
        BY <1>1, <1>5, <1>9, <2>2, <3>1, NextPlace DEF a
      <4>2. a \in Places /\ Sent(a) = CrossSent(1, p.i + 1) /\ Waited(a) = CrossWaited(p.round = 1, 1, p.i + 1)
            /\ Held(a) = CrossHeld(p.round = 1, 1, p.i + 1)
        BY <1>4, <1>9, <4>1
      <4>3. QED
        BY <1>1, <1>5, <1>9, <3>1, <4>2 DEF CrossSent, CrossWaited, CrossHeld
    <3>2. CASE p.i = N
      <4>1. a = Here(p, 5, 1) /\ 1 \in 1 .. N
        BY <1>1, <1>5, <1>9, <2>2, <3>2, NextPlace, SfFftAssumption DEF a
      <4>2. a \in Places /\ Sent(a) = CrossSent(5, 1) /\ Waited(a) = CrossWaited(p.round = 1, 5, 1)
            /\ Held(a) = CrossHeld(p.round = 1, 5, 1)
        BY <1>4, <4>1
      <4>3. QED
        BY <1>1, <1>5, <1>9, <3>2, <4>2 DEF CrossSent, CrossWaited, CrossHeld
    <3>3. QED
      BY <1>1, <1>5, <3>1, <3>2
  <2>5. OtherFits(p, a)
    BY <1>1, <1>5, <2>2, <2>3, <2>4 DEF OtherFits
  <2>6. QED
    BY <1>1, <1>5, <2>2, <2>3, <2>4, <2>5, SfFftAssumption DEF Disciplined, a
<1>10. CASE p.line = 5 /\ p.round = 1
  <2>1. InstrAt(p) = Loop(1, Wait)
    BY <1>2, <1>10 DEF gaussCrossCorrelation
  <2>2. /\ InstrAt(p).op = "wait" /\ InstrAt(p).loop = 1
    BY <2>1 DEF Wait, Instruction, Loop
  <2>3. Sent(p) = 2 * N /\ Waited(p) = p.i - 1 /\ Held(p) = {prob} \cup {<<"tmplDft", k>> : k \in 1 .. p.i - 1}
    BY <1>1, <1>5, <1>3, <1>10 DEF CrossSent, CrossWaited, CrossHeld
  <2>4. a \in Places /\ Sent(a) = 2 * N /\ Waited(a) = p.i - 1 + 1 /\ Held(a) \subseteq {prob} \cup {<<"tmplDft", k>> : k \in 1 .. p.i}
    <3>1. CASE p.i < N
      <4>1. a = Here(p, 5, p.i + 1) /\ p.i + 1 \in 1 .. N
        BY <1>1, <1>5, <1>10, <2>2, <3>1, NextPlace DEF a
      <4>2. a \in Places /\ Sent(a) = CrossSent(5, p.i + 1) /\ Waited(a) = CrossWaited(p.round = 1, 5, p.i + 1)
            /\ Held(a) = CrossHeld(p.round = 1, 5, p.i + 1)
        BY <1>4, <1>10, <4>1
      <4>3. QED
        BY <1>1, <1>5, <1>10, <3>1, <4>2 DEF CrossSent, CrossWaited, CrossHeld
    <3>2. CASE p.i = N
      <4>1. a = Here(p, 6, 1) /\ 1 \in 1 .. N
        BY <1>1, <1>5, <1>10, <2>2, <3>2, NextPlace, SfFftAssumption DEF a
      <4>2. a \in Places /\ Sent(a) = CrossSent(6, 1) /\ Waited(a) = CrossWaited(p.round = 1, 6, 1)
            /\ Held(a) = CrossHeld(p.round = 1, 6, 1)
        BY <1>4, <4>1
      <4>3. QED
        BY <1>1, <1>5, <1>10, <3>2, <4>2 DEF CrossSent, CrossWaited, CrossHeld, Batch
    <3>3. QED
      BY <1>1, <1>5, <3>1, <3>2
  <2>5. Held(a) \subseteq Held(p) \cup {Nth(Waited(p) + 1).dst}
    <3>1. PICK m \in Int : m = Waited(p) + 1 /\ m = p.i
      BY <1>1, <1>5, <2>3
    <3>2. Nth(m) = tmplFft(p.i)
      BY <1>1, <1>5, <3>1, NthFacts, SfFftAssumption
    <3>3. Nth(m).dst = <<"tmplDft", p.i>>
      BY <3>2 DEF tmplFft, Command
    <3>4. QED
      BY <2>3, <2>4, <3>1, <3>3
  <2>6. WaitFits(p, a)
    BY <1>1, <1>5, <2>3, <2>4, <2>5 DEF WaitFits
  <2>7. QED
    BY <1>1, <1>5, <2>2, <2>3, <2>4, <2>6, SfFftAssumption DEF Disciplined, a
<1>11. CASE p.line = 5 /\ p.round # 1
  <2>1. InstrAt(p) = Use({})
    BY <1>2, <1>11 DEF gaussCrossCorrelation
  <2>2. /\ InstrAt(p).op = "use" /\ InstrAt(p).loop = 0
        /\ InstrAt(p).bufs = {}
    BY <2>1 DEF Use, Instruction
  <2>3. Sent(p) = 2 * N /\ Waited(p) = N /\ Held(p) = {prob} \cup Batch("tmplDft")
    BY <1>1, <1>5, <1>3, <1>11 DEF CrossSent, CrossWaited, CrossHeld
  <2>4. a \in Places /\ Sent(a) = 2 * N /\ Waited(a) = N /\ Held(a) \subseteq {prob} \cup Batch("tmplDft")
    <3>1. a = Here(p, 6, p.i)
      BY <1>1, <1>5, <1>11, <2>2, NextPlace DEF a
    <3>2. a \in Places /\ Sent(a) = CrossSent(6, p.i) /\ Waited(a) = CrossWaited(p.round = 1, 6, p.i)
          /\ Held(a) = CrossHeld(p.round = 1, 6, p.i)
      BY <1>1, <1>5, <1>4, <1>11, <3>1
    <3>3. QED
      BY <1>1, <1>5, <1>11, <3>2 DEF CrossSent, CrossWaited, CrossHeld
  <2>5. {} \subseteq Held(p)
    BY <1>1, <1>5, <2>3
  <2>6. OtherFits(p, a)
    BY <1>1, <1>5, <2>2, <2>3, <2>4, <2>5 DEF OtherFits
  <2>7. QED
    BY <1>1, <1>5, <2>2, <2>3, <2>4, <2>6, SfFftAssumption DEF Disciplined, a
<1>12. CASE p.line = 6
  <2>1. InstrAt(p) = Change({sum})
    BY <1>2, <1>12 DEF gaussCrossCorrelation
  <2>2. /\ InstrAt(p).op = "change" /\ InstrAt(p).loop = 0
        /\ InstrAt(p).bufs = {sum}
    BY <2>1 DEF Change, Instruction
  <2>3. Sent(p) = 2 * N /\ Waited(p) = N /\ Held(p) = {prob} \cup Batch("tmplDft")
    BY <1>1, <1>5, <1>3, <1>12 DEF CrossSent, CrossWaited, CrossHeld
  <2>4. a \in Places /\ Sent(a) = 2 * N /\ Waited(a) = N /\ Held(a) \subseteq {prob} \cup Batch("tmplDft")
    <3>1. a = Here(p, 7, p.i)
      BY <1>1, <1>5, <1>12, <2>2, NextPlace DEF a
    <3>2. a \in Places /\ Sent(a) = CrossSent(7, p.i) /\ Waited(a) = CrossWaited(p.round = 1, 7, p.i)
          /\ Held(a) = CrossHeld(p.round = 1, 7, p.i)
      BY <1>1, <1>5, <1>4, <1>12, <3>1
    <3>3. QED
      BY <1>1, <1>5, <1>12, <3>2 DEF CrossSent, CrossWaited, CrossHeld
  <2>5. Clear({sum}, p)
    <3> SUFFICES ASSUME NEW k \in N + 1 .. 2 * N
                 PROVE  {Nth(k).cmd, Nth(k).src, Nth(k).dst} \cap {sum} = {}
      BY <1>1, <1>5, <2>3 DEF Clear
    <3>1. PICK m \in Int : m = k - N
      BY <1>1, <1>5
    <3>2. Nth(k) = crossFft(m)
      BY <1>1, <1>5, <3>1, NthFacts
    <3>3. QED
      BY <3>2 DEF crossFft, Command, sum
  <2>6. OtherFits(p, a)
    BY <1>1, <1>5, <2>2, <2>3, <2>4, <2>5 DEF OtherFits
  <2>7. QED
    BY <1>1, <1>5, <2>2, <2>3, <2>4, <2>6, SfFftAssumption DEF Disciplined, a
<1>13. CASE p.line = 7
  <2>1. InstrAt(p) = Wait
    BY <1>2, <1>13 DEF gaussCrossCorrelation
  <2>2. /\ InstrAt(p).op = "wait" /\ InstrAt(p).loop = 0
    BY <2>1 DEF Wait, Instruction
  <2>3. Sent(p) = 2 * N /\ Waited(p) = N + p.i - 1 /\ Held(p) = {prob} \cup Batch("tmplDft")
    BY <1>1, <1>5, <1>3, <1>13 DEF CrossSent, CrossWaited, CrossHeld
  <2>4. a \in Places /\ Sent(a) = 2 * N /\ Waited(a) = N + p.i - 1 + 1 /\ Held(a) \subseteq {prob} \cup Batch("tmplDft") \cup {<<"zHat", p.i>>}
    <3>1. a = Here(p, 8, p.i)
      BY <1>1, <1>5, <1>13, <2>2, NextPlace DEF a
    <3>2. a \in Places /\ Sent(a) = CrossSent(8, p.i) /\ Waited(a) = CrossWaited(p.round = 1, 8, p.i)
          /\ Held(a) = CrossHeld(p.round = 1, 8, p.i)
      BY <1>1, <1>5, <1>4, <1>13, <3>1
    <3>3. QED
      BY <1>1, <1>5, <1>13, <3>2 DEF CrossSent, CrossWaited, CrossHeld
  <2>5. Held(a) \subseteq Held(p) \cup {Nth(Waited(p) + 1).dst}
    <3>1. PICK m \in Int : m = Waited(p) + 1 /\ m = N + p.i
      BY <1>1, <1>5, <2>3
    <3>2. Nth(m) = crossFft(p.i)
      <4>1. m - N = p.i
        BY <1>1, <1>5, <3>1
      <4>2. QED
        BY <1>1, <1>5, <3>1, <4>1, NthFacts
    <3>3. Nth(m).dst = <<"zHat", p.i>>
      BY <3>2 DEF crossFft, Command
    <3>4. QED
      BY <2>3, <2>4, <3>1, <3>3
  <2>6. WaitFits(p, a)
    BY <1>1, <1>5, <2>3, <2>4, <2>5 DEF WaitFits
  <2>7. QED
    BY <1>1, <1>5, <2>2, <2>3, <2>4, <2>6, SfFftAssumption DEF Disciplined, a
<1>14. CASE p.line = 8
  <2>1. InstrAt(p) = Loop(2, Use({tmplFft(p.i).dst, crossFft(p.i).dst}))
    BY <1>2, <1>14 DEF gaussCrossCorrelation
  <2>2. /\ InstrAt(p).op = "use" /\ InstrAt(p).loop = 2
        /\ InstrAt(p).bufs = {tmplFft(p.i).dst, crossFft(p.i).dst}
    BY <2>1 DEF Use, Instruction, Loop
  <2>3. Sent(p) = 2 * N /\ Waited(p) = N + p.i /\ Held(p) = {prob} \cup Batch("tmplDft") \cup {<<"zHat", p.i>>}
    BY <1>1, <1>5, <1>3, <1>14 DEF CrossSent, CrossWaited, CrossHeld
  <2>4. a \in Places /\ Sent(a) = 2 * N /\ Waited(a) = N + p.i /\ Held(a) \subseteq {prob} \cup Batch("tmplDft")
    <3>1. CASE p.i < N
      <4>1. a = Here(p, 7, p.i + 1) /\ p.i + 1 \in 1 .. N
        BY <1>1, <1>5, <1>14, <2>2, <3>1, NextPlace DEF a
      <4>2. a \in Places /\ Sent(a) = CrossSent(7, p.i + 1) /\ Waited(a) = CrossWaited(p.round = 1, 7, p.i + 1)
            /\ Held(a) = CrossHeld(p.round = 1, 7, p.i + 1)
        BY <1>4, <1>14, <4>1
      <4>3. QED
        BY <1>1, <1>5, <1>14, <3>1, <4>2 DEF CrossSent, CrossWaited, CrossHeld
    <3>2. CASE p.i = N
      <4>1. a = Here(p, 9, 1) /\ 1 \in 1 .. N
        BY <1>1, <1>5, <1>14, <2>2, <3>2, NextPlace, SfFftAssumption DEF a
      <4>2. a \in Places /\ Sent(a) = CrossSent(9, 1) /\ Waited(a) = CrossWaited(p.round = 1, 9, 1)
            /\ Held(a) = CrossHeld(p.round = 1, 9, 1)
        BY <1>4, <4>1
      <4>3. QED
        BY <1>1, <1>5, <1>14, <3>2, <4>2 DEF CrossSent, CrossWaited, CrossHeld
    <3>3. QED
      BY <1>1, <1>5, <3>1, <3>2
  <2>5. {tmplFft(p.i).dst, crossFft(p.i).dst} \subseteq Held(p)
    BY <1>1, <1>5, <2>3 DEF tmplFft, crossFft, Command, Batch
  <2>6. OtherFits(p, a)
    BY <1>1, <1>5, <2>2, <2>3, <2>4, <2>5 DEF OtherFits
  <2>7. QED
    BY <1>1, <1>5, <2>2, <2>3, <2>4, <2>6, SfFftAssumption DEF Disciplined, a
<1>15. CASE p.line = 9
  <2>1. InstrAt(p) = Change(Batch("zHat") \cup {sum, crossIfft.cmd})
    BY <1>2, <1>15 DEF gaussCrossCorrelation
  <2>2. /\ InstrAt(p).op = "change" /\ InstrAt(p).loop = 0
        /\ InstrAt(p).bufs = Batch("zHat") \cup {sum, crossIfft.cmd}
    BY <2>1 DEF Change, Instruction
  <2>3. Sent(p) = 2 * N /\ Waited(p) = 2 * N /\ Held(p) = {prob} \cup Batch("tmplDft")
    BY <1>1, <1>5, <1>3, <1>15 DEF CrossSent, CrossWaited, CrossHeld
  <2>4. a \in Places /\ Sent(a) = 2 * N /\ Waited(a) = 2 * N /\ Held(a) \subseteq {prob} \cup Batch("tmplDft")
    <3>1. a = Here(p, 10, p.i)
      BY <1>1, <1>5, <1>15, <2>2, NextPlace DEF a
    <3>2. a \in Places /\ Sent(a) = CrossSent(10, p.i) /\ Waited(a) = CrossWaited(p.round = 1, 10, p.i)
          /\ Held(a) = CrossHeld(p.round = 1, 10, p.i)
      BY <1>1, <1>5, <1>4, <1>15, <3>1
    <3>3. QED
      BY <1>1, <1>5, <1>15, <3>2 DEF CrossSent, CrossWaited, CrossHeld
  <2>5. Clear(Batch("zHat") \cup {sum, crossIfft.cmd}, p)
    BY <1>1, <1>5, <2>3, NoneUnderWay
  <2>6. OtherFits(p, a)
    BY <1>1, <1>5, <2>2, <2>3, <2>4, <2>5 DEF OtherFits
  <2>7. QED
    BY <1>1, <1>5, <2>2, <2>3, <2>4, <2>6, SfFftAssumption DEF Disciplined, a
<1>16. CASE p.line = 10
  <2>1. InstrAt(p) = Enqueue
    BY <1>2, <1>16 DEF gaussCrossCorrelation
  <2>2. /\ InstrAt(p).op = "enqueue" /\ InstrAt(p).loop = 0
    BY <2>1 DEF Enqueue, Instruction
  <2>3. Sent(p) = 2 * N /\ Waited(p) = 2 * N /\ Held(p) = {prob} \cup Batch("tmplDft")
    BY <1>1, <1>5, <1>3, <1>16 DEF CrossSent, CrossWaited, CrossHeld
  <2>4. a \in Places /\ Sent(a) = 2 * N /\ Waited(a) = 2 * N /\ Held(a) \subseteq {prob} \cup Batch("tmplDft")
    <3>1. a = Here(p, 11, p.i)
      BY <1>1, <1>5, <1>16, <2>2, NextPlace DEF a
    <3>2. a \in Places /\ Sent(a) = CrossSent(11, p.i) /\ Waited(a) = CrossWaited(p.round = 1, 11, p.i)
          /\ Held(a) = CrossHeld(p.round = 1, 11, p.i)
      BY <1>1, <1>5, <1>4, <1>16, <3>1
    <3>3. QED
      BY <1>1, <1>5, <1>16, <3>2 DEF CrossSent, CrossWaited, CrossHeld
  <2>5. OtherFits(p, a)
    BY <1>1, <1>5, <2>2, <2>3, <2>4 DEF OtherFits
  <2>6. QED
    BY <1>1, <1>5, <2>2, <2>3, <2>4, <2>5, SfFftAssumption DEF Disciplined, a
<1>17. CASE p.line = 11
  <2>1. InstrAt(p) = Link(crossIfft)
    BY <1>2, <1>17 DEF gaussCrossCorrelation
  <2>2. /\ InstrAt(p).op = "link" /\ InstrAt(p).loop = 0
        /\ InstrAt(p).cmd = crossIfft
    BY <2>1 DEF Link, Instruction
  <2>3. Sent(p) = 2 * N /\ Waited(p) = 2 * N /\ Held(p) = {prob} \cup Batch("tmplDft")
    BY <1>1, <1>5, <1>3, <1>17 DEF CrossSent, CrossWaited, CrossHeld
  <2>4. a \in Places /\ Sent(a) = 2 * N + 1 /\ Waited(a) = 2 * N /\ Held(a) \subseteq {prob} \cup Batch("tmplDft")
    <3>1. a = Here(p, 12, p.i)
      BY <1>1, <1>5, <1>17, <2>2, NextPlace DEF a
    <3>2. a \in Places /\ Sent(a) = CrossSent(12, p.i) /\ Waited(a) = CrossWaited(p.round = 1, 12, p.i)
          /\ Held(a) = CrossHeld(p.round = 1, 12, p.i)
      BY <1>1, <1>5, <1>4, <1>17, <3>1
    <3>3. QED
      BY <1>1, <1>5, <1>17, <3>2 DEF CrossSent, CrossWaited, CrossHeld
  <2>5. crossIfft = Nth(Sent(p) + 1) /\ crossIfft.dst = kzx
    <3>1. PICK m \in Int : m = Sent(p) + 1 /\ m = 2 * N + 1
      BY <1>1, <1>5, <2>3
    <3>2. Nth(m) = crossIfft
      BY <1>1, <1>5, <3>1, NthFacts, SfFftAssumption
    <3>3. QED
      BY <3>1, <3>2 DEF crossIfft, Command
  <2>6. \A k \in Waited(p) + 1 .. Sent(p) : Nth(k).dst # kzx
    BY <1>1, <1>5, <2>3
  <2>7. LinkFits(p, a)
    <3>1. Held(a) \subseteq Held(p) \ {kzx}
      BY <1>1, <1>5, <2>3, <2>4 DEF prob, kzx, Batch
    <3>2. QED
      BY <1>1, <1>5, <2>2, <2>3, <2>4, <2>5, <2>6, <3>1 DEF LinkFits
  <2>8. QED
    BY <1>1, <1>5, <2>2, <2>3, <2>4, <2>7 DEF Disciplined, a
<1>18. CASE p.line = 12
  <2>1. InstrAt(p) = Post
    BY <1>2, <1>18 DEF gaussCrossCorrelation
  <2>2. /\ InstrAt(p).op = "post" /\ InstrAt(p).loop = 0
    BY <2>1 DEF Post, Instruction
  <2>3. Sent(p) = 2 * N + 1 /\ Waited(p) = 2 * N /\ Held(p) = {prob} \cup Batch("tmplDft")
    BY <1>1, <1>5, <1>3, <1>18 DEF CrossSent, CrossWaited, CrossHeld
  <2>4. a \in Places /\ Sent(a) = 2 * N + 1 /\ Waited(a) = 2 * N /\ Held(a) \subseteq {prob} \cup Batch("tmplDft")
    <3>1. a = Here(p, 13, p.i)
      BY <1>1, <1>5, <1>18, <2>2, NextPlace DEF a
    <3>2. a \in Places /\ Sent(a) = CrossSent(13, p.i) /\ Waited(a) = CrossWaited(p.round = 1, 13, p.i)
          /\ Held(a) = CrossHeld(p.round = 1, 13, p.i)
      BY <1>1, <1>5, <1>4, <1>18, <3>1
    <3>3. QED
      BY <1>1, <1>5, <1>18, <3>2 DEF CrossSent, CrossWaited, CrossHeld
  <2>5. OtherFits(p, a)
    BY <1>1, <1>5, <2>2, <2>3, <2>4 DEF OtherFits
  <2>6. QED
    BY <1>1, <1>5, <2>2, <2>3, <2>4, <2>5, SfFftAssumption DEF Disciplined, a
<1>19. CASE p.line = 13
  <2>1. InstrAt(p) = Wait
    BY <1>2, <1>19 DEF gaussCrossCorrelation
  <2>2. /\ InstrAt(p).op = "wait" /\ InstrAt(p).loop = 0
    BY <2>1 DEF Wait, Instruction
  <2>3. Sent(p) = 2 * N + 1 /\ Waited(p) = 2 * N /\ Held(p) = {prob} \cup Batch("tmplDft")
    BY <1>1, <1>5, <1>3, <1>19 DEF CrossSent, CrossWaited, CrossHeld
  <2>4. a \in Places /\ Sent(a) = 2 * N + 1 /\ Waited(a) = 2 * N + 1 /\ Held(a) \subseteq {prob} \cup Batch("tmplDft") \cup {kzx}
    <3>1. a = Here(p, 14, p.i)
      BY <1>1, <1>5, <1>19, <2>2, NextPlace DEF a
    <3>2. a \in Places /\ Sent(a) = CrossSent(14, p.i) /\ Waited(a) = CrossWaited(p.round = 1, 14, p.i)
          /\ Held(a) = CrossHeld(p.round = 1, 14, p.i)
      BY <1>1, <1>5, <1>4, <1>19, <3>1
    <3>3. QED
      BY <1>1, <1>5, <1>19, <3>2 DEF CrossSent, CrossWaited, CrossHeld
  <2>5. Held(a) \subseteq Held(p) \cup {Nth(Waited(p) + 1).dst}
    <3>1. PICK m \in Int : m = Waited(p) + 1 /\ m = 2 * N + 1
      BY <1>1, <1>5, <2>3
    <3>2. Nth(m) = crossIfft
      BY <1>1, <1>5, <3>1, NthFacts, SfFftAssumption
    <3>3. Nth(m).dst = kzx
      BY <3>2 DEF crossIfft, Command
    <3>4. QED
      BY <2>3, <2>4, <3>1, <3>3
  <2>6. WaitFits(p, a)
    BY <1>1, <1>5, <2>3, <2>4, <2>5 DEF WaitFits
  <2>7. QED
    BY <1>1, <1>5, <2>2, <2>3, <2>4, <2>6, SfFftAssumption DEF Disciplined, a
<1>20. CASE p.line = 14
  <2>1. InstrAt(p) = Change({sum})
    BY <1>2, <1>20 DEF gaussCrossCorrelation
  <2>2. /\ InstrAt(p).op = "change" /\ InstrAt(p).loop = 0
        /\ InstrAt(p).bufs = {sum}
    BY <2>1 DEF Change, Instruction
  <2>3. Sent(p) = 2 * N + 1 /\ Waited(p) = 2 * N + 1 /\ Held(p) = {prob} \cup Batch("tmplDft") \cup {kzx}
    BY <1>1, <1>5, <1>3, <1>20 DEF CrossSent, CrossWaited, CrossHeld
  <2>4. a \in Places /\ Sent(a) = 2 * N + 1 /\ Waited(a) = 2 * N + 1 /\ Held(a) \subseteq {prob} \cup Batch("tmplDft") \cup {kzx}
    <3>1. a = Here(p, 15, p.i)
      BY <1>1, <1>5, <1>20, <2>2, NextPlace DEF a
    <3>2. a \in Places /\ Sent(a) = CrossSent(15, p.i) /\ Waited(a) = CrossWaited(p.round = 1, 15, p.i)
          /\ Held(a) = CrossHeld(p.round = 1, 15, p.i)
      BY <1>1, <1>5, <1>4, <1>20, <3>1
    <3>3. QED
      BY <1>1, <1>5, <1>20, <3>2 DEF CrossSent, CrossWaited, CrossHeld
  <2>5. Clear({sum}, p)
    BY <1>1, <1>5, <2>3, NoneUnderWay
  <2>6. OtherFits(p, a)
    BY <1>1, <1>5, <2>2, <2>3, <2>4, <2>5 DEF OtherFits
  <2>7. QED
    BY <1>1, <1>5, <2>2, <2>3, <2>4, <2>6, SfFftAssumption DEF Disciplined, a
<1>21. CASE p.line = 15
  <2>1. InstrAt(p) = Use({kzx})
    BY <1>2, <1>21 DEF gaussCrossCorrelation
  <2>2. /\ InstrAt(p).op = "use" /\ InstrAt(p).loop = 0
        /\ InstrAt(p).bufs = {kzx}
    BY <2>1 DEF Use, Instruction
  <2>3. Sent(p) = 2 * N + 1 /\ Waited(p) = 2 * N + 1 /\ Held(p) = {prob} \cup Batch("tmplDft") \cup {kzx}
    BY <1>1, <1>5, <1>3, <1>21 DEF CrossSent, CrossWaited, CrossHeld
  <2>4. a \in Places /\ Sent(a) = 2 * N + 1 /\ Waited(a) = 2 * N + 1 /\ Held(a) \subseteq {prob} \cup Batch("tmplDft")
    <3>1. a = Here(p, 16, p.i)
      BY <1>1, <1>5, <1>21, <2>2, NextPlace DEF a
    <3>2. a \in Places /\ Sent(a) = CrossSent(16, p.i) /\ Waited(a) = CrossWaited(p.round = 1, 16, p.i)
          /\ Held(a) = CrossHeld(p.round = 1, 16, p.i)
      BY <1>1, <1>5, <1>4, <1>21, <3>1
    <3>3. QED
      BY <1>1, <1>5, <1>21, <3>2 DEF CrossSent, CrossWaited, CrossHeld
  <2>5. {kzx} \subseteq Held(p)
    BY <1>1, <1>5, <2>3
  <2>6. OtherFits(p, a)
    BY <1>1, <1>5, <2>2, <2>3, <2>4, <2>5 DEF OtherFits
  <2>7. QED
    BY <1>1, <1>5, <2>2, <2>3, <2>4, <2>6, SfFftAssumption DEF Disciplined, a
<1>22. CASE p.line = 16
  <2>1. InstrAt(p) = Change({kzx} \cup Batch("crossCmd"))
    BY <1>2, <1>22 DEF gaussCrossCorrelation
  <2>2. /\ InstrAt(p).op = "change" /\ InstrAt(p).loop = 0
        /\ InstrAt(p).bufs = {kzx} \cup Batch("crossCmd")
    BY <2>1 DEF Change, Instruction
  <2>3. Sent(p) = 2 * N + 1 /\ Waited(p) = 2 * N + 1 /\ Held(p) = {prob} \cup Batch("tmplDft")
    BY <1>1, <1>5, <1>3, <1>22 DEF CrossSent, CrossWaited, CrossHeld
  <2>4. a \in Places /\ Sent(a) = 2 * N + 1 /\ Waited(a) = 2 * N + 1 /\ Held(a) \subseteq {prob} \cup Batch("tmplDft")
    <3>1. p.run # 0 /\ p.frame # 0 /\ p.call = 2 /\ Calls(p) = 7 /\ p.run \in Nat
          /\ p.frame \in Nat /\ p.round \in Nat \ {0}
      BY PlaceFacts DEF Part, Calls
    <3>2. a = Place(p.run, p.frame, p.round, 3, 1, 1)
      <4>1. a = Onward(n, p)
        BY <1>1, <1>5, <1>22, <2>2, NextPlace DEF a
      <4>2. QED
        BY <1>1, <1>5, <1>22, <3>1, <4>1 DEF Onward
    <3>3. a \in Places /\ Part(a) = "detect"
      BY <3>1, <3>2, Entry
    <3>4. a.line = 1
      BY <3>2, PlaceFields
    <3>5. QED
      BY <3>3, <3>4 DEF Sent, Waited, Held, DetectSent, DetectWaited, DetectHeld
  <2>5. Clear({kzx} \cup Batch("crossCmd"), p)
    BY <1>1, <1>5, <2>3, NoneUnderWay
  <2>6. OtherFits(p, a)
    BY <1>1, <1>5, <2>2, <2>3, <2>4, <2>5 DEF OtherFits
  <2>7. QED
    BY <1>1, <1>5, <2>2, <2>3, <2>4, <2>6, SfFftAssumption DEF Disciplined, a
<1>23. QED
  BY <1>1, <1>6, <1>7, <1>8, <1>9, <1>10, <1>11, <1>12, <1>13, <1>14, <1>15, <1>16, <1>17, <1>18, <1>19, <1>20, <1>21, <1>22

LEMMA FeaturesFits == ASSUME NEW p \in Places, NEW n, Part(p) = "features" PROVE Disciplined(n, p)
<1> DEFINE a == After(n, p)
<1>1. /\ Lines(p) = 1 /\ p.line = 1 /\ p.i = 1 /\ N \in Int /\ N >= 1
      /\ p.run \in Nat /\ p.frame \in Nat /\ p.round \in Nat \ {0}
  BY PlaceFacts, SfFftAssumption DEF Lines, InLoop
<1>2. \/ p.run # 0 /\ p.frame = 0 /\ p.call = 1 /\ Calls(p) = 5
      \/ p.run # 0 /\ p.frame # 0 /\ p.call \in {1, 4} /\ Calls(p) = 7
  BY PlaceFacts DEF Part, Calls
<1>3. /\ InstrAt(p).op = "change" /\ InstrAt(p).loop = 0 /\ InstrAt(p).bufs = Batch("x")
  <2>1. InstrAt(p) = Change(Batch("x"))
    BY <1>1, TextFacts, NextPlace DEF getFeatures
  <2>2. QED
    BY <2>1 DEF Change, Instruction
<1>4. PICK s \in Int, w \in Int :
          /\ s = Sent(p) /\ w = Waited(p) /\ 0 <= w /\ w <= s
          /\ s = w \/ s = N
  BY <1>1, <1>2 DEF Sent, Waited
<1>5. a = Place(p.run, p.frame, p.round, p.call + 1, 1, 1)
  <2>1. a = Onward(n, p)
    BY <1>1, <1>3, NextPlace
  <2>2. QED
    BY <1>1, <1>2, <2>1 DEF Onward
<1>6. /\ a \in Places
      /\ a.run = p.run /\ a.frame = p.frame /\ a.round = p.round /\ a.call = p.call + 1
      /\ a.line = 1 /\ a.i = 1
      /\ Part(a) = IF p.frame = 0 THEN "drain" ELSE IF p.call = 1 THEN "cross" ELSE "auto"
  <2>1. /\ a.run = p.run /\ a.frame = p.frame /\ a.round = p.round /\ a.call = p.call + 1
        /\ a.line = 1 /\ a.i = 1
    BY <1>5, PlaceFields
  <2>2. PICK c \in Int : c = p.call + 1
    BY <1>2
  <2>3. a = Place(p.run, p.frame, p.round, c, 1, 1)
    BY <1>5, <2>2
  <2> HIDE DEF a
  <2>4. CASE p.frame = 0
    <3>1. a = Place(p.run, p.frame, p.round, 2, 1, 1)
      BY <1>2, <2>2, <2>3, <2>4
    <3>2. /\ p.run \in Nat /\ p.frame \in Nat /\ p.round \in Nat \ {0} /\ p.run # 0
          /\ p.frame = 0
      BY <1>1, <1>2, <2>4
    <3>3. a \in Places /\ Part(a) = "drain"
      BY <3>1, <3>2, Entry
    <3>4. QED
      BY <2>1, <2>4, <3>3
  <2>5. CASE p.frame # 0 /\ p.call = 1
    <3>1. a = Place(p.run, p.frame, p.round, 2, 1, 1)
      BY <2>2, <2>3, <2>5
    <3>2. /\ p.run \in Nat /\ p.frame \in Nat /\ p.round \in Nat \ {0} /\ p.run # 0
          /\ p.frame # 0
      BY <1>1, <1>2, <2>5
    <3>3. a \in Places /\ Part(a) = "cross"
      BY <3>1, <3>2, Entry
    <3>4. QED
      BY <2>1, <2>5, <3>3
  <2>6. CASE p.frame # 0 /\ p.call = 4
    <3>1. a = Place(p.run, p.frame, p.round, 5, 1, 1)
      BY <2>2, <2>3, <2>6
    <3>2. /\ p.run \in Nat /\ p.frame \in Nat /\ p.round \in Nat \ {0} /\ p.run # 0
          /\ p.frame # 0
      BY <1>1, <1>2, <2>6
    <3>3. a \in Places /\ Part(a) = "auto"
      BY <3>1, <3>2, Entry
    <3>4. QED
      BY <2>1, <2>6, <3>3
  <2>7. QED
    BY <1>2, <2>4, <2>5, <2>6
<1> HIDE DEF a
<1>7. Sent(a) = Sent(p) /\ Waited(a) = Waited(p) /\ Held(a) \subseteq Held(p)
  <2>1. CASE p.frame = 0
    BY <1>1, <1>6, <2>1 DEF Sent, Waited, Held
  <2>2. CASE p.frame # 0 /\ p.call = 1
    BY <1>1, <1>6, <2>2 DEF Sent, Waited, Held, CrossSent, CrossWaited, CrossHeld
  <2>3. CASE p.frame # 0 /\ p.call = 4
    BY <1>1, <1>6, <2>3 DEF Sent, Waited, Held, AutoSent, AutoWaited, AutoHeld
  <2>4. QED
    BY <1>2, <2>1, <2>2, <2>3
<1>8. Clear(Batch("x"), p)
  <2>1. CASE s = w
    BY <1>4, <2>1, NoneUnderWay
  <2>2. CASE s = N
    <3>1. \A k \in 1 .. s : {<<"m_pFFTCmd", k>>, <<"tmpl", k>>, <<"tmplDft", k>>}
                            \cap Batch("x") = {}
      BY DEF Batch
    <3>2. s <= N
      BY <2>2
    <3>3. QED
      BY <1>4, <3>1, <3>2, TemplateClear
  <2>3. QED
    BY <1>4, <2>1, <2>2
<1>9. OtherFits(p, a)
  BY <1>3, <1>7, <1>8 DEF OtherFits
<1>10. QED
  BY <1>3, <1>4, <1>6, <1>9 DEF Disciplined, a

LEMMA DrainLine == ASSUME NEW p \in Places, NEW n, Part(p) = "drain" PROVE Disciplined(n, p)
<1> DEFINE a == After(n, p)
<1>1. /\ Lines(p) = 1 /\ p.line = 1 /\ p.i = 1 /\ N \in Int /\ N >= 1
      /\ p.run \in Nat /\ p.frame \in Nat /\ p.round \in Nat \ {0}
  BY PlaceFacts, SfFftAssumption DEF Lines, InLoop
<1>2. p.run # 0 /\ p.frame = 0 /\ p.call = 2 /\ Calls(p) = 5
  BY PlaceFacts DEF Part, Calls
<1>3. InstrAt(p).op = "drain" /\ InstrAt(p).loop = 0
  <2>1. InstrAt(p) = Drain
    BY <1>1, TextFacts, NextPlace DEF drain
  <2>2. QED
    BY <2>1 DEF Drain, Instruction
<1>4. PICK s \in Int, w \in Int : s = Sent(p) /\ w = Waited(p) /\ 0 <= w /\ w <= s
  BY <1>1, <1>2 DEF Sent, Waited
<1>5. a = Place(p.run, p.frame, p.round, 3, 1, 1)
  <2>1. a = Onward(n, p)
    BY <1>1, <1>3, NextPlace
  <2>2. QED
    BY <1>1, <1>2, <2>1 DEF Onward
<1>6. a \in Places /\ a.line = 1 /\ a.i = 1 /\ Part(a) = "auto"
  <2>1. a.line = 1 /\ a.i = 1
    BY <1>5, PlaceFields
  <2> HIDE DEF a
  <2>2. a \in Places /\ Part(a) = "auto"
    BY <1>1, <1>2, <1>5, Entry
  <2>3. QED
    BY <2>1, <2>2
<1> HIDE DEF a
<1>7. DrainFits(p, a)
  BY <1>1, <1>6 DEF DrainFits, Sent, Waited, Held, AutoSent, AutoWaited, AutoHeld
<1>8. QED
  BY <1>3, <1>4, <1>6, <1>7 DEF Disciplined, a

LEMMA FreeFits == ASSUME NEW p \in Places, NEW n, Part(p) = "free" PROVE Disciplined(n, p)
<1> DEFINE a == After(n, p)
<1>1. /\ Lines(p) = 1 /\ p.line = 1 /\ p.i = 1 /\ N \in Int /\ N >= 1
      /\ p.run \in Nat /\ p.frame \in Nat /\ p.round \in Nat \ {0}
  BY PlaceFacts, SfFftAssumption DEF Lines, InLoop
<1>2. p.run > 0 /\ p.call = Calls(p) /\ p.call # 3
  BY <1>1, PlaceFacts DEF Part, Calls
<1>3. /\ InstrAt(p).op = "change" /\ InstrAt(p).loop = 0 /\ InstrAt(p).bufs = Batch("x")
  <2>1. InstrAt(p) = Change(Batch("x"))
    BY <1>1, TextFacts, NextPlace DEF freeTmplData
  <2>2. QED
    BY <2>1 DEF Change, Instruction
<1>4. PICK s \in Int, w \in Int : s = Sent(p) /\ w = Waited(p) /\ w = 0 /\ s = N /\ Held(p) = {prob}
  BY <1>1 DEF Sent, Waited, Held
<1>5. a = IF p.frame < Updates THEN First(p.run, p.frame + 1) ELSE First(p.run + 1, 0)
  <2>1. a = Onward(n, p)
    BY <1>1, <1>3, NextPlace
  <2>2. ~(p.call < Calls(p))
    BY <1>2, PlaceFacts
  <2>3. QED
    BY <1>1, <1>2, <2>1, <2>2 DEF Onward
<1> HIDE DEF a
<1>6. a \in Places /\ Part(a) = "features" /\ Sent(a) = N /\ Waited(a) = 0 /\ Held(a) = {prob}
  <2>1. CASE a = First(p.run, p.frame + 1)
    <3>1. a = Place(p.run, p.frame + 1, 1, 1, 1, 1)
      BY <2>1 DEF First
    <3>2. a \in Places /\ Part(a) = "features"
      BY <1>1, <1>2, <3>1, Entry
    <3>3. a.frame # 0 /\ a.call = 1 /\ a.round = 1
      BY <1>1, <3>1, PlaceFields
    <3>4. QED
      BY <3>2, <3>3 DEF Sent, Waited, Held
  <2>2. CASE a = First(p.run + 1, 0)
    <3>1. a = Place(p.run + 1, 0, 1, 1, 1, 1)
      BY <2>2 DEF First
    <3>2. a \in Places /\ Part(a) = "features"
      BY <1>1, <1>2, <3>1, Entry
    <3>3. a.frame = 0 /\ a.run # 1
      BY <1>1, <1>2, <3>1, PlaceFields
    <3>4. QED
      BY <3>2, <3>3 DEF Sent, Waited, Held
  <2>3. QED
    BY <1>5, <2>1, <2>2
<1>7. Clear(Batch("x"), p)
  <2>1. \A k \in 1 .. s : {<<"m_pFFTCmd", k>>, <<"tmpl", k>>, <<"tmplDft", k>>}
                          \cap Batch("x") = {}
    BY DEF Batch
  <2>2. s <= N /\ 0 <= w
    BY <1>1, <1>4
  <2>3. QED
    BY <1>4, <2>1, <2>2, TemplateClear
<1>8. OtherFits(p, a)
  BY <1>3, <1>4, <1>6, <1>7 DEF OtherFits
<1>9. QED
  BY <1>1, <1>3, <1>4, <1>6, <1>8 DEF Disciplined, a

\* Every instruction of the trackers agrees with the numbers of its place.
LEMMA ProgramDisciplined == ASSUME NEW p \in Places, NEW n PROVE Disciplined(n, p)
BY PartKinds, PeakFits, FeaturesFits, DrainLine, AutoFits, CrossFits, DetectFits, TrainFits,
   FreeFits

-----------------------------------------------------------------------------
(* What the steps do to the commands under way.                            *)

LEMMA CommandFacts == \A c \in Commands : c # NoCommand
<1> SUFFICES ASSUME NEW n \in Nat PROVE Nth(n).cmd # NoCommand.cmd
  BY DEF Commands
<1>1. NoCommand.cmd = <<"none", 1>>
  BY DEF NoCommand, Command, none
<1>2. \E k : Nth(n).cmd \in {<<"m_pFFTCmd", k>>, <<"crossCmd", k>>, <<"detectCmd", k>>,
                             <<"autoCmd", k>>, <<"trainCmd", k>>, <<"peakCmd", k>>}
  BY DEF Nth, Command, tmplFft, crossFft, crossIfft, detectFft, detectIfft, autoFft, autoIfft,
     trainFft, peakFft
<1>3. QED
  BY <1>1, <1>2

LEMMA ReachedFacts ==
  ASSUME NEW p, NEW n, Disciplined(n, p)
  PROVE  /\ Waited(p) \in Reached(p)
         /\ \A w \in Reached(p) : InstrAt(p).op # "drain" => w = Waited(p)
<1>1. Sent(p) \in Nat /\ Waited(p) \in Nat /\ Waited(p) <= Sent(p)
  BY DEF Disciplined
<1>2. InstrAt(p).op # "drain" => Part(p) # "drain"
  BY DEF Disciplined
<1>3. QED
  BY <1>1, <1>2 DEF Reached

LEMMA OrderedLink ==
  ASSUME NEW p \in Places, NEW n, NEW w \in Int, NEW x \in Int, NEW in \in Int,
         NEW q \in Seq(Commands), NEW f, NEW r, x >= 0, in \in 0 .. 1,
         InstrAt(p).op = "link", Ordered(p, w, x, in, q, f, r)
  PROVE  /\ InstrAt(p).cmd \in Commands
         /\ Ordered(After(n, p), w, x, in, Append(q, InstrAt(p).cmd),
                    f \ {InstrAt(p).cmd.dst}, r)
<1> DEFINE a == After(n, p)
           e == InstrAt(p).cmd
<1>1. /\ LinkFits(p, a) /\ a \in Places /\ Disciplined(n, p)
      /\ Sent(p) \in Nat /\ Waited(p) \in Nat
  BY ProgramDisciplined DEF Disciplined
<1>2. w = Waited(p) /\ Waited(a) \in Reached(a)
  BY <1>1, ProgramDisciplined, ReachedFacts DEF Ordered
<1> HIDE DEF a
<1>3. PICK s \in Int, m \in Int :
          /\ s = Sent(p) /\ m = Len(q) /\ m >= 0 /\ s >= 0
          /\ s + 1 = Sent(a) /\ w = Waited(a)
  BY <1>1, <1>2, LenProperties DEF LinkFits
<1>4. e = Nth(s + 1) /\ e \in Commands
  <2>1. e = Nth(s + 1)
    BY <1>1, <1>3 DEF LinkFits
  <2>2. s + 1 \in Nat
    BY <1>3
  <2>3. QED
    BY <2>1, <2>2 DEF Commands
<1> HIDE DEF e
<1>5. /\ Append(q, e) \in Seq(Commands) /\ Len(Append(q, e)) = m + 1
      /\ \A j \in 1 .. m : Append(q, e)[j] = q[j]
      /\ Append(q, e)[m + 1] = e
  BY <1>3, <1>4, AppendProperties
<1>6. s = w + x + in + m
  BY <1>3 DEF Ordered
<1>7. Sent(a) = w + x + in + Len(Append(q, e))
  <2>1. s + 1 = w + x + in + (m + 1)
    BY <1>6
  <2>2. QED
    BY <1>3, <1>5, <2>1
<1>8. in = 1 => r = Nth(w + x + 1)
  BY DEF Ordered
<1>9. \A j \in 1 .. Len(Append(q, e)) : Append(q, e)[j] = Nth(w + x + in + j)
  <2> SUFFICES ASSUME NEW j \in 1 .. m + 1 PROVE Append(q, e)[j] = Nth(w + x + in + j)
    BY <1>5
  <2>1. CASE j \in 1 .. m
    <3>1. q[j] = Nth(w + x + in + j)
      BY <1>3, <2>1 DEF Ordered
    <3>2. QED
      BY <1>5, <2>1, <3>1
  <2>2. CASE j = m + 1
    <3>1. w + x + in + j = s + 1
      BY <1>6, <2>2
    <3>2. QED
      BY <1>4, <1>5, <2>2, <3>1
  <2>3. j \in 1 .. m \/ j = m + 1
    BY <1>3
  <2>4. QED
    BY <2>1, <2>2, <2>3
<1>10. \A k \in w + 1 .. w + x : Nth(k).dst \in f \ {e.dst}
  <2> SUFFICES ASSUME NEW k \in w + 1 .. w + x PROVE Nth(k).dst \in f \ {e.dst}
    OBVIOUS
  <2>1. Nth(k).dst \in f
    BY DEF Ordered
  <2>2. k \in w + 1 .. s
    <3>1. k >= w + 1 /\ k <= w + x /\ in >= 0 /\ m >= 0
      BY <1>3
    <3>2. QED
      BY <1>6, <3>1
  <2>3. Nth(k).dst # e.dst
    BY <1>1, <1>2, <1>3, <2>2 DEF LinkFits, e
  <2>4. QED
    BY <2>1, <2>3
<1>11. Held(a) \subseteq f \ {e.dst}
  BY <1>1 DEF LinkFits, Ordered, e
<1>12. w \in Reached(a)
  BY <1>2, <1>3
<1>13. Ordered(a, w, x, in, Append(q, e), f \ {e.dst}, r)
  BY <1>7, <1>8, <1>9, <1>10, <1>11, <1>12 DEF Ordered
<1>14. QED
  BY <1>4, <1>13 DEF a, e

LEMMA OrderedWait ==
  ASSUME NEW p \in Places, NEW n, NEW w \in Int, NEW x \in Int, NEW in \in Int,
         NEW q \in Seq(Commands), NEW f, NEW r, x >= 1, in \in 0 .. 1,
         InstrAt(p).op = "wait", Ordered(p, w, x, in, q, f, r)
  PROVE  Ordered(After(n, p), w + 1, x - 1, in, q, f, r)
<1> DEFINE a == After(n, p)
<1>1. /\ WaitFits(p, a) /\ a \in Places /\ Disciplined(n, p)
      /\ Sent(p) \in Nat /\ Waited(p) \in Nat
  BY ProgramDisciplined DEF Disciplined
<1>2. w = Waited(p) /\ Waited(a) \in Reached(a)
  BY <1>1, ProgramDisciplined, ReachedFacts DEF Ordered
<1> HIDE DEF a
<1>3. PICK s \in Int, m \in Int :
          s = Sent(p) /\ s = Sent(a) /\ m = Len(q) /\ m >= 0 /\ w + 1 = Waited(a)
  BY <1>1, <1>2, LenProperties DEF WaitFits
<1>4. s = w + x + in + m
  BY <1>3 DEF Ordered
<1>5. Sent(a) = (w + 1) + (x - 1) + in + Len(q)
  BY <1>3, <1>4
<1>6. in = 1 => r = Nth((w + 1) + (x - 1) + 1)
  <2>1. (w + 1) + (x - 1) + 1 = w + x + 1
    OBVIOUS
  <2>2. in = 1 => r = Nth(w + x + 1)
    BY DEF Ordered
  <2>3. QED
    BY <2>1, <2>2
<1>7. \A j \in 1 .. Len(q) : q[j] = Nth((w + 1) + (x - 1) + in + j)
  <2> SUFFICES ASSUME NEW j \in 1 .. Len(q) PROVE q[j] = Nth((w + 1) + (x - 1) + in + j)
    OBVIOUS
  <2>1. (w + 1) + (x - 1) + in + j = w + x + in + j
    OBVIOUS
  <2>2. q[j] = Nth(w + x + in + j)
    BY DEF Ordered
  <2>3. QED
    BY <2>1, <2>2
<1>8. \A k \in (w + 1) + 1 .. (w + 1) + (x - 1) : Nth(k).dst \in f
  <2> SUFFICES ASSUME NEW k \in (w + 1) + 1 .. (w + 1) + (x - 1) PROVE Nth(k).dst \in f
    OBVIOUS
  <2>1. k \in w + 1 .. w + x
    OBVIOUS
  <2>2. QED
    BY <2>1 DEF Ordered
<1>9. Held(a) \subseteq f
  <2>1. w + 1 \in w + 1 .. w + x
    OBVIOUS
  <2>2. Nth(w + 1).dst \in f
    BY <2>1 DEF Ordered
  <2>3. QED
    BY <1>1, <1>2, <2>2 DEF WaitFits, Ordered
<1>10. w + 1 \in Reached(a)
  BY <1>2, <1>3
<1>11. QED
  BY <1>5, <1>6, <1>7, <1>8, <1>9, <1>10 DEF Ordered, a

\* One call of the loop that drains the semaphore.
LEMMA OrderedDrain ==
  ASSUME NEW p \in Places, NEW n, NEW w \in Int, NEW x \in Int, NEW in \in Int,
         NEW q \in Seq(Commands), NEW f, NEW r, x >= 1, in \in 0 .. 1,
         InstrAt(p).op = "drain", Ordered(p, w, x, in, q, f, r)
  PROVE  Ordered(p, w + 1, x - 1, in, q, f, r)
<1>1. /\ Part(p) = "drain" /\ Sent(p) \in Nat /\ Waited(p) \in Nat
  BY ProgramDisciplined DEF Disciplined
<1>2. PICK s \in Int, m \in Int, v \in Int :
          s = Sent(p) /\ m = Len(q) /\ m >= 0 /\ v = Waited(p)
  BY <1>1, LenProperties
<1>3. s = w + x + in + m
  BY <1>2 DEF Ordered
<1>4. Sent(p) = (w + 1) + (x - 1) + in + Len(q)
  BY <1>2, <1>3
<1>5. in = 1 => r = Nth((w + 1) + (x - 1) + 1)
  <2>1. (w + 1) + (x - 1) + 1 = w + x + 1
    OBVIOUS
  <2>2. in = 1 => r = Nth(w + x + 1)
    BY DEF Ordered
  <2>3. QED
    BY <2>1, <2>2
<1>6. \A j \in 1 .. Len(q) : q[j] = Nth((w + 1) + (x - 1) + in + j)
  <2> SUFFICES ASSUME NEW j \in 1 .. Len(q) PROVE q[j] = Nth((w + 1) + (x - 1) + in + j)
    OBVIOUS
  <2>1. (w + 1) + (x - 1) + in + j = w + x + in + j
    OBVIOUS
  <2>2. q[j] = Nth(w + x + in + j)
    BY DEF Ordered
  <2>3. QED
    BY <2>1, <2>2
<1>7. \A k \in (w + 1) + 1 .. (w + 1) + (x - 1) : Nth(k).dst \in f
  <2> SUFFICES ASSUME NEW k \in (w + 1) + 1 .. (w + 1) + (x - 1) PROVE Nth(k).dst \in f
    OBVIOUS
  <2>1. k \in w + 1 .. w + x
    OBVIOUS
  <2>2. QED
    BY <2>1 DEF Ordered
<1>8. w + 1 \in Reached(p)
  <2>1. w \in v .. s
    BY <1>1, <1>2 DEF Ordered, Reached
  <2>2. in >= 0
    OBVIOUS
  <2>3. w + 1 \in v .. s
    BY <1>2, <1>3, <2>1, <2>2
  <2>4. QED
    BY <1>1, <1>2, <2>3 DEF Reached
<1>9. Held(p) \subseteq f
  BY DEF Ordered
<1>10. QED
  BY <1>4, <1>5, <1>6, <1>7, <1>8, <1>9 DEF Ordered

\* When no command is under way the numbers may begin anew.
LEMMA OrderedAnew ==
  ASSUME NEW p \in Places, NEW b \in Places, NEW v \in Int, NEW q \in Seq(Commands), q = <<>>,
         NEW f, NEW r, Sent(b) = v, v \in Reached(b), Held(b) \subseteq f
  PROVE  Ordered(b, v, 0, 0, q, f, r)
<1>1. Len(q) = 0
  BY LenProperties, EmptySeq
<1>2. v = v + 0 + 0 + 0 /\ 1 .. 0 = {} /\ v + 1 .. v + 0 = {}
  OBVIOUS
<1>3. QED
  BY <1>1, <1>2 DEF Ordered

LEMMA OrderedOther ==
  ASSUME NEW p \in Places, NEW n, NEW w \in Int, NEW x \in Int, NEW in \in Int,
         NEW q \in Seq(Commands), NEW f, NEW r, x >= 0, in \in 0 .. 1,
         InstrAt(p).op \notin {"link", "wait", "drain"}, Ordered(p, w, x, in, q, f, r)
  PROVE  \E v \in Int : Ordered(After(n, p), v, x, in, q, f, r)
<1> DEFINE a == After(n, p)
<1>1. /\ OtherFits(p, a) /\ a \in Places /\ Disciplined(n, p)
      /\ Sent(p) \in Nat /\ Waited(p) \in Nat
      /\ InstrAt(p).op # "drain"
  BY ProgramDisciplined DEF Disciplined
<1>2. /\ w = Waited(p) /\ Waited(a) \in Reached(a) /\ Waited(a) \in Nat /\ Sent(a) \in Nat
  <2>1. w = Waited(p)
    BY <1>1, ReachedFacts DEF Ordered
  <2>2. Disciplined(n, a)
    BY <1>1, ProgramDisciplined
  <2>3. QED
    BY <2>1, <2>2, ReachedFacts DEF Disciplined
<1> HIDE DEF a
<1>3. Held(a) \subseteq f
  BY <1>1 DEF OtherFits, Ordered
<1>4. CASE Sent(a) = Sent(p) /\ Waited(a) = Waited(p)
  <2>1. Ordered(a, w, x, in, q, f, r)
    BY <1>2, <1>3, <1>4 DEF Ordered
  <2>2. QED
    BY <2>1 DEF a
<1>5. CASE Sent(p) = Waited(p) /\ Sent(a) = Waited(a)
  <2>1. PICK m \in Int : m = Len(q) /\ m >= 0
    BY LenProperties
  <2>2. w = w + x + in + m
    BY <1>2, <1>5, <2>1 DEF Ordered
  <2>3. x = 0 /\ in = 0 /\ m = 0
    <3>1. in >= 0 /\ m >= 0 /\ x >= 0
      BY <2>1
    <3>2. x + in + m = 0
      BY <2>1, <2>2
    <3>3. QED
      BY <2>1, <3>1, <3>2
  <2>4. q = <<>>
    BY <2>1, <2>3, EmptySeq
  <2>5. PICK v \in Int : v = Sent(a) /\ v = Waited(a)
    BY <1>2, <1>5
  <2>6. Ordered(a, v, 0, 0, q, f, r)
    BY <1>1, <1>2, <1>3, <2>4, <2>5, OrderedAnew
  <2>7. Ordered(a, v, x, in, q, f, r)
    BY <2>3, <2>6
  <2>8. QED
    BY <2>7 DEF a
<1>6. QED
  BY <1>1, <1>4, <1>5 DEF OtherFits

LEMMA OrderedGet ==
  ASSUME NEW p \in Places, NEW w \in Int, NEW x \in Int, NEW q \in Seq(Commands),
         NEW f, NEW r, x >= 0, q # <<>>, Ordered(p, w, x, 0, q, f, r)
  PROVE  Ordered(p, w, x, 1, Tail(q), f, Head(q))
<1>1. PICK s \in Int, m \in Int : s = Sent(p) /\ m = Len(q) /\ m >= 0
  BY LenProperties, ProgramDisciplined DEF Disciplined
<1>2. s = w + x + 0 + m
  BY <1>1 DEF Ordered
<1>3. m >= 1 /\ 1 \in 1 .. m
  BY <1>1, EmptySeq
<1>4. /\ Head(q) = q[1] /\ Tail(q) \in Seq(Commands) /\ Len(Tail(q)) = m - 1
      /\ \A j \in 1 .. m - 1 : Tail(q)[j] = q[j + 1]
  BY <1>1, <1>3, HeadTailProperties
<1>5. \A j \in 1 .. m : q[j] = Nth(w + x + 0 + j)
  BY <1>1 DEF Ordered
<1>6. Sent(p) = w + x + 1 + Len(Tail(q))
  BY <1>1, <1>2, <1>4
<1>7. Head(q) = Nth(w + x + 1)
  <2>1. w + x + 0 + 1 = w + x + 1
    OBVIOUS
  <2>2. QED
    BY <1>3, <1>4, <1>5, <2>1
<1>8. \A j \in 1 .. Len(Tail(q)) : Tail(q)[j] = Nth(w + x + 1 + j)
  <2> SUFFICES ASSUME NEW j \in 1 .. m - 1 PROVE Tail(q)[j] = Nth(w + x + 1 + j)
    BY <1>4
  <2>1. j + 1 \in 1 .. m /\ w + x + 0 + (j + 1) = w + x + 1 + j
    BY <1>1
  <2>2. QED
    BY <1>4, <1>5, <2>1
<1>9. QED
  BY <1>6, <1>7, <1>8 DEF Ordered

LEMMA OrderedDone ==
  ASSUME NEW p \in Places, NEW w \in Int, NEW x \in Int, NEW q \in Seq(Commands),
         NEW f, NEW r, NEW r2, x >= 0, Ordered(p, w, x, 1, q, f, r)
  PROVE  Ordered(p, w, x + 1, 0, q, f \cup {r.dst}, r2)
<1>1. PICK s \in Int, m \in Int : s = Sent(p) /\ m = Len(q) /\ m >= 0
  BY LenProperties, ProgramDisciplined DEF Disciplined
<1>2. s = w + x + 1 + m
  BY <1>1 DEF Ordered
<1>3. Sent(p) = w + (x + 1) + 0 + Len(q)
  BY <1>1, <1>2
<1>4. \A j \in 1 .. Len(q) : q[j] = Nth(w + (x + 1) + 0 + j)
  <2> SUFFICES ASSUME NEW j \in 1 .. Len(q) PROVE q[j] = Nth(w + (x + 1) + 0 + j)
    OBVIOUS
  <2>1. w + (x + 1) + 0 + j = w + x + 1 + j
    OBVIOUS
  <2>2. q[j] = Nth(w + x + 1 + j)
    BY DEF Ordered
  <2>3. QED
    BY <2>1, <2>2
<1>5. \A k \in w + 1 .. w + (x + 1) : Nth(k).dst \in f \cup {r.dst}
  <2> SUFFICES ASSUME NEW k \in w + 1 .. w + (x + 1) PROVE Nth(k).dst \in f \cup {r.dst}
    OBVIOUS
  <2>1. CASE k \in w + 1 .. w + x
    BY <2>1 DEF Ordered
  <2>2. CASE k = w + x + 1
    <3>1. r = Nth(w + x + 1)
      BY DEF Ordered
    <3>2. QED
      BY <2>2, <3>1
  <2>3. QED
    BY <2>1, <2>2
<1>6. QED
  BY <1>3, <1>4, <1>5 DEF Ordered

-----------------------------------------------------------------------------
(* The invariant holds and is kept.                                        *)

LEMMA InitIInv == Init => IInv
<1> SUFFICES ASSUME Init PROVE IInv
  OBVIOUS
<1>1. /\ detects \in Detects /\ pc = Place(0, 0, 1, 1, 1, 1) /\ queue = <<>> /\ doneSem = 0
      /\ fftPc = "get" /\ cur = NoCommand /\ fresh = {} /\ raced = FALSE /\ early = FALSE
  BY DEF Init, First
<1>2. pc \in Places /\ Part(pc) = "peak"
  BY <1>1, Entry
<1>3. pc.line = 1
  BY <1>1, PlaceFields
<1>4. Typing
  <2>1. raced \in BOOLEAN /\ early \in BOOLEAN
    BY <1>1, Zenon
  <2>2. queue \in Seq(Commands)
    BY <1>1
  <2>3. QED
    BY <1>1, <1>2, <2>1, <2>2 DEF Typing
<1>5. InOrder
  <2>1. PICK v \in Int : v = Sent(pc) /\ v = Waited(pc)
    BY <1>2, <1>3, SfFftAssumption DEF Sent, Waited, PeakSent, PeakWaited
  <2>2. v \in Reached(pc) /\ Held(pc) \subseteq fresh
    BY <1>2, <1>3, <2>1 DEF Reached, Held
  <2>3. Ordered(pc, v, 0, 0, queue, fresh, cur)
    BY <1>1, <1>2, <1>4, <2>1, <2>2, OrderedAnew DEF Typing
  <2>4. doneSem = 0 /\ InPass = 0
    BY <1>1 DEF InPass
  <2>5. QED
    BY <2>3, <2>4 DEF InOrder
<1>6. QED
  BY <1>4, <1>5 DEF IInv

LEMMA Facts ==
  ASSUME Typing
  PROVE  /\ pc \in Places /\ Disciplined(detects, pc) /\ After(detects, pc) \in Places
         /\ Instr = InstrAt(pc) /\ queue \in Seq(Commands)
         /\ doneSem \in Int /\ doneSem >= 0 /\ InPass \in Int /\ InPass \in 0 .. 1
BY ProgramDisciplined DEF Typing, Disciplined, Instr, InstrAt, InPass

\* Instructions that neither queue nor wait for a command.
LEMMA OtherStep ==
  ASSUME IInv, Instr.op \notin {"link", "wait", "drain"}, pc' = After(detects, pc),
         UNCHANGED <<detects, queue, doneSem, fftPc, cur, fresh, raced, early>>
  PROVE  IInv'
<1>1. Typing
  BY DEF IInv
<1>2. Typing'
  BY <1>1, Facts DEF Typing
<1>3. ASSUME Undisturbed' PROVE InOrder'
  <2>1. PICK w \in Int : Ordered(pc, w, doneSem, InPass, queue, fresh, cur)
    BY <1>3 DEF IInv, Undisturbed, InOrder
  <2>2. PICK v \in Int : Ordered(After(detects, pc), v, doneSem, InPass, queue, fresh, cur)
    BY <1>1, <2>1, Facts, OrderedOther
  <2>3. InPass' = InPass
    BY DEF InPass
  <2>4. QED
    BY <2>2, <2>3 DEF InOrder
<1>4. QED
  BY <1>2, <1>3 DEF IInv

LEMMA LinkStep == ASSUME IInv, EnqueueLink PROVE IInv'
<1>1. Typing
  BY DEF IInv
<1>2. /\ InstrAt(pc).op = "link" /\ pc' = After(detects, pc)
      /\ fresh' = fresh \ {InstrAt(pc).cmd.dst}
      /\ UNCHANGED <<detects, doneSem, fftPc, cur, early>>
  BY <1>1, Facts DEF EnqueueLink, At, Step, fftVars
<1>3. PICK lost \in BOOLEAN :
          /\ lost = (raced \/ (enqueue = "command" /\ queue = <<>>))
          /\ queue' = IF lost THEN queue ELSE Append(queue, InstrAt(pc).cmd)
          /\ raced' = lost
  BY <1>1, Facts DEF EnqueueLink
<1>4. Disciplined(detects, pc)
  BY <1>1, Facts
<1>5. InstrAt(pc).cmd \in Commands
  <2>1. InstrAt(pc).cmd = Nth(Sent(pc) + 1) /\ Sent(pc) + 1 \in Nat
    BY <1>2, <1>4 DEF Disciplined, LinkFits
  <2>2. QED
    BY <2>1 DEF Commands
<1>6. Typing'
  <2>1. queue' \in Seq(Commands)
    BY <1>1, <1>3, <1>5, AppendProperties DEF Typing
  <2>2. pc' \in Places
    BY <1>1, <1>2, Facts
  <2>3. QED
    BY <1>1, <1>2, <1>3, <2>1, <2>2 DEF Typing
<1>7. ASSUME Undisturbed' PROVE InOrder'
  <2>1. ~lost /\ Undisturbed
    BY <1>2, <1>3, <1>7 DEF Undisturbed
  <2>2. PICK w \in Int : Ordered(pc, w, doneSem, InPass, queue, fresh, cur)
    BY <2>1 DEF IInv, InOrder
  <2>3. Ordered(After(detects, pc), w, doneSem, InPass, Append(queue, InstrAt(pc).cmd),
                fresh \ {InstrAt(pc).cmd.dst}, cur)
    BY <1>1, <1>2, <2>2, Facts, OrderedLink
  <2>4. InPass' = InPass
    BY <1>2 DEF InPass
  <2>5. QED
    BY <1>2, <1>3, <2>1, <2>3, <2>4 DEF InOrder
<1>8. QED
  BY <1>6, <1>7 DEF IInv

LEMMA WaitStep == ASSUME IInv, MainWait PROVE IInv'
<1>1. Typing
  BY DEF IInv
<1>2. /\ InstrAt(pc).op = "wait" /\ pc' = After(detects, pc) /\ doneSem >= 1
      /\ doneSem' = doneSem - 1
      /\ UNCHANGED <<detects, queue, fftPc, cur, fresh, raced, early>>
  BY <1>1, Facts DEF MainWait, At, Step, fftVars, ghosts
<1>3. Typing'
  <2>1. doneSem' \in Nat /\ pc' \in Places
    BY <1>1, <1>2, Facts DEF Typing
  <2>2. QED
    BY <1>1, <1>2, <2>1 DEF Typing
<1>4. ASSUME Undisturbed' PROVE InOrder'
  <2>1. PICK w \in Int : Ordered(pc, w, doneSem, InPass, queue, fresh, cur)
    BY <1>2, <1>4 DEF IInv, Undisturbed, InOrder
  <2>2. Ordered(After(detects, pc), w + 1, doneSem - 1, InPass, queue, fresh, cur)
    BY <1>1, <1>2, <2>1, Facts, OrderedWait
  <2>3. InPass' = InPass /\ w + 1 \in Int
    BY <1>2 DEF InPass
  <2>4. QED
    BY <1>2, <2>2, <2>3 DEF InOrder
<1>5. QED
  BY <1>3, <1>4 DEF IInv

LEMMA DrainOneStep == ASSUME IInv, DrainOne PROVE IInv'
<1>1. Typing
  BY DEF IInv
<1>2. /\ InstrAt(pc).op = "drain" /\ doneSem >= 1 /\ doneSem' = doneSem - 1
      /\ UNCHANGED <<detects, pc, queue, fftPc, cur, fresh, raced, early>>
  BY <1>1, Facts DEF DrainOne, At, mainVars, fftVars, ghosts
<1>3. Typing'
  <2>1. doneSem' \in Nat
    BY <1>1, <1>2, Facts
  <2>2. QED
    BY <1>1, <1>2, <2>1 DEF Typing
<1>4. ASSUME Undisturbed' PROVE InOrder'
  <2>1. PICK w \in Int : Ordered(pc, w, doneSem, InPass, queue, fresh, cur)
    BY <1>2, <1>4 DEF IInv, Undisturbed, InOrder
  <2>2. Ordered(pc, w + 1, doneSem - 1, InPass, queue, fresh, cur)
    BY <1>1, <1>2, <2>1, Facts, OrderedDrain
  <2>3. InPass' = InPass /\ w + 1 \in Int
    BY <1>2 DEF InPass
  <2>4. QED
    BY <1>2, <2>2, <2>3 DEF InOrder
<1>5. QED
  BY <1>3, <1>4 DEF IInv

\* The drain ends when the semaphore is empty: unless it was early, so are the queue
\* and the engine.
LEMMA DrainEndStep == ASSUME IInv, DrainEnd PROVE IInv'
<1> DEFINE a == After(detects, pc)
<1>1. Typing
  BY DEF IInv
<1>2. /\ InstrAt(pc).op = "drain" /\ pc' = a /\ doneSem = 0
      /\ early' = (early \/ Outstanding # {})
      /\ UNCHANGED <<detects, queue, doneSem, fftPc, cur, fresh, raced>>
  BY <1>1, Facts DEF DrainEnd, At, Step, fftVars
<1>3. /\ DrainFits(pc, a) /\ a \in Places /\ Disciplined(detects, a)
  BY <1>1, <1>2, Facts, ProgramDisciplined DEF Disciplined
<1> HIDE DEF a
<1>4. Typing'
  <2>1. early' \in BOOLEAN
    BY <1>2, Zenon
  <2>2. QED
    BY <1>1, <1>2, <1>3, <2>1 DEF Typing
<1>5. ASSUME Undisturbed' PROVE InOrder'
  <2>1. Outstanding = {} /\ Undisturbed
    BY <1>2, <1>5 DEF Undisturbed
  <2>2. PICK w \in Int : Ordered(pc, w, doneSem, InPass, queue, fresh, cur)
    BY <2>1 DEF IInv, InOrder
  <2>3. cur = NoCommand /\ ToSet(queue) = {}
    BY <2>1 DEF Outstanding
  <2>4. InPass = 0
    BY <1>1, <2>3, CommandFacts DEF Typing, InPass
  <2>5. queue = <<>>
    <3>1. queue \in Seq(Commands)
      BY <1>1 DEF Typing
    <3>2. 1 .. Len(queue) = {}
      BY <2>3, <3>1, LenProperties DEF ToSet
    <3>3. Len(queue) = 0
      BY <3>1, <3>2, LenProperties
    <3>4. QED
      BY <3>1, <3>3, EmptySeq
  <2>6. PICK v \in Int : v = Sent(a) /\ v = Waited(a)
    BY <1>3 DEF DrainFits, Disciplined
  <2>7. v \in Reached(a) /\ Held(a) \subseteq fresh
    <3>1. v \in Reached(a)
      BY <1>3, <2>6, ReachedFacts
    <3>2. QED
      BY <1>3, <2>2, <3>1 DEF DrainFits, Ordered
  <2>8. Ordered(a, v, 0, 0, queue, fresh, cur)
    BY <1>1, <1>3, <2>5, <2>6, <2>7, Facts, OrderedAnew
  <2>9. InPass' = 0 /\ doneSem' = 0
    BY <1>2, <2>4 DEF InPass
  <2>10. QED
    BY <1>2, <2>8, <2>9 DEF InOrder
<1>6. QED
  BY <1>4, <1>5 DEF IInv

LEMMA GetStep == ASSUME IInv, FftGet PROVE IInv'
<1>1. Typing
  BY DEF IInv
<1>2. /\ fftPc = "get" /\ fftPc' = "pass1" /\ queue # <<>>
      /\ cur' = Head(queue) /\ queue' = Tail(queue)
      /\ UNCHANGED <<detects, pc, doneSem, fresh, raced, early>>
  BY DEF FftGet, mainVars, ghosts
<1>3. Head(queue) \in Commands /\ Tail(queue) \in Seq(Commands)
  BY <1>1, <1>2, HeadTailProperties DEF Typing
<1>4. Typing'
  BY <1>1, <1>2, <1>3 DEF Typing
<1>5. ASSUME Undisturbed' PROVE InOrder'
  <2>1. PICK w \in Int : Ordered(pc, w, doneSem, InPass, queue, fresh, cur)
    BY <1>2, <1>5 DEF IInv, Undisturbed, InOrder
  <2>2. InPass = 0 /\ InPass' = 1
    BY <1>2 DEF InPass
  <2>3. Ordered(pc, w, doneSem, 0, queue, fresh, cur)
    BY <2>1, <2>2
  <2>4. Ordered(pc, w, doneSem, 1, Tail(queue), fresh, Head(queue))
    BY <1>1, <1>2, <2>3, Facts, OrderedGet
  <2>5. QED
    BY <1>2, <2>2, <2>4 DEF InOrder
<1>6. QED
  BY <1>4, <1>5 DEF IInv

LEMMA Pass2Step == ASSUME IInv, FftPass2 PROVE IInv'
<1>1. Typing
  BY DEF IInv
<1>2. /\ fftPc = "pass2" /\ fftPc' = "get" /\ cur' = NoCommand
      /\ fresh' = fresh \cup {cur.dst} /\ doneSem' = doneSem + 1
      /\ UNCHANGED <<detects, pc, queue, raced, early>>
  BY DEF FftPass2, mainVars, ghosts
<1>3. Typing'
  <2>1. doneSem' \in Nat
    BY <1>1, <1>2 DEF Typing
  <2>2. QED
    BY <1>1, <1>2, <2>1 DEF Typing
<1>4. ASSUME Undisturbed' PROVE InOrder'
  <2>1. PICK w \in Int : Ordered(pc, w, doneSem, InPass, queue, fresh, cur)
    BY <1>2, <1>4 DEF IInv, Undisturbed, InOrder
  <2>2. InPass = 1 /\ InPass' = 0
    BY <1>2 DEF InPass
  <2>3. Ordered(pc, w, doneSem, 1, queue, fresh, cur)
    BY <2>1, <2>2
  <2>4. Ordered(pc, w, doneSem + 1, 0, queue, fresh \cup {cur.dst}, NoCommand)
    BY <1>1, <2>3, Facts, OrderedDone
  <2>5. QED
    BY <1>2, <2>2, <2>4 DEF InOrder
<1>5. QED
  BY <1>3, <1>4 DEF IInv

\* Steps that change none of what the invariant is about.
LEMMA QuietStep ==
  ASSUME IInv, UNCHANGED <<detects, pc, queue, doneSem, cur, fresh, raced, early>>,
         \/ fftPc' = fftPc
         \/ fftPc = "pass1" /\ fftPc' = "pass2"
         \/ fftPc = "get" /\ fftPc' = "aborted"
  PROVE  IInv'
<1>1. Typing
  BY DEF IInv
<1>2. Typing'
  BY <1>1 DEF Typing
<1>3. InPass' = InPass
  BY DEF InPass
<1>4. Undisturbed' => InOrder'
  BY <1>3 DEF IInv, Undisturbed, InOrder
<1>5. QED
  BY <1>2, <1>4 DEF IInv

LEMMA NextIInv == IInv /\ [Next]_vars => IInv'
<1> SUFFICES ASSUME IInv, [Next]_vars PROVE IInv'
  OBVIOUS
<1>1. CASE MainCompute
  BY <1>1, OtherStep DEF MainCompute, At, Step, fftVars, ghosts
<1>2. CASE EnqueueRead
  BY <1>2, OtherStep DEF EnqueueRead, At, Step, fftVars, ghosts
<1>3. CASE MainPost
  BY <1>3, OtherStep DEF MainPost, At, Step, fftVars, ghosts
<1>4. CASE FftAbort
  BY <1>4, QuietStep DEF FftAbort, mainVars, ghosts
<1>5. CASE FftPass1
  BY <1>5, QuietStep DEF FftPass1, mainVars, ghosts
<1>6. CASE FFTDoneHandler
  BY <1>6, QuietStep DEF FFTDoneHandler, mainVars, ghosts
<1>7. CASE UNCHANGED vars
  BY <1>7, QuietStep DEF vars, mainVars, fftVars, ghosts
<1>8. QED
  BY <1>1, <1>2, <1>3, <1>4, <1>5, <1>6, <1>7, LinkStep, WaitStep, DrainOneStep, DrainEndStep,
     GetStep, Pass2Step DEF Next, Main, Fft, Idle

-----------------------------------------------------------------------------
(* The theorems.                                                           *)

(* The transforms queued and not waited for are, in that order, done, in   *)
(* service and in the queue, at every place of the tracker's program,      *)
(* unless a command was lost or the semaphore drained early                *)
(* (CKcfTracker.cpp:615-999, FFTTask.cpp:21-74).                           *)
THEOREM Invariant == Spec => []IInv
BY InitIInv, NextIInv, PTL DEF Spec

LEMMA OrderKeepsBuffers == IInv => BuffersInOrder
<1> SUFFICES ASSUME IInv, Undisturbed
             PROVE  /\ At("use") => Instr.bufs \subseteq fresh
                    /\ At("change") => Named(Instr.bufs) = {}
  BY DEF BuffersInOrder
<1>1. Typing
  BY DEF IInv
<1>2. PICK w \in Int : Ordered(pc, w, doneSem, InPass, queue, fresh, cur)
  BY DEF IInv, InOrder
<1>3. /\ Disciplined(detects, pc) /\ Instr = InstrAt(pc)
  BY <1>1, Facts
<1>4. At("use") => Instr.bufs \subseteq fresh
  BY <1>2, <1>3 DEF At, Disciplined, OtherFits, Ordered
<1>5. ASSUME At("change"), NEW c \in Named(Instr.bufs) PROVE FALSE
  <2>1. InstrAt(pc).op = "change"
    BY <1>3, <1>5 DEF At
  <2>2. Clear(Instr.bufs, pc) /\ w = Waited(pc)
    BY <1>2, <1>3, <2>1, ReachedFacts DEF Disciplined, OtherFits, Ordered
  <2>3. PICK s \in Int, x \in Int, in \in Int, m \in Int :
            /\ s = Sent(pc) /\ x = doneSem /\ in = InPass /\ m = Len(queue)
            /\ x >= 0 /\ in >= 0 /\ m >= 0
    BY <1>1, <1>3, Facts, LenProperties DEF Disciplined
  <2>4. s = w + x + in + m
    BY <1>2, <2>3 DEF Ordered
  <2>5. \E k \in w + 1 .. s : c = Nth(k)
    <3>1. CASE c \in ToSet(queue)
      <4>1. PICK j \in 1 .. m : c = queue[j]
        BY <1>1, <2>3, <3>1, LenProperties DEF Typing, ToSet
      <4>2. c = Nth(w + x + in + j)
        BY <1>2, <2>3, <4>1 DEF Ordered
      <4>3. w + x + in + j \in w + 1 .. s
        BY <2>3, <2>4
      <4>4. QED
        BY <4>2, <4>3
    <3>2. CASE c = cur /\ cur # NoCommand
      <4>1. in = 1
        BY <1>1, <2>3, <3>2 DEF Typing, InPass
      <4>2. c = Nth(w + x + 1)
        BY <1>2, <2>3, <3>2, <4>1 DEF Ordered
      <4>3. w + x + 1 \in w + 1 .. s
        BY <2>3, <2>4, <4>1
      <4>4. QED
        BY <4>2, <4>3
    <3>3. QED
      BY <1>5, <3>1, <3>2 DEF Named, Outstanding
  <2>6. {c.cmd, c.src, c.dst} \cap Instr.bufs = {}
    BY <2>2, <2>3, <2>5 DEF Clear
  <2>7. QED
    BY <1>5, <2>6 DEF Named
<1>6. QED
  BY <1>4, <1>5

(* The tracker, which only counts, reads complete results, also those of   *)
(* the template it queued a frame before, and never writes, frees or       *)
(* leaves the scope of a buffer or a command that is queued or served      *)
(* (CKcfTracker.cpp:144-172, 615-999).                                     *)
THEOREM BuffersKept == Spec => []BuffersInOrder
BY Invariant, OrderKeepsBuffers, PTL

=============================================================================
