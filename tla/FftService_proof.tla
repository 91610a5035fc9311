--------------------------- MODULE FftService_proof ---------------------------
(***************************************************************************)
(* Proofs about the FFT service, for any set of tracker cores, any number  *)
(* of requests in a batch and of frames.  There are two halves.  The first *)
(* is about one core's program alone: at every place of it, which of the   *)
(* requests of the frame were sent and waited for so far, and which        *)
(* results the core may therefore take to be complete; every instruction   *)
(* agrees with that (Disciplined).  The second is about the cores and core *)
(* 3 together: what was sent and not waited for is, in that order, posted, *)
(* in service and queued (InOrder).                                        *)
(***************************************************************************)
EXTENDS FftService, SequenceTheorems, TLAPS

Buffers ==
    {"prob", "sum", "kxx", "kzx", "kzxHat", "x", "tmpl", "tmplDft", "zHat", "none"}
        \X (0 .. N)

-----------------------------------------------------------------------------
(* The n-th request of a frame: what is transformed, and where to.         *)

Src(frame, n) ==
    IF frame = 0
    THEN IF n = 1 THEN prob
         ELSE IF n <= N + 1 THEN <<"x", n - 1>>
         ELSE IF n = N + 2 THEN sum ELSE kxx
    ELSE IF n <= N THEN <<"tmpl", n>>
         ELSE IF n <= 2 * N THEN <<"x", n - N>>
         ELSE IF n = 2 * N + 1 THEN sum
         ELSE IF n = 2 * N + 2 THEN kzx
         ELSE IF n = 2 * N + 3 THEN kzxHat
         ELSE IF n <= 3 * N + 3 THEN <<"x", n - (2 * N + 3)>>
         ELSE IF n = 3 * N + 4 THEN sum ELSE kxx

Dst(frame, n) ==
    IF frame = 0
    THEN IF n = 1 THEN prob
         ELSE IF n <= N + 1 THEN <<"tmplDft", n - 1>> ELSE kxx
    ELSE IF n <= N THEN <<"tmplDft", n>>
         ELSE IF n <= 2 * N THEN <<"zHat", n - N>>
         ELSE IF n = 2 * N + 1 THEN kzx
         ELSE IF n = 2 * N + 2 THEN kzxHat
         ELSE IF n = 2 * N + 3 THEN kzx
         ELSE IF n <= 3 * N + 3 THEN <<"tmplDft", n - (2 * N + 3)>> ELSE kxx

(* How many were sent before the call of place p, all of them waited for   *)
(* but those of the template.                                              *)
Base(p) ==
    CASE p.call = 1 -> 0
      [] p.frame = 0 /\ p.call \in {2, 3} -> 1
      [] p.frame = 0 /\ p.call = 4 -> N + 2
      [] p.frame = 0 /\ p.call = 5 -> N + 3
      [] p.frame # 0 /\ p.call \in {2, 3} -> N
      [] p.frame # 0 /\ p.call = 4 -> 2 * N + 1
      [] p.frame # 0 /\ p.call \in {5, 6} -> 2 * N + 3
      [] p.frame # 0 /\ p.call = 7 -> 3 * N + 4
      [] p.frame # 0 /\ p.call = 8 -> 3 * N + 5

InPeak(p) == p.frame = 0 /\ p.call = 1
InAuto(p) == p.call = (IF p.frame = 0 THEN 3 ELSE 6)
InTrain(p) == p.call = (IF p.frame = 0 THEN 4 ELSE 7)
InFree(p) == p.call = (IF p.frame = 0 THEN 5 ELSE 8)
InTemplate(p) == p.frame # 0 /\ p.call = 1
InFeatures(p) == p.call \in (IF p.frame = 0 THEN {2} ELSE {2, 5})
InCross(p) == p.frame # 0 /\ p.call = 3
InDetect(p) == p.frame # 0 /\ p.call = 4

\* The requests of its frame a core has sent when it is at place p.
Sent(p) == Base(p) +
    CASE InPeak(p) -> IF p.line <= 2 THEN 0 ELSE 1
      [] InAuto(p) -> IF p.line = 1 THEN 0 ELSE IF p.line = 2 THEN p.i - 1
                      ELSE IF p.line <= 6 THEN N ELSE N + 1
      [] InTrain(p) -> IF p.line = 1 THEN 0 ELSE 1
      [] InTemplate(p) -> p.i - 1
      [] InCross(p) -> IF p.line = 1 THEN 0 ELSE IF p.line = 2 THEN p.i - 1
                       ELSE IF p.line <= 8 THEN N ELSE N + 1
      [] InDetect(p) -> IF p.line = 1 THEN 0 ELSE IF p.line <= 5 THEN 1 ELSE 2
      [] OTHER -> 0

\* Those it has waited for.
Waited(p) ==
    CASE InPeak(p) \/ InTemplate(p) -> 0
      [] InAuto(p) -> Base(p) + IF p.line <= 2 THEN 0 ELSE IF p.line = 3 THEN p.i - 1
                                ELSE IF p.line = 4 THEN p.i
                                ELSE IF p.line <= 7 THEN N ELSE N + 1
      [] InTrain(p) -> Base(p) + IF p.line <= 2 THEN 0 ELSE 1
      [] InCross(p) -> IF p.line <= 2 THEN 0 ELSE IF p.line = 3 THEN p.i - 1
                       ELSE IF p.line = 4 THEN N ELSE IF p.line = 5 THEN N + p.i - 1
                       ELSE IF p.line = 6 THEN N + p.i
                       ELSE IF p.line <= 9 THEN 2 * N ELSE 2 * N + 1
      [] InDetect(p) -> Base(p) + IF p.line <= 2 THEN 0 ELSE IF p.line <= 6 THEN 1 ELSE 2
      [] InFeatures(p) -> IF p.frame # 0 /\ p.call = 2 THEN 0 ELSE Base(p)
      [] InFree(p) -> Base(p)

\* The results it may take to be complete.
Held(p) ==
    (IF InPeak(p) THEN {} ELSE {prob}) \cup
    (CASE InAuto(p) /\ p.line = 4 -> {<<"tmplDft", p.i>>}
       [] InAuto(p) /\ p.line >= 8 -> {kxx}
       [] InTrain(p) /\ p.line = 3 -> {kxx}
       [] InCross(p) /\ p.line = 3 -> {<<"tmplDft", k>> : k \in 1 .. p.i - 1}
       [] InCross(p) /\ p.line \in {4, 5} -> Batch("tmplDft")
       [] InCross(p) /\ p.line = 6 -> Batch("tmplDft") \cup {<<"zHat", p.i>>}
       [] InCross(p) /\ p.line >= 10 -> {kzx}
       [] InDetect(p) /\ p.line = 3 -> {kzxHat}
       [] InDetect(p) /\ p.line \in {7, 8} -> {kzx}
       [] OTHER -> {})

Lines(p) ==
    CASE InPeak(p) -> 3 [] InFeatures(p) -> 4 [] InAuto(p) -> 10 [] InTrain(p) -> 4
      [] InFree(p) -> 1 [] InTemplate(p) -> 1 [] InCross(p) -> 12 [] InDetect(p) -> 9

InLoop(p) ==
    \/ InTemplate(p)
    \/ InAuto(p) /\ p.line \in 2 .. 4
    \/ InCross(p) /\ p.line \in {2, 3, 5, 6}

Places ==
    {p \in [frame : Nat, call : 1 .. 8, line : 1 .. 12, i : 1 .. N] :
        /\ p.frame = 0 => p.call <= 5
        /\ p.line <= Lines(p)
        /\ p.i = 1 \/ InLoop(p)}

InstrAt(p) == Program(p.frame, p.i)[p.call][p.line]

(* An instruction fits the requests that are under way when it is reached, *)
(* and the next place those after it.                                      *)
SendFits(p, q) ==
    /\ q.frame = p.frame /\ Sent(q) = Sent(p) + 1 /\ Waited(q) = Waited(p)
    /\ InstrAt(p).src = Src(p.frame, Sent(p) + 1)
    /\ InstrAt(p).dst = Dst(p.frame, Sent(p) + 1)
    /\ \A k \in Waited(p) + 1 .. Sent(p) : Dst(p.frame, k) # InstrAt(p).dst
    /\ Held(q) \subseteq Held(p) \ {InstrAt(p).dst}

WaitFits(p, q) ==
    /\ q.frame = p.frame /\ Sent(q) = Sent(p) /\ Waited(q) = Waited(p) + 1
    /\ Waited(p) < Sent(p)
    /\ Held(q) \subseteq Held(p) \cup {Dst(p.frame, Waited(p) + 1)}

OtherFits(p, q) ==
    /\ Held(q) \subseteq Held(p)
    /\ \/ q.frame = p.frame /\ Sent(q) = Sent(p) /\ Waited(q) = Waited(p)
       \/ Sent(p) = Waited(p) /\ Sent(q) = Waited(q)
    /\ InstrAt(p).op \in {"use", "complete"} => InstrAt(p).bufs \subseteq Held(p)
    /\ InstrAt(p).op = "change" =>
         \A k \in Waited(p) + 1 .. Sent(p) :
             Src(p.frame, k) \notin InstrAt(p).bufs /\ Dst(p.frame, k) \notin InstrAt(p).bufs

Disciplined(p) ==
    /\ InstrAt(p).op \in {"send", "wait", "use", "change", "complete", "transpose",
                          "waitTranspose"}
    /\ After(p) \in Places /\ After(p).frame <= p.frame + 1
    /\ Sent(p) \in Nat /\ Waited(p) \in Nat /\ Waited(p) <= Sent(p)
    /\ InstrAt(p).op = "send" => SendFits(p, After(p))
    /\ InstrAt(p).op = "wait" => WaitFits(p, After(p))
    /\ InstrAt(p).op \notin {"send", "wait"} => OtherFits(p, After(p))

-----------------------------------------------------------------------------
(* The inductive invariant.                                                *)

Requests == [core : Cores, src : Buffers, dst : Buffers]

Typing ==
    /\ pc \in [Cores -> Places] /\ \A c \in Cores : pc[c].frame <= Updates + 1
    /\ fresh \in [Cores -> SUBSET Buffers]
    /\ doneSem \in [Cores -> Nat]
    /\ tsps \in [Cores -> {"idle", "busy", "posted"}]
    /\ queue \in [{"high", "normal"} -> Seq(Requests)]
    /\ fftPc \in {"get", "pass1", "pass2", "free", "notify"}
    /\ replyTo \in Cores \cup {0}
    /\ engine \in BOOLEAN /\ hwiSem \in 0 .. 1
    /\ block \in {"held", "free", "again"} /\ misdirected \in BOOLEAN
    /\ sent \in [Cores -> Nat] /\ waited \in [Cores -> Nat]

\* Whom core 3 will notify: until it frees the request, the core it came from.
ServiceInv ==
    /\ fftPc = "get" <=> replyTo = 0
    /\ IF fftPc \in {"pass1", "pass2", "free"}
       THEN cur \in Requests /\ replyTo = cur.core ELSE cur = NoRequest
    /\ block # "held" => fftPc = "notify"
    /\ \A l \in {"high", "normal"} : \A j \in 1 .. Len(queue[l]) :
           Priority(queue[l][j].core) = l

\* Requests of core c that are served or notified, and not waited for.
Posted(c) == doneSem[c] + IF fftPc \in {"free", "notify"} /\ replyTo = c THEN 1 ELSE 0
InPass(c) == IF fftPc \in {"pass1", "pass2"} /\ replyTo = c THEN 1 ELSE 0

Request(c, frame, n) == [core |-> c, src |-> Src(frame, n), dst |-> Dst(frame, n)]

\* At place p of core c: posted of its requests are done, in is one if one is in
\* service, which then is r, and the others are in list q; f are its fresh buffers.
Ordered(c, p, posted, in, q, f, r) ==
    /\ Sent(p) = Waited(p) + posted + in + Len(q)
    /\ in = 1 => r = Request(c, p.frame, Waited(p) + posted + 1)
    /\ \A j \in 1 .. Len(q) : q[j] = Request(c, p.frame, Waited(p) + posted + in + j)
    /\ \A k \in Waited(p) + 1 .. Waited(p) + posted : Dst(p.frame, k) \in f
    /\ Held(p) \subseteq f

InOrder(c) ==
    Ordered(c, pc[c], Posted(c), InPass(c), queue[Priority(c)], fresh[c], cur)

OrderInv == ~misdirected => \A c \in Cores : InOrder(c)

IInv == Typing /\ ServiceInv /\ EveryRequestNotifiedOnce /\ OrderInv

-----------------------------------------------------------------------------
(* What the steps do to the requests of one core under way.                *)

LEMMA OrderedSend ==
  ASSUME NEW c, NEW p \in Places, NEW x \in Int, NEW in \in Int, NEW q \in Seq(Requests),
         NEW f, NEW r, x >= 0, in \in 0 .. 1,
         Disciplined(p), Disciplined(After(p)), InstrAt(p).op = "send",
         Ordered(c, p, x, in, q, f, r),
         NEW e \in Requests,
         e = [core |-> c, src |-> InstrAt(p).src, dst |-> InstrAt(p).dst]
  PROVE  Ordered(c, After(p), x, in, Append(q, e), f \ {InstrAt(p).dst}, r)
<1> DEFINE a == After(p)
<1>1. /\ SendFits(p, a)
      /\ Sent(p) \in Nat /\ Waited(p) \in Nat /\ Sent(a) \in Nat /\ Waited(a) \in Nat
  BY DEF Disciplined
<1> HIDE DEF a
<1>2. PICK s \in Int, w \in Int, n \in Int :
          /\ s = Sent(p) /\ w = Waited(p) /\ n = Len(q) /\ n >= 0 /\ w >= 0
          /\ s + 1 = Sent(a) /\ w = Waited(a)
  BY <1>1, LenProperties DEF SendFits
<1>3. /\ Append(q, e) \in Seq(Requests) /\ Len(Append(q, e)) = n + 1
      /\ \A j \in 1 .. n : Append(q, e)[j] = q[j]
      /\ Append(q, e)[n + 1] = e
  BY <1>2, AppendProperties
<1>4. s = w + x + in + n
  BY <1>2 DEF Ordered
<1>5. a.frame = p.frame
  BY <1>1 DEF SendFits
<1>6. Sent(a) = Waited(a) + x + in + Len(Append(q, e))
  <2>1. s + 1 = w + x + in + (n + 1)
    BY <1>4
  <2>2. QED
    BY <1>2, <1>3, <2>1
<1>7. in = 1 => r = Request(c, a.frame, Waited(a) + x + 1)
  BY <1>2, <1>5 DEF Ordered
<1>8. \A j \in 1 .. Len(Append(q, e)) :
         Append(q, e)[j] = Request(c, a.frame, Waited(a) + x + in + j)
  <2> SUFFICES ASSUME NEW j \in 1 .. n + 1
               PROVE  Append(q, e)[j] = Request(c, p.frame, w + x + in + j)
    BY <1>2, <1>3, <1>5
  <2>1. CASE j \in 1 .. n
    <3>1. q[j] = Request(c, p.frame, w + x + in + j)
      BY <1>2, <2>1 DEF Ordered
    <3>2. QED
      BY <1>3, <2>1, <3>1
  <2>2. CASE j = n + 1
    <3>1. e = Request(c, p.frame, s + 1)
      BY <1>1, <1>2 DEF SendFits, Request
    <3>2. w + x + in + j = s + 1
      BY <1>4, <2>2
    <3>3. QED
      BY <1>3, <2>2, <3>1, <3>2
  <2>3. j \in 1 .. n \/ j = n + 1
    OBVIOUS
  <2>4. QED
    BY <2>1, <2>2, <2>3
<1>9. \A k \in Waited(a) + 1 .. Waited(a) + x : Dst(a.frame, k) \in f \ {InstrAt(p).dst}
  <2> SUFFICES ASSUME NEW k \in w + 1 .. w + x
               PROVE  Dst(p.frame, k) \in f \ {InstrAt(p).dst}
    BY <1>2, <1>5
  <2>1. Dst(p.frame, k) \in f
    BY <1>2 DEF Ordered
  <2>2. k \in w + 1 .. s
    <3>1. n >= 0
      BY <1>2
    <3>2. QED
      BY <1>4, <3>1
  <2>3. Dst(p.frame, k) # InstrAt(p).dst
    BY <1>1, <1>2, <2>2 DEF SendFits
  <2>4. QED
    BY <2>1, <2>3
<1>10. Held(a) \subseteq f \ {InstrAt(p).dst}
  BY <1>1 DEF SendFits, Ordered
<1>11. QED
  BY <1>6, <1>7, <1>8, <1>9, <1>10 DEF Ordered, a

LEMMA OrderedWait ==
  ASSUME NEW c, NEW p \in Places, NEW x \in Int, NEW in \in Int, NEW q \in Seq(Requests),
         NEW f, NEW r, x >= 1, in \in 0 .. 1,
         Disciplined(p), Disciplined(After(p)), InstrAt(p).op = "wait",
         Ordered(c, p, x, in, q, f, r)
  PROVE  Ordered(c, After(p), x - 1, in, q, f, r)
<1> DEFINE a == After(p)
<1>1. /\ WaitFits(p, a)
      /\ Sent(p) \in Nat /\ Waited(p) \in Nat /\ Sent(a) \in Nat /\ Waited(a) \in Nat
  BY DEF Disciplined
<1> HIDE DEF a
<1>2. PICK s \in Int, w \in Int, n \in Int :
          /\ s = Sent(p) /\ w = Waited(p) /\ n = Len(q) /\ n >= 0 /\ w >= 0
          /\ s = Sent(a) /\ w + 1 = Waited(a)
  BY <1>1, LenProperties DEF WaitFits
<1>3. s = w + x + in + n
  BY <1>2 DEF Ordered
<1>4. a.frame = p.frame
  BY <1>1 DEF WaitFits
<1>5. \A d \in Int : (w + 1) + (x - 1) + d = w + x + d
  OBVIOUS
<1>6. Sent(a) = Waited(a) + (x - 1) + in + Len(q)
  BY <1>2, <1>3
<1>7. in = 1 => r = Request(c, a.frame, Waited(a) + (x - 1) + 1)
  <2>1. Waited(a) + (x - 1) + 1 = w + x + 1
    BY <1>2, <1>5
  <2>2. in = 1 => r = Request(c, p.frame, w + x + 1)
    BY <1>2 DEF Ordered
  <2>3. QED
    BY <1>4, <2>1, <2>2
<1>8. \A j \in 1 .. Len(q) : q[j] = Request(c, a.frame, Waited(a) + (x - 1) + in + j)
  <2> SUFFICES ASSUME NEW j \in 1 .. Len(q)
               PROVE  q[j] = Request(c, a.frame, Waited(a) + (x - 1) + in + j)
    OBVIOUS
  <2>1. Waited(a) + (x - 1) + in + j = w + x + in + j
    BY <1>2
  <2>2. q[j] = Request(c, p.frame, w + x + in + j)
    BY <1>2 DEF Ordered
  <2>3. QED
    BY <1>4, <2>1, <2>2
<1>9. \A k \in w + 1 .. w + x : Dst(p.frame, k) \in f
  BY <1>2 DEF Ordered
<1>10. \A k \in Waited(a) + 1 .. Waited(a) + (x - 1) : Dst(a.frame, k) \in f
  <2> SUFFICES ASSUME NEW k \in (w + 1) + 1 .. (w + 1) + (x - 1) PROVE Dst(p.frame, k) \in f
    BY <1>2, <1>4
  <2>1. k \in w + 1 .. w + x
    OBVIOUS
  <2>2. QED
    BY <1>9, <2>1
<1>11. Held(a) \subseteq f
  <2>1. w + 1 \in w + 1 .. w + x
    OBVIOUS
  <2>2. Dst(p.frame, Waited(p) + 1) \in f
    BY <1>2, <1>9, <2>1
  <2>3. QED
    BY <1>1, <2>2 DEF WaitFits, Ordered
<1>12. QED
  BY <1>6, <1>7, <1>8, <1>10, <1>11 DEF Ordered, a

\* Between frames the numbers of the requests begin again, and none is under way.
LEMMA OrderedOther ==
  ASSUME NEW c, NEW p \in Places, NEW x \in Int, NEW in \in Int, NEW q \in Seq(Requests),
         NEW f, NEW r, x >= 0, in \in 0 .. 1,
         Disciplined(p), Disciplined(After(p)), InstrAt(p).op \notin {"send", "wait"},
         Ordered(c, p, x, in, q, f, r)
  PROVE  Ordered(c, After(p), x, in, q, f, r)
<1> DEFINE a == After(p)
<1>1. /\ OtherFits(p, a)
      /\ Sent(p) \in Nat /\ Waited(p) \in Nat /\ Sent(a) \in Nat /\ Waited(a) \in Nat
  BY DEF Disciplined
<1> HIDE DEF a
<1>2. Held(a) \subseteq f
  BY <1>1 DEF OtherFits, Ordered
<1>3. CASE a.frame = p.frame /\ Sent(a) = Sent(p) /\ Waited(a) = Waited(p)
  BY <1>2, <1>3 DEF Ordered, a
<1>4. CASE Sent(p) = Waited(p) /\ Sent(a) = Waited(a)
  <2>1. PICK w \in Int, v \in Int, n \in Int :
            /\ w = Sent(p) /\ w = Waited(p) /\ n = Len(q) /\ n >= 0
            /\ v = Sent(a) /\ v = Waited(a)
    BY <1>1, <1>4, LenProperties
  <2>2. w = w + x + in + n
    BY <2>1 DEF Ordered
  <2>3. x = 0 /\ in = 0 /\ n = 0
    <3>1. in >= 0 /\ n >= 0 /\ x >= 0
      BY <2>1
    <3>2. x + in + n = 0
      BY <2>2
    <3>3. QED
      BY <2>1, <3>1, <3>2
  <2>4. v = v + x + in + n
    BY <2>3
  <2>5. v + 1 .. v + x = {}
    BY <2>3
  <2>6. 1 .. Len(q) = {}
    BY <2>1, <2>3
  <2>7. QED
    BY <1>2, <2>1, <2>3, <2>4, <2>5, <2>6 DEF Ordered, a
<1>5. QED
  BY <1>1, <1>3, <1>4 DEF OtherFits

LEMMA OrderedGet ==
  ASSUME NEW c, NEW p \in Places, NEW x \in Int, NEW q \in Seq(Requests),
         NEW f, NEW r, x >= 0, q # <<>>,
         Disciplined(p), Ordered(c, p, x, 0, q, f, r)
  PROVE  Ordered(c, p, x, 1, Tail(q), f, Head(q))
<1>1. PICK s \in Int, w \in Int, n \in Int :
          s = Sent(p) /\ w = Waited(p) /\ n = Len(q) /\ n >= 0
  BY LenProperties DEF Disciplined
<1>2. s = w + x + 0 + n
  BY <1>1 DEF Ordered
<1>3. n >= 1 /\ 1 \in 1 .. n
  BY <1>1, EmptySeq
<1>4. /\ Head(q) = q[1] /\ Tail(q) \in Seq(Requests) /\ Len(Tail(q)) = n - 1
      /\ \A j \in 1 .. n - 1 : Tail(q)[j] = q[j + 1]
  BY <1>1, <1>3, HeadTailProperties
<1>5. \A j \in 1 .. n : q[j] = Request(c, p.frame, w + x + 0 + j)
  BY <1>1 DEF Ordered
<1>6. Sent(p) = Waited(p) + x + 1 + Len(Tail(q))
  BY <1>1, <1>2, <1>4
<1>7. Head(q) = Request(c, p.frame, Waited(p) + x + 1)
  <2>1. w + x + 0 + 1 = w + x + 1
    OBVIOUS
  <2>2. QED
    BY <1>1, <1>3, <1>4, <1>5, <2>1
<1>8. \A j \in 1 .. Len(Tail(q)) : Tail(q)[j] = Request(c, p.frame, Waited(p) + x + 1 + j)
  <2> SUFFICES ASSUME NEW j \in 1 .. n - 1
               PROVE  Tail(q)[j] = Request(c, p.frame, w + x + 1 + j)
    BY <1>1, <1>4
  <2>1. j + 1 \in 1 .. n /\ w + x + 0 + (j + 1) = w + x + 1 + j
    OBVIOUS
  <2>2. QED
    BY <1>4, <1>5, <2>1
<1>9. QED
  BY <1>6, <1>7, <1>8 DEF Ordered

LEMMA OrderedDone ==
  ASSUME NEW c, NEW p \in Places, NEW x \in Int, NEW q \in Seq(Requests),
         NEW f, NEW r, NEW r2, x >= 0,
         Disciplined(p), Ordered(c, p, x, 1, q, f, r)
  PROVE  Ordered(c, p, x + 1, 0, q, f \cup {r.dst}, r2)
<1>1. PICK s \in Int, w \in Int, n \in Int :
          s = Sent(p) /\ w = Waited(p) /\ n = Len(q) /\ n >= 0
  BY LenProperties DEF Disciplined
<1>2. s = w + x + 1 + n
  BY <1>1 DEF Ordered
<1>3. Sent(p) = Waited(p) + (x + 1) + 0 + Len(q)
  BY <1>1, <1>2
<1>4. \A j \in 1 .. Len(q) : q[j] = Request(c, p.frame, Waited(p) + (x + 1) + 0 + j)
  <2> SUFFICES ASSUME NEW j \in 1 .. Len(q)
               PROVE  q[j] = Request(c, p.frame, w + (x + 1) + 0 + j)
    BY <1>1
  <2>1. w + (x + 1) + 0 + j = w + x + 1 + j
    BY <1>1
  <2>2. q[j] = Request(c, p.frame, w + x + 1 + j)
    BY <1>1 DEF Ordered
  <2>3. QED
    BY <2>1, <2>2
<1>5. \A k \in Waited(p) + 1 .. Waited(p) + (x + 1) : Dst(p.frame, k) \in f \cup {r.dst}
  <2> SUFFICES ASSUME NEW k \in w + 1 .. w + (x + 1) PROVE Dst(p.frame, k) \in f \cup {r.dst}
    BY <1>1
  <2>1. CASE k \in w + 1 .. w + x
    BY <1>1, <2>1 DEF Ordered
  <2>2. CASE k = w + x + 1
    <3>1. r = Request(c, p.frame, w + x + 1)
      BY <1>1 DEF Ordered
    <3>2. QED
      BY <2>2, <3>1 DEF Request
  <2>3. QED
    BY <2>1, <2>2
<1>6. QED
  BY <1>3, <1>4, <1>5 DEF Ordered

LEMMA OrderedKept ==
  ASSUME NEW c, NEW p, NEW x, NEW q, NEW f, NEW r, NEW r2, Ordered(c, p, x, 0, q, f, r)
  PROVE  Ordered(c, p, x, 0, q, f, r2)
BY DEF Ordered

-----------------------------------------------------------------------------
(* The program, place by place.                                            *)

Text(p) == Program(p.frame, p.i)[p.call]
Calls(p) == IF p.frame = 0 THEN 5 ELSE 8

LEMMA PlaceFacts ==
  ASSUME NEW p \in Places
  PROVE  /\ p = [frame |-> p.frame, call |-> p.call, line |-> p.line, i |-> p.i]
         /\ p.frame \in Nat /\ p.call \in 1 .. Calls(p) /\ p.line \in 1 .. Lines(p)
         /\ p.i \in 1 .. N /\ (p.i = 1 \/ InLoop(p))
<1>1. p \in [frame : Nat, call : 1 .. 8, line : 1 .. 12, i : 1 .. N]
  BY DEF Places
<1>2. Lines(p) \in Nat
  <2>1. Lines(p) \in {1, 3, 4, 9, 10, 12}
    BY <1>1 DEF Lines, InPeak, InFeatures, InAuto, InTrain, InFree, InTemplate, InCross,
       InDetect, Places
  <2>2. QED
    BY <2>1
<1>3. QED
  BY <1>1, <1>2 DEF Places, Calls

LEMMA TextFacts ==
  ASSUME NEW p \in Places
  PROVE  /\ Len(Program(p.frame, p.i)) = Calls(p)
         /\ InPeak(p) => Text(p) = createGaussianPeak
         /\ InFeatures(p) => Text(p) = getFeatures
         /\ InAuto(p) => Text(p) = gaussAutoCorrelation(p.i)
         /\ InTrain(p) => Text(p) = train
         /\ InFree(p) => Text(p) = freeTmplData
         /\ InTemplate(p) => Text(p) = templateFft(p.i)
         /\ InCross(p) => Text(p) = gaussCrossCorrelation(p.i)
         /\ InDetect(p) => Text(p) = detect
<1>1. p.i \in 1 .. N /\ p.frame \in Nat
  BY PlaceFacts
<1>2. CASE p.frame = 0
  <2>1. Program(p.frame, p.i) = <<createGaussianPeak, getFeatures,
            gaussAutoCorrelation(p.i), train, freeTmplData>>
    BY <1>1, <1>2 DEF Program, init
  <2> HIDE DEF Program
  <2>2. QED
    BY <1>2, <2>1 DEF Text, Calls, InPeak, InFeatures, InAuto, InTrain, InFree,
       InTemplate, InCross, InDetect
<1>3. CASE p.frame # 0
  <2>1. Program(p.frame, p.i) = <<templateFft(p.i), getFeatures,
            gaussCrossCorrelation(p.i), detect, getFeatures,
            gaussAutoCorrelation(p.i), train, freeTmplData>>
    BY <1>1, <1>3 DEF Program, update
  <2>2. QED
    BY <1>3, <2>1 DEF Text, Calls, InPeak, InFeatures, InAuto, InTrain, InFree,
       InTemplate, InCross, InDetect
<1>4. QED
  BY <1>2, <1>3

LEMMA TextLengths ==
  /\ Len(createGaussianPeak) = 3 /\ Len(getFeatures) = 4 /\ Len(train) = 4
  /\ Len(freeTmplData) = 1 /\ Len(detect) = 9
  /\ \A i : /\ Len(gaussAutoCorrelation(i)) = 10 /\ Len(templateFft(i)) = 1
            /\ Len(gaussCrossCorrelation(i)) = 12
BY DEF createGaussianPeak, getFeatures, train, freeTmplData, detect, gaussAutoCorrelation,
   templateFft, gaussCrossCorrelation

LEMMA PlaceKinds ==
  ASSUME NEW p \in Places
  PROVE  \/ InPeak(p) \/ InFeatures(p) \/ InAuto(p) \/ InTrain(p) \/ InFree(p)
         \/ InTemplate(p) \/ InCross(p) \/ InDetect(p)
<1>1. p.frame \in Nat /\ p.call \in 1 .. Calls(p)
  BY PlaceFacts
<1>2. QED
  BY <1>1 DEF Calls, InPeak, InFeatures, InAuto, InTrain, InFree, InTemplate, InCross,
     InDetect

LEMMA NextPlace ==
  ASSUME NEW p \in Places
  PROVE  /\ InstrAt(p) = Text(p)[p.line]
         /\ InstrAt(p).loop = 0 /\ p.line < Lines(p) =>
              After(p) = Place(p.frame, p.call, p.line + 1, p.i)
         /\ InstrAt(p).loop = 0 /\ p.line = Lines(p) /\ p.call < Calls(p) =>
              After(p) = Place(p.frame, p.call + 1, 1, p.i)
         /\ InstrAt(p).loop = 0 /\ p.line = Lines(p) /\ p.call = Calls(p) =>
              After(p) = Place(p.frame + 1, 1, 1, 1)
         /\ InstrAt(p).loop # 0 /\ p.i < N =>
              After(p) = Place(p.frame, p.call, p.line + 1 - InstrAt(p).loop, p.i + 1)
         /\ InstrAt(p).loop # 0 /\ p.i = N /\ p.line < Lines(p) =>
              After(p) = Place(p.frame, p.call, p.line + 1, 1)
         /\ InstrAt(p).loop # 0 /\ p.i = N /\ p.line = Lines(p) /\ p.call < Calls(p) =>
              After(p) = Place(p.frame, p.call + 1, 1, 1)
<1>1. p.frame \in Nat /\ p.call \in 1 .. 8 /\ p.line \in 1 .. 12 /\ p.i \in 1 .. N
  BY DEF Places
<1>2. Len(Text(p)) = Lines(p) /\ Len(Program(p.frame, p.i)) = Calls(p)
  <2>1. p.frame \in Nat
    BY <1>1
  <2>2. QED
    BY <2>1, TextFacts, TextLengths, PlaceKinds DEF Lines, InPeak, InFeatures, InAuto,
       InTrain, InFree, InTemplate, InCross, InDetect
<1>3. InstrAt(p) = Text(p)[p.line]
  BY DEF InstrAt, Text
<1> DEFINE loop == InstrAt(p).loop
           i == IF loop = 0 THEN p.i ELSE 1
<1>4. After(p) = IF loop # 0 /\ p.i < N
                 THEN Place(p.frame, p.call, p.line + 1 - loop, p.i + 1)
                 ELSE IF p.line < Lines(p) THEN Place(p.frame, p.call, p.line + 1, i)
                 ELSE IF p.call < Calls(p) THEN Place(p.frame, p.call + 1, 1, i)
                 ELSE First(p.frame + 1)
  BY <1>2 DEF After, Text, InstrAt
<1>5. p.line = Lines(p) => ~(p.line < Lines(p))
  BY <1>1
<1>6. p.call = Calls(p) => ~(p.call < Calls(p))
  BY <1>1
<1>7. p.i = N => ~(p.i < N)
  BY <1>1
<1>8. QED
  BY <1>3, <1>4, <1>5, <1>6, <1>7 DEF First

-----------------------------------------------------------------------------
(* Each function fits the requests under way, line by line.                *)

LEMMA PlaceFields ==
  ASSUME NEW f, NEW k, NEW l, NEW j
  PROVE  /\ Place(f, k, l, j).frame = f /\ Place(f, k, l, j).call = k
         /\ Place(f, k, l, j).line = l /\ Place(f, k, l, j).i = j
BY DEF Place

LEMMA PlaceIn ==
  ASSUME NEW f \in Nat, NEW k \in 1 .. 8, NEW l \in 1 .. 12, NEW j \in 1 .. N,
         f = 0 => k <= 5, l <= Lines(Place(f, k, l, j)),
         j = 1 \/ InLoop(Place(f, k, l, j))
  PROVE  Place(f, k, l, j) \in Places
BY DEF Place, Places

(* Where a function begins.                                                *)
LEMMA Entry ==
  ASSUME NEW f \in Nat, NEW k \in 1 .. 8, f = 0 => k <= 5
  PROVE  LET e == Place(f, k, 1, 1)
         IN  /\ e \in Places /\ e.frame = f
             /\ Held(e) = IF f = 0 /\ k = 1 THEN {} ELSE {prob}
             /\ Sent(e) = Base(e)
             /\ Waited(e) = IF f # 0 /\ k \in {2, 3} THEN 0 ELSE Base(e)
<1> DEFINE e == Place(f, k, 1, 1)
<1>1. e.frame = f /\ e.call = k /\ e.line = 1 /\ e.i = 1
  BY PlaceFields
<1> HIDE DEF e
<1>2. e \in Places
  <2>1. e \in [frame : Nat, call : 1 .. 8, line : 1 .. 12, i : 1 .. N]
    BY ParameterAssumption DEF e, Place
  <2>2. 1 <= Lines(e)
    BY <1>1 DEF Lines, InPeak, InFeatures, InAuto, InTrain, InFree, InTemplate, InCross, InDetect
  <2>3. QED
    BY <1>1, <2>1, <2>2 DEF Places
<1>3. Base(e) \in Int
  BY <1>1, ParameterAssumption DEF Base
<1>4. Held(e) = IF f = 0 /\ k = 1 THEN {} ELSE {prob}
  BY <1>1 DEF Held, InPeak, InAuto, InTrain, InCross, InDetect
<1>5. Sent(e) = Base(e)
  BY <1>1, <1>3 DEF Sent, InPeak, InFeatures, InAuto, InTrain, InFree, InTemplate, InCross,
     InDetect
<1>6. Waited(e) = IF f # 0 /\ k \in {2, 3} THEN 0 ELSE Base(e)
  <2>1. k = 1 => Base(e) = 0
    BY <1>1 DEF Base
  <2>2. CASE f = 0
    BY <1>1, <1>3, <2>1, <2>2 DEF Waited, InPeak, InFeatures, InAuto, InTrain, InFree,
       InTemplate, InCross, InDetect
  <2>3. CASE f # 0
    BY <1>1, <1>3, <2>1, <2>3 DEF Waited, InPeak, InFeatures, InAuto, InTrain, InFree,
       InTemplate, InCross, InDetect
  <2>4. QED
    BY <2>2, <2>3
<1>7. QED
  BY <1>1, <1>2, <1>4, <1>5, <1>6 DEF e

LEMMA PeakFits == ASSUME NEW p \in Places, InPeak(p) PROVE Disciplined(p)
<1> USE ParameterAssumption
<1> DEFINE f == p.frame
           k == p.call
           q(l, j) == Place(f, k, l, j)
           S(l, j) == IF l <= 2 THEN 0 ELSE 1
           W(l, j) == 0
           H(l, j) == {}
<1>1. /\ f \in Nat /\ p.line \in 1 .. 3 /\ p.i \in 1 .. N
      /\ Lines(p) = 3 /\ p = q(p.line, p.i) /\ p.i = 1
      /\ k \in 1 .. 8 /\ f = 0 /\ k = 1
  <2>1. f \in Nat /\ p.line \in 1 .. Lines(p) /\ p.i \in 1 .. N /\ p = q(p.line, p.i)
    BY PlaceFacts DEF Place
  <2>2. k \in 1 .. 8 /\ f = 0 /\ k = 1 /\ Lines(p) = 3
    BY <2>1 DEF Lines, Places, InPeak, InFeatures, InAuto, InTrain, InFree,
       InTemplate, InCross, InDetect
  <2>3. QED
    BY <2>1, <2>2, PlaceFacts DEF InLoop, InPeak, InFeatures, InAuto, InTrain, InFree,
       InTemplate, InCross, InDetect
<1>2. Src(f, 1) = prob /\ Dst(f, 1) = prob
  BY <1>1 DEF Src, Dst
<1>3. ASSUME NEW l \in 1 .. 3, NEW j \in 1 .. N, j = 1
      PROVE  /\ q(l, j) \in Places /\ q(l, j).frame = f
             /\ Sent(q(l, j)) = S(l, j) /\ Waited(q(l, j)) = W(l, j)
             /\ Held(q(l, j)) = H(l, j)
  <2>1. InPeak(q(l, j)) /\ q(l, j).frame = f /\ q(l, j).line = l /\ q(l, j).i = j
    BY <1>1, PlaceFields DEF InPeak
  <2>2. ~InFeatures(q(l, j)) /\ ~InAuto(q(l, j)) /\ ~InTrain(q(l, j)) /\ ~InFree(q(l, j))
        /\ ~InTemplate(q(l, j)) /\ ~InCross(q(l, j)) /\ ~InDetect(q(l, j))
    BY <1>1, PlaceFields DEF InPeak, InFeatures, InAuto, InTrain, InFree,
       InTemplate, InCross, InDetect
  <2>3. Base(q(l, j)) = 0
    BY <1>1, <1>2, PlaceFields DEF Base
  <2>4. q(l, j).call = k
    BY PlaceFields
  <2> HIDE DEF q
  <2>5. Sent(q(l, j)) = S(l, j)
    BY <1>1, <1>2, <2>1, <2>2, <2>3, <2>4 DEF Sent
  <2>6. Waited(q(l, j)) = W(l, j)
    BY <1>1, <1>2, <2>1, <2>2, <2>3, <2>4 DEF Waited
  <2>7. Held(q(l, j)) = H(l, j)
    BY <2>1, <2>2 DEF Held
  <2>8. q(l, j) \in Places
    <3>1. Lines(q(l, j)) = 3
      BY <2>1, <2>2 DEF Lines
    <3>2. j = 1 \/ InLoop(q(l, j))
      BY <1>3, <2>1 DEF InLoop
    <3>3. f = 0 => k <= 5
      BY <1>1
    <3>4. /\ Lines(Place(f, k, l, j)) = 3 /\ l \in 1 .. 12 /\ l <= 3
          /\ j = 1 \/ InLoop(Place(f, k, l, j))
      BY <3>1, <3>2 DEF q
    <3>5. Place(f, k, l, j) \in Places
      BY <1>1, <3>3, <3>4, PlaceIn
    <3>6. QED
      BY <3>5 DEF q
  <2>9. QED
    BY <2>1, <2>5, <2>6, <2>7, <2>8
<1> HIDE DEF S, W, H
<1>4. InstrAt(p) = createGaussianPeak[p.line]
  BY TextFacts, NextPlace
<1>5. CASE p.line = 1
  <2>1. InstrAt(p) = Change({prob})
    BY <1>4, <1>5 DEF createGaussianPeak
  <2>2. /\ InstrAt(p).op = "change" /\ InstrAt(p).loop = 0
        /\ InstrAt(p).bufs = {prob}
    BY <2>1 DEF Change, Instruction
  <2>3. Sent(p) = 0 /\ Waited(p) = 0 /\ Held(p) = {}
    <3>1. Sent(p) = S(1, p.i) /\ Waited(p) = W(1, p.i)
          /\ Held(p) = H(1, p.i)
      BY <1>1, <1>3, <1>5
    <3>2. QED
      BY <1>1, <1>2, <3>1 DEF S, W, H
  <2>4. /\ After(p) \in Places /\ After(p).frame = f
        /\ Sent(After(p)) = 0 /\ Waited(After(p)) = 0
        /\ Held(After(p)) \subseteq {}
    <3>1. After(p) = q(2, p.i)
      BY <1>1, <1>5, <2>2, NextPlace
    <3>2. /\ After(p) \in Places /\ After(p).frame = f
          /\ Sent(After(p)) = S(2, p.i) /\ Waited(After(p)) = W(2, p.i)
          /\ Held(After(p)) = H(2, p.i)
      BY <1>1, <1>3, <1>5, <3>1
    <3>3. QED
      BY <1>1, <1>2, <1>5, <3>2 DEF S, W, H
  <2>5. OtherFits(p, After(p))
    BY <1>1, <1>2, <2>2, <2>3, <2>4 DEF OtherFits
  <2>6. QED
    BY <1>1, <1>2, <2>2, <2>3, <2>4, <2>5 DEF Disciplined
<1>6. CASE p.line = 2
  <2>1. InstrAt(p) = Send(prob, prob)
    BY <1>4, <1>6 DEF createGaussianPeak
  <2>2. /\ InstrAt(p).op = "send" /\ InstrAt(p).loop = 0
        /\ InstrAt(p).src = prob /\ InstrAt(p).dst = prob
    BY <2>1 DEF Send, Instruction
  <2>3. Sent(p) = 0 /\ Waited(p) = 0 /\ Held(p) = {}
    <3>1. Sent(p) = S(2, p.i) /\ Waited(p) = W(2, p.i)
          /\ Held(p) = H(2, p.i)
      BY <1>1, <1>3, <1>6
    <3>2. QED
      BY <1>1, <1>2, <3>1 DEF S, W, H
  <2>4. /\ After(p) \in Places /\ After(p).frame = f
        /\ Sent(After(p)) = 1 /\ Waited(After(p)) = 0
        /\ Held(After(p)) \subseteq {}
    <3>1. After(p) = q(3, p.i)
      BY <1>1, <1>6, <2>2, NextPlace
    <3>2. /\ After(p) \in Places /\ After(p).frame = f
          /\ Sent(After(p)) = S(3, p.i) /\ Waited(After(p)) = W(3, p.i)
          /\ Held(After(p)) = H(3, p.i)
      BY <1>1, <1>3, <1>6, <3>1
    <3>3. QED
      BY <1>1, <1>2, <1>6, <3>2 DEF S, W, H
  <2>5. SendFits(p, After(p))
    BY <1>1, <1>2, <2>2, <2>3, <2>4 DEF SendFits
  <2>6. QED
    BY <1>1, <1>2, <2>2, <2>3, <2>4, <2>5 DEF Disciplined
<1>7. CASE p.line = 3
  <2>1. InstrAt(p) = Wait
    BY <1>4, <1>7 DEF createGaussianPeak
  <2>2. /\ InstrAt(p).op = "wait" /\ InstrAt(p).loop = 0
    BY <2>1 DEF Wait, Instruction
  <2>3. Sent(p) = 1 /\ Waited(p) = 0 /\ Held(p) = {}
    <3>1. Sent(p) = S(3, p.i) /\ Waited(p) = W(3, p.i)
          /\ Held(p) = H(3, p.i)
      BY <1>1, <1>3, <1>7
    <3>2. QED
      BY <1>1, <1>2, <3>1 DEF S, W, H
  <2>4. /\ After(p) \in Places /\ After(p).frame = f
        /\ Sent(After(p)) = 1 /\ Waited(After(p)) = 1
        /\ Held(After(p)) \subseteq {prob}
    <3>1. After(p) = Place(f, 2, 1, 1)
      BY <1>1, <1>7, <2>2, NextPlace DEF Calls
    <3>2. /\ After(p) \in Places /\ After(p).frame = f /\ Held(After(p)) = {prob}
          /\ Sent(After(p)) = Base(After(p)) /\ Waited(After(p)) = Base(After(p))
      BY <1>1, <3>1, Entry
    <3>3. Base(After(p)) = 1
      BY <1>1, <1>2, <3>1, PlaceFields DEF Base
    <3>4. QED
      BY <1>1, <1>2, <3>2, <3>3
  <2>5. WaitFits(p, After(p))
    BY <1>1, <1>2, <2>2, <2>3, <2>4 DEF WaitFits
  <2>6. QED
    BY <1>1, <1>2, <2>2, <2>3, <2>4, <2>5 DEF Disciplined
<1>8. QED
  BY <1>1, <1>5, <1>6, <1>7

LEMMA FeaturesFits == ASSUME NEW p \in Places, InFeatures(p) PROVE Disciplined(p)
<1> USE ParameterAssumption
<1> DEFINE f == p.frame
           k == p.call
           q(l, j) == Place(f, k, l, j)
           S(l, j) == 0
           W(l, j) == 0
           H(l, j) == {prob}
<1>1. /\ f \in Nat /\ p.line \in 1 .. 4 /\ p.i \in 1 .. N
      /\ Lines(p) = 4 /\ p = q(p.line, p.i) /\ p.i = 1
      /\ k \in 1 .. 8 /\ k \in (IF f = 0 THEN {2} ELSE {2, 5})
  <2>1. f \in Nat /\ p.line \in 1 .. Lines(p) /\ p.i \in 1 .. N /\ p = q(p.line, p.i)
    BY PlaceFacts DEF Place
  <2>2. k \in 1 .. 8 /\ k \in (IF f = 0 THEN {2} ELSE {2, 5}) /\ Lines(p) = 4
    BY <2>1 DEF Lines, Places, InPeak, InFeatures, InAuto, InTrain, InFree,
       InTemplate, InCross, InDetect
  <2>3. QED
    BY <2>1, <2>2, PlaceFacts DEF InLoop, InPeak, InFeatures, InAuto, InTrain, InFree,
       InTemplate, InCross, InDetect
<1>2. PICK b \in Int, v \in Int :
          /\ b = (IF f = 0 THEN 1 ELSE IF k = 2 THEN N ELSE 2 * N + 3)
          /\ v = (IF f # 0 /\ k = 2 THEN 0 ELSE b) /\ 0 <= v /\ v <= b
          /\ \A n \in v + 1 .. b : /\ Src(f, n) \notin Batch("x")
                                  /\ Dst(f, n) \notin Batch("x")
  <2>1. CASE f = 0
    BY <2>1
  <2>2. CASE f # 0 /\ k = 2
    BY <2>2 DEF Src, Dst, Batch
  <2>3. CASE f # 0 /\ k # 2
    BY <2>3
  <2>4. QED
    BY <2>1, <2>2, <2>3
<1>3. ASSUME NEW l \in 1 .. 4, NEW j \in 1 .. N, j = 1
      PROVE  /\ q(l, j) \in Places /\ q(l, j).frame = f
             /\ Sent(q(l, j)) = b + S(l, j) /\ Waited(q(l, j)) = v + W(l, j)
             /\ Held(q(l, j)) = H(l, j)
  <2>1. InFeatures(q(l, j)) /\ q(l, j).frame = f /\ q(l, j).line = l /\ q(l, j).i = j
    BY <1>1, PlaceFields DEF InFeatures
  <2>2. ~InPeak(q(l, j)) /\ ~InAuto(q(l, j)) /\ ~InTrain(q(l, j)) /\ ~InFree(q(l, j))
        /\ ~InTemplate(q(l, j)) /\ ~InCross(q(l, j)) /\ ~InDetect(q(l, j))
    BY <1>1, PlaceFields DEF InPeak, InFeatures, InAuto, InTrain, InFree,
       InTemplate, InCross, InDetect
  <2>3. Base(q(l, j)) = b
    BY <1>1, <1>2, PlaceFields DEF Base
  <2>4. q(l, j).call = k
    BY PlaceFields
  <2> HIDE DEF q
  <2>5. Sent(q(l, j)) = b + S(l, j)
    BY <1>1, <1>2, <2>1, <2>2, <2>3, <2>4 DEF Sent
  <2>6. Waited(q(l, j)) = v + W(l, j)
    BY <1>1, <1>2, <2>1, <2>2, <2>3, <2>4 DEF Waited
  <2>7. Held(q(l, j)) = H(l, j)
    BY <2>1, <2>2 DEF Held
  <2>8. q(l, j) \in Places
    <3>1. Lines(q(l, j)) = 4
      BY <2>1, <2>2 DEF Lines
    <3>2. j = 1 \/ InLoop(q(l, j))
      BY <1>3, <2>1 DEF InLoop
    <3>3. f = 0 => k <= 5
      BY <1>1
    <3>4. /\ Lines(Place(f, k, l, j)) = 4 /\ l \in 1 .. 12 /\ l <= 4
          /\ j = 1 \/ InLoop(Place(f, k, l, j))
      BY <3>1, <3>2 DEF q
    <3>5. Place(f, k, l, j) \in Places
      BY <1>1, <3>3, <3>4, PlaceIn
    <3>6. QED
      BY <3>5 DEF q
  <2>9. QED
    BY <2>1, <2>5, <2>6, <2>7, <2>8
<1> HIDE DEF S, W, H
<1>4. InstrAt(p) = getFeatures[p.line]
  BY TextFacts, NextPlace
<1>5. CASE p.line = 1
  <2>1. InstrAt(p) = Change(Batch("x"))
    BY <1>4, <1>5 DEF getFeatures
  <2>2. /\ InstrAt(p).op = "change" /\ InstrAt(p).loop = 0
        /\ InstrAt(p).bufs = Batch("x")
    BY <2>1 DEF Change, Instruction
  <2>3. Sent(p) = b /\ Waited(p) = v /\ Held(p) = {prob}
    <3>1. Sent(p) = b + S(1, p.i) /\ Waited(p) = v + W(1, p.i)
          /\ Held(p) = H(1, p.i)
      BY <1>1, <1>3, <1>5
    <3>2. QED
      BY <1>1, <1>2, <3>1 DEF S, W, H
  <2>4. /\ After(p) \in Places /\ After(p).frame = f
        /\ Sent(After(p)) = b /\ Waited(After(p)) = v
        /\ Held(After(p)) \subseteq {prob}
    <3>1. After(p) = q(2, p.i)
      BY <1>1, <1>5, <2>2, NextPlace
    <3>2. /\ After(p) \in Places /\ After(p).frame = f
          /\ Sent(After(p)) = b + S(2, p.i) /\ Waited(After(p)) = v + W(2, p.i)
          /\ Held(After(p)) = H(2, p.i)
      BY <1>1, <1>3, <1>5, <3>1
    <3>3. QED
      BY <1>1, <1>2, <1>5, <3>2 DEF S, W, H
  <2>5. OtherFits(p, After(p))
    BY <1>1, <1>2, <2>2, <2>3, <2>4 DEF OtherFits
  <2>6. QED
    BY <1>1, <1>2, <2>2, <2>3, <2>4, <2>5 DEF Disciplined
<1>6. CASE p.line = 2
  <2>1. InstrAt(p) = Transpose
    BY <1>4, <1>6 DEF getFeatures
  <2>2. /\ InstrAt(p).op = "transpose" /\ InstrAt(p).loop = 0
    BY <2>1 DEF Transpose, Instruction
  <2>3. Sent(p) = b /\ Waited(p) = v /\ Held(p) = {prob}
    <3>1. Sent(p) = b + S(2, p.i) /\ Waited(p) = v + W(2, p.i)
          /\ Held(p) = H(2, p.i)
      BY <1>1, <1>3, <1>6
    <3>2. QED
      BY <1>1, <1>2, <3>1 DEF S, W, H
  <2>4. /\ After(p) \in Places /\ After(p).frame = f
        /\ Sent(After(p)) = b /\ Waited(After(p)) = v
        /\ Held(After(p)) \subseteq {prob}
    <3>1. After(p) = q(3, p.i)
      BY <1>1, <1>6, <2>2, NextPlace
    <3>2. /\ After(p) \in Places /\ After(p).frame = f
          /\ Sent(After(p)) = b + S(3, p.i) /\ Waited(After(p)) = v + W(3, p.i)
          /\ Held(After(p)) = H(3, p.i)
      BY <1>1, <1>3, <1>6, <3>1
    <3>3. QED
      BY <1>1, <1>2, <1>6, <3>2 DEF S, W, H
  <2>5. OtherFits(p, After(p))
    BY <1>1, <1>2, <2>2, <2>3, <2>4 DEF OtherFits
  <2>6. QED
    BY <1>1, <1>2, <2>2, <2>3, <2>4, <2>5 DEF Disciplined
<1>7. CASE p.line = 3
  <2>1. InstrAt(p) = WaitTranspose
    BY <1>4, <1>7 DEF getFeatures
  <2>2. /\ InstrAt(p).op = "waitTranspose" /\ InstrAt(p).loop = 0
    BY <2>1 DEF WaitTranspose, Instruction
  <2>3. Sent(p) = b /\ Waited(p) = v /\ Held(p) = {prob}
    <3>1. Sent(p) = b + S(3, p.i) /\ Waited(p) = v + W(3, p.i)
          /\ Held(p) = H(3, p.i)
      BY <1>1, <1>3, <1>7
    <3>2. QED
      BY <1>1, <1>2, <3>1 DEF S, W, H
  <2>4. /\ After(p) \in Places /\ After(p).frame = f
        /\ Sent(After(p)) = b /\ Waited(After(p)) = v
        /\ Held(After(p)) \subseteq {prob}
    <3>1. After(p) = q(4, p.i)
      BY <1>1, <1>7, <2>2, NextPlace
    <3>2. /\ After(p) \in Places /\ After(p).frame = f
          /\ Sent(After(p)) = b + S(4, p.i) /\ Waited(After(p)) = v + W(4, p.i)
          /\ Held(After(p)) = H(4, p.i)
      BY <1>1, <1>3, <1>7, <3>1
    <3>3. QED
      BY <1>1, <1>2, <1>7, <3>2 DEF S, W, H
  <2>5. OtherFits(p, After(p))
    BY <1>1, <1>2, <2>2, <2>3, <2>4 DEF OtherFits
  <2>6. QED
    BY <1>1, <1>2, <2>2, <2>3, <2>4, <2>5 DEF Disciplined
<1>8. CASE p.line = 4
  <2>1. InstrAt(p) = Change(Batch("x"))
    BY <1>4, <1>8 DEF getFeatures
  <2>2. /\ InstrAt(p).op = "change" /\ InstrAt(p).loop = 0
        /\ InstrAt(p).bufs = Batch("x")
    BY <2>1 DEF Change, Instruction
  <2>3. Sent(p) = b /\ Waited(p) = v /\ Held(p) = {prob}
    <3>1. Sent(p) = b + S(4, p.i) /\ Waited(p) = v + W(4, p.i)
          /\ Held(p) = H(4, p.i)
      BY <1>1, <1>3, <1>8
    <3>2. QED
      BY <1>1, <1>2, <3>1 DEF S, W, H
  <2>4. /\ After(p) \in Places /\ After(p).frame = f
        /\ Sent(After(p)) = b /\ Waited(After(p)) = v
        /\ Held(After(p)) \subseteq {prob}
    <3>1. After(p) = Place(f, k + 1, 1, 1)
      BY <1>1, <1>8, <2>2, NextPlace DEF Calls
    <3>2. /\ After(p) \in Places /\ After(p).frame = f /\ Held(After(p)) = {prob}
          /\ Sent(After(p)) = Base(After(p)) /\ Waited(After(p)) = IF f # 0 /\ k = 2 THEN 0 ELSE Base(After(p))
      BY <1>1, <3>1, Entry
    <3>3. Base(After(p)) = b
      BY <1>1, <1>2, <3>1, PlaceFields DEF Base
    <3>4. QED
      BY <1>1, <1>2, <3>2, <3>3
  <2>5. OtherFits(p, After(p))
    BY <1>1, <1>2, <2>2, <2>3, <2>4 DEF OtherFits
  <2>6. QED
    BY <1>1, <1>2, <2>2, <2>3, <2>4, <2>5 DEF Disciplined
<1>9. QED
  BY <1>1, <1>5, <1>6, <1>7, <1>8

LEMMA AutoFits == ASSUME NEW p \in Places, InAuto(p) PROVE Disciplined(p)
<1> USE ParameterAssumption
<1> DEFINE f == p.frame
           k == p.call
           q(l, j) == Place(f, k, l, j)
           S(l, j) == IF l = 1 THEN 0 ELSE IF l = 2 THEN j - 1 ELSE IF l <= 6 THEN N ELSE N + 1
           W(l, j) == IF l <= 2 THEN 0 ELSE IF l = 3 THEN j - 1 ELSE IF l = 4 THEN j
                      ELSE IF l <= 7 THEN N ELSE N + 1
           H(l, j) == {prob} \cup (IF l = 4 THEN {<<"tmplDft", j>>}
                                  ELSE IF l >= 8 THEN {kxx} ELSE {})
<1>1. /\ f \in Nat /\ p.line \in 1 .. 10 /\ p.i \in 1 .. N
      /\ Lines(p) = 10 /\ p = q(p.line, p.i) /\ (p.i = 1 \/ p.line \in 2 .. 4)
      /\ k \in 1 .. 8 /\ k = (IF f = 0 THEN 3 ELSE 6)
  <2>1. f \in Nat /\ p.line \in 1 .. Lines(p) /\ p.i \in 1 .. N /\ p = q(p.line, p.i)
    BY PlaceFacts DEF Place
  <2>2. k \in 1 .. 8 /\ k = (IF f = 0 THEN 3 ELSE 6) /\ Lines(p) = 10
    BY <2>1 DEF Lines, Places, InPeak, InFeatures, InAuto, InTrain, InFree,
       InTemplate, InCross, InDetect
  <2>3. QED
    BY <2>1, <2>2, PlaceFacts DEF InLoop, InPeak, InFeatures, InAuto, InTrain, InFree,
       InTemplate, InCross, InDetect
<1>2. PICK b \in Int :
          /\ b = (IF f = 0 THEN 1 ELSE 2 * N + 3) /\ b >= 0
          /\ \A n \in 1 .. N : /\ Src(f, b + n) = <<"x", n>>
                               /\ Dst(f, b + n) = <<"tmplDft", n>>
          /\ Src(f, b + N + 1) = sum /\ Dst(f, b + N + 1) = kxx
  <2>1. CASE f = 0
    BY <2>1 DEF Src, Dst
  <2>2. CASE f # 0
    BY <2>2 DEF Src, Dst
  <2>3. QED
    BY <2>1, <2>2
<1>3. ASSUME NEW l \in 1 .. 10, NEW j \in 1 .. N, j = 1 \/ l \in 2 .. 4
      PROVE  /\ q(l, j) \in Places /\ q(l, j).frame = f
             /\ Sent(q(l, j)) = b + S(l, j) /\ Waited(q(l, j)) = b + W(l, j)
             /\ Held(q(l, j)) = H(l, j)
  <2>1. InAuto(q(l, j)) /\ q(l, j).frame = f /\ q(l, j).line = l /\ q(l, j).i = j
    BY <1>1, PlaceFields DEF InAuto
  <2>2. ~InPeak(q(l, j)) /\ ~InFeatures(q(l, j)) /\ ~InTrain(q(l, j)) /\ ~InFree(q(l, j))
        /\ ~InTemplate(q(l, j)) /\ ~InCross(q(l, j)) /\ ~InDetect(q(l, j))
    BY <1>1, PlaceFields DEF InPeak, InFeatures, InAuto, InTrain, InFree,
       InTemplate, InCross, InDetect
  <2>3. Base(q(l, j)) = b
    BY <1>1, <1>2, PlaceFields DEF Base
  <2>4. q(l, j).call = k
    BY PlaceFields
  <2> HIDE DEF q
  <2>5. Sent(q(l, j)) = b + S(l, j)
    BY <1>1, <1>2, <2>1, <2>2, <2>3, <2>4 DEF Sent
  <2>6. Waited(q(l, j)) = b + W(l, j)
    BY <1>1, <1>2, <2>1, <2>2, <2>3, <2>4 DEF Waited
  <2>7. Held(q(l, j)) = H(l, j)
    BY <2>1, <2>2 DEF Held
  <2>8. q(l, j) \in Places
    <3>1. Lines(q(l, j)) = 10
      BY <2>1, <2>2 DEF Lines
    <3>2. j = 1 \/ InLoop(q(l, j))
      BY <1>3, <2>1 DEF InLoop
    <3>3. f = 0 => k <= 5
      BY <1>1
    <3>4. /\ Lines(Place(f, k, l, j)) = 10 /\ l \in 1 .. 12 /\ l <= 10
          /\ j = 1 \/ InLoop(Place(f, k, l, j))
      BY <3>1, <3>2 DEF q
    <3>5. Place(f, k, l, j) \in Places
      BY <1>1, <3>3, <3>4, PlaceIn
    <3>6. QED
      BY <3>5 DEF q
  <2>9. QED
    BY <2>1, <2>5, <2>6, <2>7, <2>8
<1> HIDE DEF S, W, H
<1>4. InstrAt(p) = gaussAutoCorrelation(p.i)[p.line]
  BY TextFacts, NextPlace
<1>5. CASE p.line = 1
  <2>1. InstrAt(p) = Change({sum})
    BY <1>4, <1>5 DEF gaussAutoCorrelation
  <2>2. /\ InstrAt(p).op = "change" /\ InstrAt(p).loop = 0
        /\ InstrAt(p).bufs = {sum}
    BY <2>1 DEF Change, Instruction
  <2>3. Sent(p) = b /\ Waited(p) = b /\ Held(p) = {prob}
    <3>1. Sent(p) = b + S(1, p.i) /\ Waited(p) = b + W(1, p.i)
          /\ Held(p) = H(1, p.i)
      BY <1>1, <1>3, <1>5
    <3>2. QED
      BY <1>1, <1>2, <3>1 DEF S, W, H
  <2>4. /\ After(p) \in Places /\ After(p).frame = f
        /\ Sent(After(p)) = b /\ Waited(After(p)) = b
        /\ Held(After(p)) \subseteq {prob}
    <3>1. After(p) = q(2, p.i)
      BY <1>1, <1>5, <2>2, NextPlace
    <3>2. /\ After(p) \in Places /\ After(p).frame = f
          /\ Sent(After(p)) = b + S(2, p.i) /\ Waited(After(p)) = b + W(2, p.i)
          /\ Held(After(p)) = H(2, p.i)
      BY <1>1, <1>3, <1>5, <3>1
    <3>3. QED
      BY <1>1, <1>2, <1>5, <3>2 DEF S, W, H
  <2>5. OtherFits(p, After(p))
    BY <1>1, <1>2, <2>2, <2>3, <2>4 DEF OtherFits
  <2>6. QED
    BY <1>1, <1>2, <2>2, <2>3, <2>4, <2>5 DEF Disciplined
<1>6. CASE p.line = 2
  <2>1. InstrAt(p) = Loop(1, Send(<<"x", p.i>>, <<"tmplDft", p.i>>))
    BY <1>4, <1>6 DEF gaussAutoCorrelation
  <2>2. /\ InstrAt(p).op = "send" /\ InstrAt(p).loop = 1
        /\ InstrAt(p).src = <<"x", p.i>> /\ InstrAt(p).dst = <<"tmplDft", p.i>>
    BY <2>1 DEF Loop, Send, Instruction
  <2>3. Sent(p) = b + (p.i - 1) /\ Waited(p) = b /\ Held(p) = {prob}
    <3>1. Sent(p) = b + S(2, p.i) /\ Waited(p) = b + W(2, p.i)
          /\ Held(p) = H(2, p.i)
      BY <1>1, <1>3, <1>6
    <3>2. QED
      BY <1>1, <1>2, <3>1 DEF S, W, H
  <2>4. /\ After(p) \in Places /\ After(p).frame = f
        /\ Sent(After(p)) = b + p.i /\ Waited(After(p)) = b
        /\ Held(After(p)) \subseteq {prob}
    <3>1. CASE p.i < N
      <4>1. After(p) = q(2, p.i + 1)
        BY <1>1, <1>6, <2>2, <3>1, NextPlace
      <4>2. /\ After(p) \in Places /\ After(p).frame = f
            /\ Sent(After(p)) = b + S(2, p.i + 1) /\ Waited(After(p)) = b + W(2, p.i + 1)
            /\ Held(After(p)) = H(2, p.i + 1)
        BY <1>1, <1>3, <3>1, <4>1
      <4>3. QED
        BY <1>1, <1>2, <3>1, <4>2 DEF S, W, H
    <3>2. CASE p.i = N
      <4>1. After(p) = q(3, 1)
        BY <1>1, <1>6, <2>2, <3>2, NextPlace
      <4>2. /\ After(p) \in Places /\ After(p).frame = f
            /\ Sent(After(p)) = b + S(3, 1) /\ Waited(After(p)) = b + W(3, 1)
            /\ Held(After(p)) = H(3, 1)
        BY <1>1, <1>3, <3>2, <4>1
      <4>3. QED
        BY <1>1, <1>2, <3>2, <4>2 DEF S, W, H
    <3>3. QED
      BY <1>1, <3>1, <3>2
  <2>5. \A n \in b + 1 .. b + (p.i - 1) : Dst(f, n) # <<"tmplDft", p.i>>
    <3> SUFFICES ASSUME NEW n \in b + 1 .. b + (p.i - 1) PROVE Dst(f, n) # <<"tmplDft", p.i>>
      OBVIOUS
    <3>1. n - b \in 1 .. N /\ n - b # p.i /\ b + (n - b) = n
      BY <1>1
    <3>2. QED
      BY <1>2, <3>1
  <2>6. SendFits(p, After(p))
    BY <1>1, <1>2, <2>2, <2>3, <2>4, <2>5 DEF SendFits, prob
  <2>7. QED
    BY <1>1, <1>2, <2>2, <2>3, <2>4, <2>6 DEF Disciplined
<1>7. CASE p.line = 3
  <2>1. InstrAt(p) = Wait
    BY <1>4, <1>7 DEF gaussAutoCorrelation
  <2>2. /\ InstrAt(p).op = "wait" /\ InstrAt(p).loop = 0
    BY <2>1 DEF Wait, Instruction
  <2>3. Sent(p) = b + N /\ Waited(p) = b + (p.i - 1) /\ Held(p) = {prob}
    <3>1. Sent(p) = b + S(3, p.i) /\ Waited(p) = b + W(3, p.i)
          /\ Held(p) = H(3, p.i)
      BY <1>1, <1>3, <1>7
    <3>2. QED
      BY <1>1, <1>2, <3>1 DEF S, W, H
  <2>4. /\ After(p) \in Places /\ After(p).frame = f
        /\ Sent(After(p)) = b + N /\ Waited(After(p)) = b + p.i
        /\ Held(After(p)) \subseteq {prob, <<"tmplDft", p.i>>}
    <3>1. After(p) = q(4, p.i)
      BY <1>1, <1>7, <2>2, NextPlace
    <3>2. /\ After(p) \in Places /\ After(p).frame = f
          /\ Sent(After(p)) = b + S(4, p.i) /\ Waited(After(p)) = b + W(4, p.i)
          /\ Held(After(p)) = H(4, p.i)
      BY <1>1, <1>3, <1>7, <3>1
    <3>3. QED
      BY <1>1, <1>2, <1>7, <3>2 DEF S, W, H
  <2>5. WaitFits(p, After(p))
    BY <1>1, <1>2, <2>2, <2>3, <2>4 DEF WaitFits
  <2>6. QED
    BY <1>1, <1>2, <2>2, <2>3, <2>4, <2>5 DEF Disciplined
<1>8. CASE p.line = 4
  <2>1. InstrAt(p) = Loop(2, Use({<<"tmplDft", p.i>>}))
    BY <1>4, <1>8 DEF gaussAutoCorrelation
  <2>2. /\ InstrAt(p).op = "use" /\ InstrAt(p).loop = 2
        /\ InstrAt(p).bufs = {<<"tmplDft", p.i>>}
    BY <2>1 DEF Loop, Use, Instruction
  <2>3. Sent(p) = b + N /\ Waited(p) = b + p.i /\ Held(p) = {prob, <<"tmplDft", p.i>>}
    <3>1. Sent(p) = b + S(4, p.i) /\ Waited(p) = b + W(4, p.i)
          /\ Held(p) = H(4, p.i)
      BY <1>1, <1>3, <1>8
    <3>2. QED
      BY <1>1, <1>2, <3>1 DEF S, W, H
  <2>4. /\ After(p) \in Places /\ After(p).frame = f
        /\ Sent(After(p)) = b + N /\ Waited(After(p)) = b + p.i
        /\ Held(After(p)) \subseteq {prob}
    <3>1. CASE p.i < N
      <4>1. After(p) = q(3, p.i + 1)
        BY <1>1, <1>8, <2>2, <3>1, NextPlace
      <4>2. /\ After(p) \in Places /\ After(p).frame = f
            /\ Sent(After(p)) = b + S(3, p.i + 1) /\ Waited(After(p)) = b + W(3, p.i + 1)
            /\ Held(After(p)) = H(3, p.i + 1)
        BY <1>1, <1>3, <3>1, <4>1
      <4>3. QED
        BY <1>1, <1>2, <3>1, <4>2 DEF S, W, H
    <3>2. CASE p.i = N
      <4>1. After(p) = q(5, 1)
        BY <1>1, <1>8, <2>2, <3>2, NextPlace
      <4>2. /\ After(p) \in Places /\ After(p).frame = f
            /\ Sent(After(p)) = b + S(5, 1) /\ Waited(After(p)) = b + W(5, 1)
            /\ Held(After(p)) = H(5, 1)
        BY <1>1, <1>3, <3>2, <4>1
      <4>3. QED
        BY <1>1, <1>2, <3>2, <4>2 DEF S, W, H
    <3>3. QED
      BY <1>1, <3>1, <3>2
  <2>5. OtherFits(p, After(p))
    BY <1>1, <1>2, <2>2, <2>3, <2>4 DEF OtherFits
  <2>6. QED
    BY <1>1, <1>2, <2>2, <2>3, <2>4, <2>5 DEF Disciplined
<1>9. CASE p.line = 5
  <2>1. InstrAt(p) = Change({sum})
    BY <1>4, <1>9 DEF gaussAutoCorrelation
  <2>2. /\ InstrAt(p).op = "change" /\ InstrAt(p).loop = 0
        /\ InstrAt(p).bufs = {sum}
    BY <2>1 DEF Change, Instruction
  <2>3. Sent(p) = b + N /\ Waited(p) = b + N /\ Held(p) = {prob}
    <3>1. Sent(p) = b + S(5, p.i) /\ Waited(p) = b + W(5, p.i)
          /\ Held(p) = H(5, p.i)
      BY <1>1, <1>3, <1>9
    <3>2. QED
      BY <1>1, <1>2, <3>1 DEF S, W, H
  <2>4. /\ After(p) \in Places /\ After(p).frame = f
        /\ Sent(After(p)) = b + N /\ Waited(After(p)) = b + N
        /\ Held(After(p)) \subseteq {prob}
    <3>1. After(p) = q(6, p.i)
      BY <1>1, <1>9, <2>2, NextPlace
    <3>2. /\ After(p) \in Places /\ After(p).frame = f
          /\ Sent(After(p)) = b + S(6, p.i) /\ Waited(After(p)) = b + W(6, p.i)
          /\ Held(After(p)) = H(6, p.i)
      BY <1>1, <1>3, <1>9, <3>1
    <3>3. QED
      BY <1>1, <1>2, <1>9, <3>2 DEF S, W, H
  <2>5. OtherFits(p, After(p))
    BY <1>1, <1>2, <2>2, <2>3, <2>4 DEF OtherFits
  <2>6. QED
    BY <1>1, <1>2, <2>2, <2>3, <2>4, <2>5 DEF Disciplined
<1>10. CASE p.line = 6
  <2>1. InstrAt(p) = Send(sum, kxx)
    BY <1>4, <1>10 DEF gaussAutoCorrelation
  <2>2. /\ InstrAt(p).op = "send" /\ InstrAt(p).loop = 0
        /\ InstrAt(p).src = sum /\ InstrAt(p).dst = kxx
    BY <2>1 DEF Send, Instruction
  <2>3. Sent(p) = b + N /\ Waited(p) = b + N /\ Held(p) = {prob}
    <3>1. Sent(p) = b + S(6, p.i) /\ Waited(p) = b + W(6, p.i)
          /\ Held(p) = H(6, p.i)
      BY <1>1, <1>3, <1>10
    <3>2. QED
      BY <1>1, <1>2, <3>1 DEF S, W, H
  <2>4. /\ After(p) \in Places /\ After(p).frame = f
        /\ Sent(After(p)) = b + N + 1 /\ Waited(After(p)) = b + N
        /\ Held(After(p)) \subseteq {prob}
    <3>1. After(p) = q(7, p.i)
      BY <1>1, <1>10, <2>2, NextPlace
    <3>2. /\ After(p) \in Places /\ After(p).frame = f
          /\ Sent(After(p)) = b + S(7, p.i) /\ Waited(After(p)) = b + W(7, p.i)
          /\ Held(After(p)) = H(7, p.i)
      BY <1>1, <1>3, <1>10, <3>1
    <3>3. QED
      BY <1>1, <1>2, <1>10, <3>2 DEF S, W, H
  <2>5. SendFits(p, After(p))
    BY <1>1, <1>2, <2>2, <2>3, <2>4 DEF SendFits, prob, kxx
  <2>6. QED
    BY <1>1, <1>2, <2>2, <2>3, <2>4, <2>5 DEF Disciplined
<1>11. CASE p.line = 7
  <2>1. InstrAt(p) = Wait
    BY <1>4, <1>11 DEF gaussAutoCorrelation
  <2>2. /\ InstrAt(p).op = "wait" /\ InstrAt(p).loop = 0
    BY <2>1 DEF Wait, Instruction
  <2>3. Sent(p) = b + N + 1 /\ Waited(p) = b + N /\ Held(p) = {prob}
    <3>1. Sent(p) = b + S(7, p.i) /\ Waited(p) = b + W(7, p.i)
          /\ Held(p) = H(7, p.i)
      BY <1>1, <1>3, <1>11
    <3>2. QED
      BY <1>1, <1>2, <3>1 DEF S, W, H
  <2>4. /\ After(p) \in Places /\ After(p).frame = f
        /\ Sent(After(p)) = b + N + 1 /\ Waited(After(p)) = b + N + 1
        /\ Held(After(p)) \subseteq {prob, kxx}
    <3>1. After(p) = q(8, p.i)
      BY <1>1, <1>11, <2>2, NextPlace
    <3>2. /\ After(p) \in Places /\ After(p).frame = f
          /\ Sent(After(p)) = b + S(8, p.i) /\ Waited(After(p)) = b + W(8, p.i)
          /\ Held(After(p)) = H(8, p.i)
      BY <1>1, <1>3, <1>11, <3>1
    <3>3. QED
      BY <1>1, <1>2, <1>11, <3>2 DEF S, W, H
  <2>5. WaitFits(p, After(p))
    BY <1>1, <1>2, <2>2, <2>3, <2>4 DEF WaitFits
  <2>6. QED
    BY <1>1, <1>2, <2>2, <2>3, <2>4, <2>5 DEF Disciplined
<1>12. CASE p.line = 8
  <2>1. InstrAt(p) = Change({sum})
    BY <1>4, <1>12 DEF gaussAutoCorrelation
  <2>2. /\ InstrAt(p).op = "change" /\ InstrAt(p).loop = 0
        /\ InstrAt(p).bufs = {sum}
    BY <2>1 DEF Change, Instruction
  <2>3. Sent(p) = b + N + 1 /\ Waited(p) = b + N + 1 /\ Held(p) = {prob, kxx}
    <3>1. Sent(p) = b + S(8, p.i) /\ Waited(p) = b + W(8, p.i)
          /\ Held(p) = H(8, p.i)
      BY <1>1, <1>3, <1>12
    <3>2. QED
      BY <1>1, <1>2, <3>1 DEF S, W, H
  <2>4. /\ After(p) \in Places /\ After(p).frame = f
        /\ Sent(After(p)) = b + N + 1 /\ Waited(After(p)) = b + N + 1
        /\ Held(After(p)) \subseteq {prob, kxx}
    <3>1. After(p) = q(9, p.i)
      BY <1>1, <1>12, <2>2, NextPlace
    <3>2. /\ After(p) \in Places /\ After(p).frame = f
          /\ Sent(After(p)) = b + S(9, p.i) /\ Waited(After(p)) = b + W(9, p.i)
          /\ Held(After(p)) = H(9, p.i)
      BY <1>1, <1>3, <1>12, <3>1
    <3>3. QED
      BY <1>1, <1>2, <1>12, <3>2 DEF S, W, H
  <2>5. OtherFits(p, After(p))
    BY <1>1, <1>2, <2>2, <2>3, <2>4 DEF OtherFits
  <2>6. QED
    BY <1>1, <1>2, <2>2, <2>3, <2>4, <2>5 DEF Disciplined
<1>13. CASE p.line = 9
  <2>1. InstrAt(p) = Use({kxx})
    BY <1>4, <1>13 DEF gaussAutoCorrelation
  <2>2. /\ InstrAt(p).op = "use" /\ InstrAt(p).loop = 0
        /\ InstrAt(p).bufs = {kxx}
    BY <2>1 DEF Use, Instruction
  <2>3. Sent(p) = b + N + 1 /\ Waited(p) = b + N + 1 /\ Held(p) = {prob, kxx}
    <3>1. Sent(p) = b + S(9, p.i) /\ Waited(p) = b + W(9, p.i)
          /\ Held(p) = H(9, p.i)
      BY <1>1, <1>3, <1>13
    <3>2. QED
      BY <1>1, <1>2, <3>1 DEF S, W, H
  <2>4. /\ After(p) \in Places /\ After(p).frame = f
        /\ Sent(After(p)) = b + N + 1 /\ Waited(After(p)) = b + N + 1
        /\ Held(After(p)) \subseteq {prob, kxx}
    <3>1. After(p) = q(10, p.i)
      BY <1>1, <1>13, <2>2, NextPlace
    <3>2. /\ After(p) \in Places /\ After(p).frame = f
          /\ Sent(After(p)) = b + S(10, p.i) /\ Waited(After(p)) = b + W(10, p.i)
          /\ Held(After(p)) = H(10, p.i)
      BY <1>1, <1>3, <1>13, <3>1
    <3>3. QED
      BY <1>1, <1>2, <1>13, <3>2 DEF S, W, H
  <2>5. OtherFits(p, After(p))
    BY <1>1, <1>2, <2>2, <2>3, <2>4 DEF OtherFits
  <2>6. QED
    BY <1>1, <1>2, <2>2, <2>3, <2>4, <2>5 DEF Disciplined
<1>14. CASE p.line = 10
  <2>1. InstrAt(p) = Change({kxx})
    BY <1>4, <1>14 DEF gaussAutoCorrelation
  <2>2. /\ InstrAt(p).op = "change" /\ InstrAt(p).loop = 0
        /\ InstrAt(p).bufs = {kxx}
    BY <2>1 DEF Change, Instruction
  <2>3. Sent(p) = b + N + 1 /\ Waited(p) = b + N + 1 /\ Held(p) = {prob, kxx}
    <3>1. Sent(p) = b + S(10, p.i) /\ Waited(p) = b + W(10, p.i)
          /\ Held(p) = H(10, p.i)
      BY <1>1, <1>3, <1>14
    <3>2. QED
      BY <1>1, <1>2, <3>1 DEF S, W, H
  <2>4. /\ After(p) \in Places /\ After(p).frame = f
        /\ Sent(After(p)) = b + N + 1 /\ Waited(After(p)) = b + N + 1
        /\ Held(After(p)) \subseteq {prob}
    <3>1. After(p) = Place(f, k + 1, 1, 1)
      BY <1>1, <1>14, <2>2, NextPlace DEF Calls
    <3>2. /\ After(p) \in Places /\ After(p).frame = f /\ Held(After(p)) = {prob}
          /\ Sent(After(p)) = Base(After(p)) /\ Waited(After(p)) = Base(After(p))
      BY <1>1, <3>1, Entry
    <3>3. Base(After(p)) = b + N + 1
      BY <1>1, <1>2, <3>1, PlaceFields DEF Base
    <3>4. QED
      BY <1>1, <1>2, <3>2, <3>3
  <2>5. OtherFits(p, After(p))
    BY <1>1, <1>2, <2>2, <2>3, <2>4 DEF OtherFits
  <2>6. QED
    BY <1>1, <1>2, <2>2, <2>3, <2>4, <2>5 DEF Disciplined
<1>15. QED
  BY <1>1, <1>5, <1>6, <1>7, <1>8, <1>9, <1>10, <1>11, <1>12, <1>13, <1>14

LEMMA TrainFits == ASSUME NEW p \in Places, InTrain(p) PROVE Disciplined(p)
<1> USE ParameterAssumption
<1> DEFINE f == p.frame
           k == p.call
           q(l, j) == Place(f, k, l, j)
           S(l, j) == IF l = 1 THEN 0 ELSE 1
           W(l, j) == IF l <= 2 THEN 0 ELSE 1
           H(l, j) == {prob} \cup (IF l = 3 THEN {kxx} ELSE {})
<1>1. /\ f \in Nat /\ p.line \in 1 .. 4 /\ p.i \in 1 .. N
      /\ Lines(p) = 4 /\ p = q(p.line, p.i) /\ p.i = 1
      /\ k \in 1 .. 8 /\ k = (IF f = 0 THEN 4 ELSE 7)
  <2>1. f \in Nat /\ p.line \in 1 .. Lines(p) /\ p.i \in 1 .. N /\ p = q(p.line, p.i)
    BY PlaceFacts DEF Place
  <2>2. k \in 1 .. 8 /\ k = (IF f = 0 THEN 4 ELSE 7) /\ Lines(p) = 4
    BY <2>1 DEF Lines, Places, InPeak, InFeatures, InAuto, InTrain, InFree,
       InTemplate, InCross, InDetect
  <2>3. QED
    BY <2>1, <2>2, PlaceFacts DEF InLoop, InPeak, InFeatures, InAuto, InTrain, InFree,
       InTemplate, InCross, InDetect
<1>2. PICK b \in Int : /\ b = (IF f = 0 THEN N + 2 ELSE 3 * N + 4) /\ b >= 0
                      /\ Src(f, b + 1) = kxx /\ Dst(f, b + 1) = kxx
  <2>1. CASE f = 0
    BY <2>1 DEF Src, Dst
  <2>2. CASE f # 0
    BY <2>2 DEF Src, Dst
  <2>3. QED
    BY <2>1, <2>2
<1>3. ASSUME NEW l \in 1 .. 4, NEW j \in 1 .. N, j = 1
      PROVE  /\ q(l, j) \in Places /\ q(l, j).frame = f
             /\ Sent(q(l, j)) = b + S(l, j) /\ Waited(q(l, j)) = b + W(l, j)
             /\ Held(q(l, j)) = H(l, j)
  <2>1. InTrain(q(l, j)) /\ q(l, j).frame = f /\ q(l, j).line = l /\ q(l, j).i = j
    BY <1>1, PlaceFields DEF InTrain
  <2>2. ~InPeak(q(l, j)) /\ ~InFeatures(q(l, j)) /\ ~InAuto(q(l, j)) /\ ~InFree(q(l, j))
        /\ ~InTemplate(q(l, j)) /\ ~InCross(q(l, j)) /\ ~InDetect(q(l, j))
    BY <1>1, PlaceFields DEF InPeak, InFeatures, InAuto, InTrain, InFree,
       InTemplate, InCross, InDetect
  <2>3. Base(q(l, j)) = b
    BY <1>1, <1>2, PlaceFields DEF Base
  <2>4. q(l, j).call = k
    BY PlaceFields
  <2> HIDE DEF q
  <2>5. Sent(q(l, j)) = b + S(l, j)
    BY <1>1, <1>2, <2>1, <2>2, <2>3, <2>4 DEF Sent
  <2>6. Waited(q(l, j)) = b + W(l, j)
    BY <1>1, <1>2, <2>1, <2>2, <2>3, <2>4 DEF Waited
  <2>7. Held(q(l, j)) = H(l, j)
    BY <2>1, <2>2 DEF Held
  <2>8. q(l, j) \in Places
    <3>1. Lines(q(l, j)) = 4
      BY <2>1, <2>2 DEF Lines
    <3>2. j = 1 \/ InLoop(q(l, j))
      BY <1>3, <2>1 DEF InLoop
    <3>3. f = 0 => k <= 5
      BY <1>1
    <3>4. /\ Lines(Place(f, k, l, j)) = 4 /\ l \in 1 .. 12 /\ l <= 4
          /\ j = 1 \/ InLoop(Place(f, k, l, j))
      BY <3>1, <3>2 DEF q
    <3>5. Place(f, k, l, j) \in Places
      BY <1>1, <3>3, <3>4, PlaceIn
    <3>6. QED
      BY <3>5 DEF q
  <2>9. QED
    BY <2>1, <2>5, <2>6, <2>7, <2>8
<1> HIDE DEF S, W, H
<1>4. InstrAt(p) = train[p.line]
  BY TextFacts, NextPlace
<1>5. CASE p.line = 1
  <2>1. InstrAt(p) = Send(kxx, kxx)
    BY <1>4, <1>5 DEF train
  <2>2. /\ InstrAt(p).op = "send" /\ InstrAt(p).loop = 0
        /\ InstrAt(p).src = kxx /\ InstrAt(p).dst = kxx
    BY <2>1 DEF Send, Instruction
  <2>3. Sent(p) = b /\ Waited(p) = b /\ Held(p) = {prob}
    <3>1. Sent(p) = b + S(1, p.i) /\ Waited(p) = b + W(1, p.i)
          /\ Held(p) = H(1, p.i)
      BY <1>1, <1>3, <1>5
    <3>2. QED
      BY <1>1, <1>2, <3>1 DEF S, W, H
  <2>4. /\ After(p) \in Places /\ After(p).frame = f
        /\ Sent(After(p)) = b + 1 /\ Waited(After(p)) = b
        /\ Held(After(p)) \subseteq {prob}
    <3>1. After(p) = q(2, p.i)
      BY <1>1, <1>5, <2>2, NextPlace
    <3>2. /\ After(p) \in Places /\ After(p).frame = f
          /\ Sent(After(p)) = b + S(2, p.i) /\ Waited(After(p)) = b + W(2, p.i)
          /\ Held(After(p)) = H(2, p.i)
      BY <1>1, <1>3, <1>5, <3>1
    <3>3. QED
      BY <1>1, <1>2, <1>5, <3>2 DEF S, W, H
  <2>5. SendFits(p, After(p))
    BY <1>1, <1>2, <2>2, <2>3, <2>4 DEF SendFits, prob, kxx
  <2>6. QED
    BY <1>1, <1>2, <2>2, <2>3, <2>4, <2>5 DEF Disciplined
<1>6. CASE p.line = 2
  <2>1. InstrAt(p) = Wait
    BY <1>4, <1>6 DEF train
  <2>2. /\ InstrAt(p).op = "wait" /\ InstrAt(p).loop = 0
    BY <2>1 DEF Wait, Instruction
  <2>3. Sent(p) = b + 1 /\ Waited(p) = b /\ Held(p) = {prob}
    <3>1. Sent(p) = b + S(2, p.i) /\ Waited(p) = b + W(2, p.i)
          /\ Held(p) = H(2, p.i)
      BY <1>1, <1>3, <1>6
    <3>2. QED
      BY <1>1, <1>2, <3>1 DEF S, W, H
  <2>4. /\ After(p) \in Places /\ After(p).frame = f
        /\ Sent(After(p)) = b + 1 /\ Waited(After(p)) = b + 1
        /\ Held(After(p)) \subseteq {prob, kxx}
    <3>1. After(p) = q(3, p.i)
      BY <1>1, <1>6, <2>2, NextPlace
    <3>2. /\ After(p) \in Places /\ After(p).frame = f
          /\ Sent(After(p)) = b + S(3, p.i) /\ Waited(After(p)) = b + W(3, p.i)
          /\ Held(After(p)) = H(3, p.i)
      BY <1>1, <1>3, <1>6, <3>1
    <3>3. QED
      BY <1>1, <1>2, <1>6, <3>2 DEF S, W, H
  <2>5. WaitFits(p, After(p))
    BY <1>1, <1>2, <2>2, <2>3, <2>4 DEF WaitFits
  <2>6. QED
    BY <1>1, <1>2, <2>2, <2>3, <2>4, <2>5 DEF Disciplined
<1>7. CASE p.line = 3
  <2>1. InstrAt(p) = Use({kxx, prob})
    BY <1>4, <1>7 DEF train
  <2>2. /\ InstrAt(p).op = "use" /\ InstrAt(p).loop = 0
        /\ InstrAt(p).bufs = {kxx, prob}
    BY <2>1 DEF Use, Instruction
  <2>3. Sent(p) = b + 1 /\ Waited(p) = b + 1 /\ Held(p) = {prob, kxx}
    <3>1. Sent(p) = b + S(3, p.i) /\ Waited(p) = b + W(3, p.i)
          /\ Held(p) = H(3, p.i)
      BY <1>1, <1>3, <1>7
    <3>2. QED
      BY <1>1, <1>2, <3>1 DEF S, W, H
  <2>4. /\ After(p) \in Places /\ After(p).frame = f
        /\ Sent(After(p)) = b + 1 /\ Waited(After(p)) = b + 1
        /\ Held(After(p)) \subseteq {prob}
    <3>1. After(p) = q(4, p.i)
      BY <1>1, <1>7, <2>2, NextPlace
    <3>2. /\ After(p) \in Places /\ After(p).frame = f
          /\ Sent(After(p)) = b + S(4, p.i) /\ Waited(After(p)) = b + W(4, p.i)
          /\ Held(After(p)) = H(4, p.i)
      BY <1>1, <1>3, <1>7, <3>1
    <3>3. QED
      BY <1>1, <1>2, <1>7, <3>2 DEF S, W, H
  <2>5. OtherFits(p, After(p))
    BY <1>1, <1>2, <2>2, <2>3, <2>4 DEF OtherFits
  <2>6. QED
    BY <1>1, <1>2, <2>2, <2>3, <2>4, <2>5 DEF Disciplined
<1>8. CASE p.line = 4
  <2>1. InstrAt(p) = Change({kxx} \cup Batch("tmpl"))
    BY <1>4, <1>8 DEF train
  <2>2. /\ InstrAt(p).op = "change" /\ InstrAt(p).loop = 0
        /\ InstrAt(p).bufs = {kxx} \cup Batch("tmpl")
    BY <2>1 DEF Change, Instruction
  <2>3. Sent(p) = b + 1 /\ Waited(p) = b + 1 /\ Held(p) = {prob}
    <3>1. Sent(p) = b + S(4, p.i) /\ Waited(p) = b + W(4, p.i)
          /\ Held(p) = H(4, p.i)
      BY <1>1, <1>3, <1>8
    <3>2. QED
      BY <1>1, <1>2, <3>1 DEF S, W, H
  <2>4. /\ After(p) \in Places /\ After(p).frame = f
        /\ Sent(After(p)) = b + 1 /\ Waited(After(p)) = b + 1
        /\ Held(After(p)) \subseteq {prob}
    <3>1. After(p) = Place(f, k + 1, 1, 1)
      BY <1>1, <1>8, <2>2, NextPlace DEF Calls
    <3>2. /\ After(p) \in Places /\ After(p).frame = f /\ Held(After(p)) = {prob}
          /\ Sent(After(p)) = Base(After(p)) /\ Waited(After(p)) = Base(After(p))
      BY <1>1, <3>1, Entry
    <3>3. Base(After(p)) = b + 1
      BY <1>1, <1>2, <3>1, PlaceFields DEF Base
    <3>4. QED
      BY <1>1, <1>2, <3>2, <3>3
  <2>5. OtherFits(p, After(p))
    BY <1>1, <1>2, <2>2, <2>3, <2>4 DEF OtherFits
  <2>6. QED
    BY <1>1, <1>2, <2>2, <2>3, <2>4, <2>5 DEF Disciplined
<1>9. QED
  BY <1>1, <1>5, <1>6, <1>7, <1>8

LEMMA FreeFits == ASSUME NEW p \in Places, InFree(p) PROVE Disciplined(p)
<1> USE ParameterAssumption
<1> DEFINE f == p.frame
           k == p.call
           q(l, j) == Place(f, k, l, j)
           S(l, j) == 0
           W(l, j) == 0
           H(l, j) == {prob}
<1>1. /\ f \in Nat /\ p.line \in 1 .. 1 /\ p.i \in 1 .. N
      /\ Lines(p) = 1 /\ p = q(p.line, p.i) /\ p.i = 1
      /\ k \in 1 .. 8 /\ k = (IF f = 0 THEN 5 ELSE 8)
  <2>1. f \in Nat /\ p.line \in 1 .. Lines(p) /\ p.i \in 1 .. N /\ p = q(p.line, p.i)
    BY PlaceFacts DEF Place
  <2>2. k \in 1 .. 8 /\ k = (IF f = 0 THEN 5 ELSE 8) /\ Lines(p) = 1
    BY <2>1 DEF Lines, Places, InPeak, InFeatures, InAuto, InTrain, InFree,
       InTemplate, InCross, InDetect
  <2>3. QED
    BY <2>1, <2>2, PlaceFacts DEF InLoop, InPeak, InFeatures, InAuto, InTrain, InFree,
       InTemplate, InCross, InDetect
<1>2. PICK b \in Int : b = (IF f = 0 THEN N + 3 ELSE 3 * N + 5) /\ b >= 0
  OBVIOUS
<1>3. ASSUME NEW l \in 1 .. 1, NEW j \in 1 .. N, j = 1
      PROVE  /\ q(l, j) \in Places /\ q(l, j).frame = f
             /\ Sent(q(l, j)) = b + S(l, j) /\ Waited(q(l, j)) = b + W(l, j)
             /\ Held(q(l, j)) = H(l, j)
  <2>1. InFree(q(l, j)) /\ q(l, j).frame = f /\ q(l, j).line = l /\ q(l, j).i = j
    BY <1>1, PlaceFields DEF InFree
  <2>2. ~InPeak(q(l, j)) /\ ~InFeatures(q(l, j)) /\ ~InAuto(q(l, j)) /\ ~InTrain(q(l, j))
        /\ ~InTemplate(q(l, j)) /\ ~InCross(q(l, j)) /\ ~InDetect(q(l, j))
    BY <1>1, PlaceFields DEF InPeak, InFeatures, InAuto, InTrain, InFree,
       InTemplate, InCross, InDetect
  <2>3. Base(q(l, j)) = b
    BY <1>1, <1>2, PlaceFields DEF Base
  <2>4. q(l, j).call = k
    BY PlaceFields
  <2> HIDE DEF q
  <2>5. Sent(q(l, j)) = b + S(l, j)
    BY <1>1, <1>2, <2>1, <2>2, <2>3, <2>4 DEF Sent
  <2>6. Waited(q(l, j)) = b + W(l, j)
    BY <1>1, <1>2, <2>1, <2>2, <2>3, <2>4 DEF Waited
  <2>7. Held(q(l, j)) = H(l, j)
    BY <2>1, <2>2 DEF Held
  <2>8. q(l, j) \in Places
    <3>1. Lines(q(l, j)) = 1
      BY <2>1, <2>2 DEF Lines
    <3>2. j = 1 \/ InLoop(q(l, j))
      BY <1>3, <2>1 DEF InLoop
    <3>3. f = 0 => k <= 5
      BY <1>1
    <3>4. /\ Lines(Place(f, k, l, j)) = 1 /\ l \in 1 .. 12 /\ l <= 1
          /\ j = 1 \/ InLoop(Place(f, k, l, j))
      BY <3>1, <3>2 DEF q
    <3>5. Place(f, k, l, j) \in Places
      BY <1>1, <3>3, <3>4, PlaceIn
    <3>6. QED
      BY <3>5 DEF q
  <2>9. QED
    BY <2>1, <2>5, <2>6, <2>7, <2>8
<1> HIDE DEF S, W, H
<1>4. InstrAt(p) = freeTmplData[p.line]
  BY TextFacts, NextPlace
<1>5. CASE p.line = 1
  <2>1. InstrAt(p) = Change(Batch("x"))
    BY <1>4, <1>5 DEF freeTmplData
  <2>2. /\ InstrAt(p).op = "change" /\ InstrAt(p).loop = 0
        /\ InstrAt(p).bufs = Batch("x")
    BY <2>1 DEF Change, Instruction
  <2>3. Sent(p) = b /\ Waited(p) = b /\ Held(p) = {prob}
    <3>1. Sent(p) = b + S(1, p.i) /\ Waited(p) = b + W(1, p.i)
          /\ Held(p) = H(1, p.i)
      BY <1>1, <1>3, <1>5
    <3>2. QED
      BY <1>1, <1>2, <3>1 DEF S, W, H
  <2>4. /\ After(p) \in Places /\ After(p).frame = f + 1
        /\ Sent(After(p)) = 0 /\ Waited(After(p)) = 0
        /\ Held(After(p)) \subseteq {prob}
    <3>1. After(p) = Place(f + 1, 1, 1, 1)
      BY <1>1, <1>5, <2>2, NextPlace DEF Calls
    <3>2. /\ After(p) \in Places /\ After(p).frame = f + 1 /\ Held(After(p)) = {prob}
          /\ Sent(After(p)) = Base(After(p)) /\ Waited(After(p)) = Base(After(p))
      BY <1>1, <3>1, Entry
    <3>3. Base(After(p)) = 0
      BY <1>1, <1>2, <3>1, PlaceFields DEF Base
    <3>4. QED
      BY <1>1, <1>2, <3>2, <3>3
  <2>5. OtherFits(p, After(p))
    BY <1>1, <1>2, <2>2, <2>3, <2>4 DEF OtherFits
  <2>6. QED
    BY <1>1, <1>2, <2>2, <2>3, <2>4, <2>5 DEF Disciplined
<1>6. QED
  BY <1>1, <1>5

LEMMA TemplateFits == ASSUME NEW p \in Places, InTemplate(p) PROVE Disciplined(p)
<1> USE ParameterAssumption
<1> DEFINE f == p.frame
           k == p.call
           q(l, j) == Place(f, k, l, j)
           S(l, j) == j - 1
           W(l, j) == 0
           H(l, j) == {prob}
<1>1. /\ f \in Nat /\ p.line \in 1 .. 1 /\ p.i \in 1 .. N
      /\ Lines(p) = 1 /\ p = q(p.line, p.i)
      /\ k \in 1 .. 8 /\ f # 0 /\ k = 1
  <2>1. f \in Nat /\ p.line \in 1 .. Lines(p) /\ p.i \in 1 .. N /\ p = q(p.line, p.i)
    BY PlaceFacts DEF Place
  <2>2. k \in 1 .. 8 /\ f # 0 /\ k = 1 /\ Lines(p) = 1
    BY <2>1 DEF Lines, Places, InPeak, InFeatures, InAuto, InTrain, InFree,
       InTemplate, InCross, InDetect
  <2>3. QED
    BY <2>1, <2>2, PlaceFacts DEF InLoop, InPeak, InFeatures, InAuto, InTrain, InFree,
       InTemplate, InCross, InDetect
<1>2. \A n \in 1 .. N : Src(f, n) = <<"tmpl", n>> /\ Dst(f, n) = <<"tmplDft", n>>
  BY <1>1 DEF Src, Dst
<1>3. ASSUME NEW l \in 1 .. 1, NEW j \in 1 .. N
      PROVE  /\ q(l, j) \in Places /\ q(l, j).frame = f
             /\ Sent(q(l, j)) = S(l, j) /\ Waited(q(l, j)) = W(l, j)
             /\ Held(q(l, j)) = H(l, j)
  <2>1. InTemplate(q(l, j)) /\ q(l, j).frame = f /\ q(l, j).line = l /\ q(l, j).i = j
    BY <1>1, PlaceFields DEF InTemplate
  <2>2. ~InPeak(q(l, j)) /\ ~InFeatures(q(l, j)) /\ ~InAuto(q(l, j)) /\ ~InTrain(q(l, j))
        /\ ~InFree(q(l, j)) /\ ~InCross(q(l, j)) /\ ~InDetect(q(l, j))
    BY <1>1, PlaceFields DEF InPeak, InFeatures, InAuto, InTrain, InFree,
       InTemplate, InCross, InDetect
  <2>3. Base(q(l, j)) = 0
    BY <1>1, <1>2, PlaceFields DEF Base
  <2>4. q(l, j).call = k
    BY PlaceFields
  <2> HIDE DEF q
  <2>5. Sent(q(l, j)) = S(l, j)
    BY <1>1, <1>2, <2>1, <2>2, <2>3, <2>4 DEF Sent
  <2>6. Waited(q(l, j)) = W(l, j)
    BY <1>1, <1>2, <2>1, <2>2, <2>3, <2>4 DEF Waited
  <2>7. Held(q(l, j)) = H(l, j)
    BY <2>1, <2>2 DEF Held
  <2>8. q(l, j) \in Places
    <3>1. Lines(q(l, j)) = 1
      BY <2>1, <2>2 DEF Lines
    <3>2. j = 1 \/ InLoop(q(l, j))
      BY <1>3, <2>1 DEF InLoop
    <3>3. f = 0 => k <= 5
      BY <1>1
    <3>4. /\ Lines(Place(f, k, l, j)) = 1 /\ l \in 1 .. 12 /\ l <= 1
          /\ j = 1 \/ InLoop(Place(f, k, l, j))
      BY <3>1, <3>2 DEF q
    <3>5. Place(f, k, l, j) \in Places
      BY <1>1, <3>3, <3>4, PlaceIn
    <3>6. QED
      BY <3>5 DEF q
  <2>9. QED
    BY <2>1, <2>5, <2>6, <2>7, <2>8
<1> HIDE DEF S, W, H
<1>4. InstrAt(p) = templateFft(p.i)[p.line]
  BY TextFacts, NextPlace
<1>5. CASE p.line = 1
  <2>1. InstrAt(p) = Loop(1, Send(<<"tmpl", p.i>>, <<"tmplDft", p.i>>))
    BY <1>4, <1>5 DEF templateFft
  <2>2. /\ InstrAt(p).op = "send" /\ InstrAt(p).loop = 1
        /\ InstrAt(p).src = <<"tmpl", p.i>> /\ InstrAt(p).dst = <<"tmplDft", p.i>>
    BY <2>1 DEF Loop, Send, Instruction
  <2>3. Sent(p) = p.i - 1 /\ Waited(p) = 0 /\ Held(p) = {prob}
    <3>1. Sent(p) = S(1, p.i) /\ Waited(p) = W(1, p.i)
          /\ Held(p) = H(1, p.i)
      BY <1>1, <1>3, <1>5
    <3>2. QED
      BY <1>1, <1>2, <3>1 DEF S, W, H
  <2>4. /\ After(p) \in Places /\ After(p).frame = f
        /\ Sent(After(p)) = p.i /\ Waited(After(p)) = 0
        /\ Held(After(p)) \subseteq {prob}
    <3>1. CASE p.i < N
      <4>1. After(p) = q(1, p.i + 1)
        BY <1>1, <1>5, <2>2, <3>1, NextPlace
      <4>2. /\ After(p) \in Places /\ After(p).frame = f
            /\ Sent(After(p)) = S(1, p.i + 1) /\ Waited(After(p)) = W(1, p.i + 1)
            /\ Held(After(p)) = H(1, p.i + 1)
        BY <1>1, <1>3, <3>1, <4>1
      <4>3. QED
        BY <1>1, <1>2, <3>1, <4>2 DEF S, W, H
    <3>2. CASE p.i = N
      <4>1. After(p) = Place(f, 2, 1, 1)
        BY <1>1, <1>5, <2>2, <3>2, NextPlace DEF Calls
      <4>2. /\ After(p) \in Places /\ After(p).frame = f /\ Held(After(p)) = {prob}
            /\ Sent(After(p)) = Base(After(p)) /\ Waited(After(p)) = 0
        BY <1>1, <4>1, Entry
      <4>3. Base(After(p)) = N
        BY <1>1, <1>2, <4>1, PlaceFields DEF Base
      <4>4. QED
        BY <1>1, <1>2, <3>2, <4>2, <4>3
    <3>3. QED
      BY <1>1, <3>1, <3>2
  <2>5. \A n \in 1 .. p.i - 1 : Dst(f, n) # <<"tmplDft", p.i>>
    BY <1>1, <1>2
  <2>6. SendFits(p, After(p))
    BY <1>1, <1>2, <2>2, <2>3, <2>4, <2>5 DEF SendFits, prob
  <2>7. QED
    BY <1>1, <1>2, <2>2, <2>3, <2>4, <2>6 DEF Disciplined
<1>6. QED
  BY <1>1, <1>5

LEMMA CrossFits == ASSUME NEW p \in Places, InCross(p) PROVE Disciplined(p)
<1> USE ParameterAssumption
<1> DEFINE f == p.frame
           k == p.call
           q(l, j) == Place(f, k, l, j)
           S(l, j) == IF l = 1 THEN 0 ELSE IF l = 2 THEN j - 1 ELSE IF l <= 8 THEN N ELSE N + 1
           W(l, j) == IF l <= 2 THEN 0 ELSE IF l = 3 THEN j - 1 ELSE IF l = 4 THEN N
                      ELSE IF l = 5 THEN N + j - 1 ELSE IF l = 6 THEN N + j
                      ELSE IF l <= 9 THEN 2 * N ELSE 2 * N + 1
           H(l, j) == {prob} \cup (IF l = 3 THEN {<<"tmplDft", n>> : n \in 1 .. j - 1}
                      ELSE IF l \in {4, 5} THEN Batch("tmplDft")
                      ELSE IF l = 6 THEN Batch("tmplDft") \cup {<<"zHat", j>>}
                      ELSE IF l >= 10 THEN {kzx} ELSE {})
<1>1. /\ f \in Nat /\ p.line \in 1 .. 12 /\ p.i \in 1 .. N
      /\ Lines(p) = 12 /\ p = q(p.line, p.i) /\ (p.i = 1 \/ p.line \in {2, 3, 5, 6})
      /\ k \in 1 .. 8 /\ f # 0 /\ k = 3
  <2>1. f \in Nat /\ p.line \in 1 .. Lines(p) /\ p.i \in 1 .. N /\ p = q(p.line, p.i)
    BY PlaceFacts DEF Place
  <2>2. k \in 1 .. 8 /\ f # 0 /\ k = 3 /\ Lines(p) = 12
    BY <2>1 DEF Lines, Places, InPeak, InFeatures, InAuto, InTrain, InFree,
       InTemplate, InCross, InDetect
  <2>3. QED
    BY <2>1, <2>2, PlaceFacts DEF InLoop, InPeak, InFeatures, InAuto, InTrain, InFree,
       InTemplate, InCross, InDetect
<1>2. /\ \A n \in 1 .. N : /\ Src(f, n) = <<"tmpl", n>> /\ Dst(f, n) = <<"tmplDft", n>>
                          /\ Src(f, N + n) = <<"x", n>> /\ Dst(f, N + n) = <<"zHat", n>>
      /\ Src(f, 2 * N + 1) = sum /\ Dst(f, 2 * N + 1) = kzx
  BY <1>1 DEF Src, Dst
<1>3. ASSUME NEW l \in 1 .. 12, NEW j \in 1 .. N, j = 1 \/ l \in {2, 3, 5, 6}
      PROVE  /\ q(l, j) \in Places /\ q(l, j).frame = f
             /\ Sent(q(l, j)) = N + S(l, j) /\ Waited(q(l, j)) = W(l, j)
             /\ Held(q(l, j)) = H(l, j)
  <2>1. InCross(q(l, j)) /\ q(l, j).frame = f /\ q(l, j).line = l /\ q(l, j).i = j
    BY <1>1, PlaceFields DEF InCross
  <2>2. ~InPeak(q(l, j)) /\ ~InFeatures(q(l, j)) /\ ~InAuto(q(l, j)) /\ ~InTrain(q(l, j))
        /\ ~InFree(q(l, j)) /\ ~InTemplate(q(l, j)) /\ ~InDetect(q(l, j))
    BY <1>1, PlaceFields DEF InPeak, InFeatures, InAuto, InTrain, InFree,
       InTemplate, InCross, InDetect
  <2>3. Base(q(l, j)) = N
    BY <1>1, <1>2, PlaceFields DEF Base
  <2>4. q(l, j).call = k
    BY PlaceFields
  <2> HIDE DEF q
  <2>5. Sent(q(l, j)) = N + S(l, j)
    BY <1>1, <1>2, <2>1, <2>2, <2>3, <2>4 DEF Sent
  <2>6. Waited(q(l, j)) = W(l, j)
    BY <1>1, <1>2, <2>1, <2>2, <2>3, <2>4 DEF Waited
  <2>7. Held(q(l, j)) = H(l, j)
    BY <2>1, <2>2 DEF Held
  <2>8. q(l, j) \in Places
    <3>1. Lines(q(l, j)) = 12
      BY <2>1, <2>2 DEF Lines
    <3>2. j = 1 \/ InLoop(q(l, j))
      BY <1>3, <2>1 DEF InLoop
    <3>3. f = 0 => k <= 5
      BY <1>1
    <3>4. /\ Lines(Place(f, k, l, j)) = 12 /\ l \in 1 .. 12 /\ l <= 12
          /\ j = 1 \/ InLoop(Place(f, k, l, j))
      BY <3>1, <3>2 DEF q
    <3>5. Place(f, k, l, j) \in Places
      BY <1>1, <3>3, <3>4, PlaceIn
    <3>6. QED
      BY <3>5 DEF q
  <2>9. QED
    BY <2>1, <2>5, <2>6, <2>7, <2>8
<1> HIDE DEF S, W, H
<1>4. InstrAt(p) = gaussCrossCorrelation(p.i)[p.line]
  BY TextFacts, NextPlace
<1>5. CASE p.line = 1
  <2>1. InstrAt(p) = Change({sum})
    BY <1>4, <1>5 DEF gaussCrossCorrelation
  <2>2. /\ InstrAt(p).op = "change" /\ InstrAt(p).loop = 0
        /\ InstrAt(p).bufs = {sum}
    BY <2>1 DEF Change, Instruction
  <2>3. Sent(p) = N /\ Waited(p) = 0 /\ Held(p) = {prob}
    <3>1. Sent(p) = N + S(1, p.i) /\ Waited(p) = W(1, p.i)
          /\ Held(p) = H(1, p.i)
      BY <1>1, <1>3, <1>5
    <3>2. QED
      BY <1>1, <1>2, <3>1 DEF S, W, H
  <2>4. /\ After(p) \in Places /\ After(p).frame = f
        /\ Sent(After(p)) = N /\ Waited(After(p)) = 0
        /\ Held(After(p)) \subseteq {prob}
    <3>1. After(p) = q(2, p.i)
      BY <1>1, <1>5, <2>2, NextPlace
    <3>2. /\ After(p) \in Places /\ After(p).frame = f
          /\ Sent(After(p)) = N + S(2, p.i) /\ Waited(After(p)) = W(2, p.i)
          /\ Held(After(p)) = H(2, p.i)
      BY <1>1, <1>3, <1>5, <3>1
    <3>3. QED
      BY <1>1, <1>2, <1>5, <3>2 DEF S, W, H
  <2>5. OtherFits(p, After(p))
    BY <1>1, <1>2, <2>2, <2>3, <2>4 DEF OtherFits, sum
  <2>6. QED
    BY <1>1, <1>2, <2>2, <2>3, <2>4, <2>5 DEF Disciplined
<1>6. CASE p.line = 2
  <2>1. InstrAt(p) = Loop(1, Send(<<"x", p.i>>, <<"zHat", p.i>>))
    BY <1>4, <1>6 DEF gaussCrossCorrelation
  <2>2. /\ InstrAt(p).op = "send" /\ InstrAt(p).loop = 1
        /\ InstrAt(p).src = <<"x", p.i>> /\ InstrAt(p).dst = <<"zHat", p.i>>
    BY <2>1 DEF Loop, Send, Instruction
  <2>3. Sent(p) = N + (p.i - 1) /\ Waited(p) = 0 /\ Held(p) = {prob}
    <3>1. Sent(p) = N + S(2, p.i) /\ Waited(p) = W(2, p.i)
          /\ Held(p) = H(2, p.i)
      BY <1>1, <1>3, <1>6
    <3>2. QED
      BY <1>1, <1>2, <3>1 DEF S, W, H
  <2>4. /\ After(p) \in Places /\ After(p).frame = f
        /\ Sent(After(p)) = N + p.i /\ Waited(After(p)) = 0
        /\ Held(After(p)) \subseteq {prob}
    <3>1. CASE p.i < N
      <4>1. After(p) = q(2, p.i + 1)
        BY <1>1, <1>6, <2>2, <3>1, NextPlace
      <4>2. /\ After(p) \in Places /\ After(p).frame = f
            /\ Sent(After(p)) = N + S(2, p.i + 1) /\ Waited(After(p)) = W(2, p.i + 1)
            /\ Held(After(p)) = H(2, p.i + 1)
        BY <1>1, <1>3, <3>1, <4>1
      <4>3. QED
        BY <1>1, <1>2, <3>1, <4>2 DEF S, W, H
    <3>2. CASE p.i = N
      <4>1. After(p) = q(3, 1)
        BY <1>1, <1>6, <2>2, <3>2, NextPlace
      <4>2. /\ After(p) \in Places /\ After(p).frame = f
            /\ Sent(After(p)) = N + S(3, 1) /\ Waited(After(p)) = W(3, 1)
            /\ Held(After(p)) = H(3, 1)
        BY <1>1, <1>3, <3>2, <4>1
      <4>3. QED
        BY <1>1, <1>2, <3>2, <4>2 DEF S, W, H
    <3>3. QED
      BY <1>1, <3>1, <3>2
  <2>5. \A n \in 1 .. N + (p.i - 1) : Dst(f, n) # <<"zHat", p.i>>
    <3> SUFFICES ASSUME NEW n \in 1 .. N + (p.i - 1) PROVE Dst(f, n) # <<"zHat", p.i>>
      OBVIOUS
    <3>1. CASE n \in 1 .. N
      BY <1>2, <3>1
    <3>2. CASE n - N \in 1 .. N /\ n - N # p.i /\ N + (n - N) = n
      BY <1>2, <3>2
    <3>3. QED
      BY <1>1, <3>1, <3>2
  <2>6. SendFits(p, After(p))
    BY <1>1, <1>2, <2>2, <2>3, <2>4, <2>5 DEF SendFits, prob
  <2>7. QED
    BY <1>1, <1>2, <2>2, <2>3, <2>4, <2>6 DEF Disciplined
<1>7. CASE p.line = 3
  <2>1. InstrAt(p) = Loop(1, Wait)
    BY <1>4, <1>7 DEF gaussCrossCorrelation
  <2>2. /\ InstrAt(p).op = "wait" /\ InstrAt(p).loop = 1
    BY <2>1 DEF Loop, Wait, Instruction
  <2>3. Sent(p) = 2 * N /\ Waited(p) = p.i - 1 /\ Held(p) = {prob} \cup {<<"tmplDft", n>> : n \in 1 .. p.i - 1}
    <3>1. Sent(p) = N + S(3, p.i) /\ Waited(p) = W(3, p.i)
          /\ Held(p) = H(3, p.i)
      BY <1>1, <1>3, <1>7
    <3>2. QED
      BY <1>1, <1>2, <3>1 DEF S, W, H
  <2>4. /\ After(p) \in Places /\ After(p).frame = f
        /\ Sent(After(p)) = 2 * N /\ Waited(After(p)) = p.i
        /\ Held(After(p)) \subseteq {prob} \cup {<<"tmplDft", n>> : n \in 1 .. p.i}
    <3>1. CASE p.i < N
      <4>1. After(p) = q(3, p.i + 1)
        BY <1>1, <1>7, <2>2, <3>1, NextPlace
      <4>2. /\ After(p) \in Places /\ After(p).frame = f
            /\ Sent(After(p)) = N + S(3, p.i + 1) /\ Waited(After(p)) = W(3, p.i + 1)
            /\ Held(After(p)) = H(3, p.i + 1)
        BY <1>1, <1>3, <3>1, <4>1
      <4>3. QED
        BY <1>1, <1>2, <3>1, <4>2 DEF S, W, H
    <3>2. CASE p.i = N
      <4>1. After(p) = q(4, 1)
        BY <1>1, <1>7, <2>2, <3>2, NextPlace
      <4>2. /\ After(p) \in Places /\ After(p).frame = f
            /\ Sent(After(p)) = N + S(4, 1) /\ Waited(After(p)) = W(4, 1)
            /\ Held(After(p)) = H(4, 1)
        BY <1>1, <1>3, <3>2, <4>1
      <4>3. QED
        BY <1>1, <1>2, <3>2, <4>2 DEF S, W, H, Batch
    <3>3. QED
      BY <1>1, <3>1, <3>2
  <2>5. Held(After(p)) \subseteq Held(p) \cup {Dst(f, (p.i - 1) + 1)}
    <3>1. {prob} \cup {<<"tmplDft", n>> : n \in 1 .. p.i}
            \subseteq ({prob} \cup {<<"tmplDft", n>> : n \in 1 .. p.i - 1}) \cup {<<"tmplDft", p.i>>}
      BY <1>1
    <3>2. Dst(f, (p.i - 1) + 1) = <<"tmplDft", p.i>>
      BY <1>1, <1>2
    <3>3. QED
      BY <2>3, <2>4, <3>1, <3>2
  <2>6. WaitFits(p, After(p))
    BY <1>1, <1>2, <2>2, <2>3, <2>4, <2>5 DEF WaitFits
  <2>7. QED
    BY <1>1, <1>2, <2>2, <2>3, <2>4, <2>6 DEF Disciplined
<1>8. CASE p.line = 4
  <2>1. InstrAt(p) = Complete(Batch("tmplDft"))
    BY <1>4, <1>8 DEF gaussCrossCorrelation
  <2>2. /\ InstrAt(p).op = "complete" /\ InstrAt(p).loop = 0
        /\ InstrAt(p).bufs = Batch("tmplDft")
    BY <2>1 DEF Complete, Instruction
  <2>3. Sent(p) = 2 * N /\ Waited(p) = N /\ Held(p) = {prob} \cup Batch("tmplDft")
    <3>1. Sent(p) = N + S(4, p.i) /\ Waited(p) = W(4, p.i)
          /\ Held(p) = H(4, p.i)
      BY <1>1, <1>3, <1>8
    <3>2. QED
      BY <1>1, <1>2, <3>1 DEF S, W, H
  <2>4. /\ After(p) \in Places /\ After(p).frame = f
        /\ Sent(After(p)) = 2 * N /\ Waited(After(p)) = N
        /\ Held(After(p)) \subseteq {prob} \cup Batch("tmplDft")
    <3>1. After(p) = q(5, p.i)
      BY <1>1, <1>8, <2>2, NextPlace
    <3>2. /\ After(p) \in Places /\ After(p).frame = f
          /\ Sent(After(p)) = N + S(5, p.i) /\ Waited(After(p)) = W(5, p.i)
          /\ Held(After(p)) = H(5, p.i)
      BY <1>1, <1>3, <1>8, <3>1
    <3>3. QED
      BY <1>1, <1>2, <1>8, <3>2 DEF S, W, H
  <2>5. OtherFits(p, After(p))
    BY <1>1, <1>2, <2>2, <2>3, <2>4 DEF OtherFits
  <2>6. QED
    BY <1>1, <1>2, <2>2, <2>3, <2>4, <2>5 DEF Disciplined
<1>9. CASE p.line = 5
  <2>1. InstrAt(p) = Wait
    BY <1>4, <1>9 DEF gaussCrossCorrelation
  <2>2. /\ InstrAt(p).op = "wait" /\ InstrAt(p).loop = 0
    BY <2>1 DEF Wait, Instruction
  <2>3. Sent(p) = 2 * N /\ Waited(p) = N + (p.i - 1) /\ Held(p) = {prob} \cup Batch("tmplDft")
    <3>1. Sent(p) = N + S(5, p.i) /\ Waited(p) = W(5, p.i)
          /\ Held(p) = H(5, p.i)
      BY <1>1, <1>3, <1>9
    <3>2. QED
      BY <1>1, <1>2, <3>1 DEF S, W, H
  <2>4. /\ After(p) \in Places /\ After(p).frame = f
        /\ Sent(After(p)) = 2 * N /\ Waited(After(p)) = N + p.i
        /\ Held(After(p)) \subseteq {prob} \cup Batch("tmplDft") \cup {<<"zHat", p.i>>}
    <3>1. After(p) = q(6, p.i)
      BY <1>1, <1>9, <2>2, NextPlace
    <3>2. /\ After(p) \in Places /\ After(p).frame = f
          /\ Sent(After(p)) = N + S(6, p.i) /\ Waited(After(p)) = W(6, p.i)
          /\ Held(After(p)) = H(6, p.i)
      BY <1>1, <1>3, <1>9, <3>1
    <3>3. QED
      BY <1>1, <1>2, <1>9, <3>2 DEF S, W, H
  <2>5. Dst(f, N + (p.i - 1) + 1) = <<"zHat", p.i>>
    <3>1. N + (p.i - 1) + 1 = N + p.i
      BY <1>1
    <3>2. Dst(f, N + p.i) = <<"zHat", p.i>>
      BY <1>1, <1>2
    <3>3. QED
      BY <3>1, <3>2
  <2>6. WaitFits(p, After(p))
    BY <1>1, <1>2, <2>2, <2>3, <2>4, <2>5 DEF WaitFits
  <2>7. QED
    BY <1>1, <1>2, <2>2, <2>3, <2>4, <2>6 DEF Disciplined
<1>10. CASE p.line = 6
  <2>1. InstrAt(p) = Loop(2, Use({<<"tmplDft", p.i>>, <<"zHat", p.i>>}))
    BY <1>4, <1>10 DEF gaussCrossCorrelation
  <2>2. /\ InstrAt(p).op = "use" /\ InstrAt(p).loop = 2
        /\ InstrAt(p).bufs = {<<"tmplDft", p.i>>, <<"zHat", p.i>>}
    BY <2>1 DEF Loop, Use, Instruction
  <2>3. Sent(p) = 2 * N /\ Waited(p) = N + p.i /\ Held(p) = {prob} \cup Batch("tmplDft") \cup {<<"zHat", p.i>>}
    <3>1. Sent(p) = N + S(6, p.i) /\ Waited(p) = W(6, p.i)
          /\ Held(p) = H(6, p.i)
      BY <1>1, <1>3, <1>10
    <3>2. QED
      BY <1>1, <1>2, <3>1 DEF S, W, H
  <2>4. /\ After(p) \in Places /\ After(p).frame = f
        /\ Sent(After(p)) = 2 * N /\ Waited(After(p)) = N + p.i
        /\ Held(After(p)) \subseteq {prob} \cup Batch("tmplDft")
    <3>1. CASE p.i < N
      <4>1. After(p) = q(5, p.i + 1)
        BY <1>1, <1>10, <2>2, <3>1, NextPlace
      <4>2. /\ After(p) \in Places /\ After(p).frame = f
            /\ Sent(After(p)) = N + S(5, p.i + 1) /\ Waited(After(p)) = W(5, p.i + 1)
            /\ Held(After(p)) = H(5, p.i + 1)
        BY <1>1, <1>3, <3>1, <4>1
      <4>3. QED
        BY <1>1, <1>2, <3>1, <4>2 DEF S, W, H
    <3>2. CASE p.i = N
      <4>1. After(p) = q(7, 1)
        BY <1>1, <1>10, <2>2, <3>2, NextPlace
      <4>2. /\ After(p) \in Places /\ After(p).frame = f
            /\ Sent(After(p)) = N + S(7, 1) /\ Waited(After(p)) = W(7, 1)
            /\ Held(After(p)) = H(7, 1)
        BY <1>1, <1>3, <3>2, <4>1
      <4>3. QED
        BY <1>1, <1>2, <3>2, <4>2 DEF S, W, H
    <3>3. QED
      BY <1>1, <3>1, <3>2
  <2>5. OtherFits(p, After(p))
    BY <1>1, <1>2, <2>2, <2>3, <2>4 DEF OtherFits, Batch
  <2>6. QED
    BY <1>1, <1>2, <2>2, <2>3, <2>4, <2>5 DEF Disciplined
<1>11. CASE p.line = 7
  <2>1. InstrAt(p) = Change(Batch("zHat") \cup {sum})
    BY <1>4, <1>11 DEF gaussCrossCorrelation
  <2>2. /\ InstrAt(p).op = "change" /\ InstrAt(p).loop = 0
        /\ InstrAt(p).bufs = Batch("zHat") \cup {sum}
    BY <2>1 DEF Change, Instruction
  <2>3. Sent(p) = 2 * N /\ Waited(p) = 2 * N /\ Held(p) = {prob}
    <3>1. Sent(p) = N + S(7, p.i) /\ Waited(p) = W(7, p.i)
          /\ Held(p) = H(7, p.i)
      BY <1>1, <1>3, <1>11
    <3>2. QED
      BY <1>1, <1>2, <3>1 DEF S, W, H
  <2>4. /\ After(p) \in Places /\ After(p).frame = f
        /\ Sent(After(p)) = 2 * N /\ Waited(After(p)) = 2 * N
        /\ Held(After(p)) \subseteq {prob}
    <3>1. After(p) = q(8, p.i)
      BY <1>1, <1>11, <2>2, NextPlace
    <3>2. /\ After(p) \in Places /\ After(p).frame = f
          /\ Sent(After(p)) = N + S(8, p.i) /\ Waited(After(p)) = W(8, p.i)
          /\ Held(After(p)) = H(8, p.i)
      BY <1>1, <1>3, <1>11, <3>1
    <3>3. QED
      BY <1>1, <1>2, <1>11, <3>2 DEF S, W, H
  <2>5. OtherFits(p, After(p))
    BY <1>1, <1>2, <2>2, <2>3, <2>4 DEF OtherFits
  <2>6. QED
    BY <1>1, <1>2, <2>2, <2>3, <2>4, <2>5 DEF Disciplined
<1>12. CASE p.line = 8
  <2>1. InstrAt(p) = Send(sum, kzx)
    BY <1>4, <1>12 DEF gaussCrossCorrelation
  <2>2. /\ InstrAt(p).op = "send" /\ InstrAt(p).loop = 0
        /\ InstrAt(p).src = sum /\ InstrAt(p).dst = kzx
    BY <2>1 DEF Send, Instruction
  <2>3. Sent(p) = 2 * N /\ Waited(p) = 2 * N /\ Held(p) = {prob}
    <3>1. Sent(p) = N + S(8, p.i) /\ Waited(p) = W(8, p.i)
          /\ Held(p) = H(8, p.i)
      BY <1>1, <1>3, <1>12
    <3>2. QED
      BY <1>1, <1>2, <3>1 DEF S, W, H
  <2>4. /\ After(p) \in Places /\ After(p).frame = f
        /\ Sent(After(p)) = 2 * N + 1 /\ Waited(After(p)) = 2 * N
        /\ Held(After(p)) \subseteq {prob}
    <3>1. After(p) = q(9, p.i)
      BY <1>1, <1>12, <2>2, NextPlace
    <3>2. /\ After(p) \in Places /\ After(p).frame = f
          /\ Sent(After(p)) = N + S(9, p.i) /\ Waited(After(p)) = W(9, p.i)
          /\ Held(After(p)) = H(9, p.i)
      BY <1>1, <1>3, <1>12, <3>1
    <3>3. QED
      BY <1>1, <1>2, <1>12, <3>2 DEF S, W, H
  <2>5. SendFits(p, After(p))
    BY <1>1, <1>2, <2>2, <2>3, <2>4 DEF SendFits, prob, kzx
  <2>6. QED
    BY <1>1, <1>2, <2>2, <2>3, <2>4, <2>5 DEF Disciplined
<1>13. CASE p.line = 9
  <2>1. InstrAt(p) = Wait
    BY <1>4, <1>13 DEF gaussCrossCorrelation
  <2>2. /\ InstrAt(p).op = "wait" /\ InstrAt(p).loop = 0
    BY <2>1 DEF Wait, Instruction
  <2>3. Sent(p) = 2 * N + 1 /\ Waited(p) = 2 * N /\ Held(p) = {prob}
    <3>1. Sent(p) = N + S(9, p.i) /\ Waited(p) = W(9, p.i)
          /\ Held(p) = H(9, p.i)
      BY <1>1, <1>3, <1>13
    <3>2. QED
      BY <1>1, <1>2, <3>1 DEF S, W, H
  <2>4. /\ After(p) \in Places /\ After(p).frame = f
        /\ Sent(After(p)) = 2 * N + 1 /\ Waited(After(p)) = 2 * N + 1
        /\ Held(After(p)) \subseteq {prob, kzx}
    <3>1. After(p) = q(10, p.i)
      BY <1>1, <1>13, <2>2, NextPlace
    <3>2. /\ After(p) \in Places /\ After(p).frame = f
          /\ Sent(After(p)) = N + S(10, p.i) /\ Waited(After(p)) = W(10, p.i)
          /\ Held(After(p)) = H(10, p.i)
      BY <1>1, <1>3, <1>13, <3>1
    <3>3. QED
      BY <1>1, <1>2, <1>13, <3>2 DEF S, W, H
  <2>5. WaitFits(p, After(p))
    BY <1>1, <1>2, <2>2, <2>3, <2>4 DEF WaitFits
  <2>6. QED
    BY <1>1, <1>2, <2>2, <2>3, <2>4, <2>5 DEF Disciplined
<1>14. CASE p.line = 10
  <2>1. InstrAt(p) = Change({sum})
    BY <1>4, <1>14 DEF gaussCrossCorrelation
  <2>2. /\ InstrAt(p).op = "change" /\ InstrAt(p).loop = 0
        /\ InstrAt(p).bufs = {sum}
    BY <2>1 DEF Change, Instruction
  <2>3. Sent(p) = 2 * N + 1 /\ Waited(p) = 2 * N + 1 /\ Held(p) = {prob, kzx}
    <3>1. Sent(p) = N + S(10, p.i) /\ Waited(p) = W(10, p.i)
          /\ Held(p) = H(10, p.i)
      BY <1>1, <1>3, <1>14
    <3>2. QED
      BY <1>1, <1>2, <3>1 DEF S, W, H
  <2>4. /\ After(p) \in Places /\ After(p).frame = f
        /\ Sent(After(p)) = 2 * N + 1 /\ Waited(After(p)) = 2 * N + 1
        /\ Held(After(p)) \subseteq {prob, kzx}
    <3>1. After(p) = q(11, p.i)
      BY <1>1, <1>14, <2>2, NextPlace
    <3>2. /\ After(p) \in Places /\ After(p).frame = f
          /\ Sent(After(p)) = N + S(11, p.i) /\ Waited(After(p)) = W(11, p.i)
          /\ Held(After(p)) = H(11, p.i)
      BY <1>1, <1>3, <1>14, <3>1
    <3>3. QED
      BY <1>1, <1>2, <1>14, <3>2 DEF S, W, H
  <2>5. OtherFits(p, After(p))
    BY <1>1, <1>2, <2>2, <2>3, <2>4 DEF OtherFits
  <2>6. QED
    BY <1>1, <1>2, <2>2, <2>3, <2>4, <2>5 DEF Disciplined
<1>15. CASE p.line = 11
  <2>1. InstrAt(p) = Use({kzx})
    BY <1>4, <1>15 DEF gaussCrossCorrelation
  <2>2. /\ InstrAt(p).op = "use" /\ InstrAt(p).loop = 0
        /\ InstrAt(p).bufs = {kzx}
    BY <2>1 DEF Use, Instruction
  <2>3. Sent(p) = 2 * N + 1 /\ Waited(p) = 2 * N + 1 /\ Held(p) = {prob, kzx}
    <3>1. Sent(p) = N + S(11, p.i) /\ Waited(p) = W(11, p.i)
          /\ Held(p) = H(11, p.i)
      BY <1>1, <1>3, <1>15
    <3>2. QED
      BY <1>1, <1>2, <3>1 DEF S, W, H
  <2>4. /\ After(p) \in Places /\ After(p).frame = f
        /\ Sent(After(p)) = 2 * N + 1 /\ Waited(After(p)) = 2 * N + 1
        /\ Held(After(p)) \subseteq {prob, kzx}
    <3>1. After(p) = q(12, p.i)
      BY <1>1, <1>15, <2>2, NextPlace
    <3>2. /\ After(p) \in Places /\ After(p).frame = f
          /\ Sent(After(p)) = N + S(12, p.i) /\ Waited(After(p)) = W(12, p.i)
          /\ Held(After(p)) = H(12, p.i)
      BY <1>1, <1>3, <1>15, <3>1
    <3>3. QED
      BY <1>1, <1>2, <1>15, <3>2 DEF S, W, H
  <2>5. OtherFits(p, After(p))
    BY <1>1, <1>2, <2>2, <2>3, <2>4 DEF OtherFits
  <2>6. QED
    BY <1>1, <1>2, <2>2, <2>3, <2>4, <2>5 DEF Disciplined
<1>16. CASE p.line = 12
  <2>1. InstrAt(p) = Change({kzx})
    BY <1>4, <1>16 DEF gaussCrossCorrelation
  <2>2. /\ InstrAt(p).op = "change" /\ InstrAt(p).loop = 0
        /\ InstrAt(p).bufs = {kzx}
    BY <2>1 DEF Change, Instruction
  <2>3. Sent(p) = 2 * N + 1 /\ Waited(p) = 2 * N + 1 /\ Held(p) = {prob, kzx}
    <3>1. Sent(p) = N + S(12, p.i) /\ Waited(p) = W(12, p.i)
          /\ Held(p) = H(12, p.i)
      BY <1>1, <1>3, <1>16
    <3>2. QED
      BY <1>1, <1>2, <3>1 DEF S, W, H
  <2>4. /\ After(p) \in Places /\ After(p).frame = f
        /\ Sent(After(p)) = 2 * N + 1 /\ Waited(After(p)) = 2 * N + 1
        /\ Held(After(p)) \subseteq {prob}
    <3>1. After(p) = Place(f, 4, 1, 1)
      BY <1>1, <1>16, <2>2, NextPlace DEF Calls
    <3>2. /\ After(p) \in Places /\ After(p).frame = f /\ Held(After(p)) = {prob}
          /\ Sent(After(p)) = Base(After(p)) /\ Waited(After(p)) = Base(After(p))
      BY <1>1, <3>1, Entry
    <3>3. Base(After(p)) = 2 * N + 1
      BY <1>1, <1>2, <3>1, PlaceFields DEF Base
    <3>4. QED
      BY <1>1, <1>2, <3>2, <3>3
  <2>5. OtherFits(p, After(p))
    BY <1>1, <1>2, <2>2, <2>3, <2>4 DEF OtherFits
  <2>6. QED
    BY <1>1, <1>2, <2>2, <2>3, <2>4, <2>5 DEF Disciplined
<1>17. QED
  BY <1>1, <1>5, <1>6, <1>7, <1>8, <1>9, <1>10, <1>11, <1>12, <1>13, <1>14, <1>15, <1>16

LEMMA DetectFits == ASSUME NEW p \in Places, InDetect(p) PROVE Disciplined(p)
<1> USE ParameterAssumption
<1> DEFINE f == p.frame
           k == p.call
           q(l, j) == Place(f, k, l, j)
           S(l, j) == IF l = 1 THEN 0 ELSE IF l <= 5 THEN 1 ELSE 2
           W(l, j) == IF l <= 2 THEN 0 ELSE IF l <= 6 THEN 1 ELSE 2
           H(l, j) == {prob} \cup (IF l = 3 THEN {kzxHat} ELSE IF l \in {7, 8} THEN {kzx} ELSE {})
<1>1. /\ f \in Nat /\ p.line \in 1 .. 9 /\ p.i \in 1 .. N
      /\ Lines(p) = 9 /\ p = q(p.line, p.i) /\ p.i = 1
      /\ k \in 1 .. 8 /\ f # 0 /\ k = 4
  <2>1. f \in Nat /\ p.line \in 1 .. Lines(p) /\ p.i \in 1 .. N /\ p = q(p.line, p.i)
    BY PlaceFacts DEF Place
  <2>2. k \in 1 .. 8 /\ f # 0 /\ k = 4 /\ Lines(p) = 9
    BY <2>1 DEF Lines, Places, InPeak, InFeatures, InAuto, InTrain, InFree,
       InTemplate, InCross, InDetect
  <2>3. QED
    BY <2>1, <2>2, PlaceFacts DEF InLoop, InPeak, InFeatures, InAuto, InTrain, InFree,
       InTemplate, InCross, InDetect
<1>2. PICK b \in Int : /\ b = 2 * N + 1 /\ b >= 0
                      /\ Src(f, b + 1) = kzx /\ Dst(f, b + 1) = kzxHat
                      /\ Src(f, b + 1 + 1) = kzxHat /\ Dst(f, b + 1 + 1) = kzx
  BY <1>1 DEF Src, Dst
<1>3. ASSUME NEW l \in 1 .. 9, NEW j \in 1 .. N, j = 1
      PROVE  /\ q(l, j) \in Places /\ q(l, j).frame = f
             /\ Sent(q(l, j)) = b + S(l, j) /\ Waited(q(l, j)) = b + W(l, j)
             /\ Held(q(l, j)) = H(l, j)
  <2>1. InDetect(q(l, j)) /\ q(l, j).frame = f /\ q(l, j).line = l /\ q(l, j).i = j
    BY <1>1, PlaceFields DEF InDetect
  <2>2. ~InPeak(q(l, j)) /\ ~InFeatures(q(l, j)) /\ ~InAuto(q(l, j)) /\ ~InTrain(q(l, j))
        /\ ~InFree(q(l, j)) /\ ~InTemplate(q(l, j)) /\ ~InCross(q(l, j))
    BY <1>1, PlaceFields DEF InPeak, InFeatures, InAuto, InTrain, InFree,
       InTemplate, InCross, InDetect
  <2>3. Base(q(l, j)) = b
    BY <1>1, <1>2, PlaceFields DEF Base
  <2>4. q(l, j).call = k
    BY PlaceFields
  <2> HIDE DEF q
  <2>5. Sent(q(l, j)) = b + S(l, j)
    BY <1>1, <1>2, <2>1, <2>2, <2>3, <2>4 DEF Sent
  <2>6. Waited(q(l, j)) = b + W(l, j)
    BY <1>1, <1>2, <2>1, <2>2, <2>3, <2>4 DEF Waited
  <2>7. Held(q(l, j)) = H(l, j)
    BY <2>1, <2>2 DEF Held
  <2>8. q(l, j) \in Places
    <3>1. Lines(q(l, j)) = 9
      BY <2>1, <2>2 DEF Lines
    <3>2. j = 1 \/ InLoop(q(l, j))
      BY <1>3, <2>1 DEF InLoop
    <3>3. f = 0 => k <= 5
      BY <1>1
    <3>4. /\ Lines(Place(f, k, l, j)) = 9 /\ l \in 1 .. 12 /\ l <= 9
          /\ j = 1 \/ InLoop(Place(f, k, l, j))
      BY <3>1, <3>2 DEF q
    <3>5. Place(f, k, l, j) \in Places
      BY <1>1, <3>3, <3>4, PlaceIn
    <3>6. QED
      BY <3>5 DEF q
  <2>9. QED
    BY <2>1, <2>5, <2>6, <2>7, <2>8
<1> HIDE DEF S, W, H
<1>4. InstrAt(p) = detect[p.line]
  BY TextFacts, NextPlace
<1>5. CASE p.line = 1
  <2>1. InstrAt(p) = Send(kzx, kzxHat)
    BY <1>4, <1>5 DEF detect
  <2>2. /\ InstrAt(p).op = "send" /\ InstrAt(p).loop = 0
        /\ InstrAt(p).src = kzx /\ InstrAt(p).dst = kzxHat
    BY <2>1 DEF Send, Instruction
  <2>3. Sent(p) = b /\ Waited(p) = b /\ Held(p) = {prob}
    <3>1. Sent(p) = b + S(1, p.i) /\ Waited(p) = b + W(1, p.i)
          /\ Held(p) = H(1, p.i)
      BY <1>1, <1>3, <1>5
    <3>2. QED
      BY <1>1, <1>2, <3>1 DEF S, W, H
  <2>4. /\ After(p) \in Places /\ After(p).frame = f
        /\ Sent(After(p)) = b + 1 /\ Waited(After(p)) = b
        /\ Held(After(p)) \subseteq {prob}
    <3>1. After(p) = q(2, p.i)
      BY <1>1, <1>5, <2>2, NextPlace
    <3>2. /\ After(p) \in Places /\ After(p).frame = f
          /\ Sent(After(p)) = b + S(2, p.i) /\ Waited(After(p)) = b + W(2, p.i)
          /\ Held(After(p)) = H(2, p.i)
      BY <1>1, <1>3, <1>5, <3>1
    <3>3. QED
      BY <1>1, <1>2, <1>5, <3>2 DEF S, W, H
  <2>5. SendFits(p, After(p))
    BY <1>1, <1>2, <2>2, <2>3, <2>4 DEF SendFits, prob, kzxHat
  <2>6. QED
    BY <1>1, <1>2, <2>2, <2>3, <2>4, <2>5 DEF Disciplined
<1>6. CASE p.line = 2
  <2>1. InstrAt(p) = Wait
    BY <1>4, <1>6 DEF detect
  <2>2. /\ InstrAt(p).op = "wait" /\ InstrAt(p).loop = 0
    BY <2>1 DEF Wait, Instruction
  <2>3. Sent(p) = b + 1 /\ Waited(p) = b /\ Held(p) = {prob}
    <3>1. Sent(p) = b + S(2, p.i) /\ Waited(p) = b + W(2, p.i)
          /\ Held(p) = H(2, p.i)
      BY <1>1, <1>3, <1>6
    <3>2. QED
      BY <1>1, <1>2, <3>1 DEF S, W, H
  <2>4. /\ After(p) \in Places /\ After(p).frame = f
        /\ Sent(After(p)) = b + 1 /\ Waited(After(p)) = b + 1
        /\ Held(After(p)) \subseteq {prob, kzxHat}
    <3>1. After(p) = q(3, p.i)
      BY <1>1, <1>6, <2>2, NextPlace
    <3>2. /\ After(p) \in Places /\ After(p).frame = f
          /\ Sent(After(p)) = b + S(3, p.i) /\ Waited(After(p)) = b + W(3, p.i)
          /\ Held(After(p)) = H(3, p.i)
      BY <1>1, <1>3, <1>6, <3>1
    <3>3. QED
      BY <1>1, <1>2, <1>6, <3>2 DEF S, W, H
  <2>5. WaitFits(p, After(p))
    BY <1>1, <1>2, <2>2, <2>3, <2>4 DEF WaitFits
  <2>6. QED
    BY <1>1, <1>2, <2>2, <2>3, <2>4, <2>5 DEF Disciplined
<1>7. CASE p.line = 3
  <2>1. InstrAt(p) = Use({kzxHat})
    BY <1>4, <1>7 DEF detect
  <2>2. /\ InstrAt(p).op = "use" /\ InstrAt(p).loop = 0
        /\ InstrAt(p).bufs = {kzxHat}
    BY <2>1 DEF Use, Instruction
  <2>3. Sent(p) = b + 1 /\ Waited(p) = b + 1 /\ Held(p) = {prob, kzxHat}
    <3>1. Sent(p) = b + S(3, p.i) /\ Waited(p) = b + W(3, p.i)
          /\ Held(p) = H(3, p.i)
      BY <1>1, <1>3, <1>7
    <3>2. QED
      BY <1>1, <1>2, <3>1 DEF S, W, H
  <2>4. /\ After(p) \in Places /\ After(p).frame = f
        /\ Sent(After(p)) = b + 1 /\ Waited(After(p)) = b + 1
        /\ Held(After(p)) \subseteq {prob}
    <3>1. After(p) = q(4, p.i)
      BY <1>1, <1>7, <2>2, NextPlace
    <3>2. /\ After(p) \in Places /\ After(p).frame = f
          /\ Sent(After(p)) = b + S(4, p.i) /\ Waited(After(p)) = b + W(4, p.i)
          /\ Held(After(p)) = H(4, p.i)
      BY <1>1, <1>3, <1>7, <3>1
    <3>3. QED
      BY <1>1, <1>2, <1>7, <3>2 DEF S, W, H
  <2>5. OtherFits(p, After(p))
    BY <1>1, <1>2, <2>2, <2>3, <2>4 DEF OtherFits
  <2>6. QED
    BY <1>1, <1>2, <2>2, <2>3, <2>4, <2>5 DEF Disciplined
<1>8. CASE p.line = 4
  <2>1. InstrAt(p) = Change({kzxHat})
    BY <1>4, <1>8 DEF detect
  <2>2. /\ InstrAt(p).op = "change" /\ InstrAt(p).loop = 0
        /\ InstrAt(p).bufs = {kzxHat}
    BY <2>1 DEF Change, Instruction
  <2>3. Sent(p) = b + 1 /\ Waited(p) = b + 1 /\ Held(p) = {prob}
    <3>1. Sent(p) = b + S(4, p.i) /\ Waited(p) = b + W(4, p.i)
          /\ Held(p) = H(4, p.i)
      BY <1>1, <1>3, <1>8
    <3>2. QED
      BY <1>1, <1>2, <3>1 DEF S, W, H
  <2>4. /\ After(p) \in Places /\ After(p).frame = f
        /\ Sent(After(p)) = b + 1 /\ Waited(After(p)) = b + 1
        /\ Held(After(p)) \subseteq {prob}
    <3>1. After(p) = q(5, p.i)
      BY <1>1, <1>8, <2>2, NextPlace
    <3>2. /\ After(p) \in Places /\ After(p).frame = f
          /\ Sent(After(p)) = b + S(5, p.i) /\ Waited(After(p)) = b + W(5, p.i)
          /\ Held(After(p)) = H(5, p.i)
      BY <1>1, <1>3, <1>8, <3>1
    <3>3. QED
      BY <1>1, <1>2, <1>8, <3>2 DEF S, W, H
  <2>5. OtherFits(p, After(p))
    BY <1>1, <1>2, <2>2, <2>3, <2>4 DEF OtherFits
  <2>6. QED
    BY <1>1, <1>2, <2>2, <2>3, <2>4, <2>5 DEF Disciplined
<1>9. CASE p.line = 5
  <2>1. InstrAt(p) = Send(kzxHat, kzx)
    BY <1>4, <1>9 DEF detect
  <2>2. /\ InstrAt(p).op = "send" /\ InstrAt(p).loop = 0
        /\ InstrAt(p).src = kzxHat /\ InstrAt(p).dst = kzx
    BY <2>1 DEF Send, Instruction
  <2>3. Sent(p) = b + 1 /\ Waited(p) = b + 1 /\ Held(p) = {prob}
    <3>1. Sent(p) = b + S(5, p.i) /\ Waited(p) = b + W(5, p.i)
          /\ Held(p) = H(5, p.i)
      BY <1>1, <1>3, <1>9
    <3>2. QED
      BY <1>1, <1>2, <3>1 DEF S, W, H
  <2>4. /\ After(p) \in Places /\ After(p).frame = f
        /\ Sent(After(p)) = b + 2 /\ Waited(After(p)) = b + 1
        /\ Held(After(p)) \subseteq {prob}
    <3>1. After(p) = q(6, p.i)
      BY <1>1, <1>9, <2>2, NextPlace
    <3>2. /\ After(p) \in Places /\ After(p).frame = f
          /\ Sent(After(p)) = b + S(6, p.i) /\ Waited(After(p)) = b + W(6, p.i)
          /\ Held(After(p)) = H(6, p.i)
      BY <1>1, <1>3, <1>9, <3>1
    <3>3. QED
      BY <1>1, <1>2, <1>9, <3>2 DEF S, W, H
  <2>5. SendFits(p, After(p))
    BY <1>1, <1>2, <2>2, <2>3, <2>4 DEF SendFits, prob, kzx
  <2>6. QED
    BY <1>1, <1>2, <2>2, <2>3, <2>4, <2>5 DEF Disciplined
<1>10. CASE p.line = 6
  <2>1. InstrAt(p) = Wait
    BY <1>4, <1>10 DEF detect
  <2>2. /\ InstrAt(p).op = "wait" /\ InstrAt(p).loop = 0
    BY <2>1 DEF Wait, Instruction
  <2>3. Sent(p) = b + 2 /\ Waited(p) = b + 1 /\ Held(p) = {prob}
    <3>1. Sent(p) = b + S(6, p.i) /\ Waited(p) = b + W(6, p.i)
          /\ Held(p) = H(6, p.i)
      BY <1>1, <1>3, <1>10
    <3>2. QED
      BY <1>1, <1>2, <3>1 DEF S, W, H
  <2>4. /\ After(p) \in Places /\ After(p).frame = f
        /\ Sent(After(p)) = b + 2 /\ Waited(After(p)) = b + 2
        /\ Held(After(p)) \subseteq {prob, kzx}
    <3>1. After(p) = q(7, p.i)
      BY <1>1, <1>10, <2>2, NextPlace
    <3>2. /\ After(p) \in Places /\ After(p).frame = f
          /\ Sent(After(p)) = b + S(7, p.i) /\ Waited(After(p)) = b + W(7, p.i)
          /\ Held(After(p)) = H(7, p.i)
      BY <1>1, <1>3, <1>10, <3>1
    <3>3. QED
      BY <1>1, <1>2, <1>10, <3>2 DEF S, W, H
  <2>5. WaitFits(p, After(p))
    BY <1>1, <1>2, <2>2, <2>3, <2>4 DEF WaitFits
  <2>6. QED
    BY <1>1, <1>2, <2>2, <2>3, <2>4, <2>5 DEF Disciplined
<1>11. CASE p.line = 7
  <2>1. InstrAt(p) = Change({kzxHat})
    BY <1>4, <1>11 DEF detect
  <2>2. /\ InstrAt(p).op = "change" /\ InstrAt(p).loop = 0
        /\ InstrAt(p).bufs = {kzxHat}
    BY <2>1 DEF Change, Instruction
  <2>3. Sent(p) = b + 2 /\ Waited(p) = b + 2 /\ Held(p) = {prob, kzx}
    <3>1. Sent(p) = b + S(7, p.i) /\ Waited(p) = b + W(7, p.i)
          /\ Held(p) = H(7, p.i)
      BY <1>1, <1>3, <1>11
    <3>2. QED
      BY <1>1, <1>2, <3>1 DEF S, W, H
  <2>4. /\ After(p) \in Places /\ After(p).frame = f
        /\ Sent(After(p)) = b + 2 /\ Waited(After(p)) = b + 2
        /\ Held(After(p)) \subseteq {prob, kzx}
    <3>1. After(p) = q(8, p.i)
      BY <1>1, <1>11, <2>2, NextPlace
    <3>2. /\ After(p) \in Places /\ After(p).frame = f
          /\ Sent(After(p)) = b + S(8, p.i) /\ Waited(After(p)) = b + W(8, p.i)
          /\ Held(After(p)) = H(8, p.i)
      BY <1>1, <1>3, <1>11, <3>1
    <3>3. QED
      BY <1>1, <1>2, <1>11, <3>2 DEF S, W, H
  <2>5. OtherFits(p, After(p))
    BY <1>1, <1>2, <2>2, <2>3, <2>4 DEF OtherFits
  <2>6. QED
    BY <1>1, <1>2, <2>2, <2>3, <2>4, <2>5 DEF Disciplined
<1>12. CASE p.line = 8
  <2>1. InstrAt(p) = Use({kzx})
    BY <1>4, <1>12 DEF detect
  <2>2. /\ InstrAt(p).op = "use" /\ InstrAt(p).loop = 0
        /\ InstrAt(p).bufs = {kzx}
    BY <2>1 DEF Use, Instruction
  <2>3. Sent(p) = b + 2 /\ Waited(p) = b + 2 /\ Held(p) = {prob, kzx}
    <3>1. Sent(p) = b + S(8, p.i) /\ Waited(p) = b + W(8, p.i)
          /\ Held(p) = H(8, p.i)
      BY <1>1, <1>3, <1>12
    <3>2. QED
      BY <1>1, <1>2, <3>1 DEF S, W, H
  <2>4. /\ After(p) \in Places /\ After(p).frame = f
        /\ Sent(After(p)) = b + 2 /\ Waited(After(p)) = b + 2
        /\ Held(After(p)) \subseteq {prob}
    <3>1. After(p) = q(9, p.i)
      BY <1>1, <1>12, <2>2, NextPlace
    <3>2. /\ After(p) \in Places /\ After(p).frame = f
          /\ Sent(After(p)) = b + S(9, p.i) /\ Waited(After(p)) = b + W(9, p.i)
          /\ Held(After(p)) = H(9, p.i)
      BY <1>1, <1>3, <1>12, <3>1
    <3>3. QED
      BY <1>1, <1>2, <1>12, <3>2 DEF S, W, H
  <2>5. OtherFits(p, After(p))
    BY <1>1, <1>2, <2>2, <2>3, <2>4 DEF OtherFits
  <2>6. QED
    BY <1>1, <1>2, <2>2, <2>3, <2>4, <2>5 DEF Disciplined
<1>13. CASE p.line = 9
  <2>1. InstrAt(p) = Change({kzx})
    BY <1>4, <1>13 DEF detect
  <2>2. /\ InstrAt(p).op = "change" /\ InstrAt(p).loop = 0
        /\ InstrAt(p).bufs = {kzx}
    BY <2>1 DEF Change, Instruction
  <2>3. Sent(p) = b + 2 /\ Waited(p) = b + 2 /\ Held(p) = {prob}
    <3>1. Sent(p) = b + S(9, p.i) /\ Waited(p) = b + W(9, p.i)
          /\ Held(p) = H(9, p.i)
      BY <1>1, <1>3, <1>13
    <3>2. QED
      BY <1>1, <1>2, <3>1 DEF S, W, H
  <2>4. /\ After(p) \in Places /\ After(p).frame = f
        /\ Sent(After(p)) = b + 2 /\ Waited(After(p)) = b + 2
        /\ Held(After(p)) \subseteq {prob}
    <3>1. After(p) = Place(f, 5, 1, 1)
      BY <1>1, <1>13, <2>2, NextPlace DEF Calls
    <3>2. /\ After(p) \in Places /\ After(p).frame = f /\ Held(After(p)) = {prob}
          /\ Sent(After(p)) = Base(After(p)) /\ Waited(After(p)) = Base(After(p))
      BY <1>1, <3>1, Entry
    <3>3. Base(After(p)) = b + 2
      BY <1>1, <1>2, <3>1, PlaceFields DEF Base
    <3>4. QED
      BY <1>1, <1>2, <3>2, <3>3
  <2>5. OtherFits(p, After(p))
    BY <1>1, <1>2, <2>2, <2>3, <2>4 DEF OtherFits
  <2>6. QED
    BY <1>1, <1>2, <2>2, <2>3, <2>4, <2>5 DEF Disciplined
<1>14. QED
  BY <1>1, <1>5, <1>6, <1>7, <1>8, <1>9, <1>10, <1>11, <1>12, <1>13

LEMMA ProgramDisciplined == ASSUME NEW p \in Places PROVE Disciplined(p)
BY PlaceKinds, PeakFits, FeaturesFits, AutoFits, TrainFits, FreeFits, TemplateFits, CrossFits,
   DetectFits

-----------------------------------------------------------------------------
(* The cores and core 3 together.                                          *)

Lists == {"high", "normal"}

LEMMA BuffersOfRequests ==
  ASSUME NEW frame \in Nat, NEW n \in Int, n >= 1
  PROVE  Src(frame, n) \in Buffers /\ Dst(frame, n) \in Buffers
<1>1. /\ prob \in Buffers /\ sum \in Buffers /\ kxx \in Buffers /\ kzx \in Buffers
      /\ kzxHat \in Buffers
  BY ParameterAssumption DEF Buffers, prob, sum, kxx, kzx, kzxHat
<1>2. \A m \in 0 .. N : \A b \in {"x", "tmpl", "tmplDft", "zHat"} : <<b, m>> \in Buffers
  BY DEF Buffers
<1> HIDE DEF Buffers
<1>3. CASE frame = 0
  <2>1. n > 1 /\ n <= N + 1 => n - 1 \in 0 .. N
    BY ParameterAssumption
  <2>2. n # 1 => n > 1
    OBVIOUS
  <2>3. QED
    BY <1>1, <1>2, <1>3, <2>1, <2>2 DEF Src, Dst
<1>4. CASE frame # 0
  <2>1. n <= N => n \in 0 .. N
    BY ParameterAssumption
  <2>2. ~(n <= N) /\ n <= 2 * N => n - N \in 0 .. N
    BY ParameterAssumption
  <2>3. ~(n <= 2 * N) /\ n # 2 * N + 1 /\ n # 2 * N + 2 /\ n # 2 * N + 3 /\ n <= 3 * N + 3
          => n - (2 * N + 3) \in 0 .. N
    BY ParameterAssumption
  <2>4. ~(n <= N) /\ ~(n <= 2 * N) /\ n # 2 * N + 1 => n # 2 * N + 1
    OBVIOUS
  <2>5. Src(frame, n) \in Buffers
    BY <1>1, <1>2, <1>4, <2>1, <2>2, <2>3 DEF Src
  <2>6. Dst(frame, n) \in Buffers
    BY <1>1, <1>2, <1>4, <2>1, <2>2, <2>3 DEF Dst
  <2>7. QED
    BY <2>5, <2>6
<1>5. QED
  BY <1>3, <1>4

LEMMA Priorities ==
  ASSUME NEW c \in Cores
  PROVE  /\ Priority(c) \in Lists
         /\ \A d \in Cores : d # c => Priority(d) # Priority(c)
BY ParameterAssumption DEF Priority, Lists

LEMMA TotalStep ==
  ASSUME NEW g \in [Cores -> Int], NEW c \in Cores, NEW e \in Int, NEW h \in [Cores -> Int],
         h[c] = g[c] + e, \A d \in Cores : d # c => h[d] = g[d]
  PROVE  Total(h) = Total(g) + e /\ Total(g) \in Int
BY ParameterAssumption DEF Total

\* List l of queue q becomes list s, which gives queue r.
ListBecomes(q, l, s, r) ==
    /\ r \in [Lists -> Seq(Requests)] /\ r[l] = s
    /\ \A m \in Lists : m # l => r[m] = q[m]
    /\ Len(r["high"]) + Len(r["normal"]) =
         Len(q["high"]) + Len(q["normal"]) + (Len(s) - Len(q[l]))

LEMMA ListStep ==
  ASSUME NEW q \in [Lists -> Seq(Requests)], NEW l \in Lists, NEW s \in Seq(Requests)
  PROVE  ListBecomes(q, l, s, [q EXCEPT ![l] = s])
<1> DEFINE r == [q EXCEPT ![l] = s]
<1>1. r \in [Lists -> Seq(Requests)] /\ r[l] = s /\ \A m \in Lists : m # l => r[m] = q[m]
  BY DEF Lists
<1> HIDE DEF r
<1>2. PICK a \in Int, b \in Int, t \in Int :
          a = Len(q["high"]) /\ b = Len(q["normal"]) /\ t = Len(s)
  BY LenProperties DEF Lists
<1>3. "high" \in Lists /\ "normal" \in Lists
  BY DEF Lists
<1>4. CASE l = "high"
  <2>1. Len(r["high"]) = t /\ Len(r["normal"]) = b /\ Len(q[l]) = a
    BY <1>1, <1>2, <1>3, <1>4
  <2>2. t + b = a + b + (t - a)
    OBVIOUS
  <2>3. QED
    BY <1>1, <1>2, <2>1, <2>2 DEF ListBecomes, r
<1>5. CASE l = "normal"
  <2>1. Len(r["high"]) = a /\ Len(r["normal"]) = t /\ Len(q[l]) = b
    BY <1>1, <1>2, <1>3, <1>5
  <2>2. a + t = a + b + (t - b)
    OBVIOUS
  <2>3. QED
    BY <1>1, <1>2, <2>1, <2>2 DEF ListBecomes, r
<1>6. QED
  BY <1>4, <1>5 DEF Lists

LEMMA CoreFacts ==
  ASSUME Typing, NEW c \in Cores
  PROVE  /\ pc[c] \in Places /\ Disciplined(pc[c])
         /\ After(pc[c]) \in Places /\ Disciplined(After(pc[c]))
         /\ Instr(c) = InstrAt(pc[c])
         /\ doneSem[c] \in Nat /\ Posted(c) \in Int /\ Posted(c) >= doneSem[c]
         /\ Posted(c) >= 0 /\ InPass(c) \in 0 .. 1
         /\ Priority(c) \in Lists /\ queue[Priority(c)] \in Seq(Requests)
<1>1. pc[c] \in Places /\ Disciplined(pc[c])
  BY ProgramDisciplined DEF Typing
<1>2. After(pc[c]) \in Places /\ Disciplined(After(pc[c]))
  BY <1>1, ProgramDisciplined DEF Disciplined
<1>3. doneSem[c] \in Nat
  BY DEF Typing
<1>4. Posted(c) \in Int /\ Posted(c) >= doneSem[c] /\ Posted(c) >= 0 /\ InPass(c) \in 0 .. 1
  BY <1>3 DEF Posted, InPass
<1>5. Priority(c) \in Lists /\ queue[Priority(c)] \in Seq(Requests)
  BY Priorities DEF Typing, Lists
<1>6. QED
  BY <1>1, <1>2, <1>3, <1>4, <1>5 DEF Instr, InstrAt

LEMMA PcStep ==
  ASSUME Typing, NEW c \in Cores, ~Finished(c), Advance(c)
  PROVE  /\ pc' \in [Cores -> Places] /\ \A d \in Cores : pc'[d].frame <= Updates + 1
         /\ pc'[c] = After(pc[c]) /\ \A d \in Cores : d # c => pc'[d] = pc[d]
<1>1. pc \in [Cores -> Places] /\ \A d \in Cores : pc[d].frame <= Updates + 1
  BY DEF Typing
<1>2. After(pc[c]) \in Places /\ After(pc[c]).frame <= pc[c].frame + 1
  BY CoreFacts DEF Disciplined
<1>3. After(pc[c]).frame <= Updates + 1
  <2>1. pc[c].frame \in Nat /\ After(pc[c]).frame \in Nat /\ Updates \in Nat
    BY <1>1, <1>2, ParameterAssumption DEF Places
  <2>2. ~(pc[c].frame > Updates)
    BY DEF Finished
  <2>3. QED
    BY <1>2, <2>1, <2>2
<1>4. pc' = [pc EXCEPT ![c] = After(pc[c])]
  BY DEF Advance
<1>5. /\ pc' \in [Cores -> Places]
      /\ pc'[c] = After(pc[c]) /\ \A d \in Cores : d # c => pc'[d] = pc[d]
  BY <1>1, <1>2, <1>4
<1>6. \A d \in Cores : pc'[d].frame <= Updates + 1
  BY <1>1, <1>3, <1>5
<1>7. QED
  BY <1>5, <1>6

-----------------------------------------------------------------------------
(* The invariant holds initially, and every step keeps it.                 *)

LEMMA InitIInv == Init => IInv
<1> SUFFICES ASSUME Init PROVE IInv
  OBVIOUS
<1>1. /\ First(0) \in Places /\ First(0).frame = 0 /\ Held(First(0)) = {}
      /\ Sent(First(0)) = 0 /\ Waited(First(0)) = 0
  <2>1. Base(Place(0, 1, 1, 1)) = 0
    BY PlaceFields DEF Base
  <2>2. QED
    BY <2>1, Entry DEF First
<1>2. <<>> \in Seq(Requests) /\ Len(<<>>) = 0
  BY EmptySeq
<1>3. Typing
  <2>1. pc \in [Cores -> Places] /\ \A c \in Cores : pc[c].frame = 0
    BY <1>1 DEF Init
  <2>2. \A c \in Cores : pc[c].frame <= Updates + 1
    BY <2>1, ParameterAssumption
  <2>3. queue \in [{"high", "normal"} -> Seq(Requests)]
    BY <1>2 DEF Init
  <2>4. /\ fresh \in [Cores -> SUBSET Buffers] /\ doneSem \in [Cores -> Nat]
        /\ tsps \in [Cores -> {"idle", "busy", "posted"}]
        /\ sent \in [Cores -> Nat] /\ waited \in [Cores -> Nat]
    BY DEF Init
  <2>5. /\ fftPc \in {"get", "pass1", "pass2", "free", "notify"}
        /\ replyTo \in Cores \cup {0} /\ hwiSem \in 0 .. 1
        /\ block \in {"held", "free", "again"}
    BY DEF Init
  <2>6. engine \in BOOLEAN /\ misdirected \in BOOLEAN
    BY Zenon DEF Init
  <2>7. QED
    BY <2>1, <2>2, <2>3, <2>4, <2>5, <2>6 DEF Typing
<1>4. ServiceInv
  BY <1>2 DEF Init, ServiceInv
<1>5. EveryRequestNotifiedOnce
  BY <1>2, ParameterAssumption DEF Init, EveryRequestNotifiedOnce, Total, InService
<1>6. OrderInv
  <2> SUFFICES ASSUME NEW c \in Cores PROVE InOrder(c)
    BY DEF OrderInv
  <2>1. Posted(c) = 0 /\ InPass(c) = 0 /\ queue[Priority(c)] = <<>>
    BY Priorities DEF Init, Posted, InPass, Lists
  <2>2. pc[c] = First(0)
    BY DEF Init
  <2>3. QED
    BY <1>1, <1>2, <2>1, <2>2 DEF InOrder, Ordered
<1>7. QED
  BY <1>3, <1>4, <1>5, <1>6 DEF IInv

\* A core that neither sends nor waits.
LEMMA OtherStep ==
  ASSUME IInv, NEW c \in Cores, ~Finished(c), Instr(c).op \notin {"send", "wait"}, Advance(c),
         UNCHANGED <<fresh, doneSem, queue, fftVars, heapVars, counts>>,
         tsps' \in [Cores -> {"idle", "busy", "posted"}]
  PROVE  IInv'
<1>1. Typing /\ ServiceInv /\ EveryRequestNotifiedOnce /\ OrderInv
  BY DEF IInv
<1>2. Typing'
  BY <1>1, PcStep DEF Typing, fftVars, heapVars, counts
<1>3. ServiceInv'
  BY <1>1 DEF ServiceInv, fftVars, heapVars
<1>4. EveryRequestNotifiedOnce'
  BY <1>1 DEF EveryRequestNotifiedOnce, InService, fftVars, counts
<1>5. OrderInv'
  <2> SUFFICES ASSUME ~misdirected, NEW d \in Cores PROVE InOrder(d)'
    BY DEF OrderInv, heapVars
  <2>1. InOrder(d)
    BY <1>1 DEF OrderInv
  <2>2. /\ Posted(d)' = Posted(d) /\ InPass(d)' = InPass(d) /\ queue' = queue
        /\ fresh' = fresh /\ cur' = cur
    BY DEF Posted, InPass, fftVars, heapVars
  <2>3. CASE d # c
    <3>1. pc'[d] = pc[d]
      BY <1>1, <2>3, PcStep
    <3>2. QED
      BY <2>1, <2>2, <3>1 DEF InOrder
  <2>4. CASE d = c
    <3>1. Ordered(c, After(pc[c]), Posted(c), InPass(c), queue[Priority(c)], fresh[c], cur)
      BY <1>1, <2>1, <2>4, CoreFacts, OrderedOther DEF InOrder
    <3>2. pc'[c] = After(pc[c])
      BY <1>1, PcStep
    <3>3. QED
      BY <2>2, <2>4, <3>1, <3>2 DEF InOrder
  <2>5. QED
    BY <2>3, <2>4
<1>6. QED
  BY <1>2, <1>3, <1>4, <1>5 DEF IInv

Queued == Len(queue["high"]) + Len(queue["normal"])

LEMMA TotalTypes ==
  ASSUME Typing
  PROVE  /\ Total(sent) \in Int /\ Total(waited) \in Int /\ Total(doneSem) \in Int
         /\ InService \in Int /\ Queued \in Int
<1>1. \A c \in Cores : sent[c] \in Int /\ waited[c] \in Int /\ doneSem[c] \in Int
  BY DEF Typing
<1>2. Len(queue["high"]) \in Int /\ Len(queue["normal"]) \in Int
  BY LenProperties DEF Typing
<1>3. QED
  BY <1>1, <1>2, ParameterAssumption DEF Total, InService, Queued

\* The count of the requests, before and after a step.
LEMMA Balance ==
  ASSUME Typing, Typing', EveryRequestNotifiedOnce,
         Total(sent)' - Total(sent) = (Total(waited)' - Total(waited))
             + (Total(doneSem)' - Total(doneSem)) + (Queued' - Queued)
             + (InService' - InService)
  PROVE  EveryRequestNotifiedOnce'
<1>1. PICK s \in Int, w \in Int, d \in Int, i \in Int :
          s = Total(sent) /\ w = Total(waited) /\ d = Total(doneSem) /\ i = InService
  BY TotalTypes
<1>2. PICK s1 \in Int, w1 \in Int, d1 \in Int, i1 \in Int :
          s1 = Total(sent)' /\ w1 = Total(waited)' /\ d1 = Total(doneSem)' /\ i1 = InService'
  <2>1. \A c \in Cores : sent'[c] \in Int /\ waited'[c] \in Int /\ doneSem'[c] \in Int
    BY DEF Typing
  <2>2. Total(sent)' \in Int /\ Total(waited)' \in Int /\ Total(doneSem)' \in Int
    BY <2>1, ParameterAssumption DEF Total
  <2>3. InService' \in Int
    BY DEF InService
  <2>4. QED
    BY <2>2, <2>3
<1>3. PICK a \in Int, b \in Int, a1 \in Int, b1 \in Int :
          /\ a = Len(queue["high"]) /\ b = Len(queue["normal"])
          /\ a1 = Len(queue'["high"]) /\ b1 = Len(queue'["normal"])
  BY LenProperties DEF Typing
<1>4. s = w + d + a + b + i
  BY <1>1, <1>3 DEF EveryRequestNotifiedOnce
<1>5. s1 - s = (w1 - w) + (d1 - d) + ((a1 + b1) - (a + b)) + (i1 - i)
  BY <1>1, <1>2, <1>3 DEF Queued
<1>6. s1 = w1 + d1 + a1 + b1 + i1
  BY <1>4, <1>5
<1>7. QED
  BY <1>2, <1>3, <1>6 DEF EveryRequestNotifiedOnce

LEMMA SendStep == ASSUME IInv, NEW c \in Cores, CoreSend(c) PROVE IInv'
<1> DEFINE l == Priority(c)
           e == [core |-> c, src |-> Instr(c).src, dst |-> Instr(c).dst]
<1>1. Typing /\ ServiceInv /\ EveryRequestNotifiedOnce /\ OrderInv
  BY DEF IInv
<1>2. ~Finished(c) /\ Instr(c).op = "send" /\ Advance(c)
  BY DEF CoreSend, At
<1>3. e \in Requests
  <2>1. /\ InstrAt(pc[c]).src = Src(pc[c].frame, Sent(pc[c]) + 1)
        /\ InstrAt(pc[c]).dst = Dst(pc[c].frame, Sent(pc[c]) + 1)
        /\ Sent(pc[c]) \in Nat
    BY <1>1, <1>2, CoreFacts DEF Disciplined, SendFits
  <2>2. pc[c].frame \in Nat
    BY <1>1, CoreFacts, PlaceFacts
  <2>3. Sent(pc[c]) + 1 \in Int /\ Sent(pc[c]) + 1 >= 1
    BY <2>1
  <2>4. Instr(c).src \in Buffers /\ Instr(c).dst \in Buffers
    BY <1>1, <2>1, <2>2, <2>3, CoreFacts, BuffersOfRequests
  <2>5. QED
    BY <2>4 DEF Requests
<1>4. queue \in [Lists -> Seq(Requests)] /\ l \in Lists /\ queue[l] \in Seq(Requests)
  BY <1>1, CoreFacts DEF Typing, Lists
<1>5. /\ Append(queue[l], e) \in Seq(Requests) /\ Len(queue[l]) \in Nat
      /\ Len(Append(queue[l], e)) = Len(queue[l]) + 1
      /\ \A j \in 1 .. Len(queue[l]) : Append(queue[l], e)[j] = queue[l][j]
      /\ Append(queue[l], e)[Len(queue[l]) + 1] = e
  BY <1>3, <1>4, AppendProperties, LenProperties
<1>6. queue' = [queue EXCEPT ![l] = Append(queue[l], e)]
  BY DEF CoreSend
<1>7. fresh' = [fresh EXCEPT ![c] = fresh[c] \ {Instr(c).dst}]
  BY DEF CoreSend
<1>8. /\ sent' = [sent EXCEPT ![c] = sent[c] + 1]
      /\ UNCHANGED <<doneSem, tsps, fftPc, cur, engine, hwiSem, waited>>
  BY DEF CoreSend, fftVars
<1>9. \/ UNCHANGED <<replyTo, block, misdirected>>
      \/ /\ block = "free" /\ block' = "again" /\ replyTo' = c
         /\ misdirected' = (misdirected \/ replyTo # c)
  BY DEF CoreSend, heapVars
<1> HIDE DEF e, l
<1>10. /\ queue' \in [Lists -> Seq(Requests)] /\ queue'[l] = Append(queue[l], e)
       /\ \A m \in Lists : m # l => queue'[m] = queue[m]
       /\ Len(queue'["high"]) + Len(queue'["normal"]) =
            Len(queue["high"]) + Len(queue["normal"])
            + (Len(Append(queue[l], e)) - Len(queue[l]))
  <2>1. ListBecomes(queue, l, Append(queue[l], e), queue')
    BY <1>4, <1>5, <1>6, ListStep
  <2>2. QED
    BY <2>1 DEF ListBecomes
<1>11. Typing'
  <2>1. /\ pc' \in [Cores -> Places] /\ \A d \in Cores : pc'[d].frame <= Updates + 1
    BY <1>1, <1>2, PcStep
  <2>2. fresh' \in [Cores -> SUBSET Buffers] /\ sent' \in [Cores -> Nat]
    BY <1>1, <1>7, <1>8 DEF Typing
  <2>3. /\ replyTo' \in Cores \cup {0} /\ block' \in {"held", "free", "again"}
        /\ misdirected' \in BOOLEAN
    BY <1>1, <1>9 DEF Typing
  <2>4. QED
    BY <1>1, <1>8, <1>10, <2>1, <2>2, <2>3 DEF Typing, Lists
<1>12. ServiceInv'
  <2>1. block = "free" => fftPc = "notify"
    BY <1>1 DEF ServiceInv
  <2>2. c # 0
    BY ParameterAssumption
  <2>3. /\ (fftPc = "get" <=> replyTo = 0)'
        /\ (IF fftPc \in {"pass1", "pass2", "free"}
            THEN cur \in Requests /\ replyTo = cur.core ELSE cur = NoRequest)'
        /\ (block # "held" => fftPc = "notify")'
    BY <1>1, <1>8, <1>9, <2>1, <2>2 DEF ServiceInv
  <2>4. ASSUME NEW m \in Lists, NEW j \in 1 .. Len(queue'[m])
        PROVE  Priority(queue'[m][j].core) = m
    <3>1. CASE m # l
      BY <1>1, <1>10, <2>4, <3>1 DEF ServiceInv, Lists
    <3>2. CASE m = l /\ j \in 1 .. Len(queue[l])
      <4>1. queue'[m][j] = queue[m][j] /\ j \in 1 .. Len(queue[m])
        BY <1>5, <1>10, <3>2
      <4>2. QED
        BY <1>1, <4>1 DEF ServiceInv, Lists
    <3>3. CASE m = l /\ j = Len(queue[l]) + 1
      BY <1>5, <1>10, <3>3 DEF e, l
    <3>4. QED
      BY <1>5, <1>10, <2>4, <3>1, <3>2, <3>3
  <2>5. QED
    BY <2>3, <2>4 DEF ServiceInv, Lists
<1>13. EveryRequestNotifiedOnce'
  <2>1. sent \in [Cores -> Int] /\ sent' \in [Cores -> Int]
    <3>1. sent \in [Cores -> Nat] /\ sent' \in [Cores -> Nat]
      BY <1>1, <1>11 DEF Typing
    <3>2. QED
      BY <3>1
  <2>2. sent'[c] = sent[c] + 1 /\ \A d \in Cores : d # c => sent'[d] = sent[d]
    BY <1>1, <1>8 DEF Typing
  <2>3. Total(sent') = Total(sent) + 1 /\ Total(sent) \in Int
    BY <2>1, <2>2, TotalStep
  <2>4. Total(sent)' = Total(sent) + 1
    BY <2>3 DEF Total
  <2>5. /\ Total(waited)' = Total(waited) /\ Total(doneSem)' = Total(doneSem)
        /\ InService' = InService
    BY <1>8 DEF Total, InService
  <2>6. Queued' = Queued + 1
    <3>1. Len(Append(queue[l], e)) - Len(queue[l]) = 1
      BY <1>5
    <3>2. QED
      BY <1>10, <3>1 DEF Queued
  <2>7. Total(sent)' - Total(sent) = (Total(waited)' - Total(waited))
             + (Total(doneSem)' - Total(doneSem)) + (Queued' - Queued)
             + (InService' - InService)
    BY <1>1, <2>4, <2>5, <2>6, TotalTypes
  <2>8. QED
    BY <1>1, <1>11, <2>7, Balance
<1>14. OrderInv'
  <2> SUFFICES ASSUME ~misdirected', NEW d \in Cores PROVE InOrder(d)'
    BY DEF OrderInv
  <2>1. ~misdirected /\ replyTo' = replyTo
    <3>1. CASE UNCHANGED <<replyTo, block, misdirected>>
      BY <3>1
    <3>2. CASE replyTo' = c /\ misdirected' = (misdirected \/ replyTo # c)
      BY <3>2
    <3>3. QED
      BY <1>9, <3>1, <3>2
  <2>2. InOrder(d)
    BY <1>1, <2>1 DEF OrderInv
  <2>3. Posted(d)' = Posted(d) /\ InPass(d)' = InPass(d) /\ cur' = cur
    BY <1>8, <2>1 DEF Posted, InPass
  <2>4. CASE d # c
    <3>1. pc'[d] = pc[d]
      BY <1>1, <1>2, <2>4, PcStep
    <3>2. queue'[Priority(d)] = queue[Priority(d)]
      BY <1>10, <2>4, Priorities DEF l
    <3>3. fresh'[d] = fresh[d]
      BY <1>1, <1>7, <2>4 DEF Typing
    <3>4. QED
      BY <2>2, <2>3, <3>1, <3>2, <3>3 DEF InOrder
  <2>5. CASE d = c
    <3>1. /\ Instr(c) = InstrAt(pc[c]) /\ InstrAt(pc[c]).op = "send"
      BY <1>1, <1>2, CoreFacts
    <3>2. Ordered(c, After(pc[c]), Posted(c), InPass(c), Append(queue[l], e),
                  fresh[c] \ {InstrAt(pc[c]).dst}, cur)
      <4>1. e = [core |-> c, src |-> InstrAt(pc[c]).src, dst |-> InstrAt(pc[c]).dst]
        BY <3>1 DEF e
      <4>2. Ordered(c, pc[c], Posted(c), InPass(c), queue[l], fresh[c], cur)
        BY <2>2, <2>5 DEF InOrder, l
      <4>3. /\ pc[c] \in Places /\ Disciplined(pc[c]) /\ Disciplined(After(pc[c]))
            /\ Posted(c) \in Int /\ InPass(c) \in Int /\ Posted(c) >= 0 /\ InPass(c) \in 0 .. 1
        BY <1>1, CoreFacts
      <4>4. QED
        BY <1>3, <1>4, <3>1, <4>1, <4>2, <4>3, OrderedSend
    <3>3. pc'[c] = After(pc[c])
      BY <1>1, <1>2, PcStep
    <3>4. fresh'[c] = fresh[c] \ {InstrAt(pc[c]).dst}
      BY <1>1, <1>7, <3>1 DEF Typing
    <3>5. queue'[Priority(c)] = Append(queue[l], e)
      BY <1>10 DEF l
    <3>6. QED
      BY <2>3, <2>5, <3>2, <3>3, <3>4, <3>5 DEF InOrder
  <2>6. QED
    BY <2>4, <2>5
<1>15. QED
  BY <1>11, <1>12, <1>13, <1>14 DEF IInv

LEMMA WaitStep == ASSUME IInv, NEW c \in Cores, CoreWait(c) PROVE IInv'
<1>1. Typing /\ ServiceInv /\ EveryRequestNotifiedOnce /\ OrderInv
  BY DEF IInv
<1>2. ~Finished(c) /\ Instr(c).op = "wait" /\ Advance(c)
  BY DEF CoreWait, At
<1>3. /\ doneSem[c] > 0 /\ doneSem[c] \in Nat /\ waited[c] \in Nat
      /\ doneSem' = [doneSem EXCEPT ![c] = doneSem[c] - 1]
      /\ waited' = [waited EXCEPT ![c] = waited[c] + 1]
  BY <1>1 DEF CoreWait, Typing
<1>4. UNCHANGED <<fresh, tsps, queue, fftPc, cur, engine, hwiSem, replyTo, block,
                  misdirected, sent>>
  BY DEF CoreWait, fftVars, heapVars
<1>5. /\ doneSem'[c] = doneSem[c] - 1 /\ \A d \in Cores : d # c => doneSem'[d] = doneSem[d]
      /\ waited'[c] = waited[c] + 1 /\ \A d \in Cores : d # c => waited'[d] = waited[d]
  BY <1>1, <1>3 DEF Typing
<1>6. Typing'
  <2>1. /\ pc' \in [Cores -> Places] /\ \A d \in Cores : pc'[d].frame <= Updates + 1
    BY <1>1, <1>2, PcStep
  <2>2. doneSem[c] - 1 \in Nat /\ waited[c] + 1 \in Nat
    BY <1>3
  <2>3. doneSem' \in [Cores -> Nat] /\ waited' \in [Cores -> Nat]
    BY <1>1, <1>3, <2>2 DEF Typing
  <2>4. QED
    BY <1>1, <1>4, <2>1, <2>3 DEF Typing
<1>7. ServiceInv'
  BY <1>1, <1>4 DEF ServiceInv
<1>8. EveryRequestNotifiedOnce'
  <2>1. /\ doneSem \in [Cores -> Nat] /\ doneSem' \in [Cores -> Nat]
        /\ waited \in [Cores -> Nat] /\ waited' \in [Cores -> Nat]
    BY <1>1, <1>6 DEF Typing
  <2>2. /\ doneSem \in [Cores -> Int] /\ doneSem' \in [Cores -> Int]
        /\ waited \in [Cores -> Int] /\ waited' \in [Cores -> Int]
    BY <2>1
  <2>3. doneSem'[c] = doneSem[c] + (-1)
    BY <1>3, <1>5
  <2>4. Total(doneSem') = Total(doneSem) + (-1) /\ Total(doneSem) \in Int
    BY <1>5, <2>2, <2>3, TotalStep
  <2>5. Total(waited') = Total(waited) + 1 /\ Total(waited) \in Int
    BY <1>5, <2>2, TotalStep
  <2>6. Total(doneSem)' = Total(doneSem) - 1 /\ Total(waited)' = Total(waited) + 1
    BY <2>4, <2>5 DEF Total
  <2>7. Total(sent)' = Total(sent) /\ Queued' = Queued /\ InService' = InService
    BY <1>4 DEF Total, Queued, InService
  <2>8. Total(sent)' - Total(sent) = (Total(waited)' - Total(waited))
             + (Total(doneSem)' - Total(doneSem)) + (Queued' - Queued)
             + (InService' - InService)
    BY <1>1, <2>6, <2>7, TotalTypes
  <2>9. QED
    BY <1>1, <1>6, <2>8, Balance
<1>9. OrderInv'
  <2> SUFFICES ASSUME ~misdirected, NEW d \in Cores PROVE InOrder(d)'
    BY <1>4 DEF OrderInv
  <2>1. InOrder(d)
    BY <1>1 DEF OrderInv
  <2>2. InPass(d)' = InPass(d) /\ queue' = queue /\ fresh' = fresh /\ cur' = cur
    BY <1>4 DEF InPass
  <2>3. CASE d # c
    <3>1. pc'[d] = pc[d] /\ Posted(d)' = Posted(d)
      BY <1>1, <1>2, <1>4, <1>5, <2>3, PcStep DEF Posted
    <3>2. QED
      BY <2>1, <2>2, <3>1 DEF InOrder
  <2>4. CASE d = c
    <3>1. /\ pc[c] \in Places /\ Disciplined(pc[c]) /\ Disciplined(After(pc[c]))
          /\ InstrAt(pc[c]).op = "wait" /\ queue[Priority(c)] \in Seq(Requests)
          /\ Posted(c) \in Int /\ InPass(c) \in Int /\ InPass(c) \in 0 .. 1
      BY <1>1, <1>2, CoreFacts
    <3>2. Posted(c) >= 1
      <4>1. Posted(c) >= doneSem[c] /\ Posted(c) \in Int
        BY <1>1, CoreFacts
      <4>2. QED
        BY <1>3, <4>1
    <3>3. Ordered(c, After(pc[c]), Posted(c) - 1, InPass(c), queue[Priority(c)], fresh[c], cur)
      BY <2>1, <2>4, <3>1, <3>2, OrderedWait DEF InOrder
    <3>4. Posted(c)' = Posted(c) - 1
      BY <1>3, <1>4, <1>5 DEF Posted
    <3>5. pc'[c] = After(pc[c])
      BY <1>1, <1>2, PcStep
    <3>6. QED
      BY <2>2, <2>4, <3>3, <3>4, <3>5 DEF InOrder
  <2>5. QED
    BY <2>3, <2>4
<1>10. QED
  BY <1>6, <1>7, <1>8, <1>9 DEF IInv

\* Steps of core 3 that neither take a request nor finish one, and of the channels.
LEMMA QuietStep ==
  ASSUME IInv, Typing', ServiceInv', UNCHANGED <<pc, fresh, doneSem, queue, cur, replyTo,
         misdirected, sent, waited>>,
         fftPc' = fftPc \/ {fftPc, fftPc'} = {"pass1", "pass2"}
  PROVE  IInv'
<1>1. EveryRequestNotifiedOnce /\ OrderInv
  BY DEF IInv
<1>2. EveryRequestNotifiedOnce'
  <2>1. InService' = InService
    BY DEF InService
  <2>2. QED
    BY <1>1, <2>1 DEF EveryRequestNotifiedOnce
<1>3. OrderInv'
  <2> SUFFICES ASSUME ~misdirected, NEW d \in Cores PROVE InOrder(d)'
    BY DEF OrderInv
  <2>1. InOrder(d)
    BY <1>1 DEF OrderInv
  <2>2. Posted(d)' = Posted(d) /\ InPass(d)' = InPass(d)
    BY DEF Posted, InPass
  <2>3. QED
    BY <2>1, <2>2 DEF InOrder
<1>4. QED
  BY <1>2, <1>3 DEF IInv

LEMMA GetStep == ASSUME IInv, FftGet PROVE IInv'
<1>1. Typing /\ ServiceInv /\ EveryRequestNotifiedOnce /\ OrderInv
  BY DEF IInv
<1>2. PICK l \in Lists :
          /\ queue[l] # <<>> /\ cur' = Head(queue[l]) /\ replyTo' = Head(queue[l]).core
          /\ queue' = [queue EXCEPT ![l] = Tail(queue[l])]
  BY DEF FftGet, Lists
<1>3. /\ fftPc = "get" /\ fftPc' = "pass1" /\ engine' = TRUE
      /\ UNCHANGED <<pc, fresh, tsps, doneSem, hwiSem, block, misdirected, sent, waited>>
  BY DEF FftGet, coreVars, counts
<1>4. queue \in [Lists -> Seq(Requests)] /\ queue[l] \in Seq(Requests)
  BY <1>1 DEF Typing, Lists
<1>5. /\ Head(queue[l]) = queue[l][1] /\ Head(queue[l]) \in Requests
      /\ Tail(queue[l]) \in Seq(Requests) /\ Len(Tail(queue[l])) = Len(queue[l]) - 1
      /\ \A j \in 1 .. Len(Tail(queue[l])) : Tail(queue[l])[j] = queue[l][j + 1]
      /\ Len(queue[l]) \in Nat /\ 1 \in 1 .. Len(queue[l])
  BY <1>2, <1>4, HeadTailProperties, LenProperties, EmptySeq
<1>6. ListBecomes(queue, l, Tail(queue[l]), queue')
  BY <1>2, <1>4, <1>5, ListStep
<1>7. PICK c \in Cores : c = Head(queue[l]).core /\ Priority(c) = l /\ c # 0
  <2>1. Head(queue[l]).core \in Cores
    BY <1>5 DEF Requests
  <2>2. Priority(Head(queue[l]).core) = l
    BY <1>1, <1>5 DEF ServiceInv, Lists
  <2>3. Head(queue[l]).core # 0
    BY <2>1, ParameterAssumption
  <2>4. QED
    BY <2>1, <2>2, <2>3
<1>8. Typing'
  <2>1. queue' \in [{"high", "normal"} -> Seq(Requests)]
    BY <1>6 DEF ListBecomes, Lists
  <2>2. replyTo' \in Cores \cup {0}
    BY <1>2, <1>7
  <2>3. QED
    BY <1>1, <1>3, <2>1, <2>2 DEF Typing
<1>9. ServiceInv'
  <2>1. /\ (fftPc = "get" <=> replyTo = 0)'
        /\ (IF fftPc \in {"pass1", "pass2", "free"}
            THEN cur \in Requests /\ replyTo = cur.core ELSE cur = NoRequest)'
        /\ (block # "held" => fftPc = "notify")'
    BY <1>1, <1>2, <1>3, <1>5, <1>7 DEF ServiceInv
  <2>2. ASSUME NEW m \in Lists, NEW j \in 1 .. Len(queue'[m])
        PROVE  Priority(queue'[m][j].core) = m
    <3>1. CASE m # l
      <4>1. queue'[m] = queue[m]
        BY <1>6, <3>1 DEF ListBecomes
      <4>2. QED
        BY <1>1, <2>2, <4>1 DEF ServiceInv, Lists
    <3>2. CASE m = l
      <4>1. queue'[m] = Tail(queue[l])
        BY <1>6, <3>2 DEF ListBecomes
      <4>2. queue'[m][j] = queue[m][j + 1] /\ j + 1 \in 1 .. Len(queue[m])
        BY <1>5, <2>2, <3>2, <4>1
      <4>3. QED
        BY <1>1, <4>2 DEF ServiceInv, Lists
    <3>3. QED
      BY <3>1, <3>2
  <2>3. QED
    BY <2>1, <2>2 DEF ServiceInv, Lists
<1>10. EveryRequestNotifiedOnce'
  <2>1. InService' = InService + 1
    BY <1>3 DEF InService
  <2>2. Queued' = Queued - 1
    <3>1. Len(Tail(queue[l])) - Len(queue[l]) = -1
      BY <1>5
    <3>2. Queued' = Queued + (-1)
      BY <1>6, <3>1 DEF ListBecomes, Queued
    <3>3. QED
      BY <1>1, <3>2, TotalTypes
  <2>3. /\ Total(sent)' = Total(sent) /\ Total(waited)' = Total(waited)
        /\ Total(doneSem)' = Total(doneSem)
    BY <1>3 DEF Total
  <2>4. Total(sent)' - Total(sent) = (Total(waited)' - Total(waited))
             + (Total(doneSem)' - Total(doneSem)) + (Queued' - Queued)
             + (InService' - InService)
    BY <1>1, <2>1, <2>2, <2>3, TotalTypes
  <2>5. QED
    BY <1>1, <1>8, <2>4, Balance
<1>11. OrderInv'
  <2> SUFFICES ASSUME ~misdirected, NEW d \in Cores PROVE InOrder(d)'
    BY <1>3 DEF OrderInv
  <2>1. InOrder(d)
    BY <1>1 DEF OrderInv
  <2>2. Posted(d)' = Posted(d) /\ InPass(d) = 0 /\ pc'[d] = pc[d] /\ fresh'[d] = fresh[d]
    BY <1>3 DEF Posted, InPass
  <2>3. CASE d # c
    <3>1. InPass(d)' = 0
      BY <1>2, <1>7, <2>3 DEF InPass
    <3>2. queue'[Priority(d)] = queue[Priority(d)]
      BY <1>6, <1>7, <2>3, Priorities DEF ListBecomes
    <3>3. QED
      BY <2>1, <2>2, <3>1, <3>2, OrderedKept DEF InOrder
  <2>4. CASE d = c
    <3>1. InPass(c)' = 1
      BY <1>2, <1>3, <1>7 DEF InPass
    <3>2. queue'[Priority(c)] = Tail(queue[l])
      BY <1>6, <1>7 DEF ListBecomes
    <3>3. /\ pc[c] \in Places /\ Disciplined(pc[c])
          /\ Posted(c) \in Int /\ Posted(c) >= 0
      BY <1>1, CoreFacts
    <3>4. Ordered(c, pc[c], Posted(c), 0, queue[l], fresh[c], cur)
      BY <1>7, <2>1, <2>2, <2>4 DEF InOrder
    <3>5. Ordered(c, pc[c], Posted(c), 1, Tail(queue[l]), fresh[c], Head(queue[l]))
      BY <1>2, <1>4, <3>3, <3>4, OrderedGet
    <3>6. QED
      BY <1>2, <2>2, <2>4, <3>1, <3>2, <3>5 DEF InOrder
  <2>5. QED
    BY <2>3, <2>4
<1>12. QED
  BY <1>8, <1>9, <1>10, <1>11 DEF IInv

LEMMA Pass2Step == ASSUME IInv, FftPass2 PROVE IInv'
<1>1. Typing /\ ServiceInv /\ EveryRequestNotifiedOnce /\ OrderInv
  BY DEF IInv
<1>2. /\ fftPc = "pass2" /\ fftPc' = "free" /\ hwiSem' = 0
      /\ fresh' = [fresh EXCEPT ![cur.core] = fresh[cur.core] \cup {cur.dst}]
      /\ UNCHANGED <<pc, tsps, doneSem, queue, cur, engine, replyTo, block, misdirected,
                     sent, waited>>
  BY DEF FftPass2, heapVars, counts
<1>3. PICK c \in Cores : c = cur.core /\ replyTo = c
  BY <1>1, <1>2 DEF ServiceInv, Requests
<1>4. cur \in Requests /\ cur.dst \in Buffers
  BY <1>1, <1>2 DEF ServiceInv, Requests
<1>5. Typing'
  <2>1. fresh' \in [Cores -> SUBSET Buffers]
    BY <1>1, <1>2, <1>3, <1>4 DEF Typing
  <2>2. hwiSem' \in 0 .. 1
    BY <1>2
  <2>3. QED
    BY <1>1, <1>2, <2>1, <2>2 DEF Typing
<1>6. ServiceInv'
  BY <1>1, <1>2 DEF ServiceInv
<1>7. EveryRequestNotifiedOnce'
  <2>1. InService' = InService
    BY <1>2 DEF InService
  <2>2. QED
    BY <1>1, <1>2, <2>1 DEF EveryRequestNotifiedOnce
<1>8. OrderInv'
  <2> SUFFICES ASSUME ~misdirected, NEW d \in Cores PROVE InOrder(d)'
    BY <1>2 DEF OrderInv
  <2>1. InOrder(d)
    BY <1>1 DEF OrderInv
  <2>2. InPass(d)' = 0
    BY <1>2 DEF InPass
  <2>3. CASE d # c
    <3>1. InPass(d) = 0 /\ Posted(d)' = Posted(d) /\ fresh'[d] = fresh[d]
      BY <1>1, <1>2, <1>3, <2>3 DEF InPass, Posted, Typing
    <3>2. QED
      BY <1>2, <2>1, <2>2, <3>1 DEF InOrder
  <2>4. CASE d = c
    <3>1. InPass(c) = 1 /\ Posted(c) = doneSem[c] + 0 /\ Posted(c)' = doneSem[c] + 1
      BY <1>2, <1>3 DEF InPass, Posted
    <3>2. fresh'[c] = fresh[c] \cup {cur.dst}
      BY <1>1, <1>2, <1>3 DEF Typing
    <3>3. /\ pc[c] \in Places /\ Disciplined(pc[c]) /\ queue[Priority(c)] \in Seq(Requests)
          /\ Posted(c) \in Int /\ Posted(c) >= 0 /\ doneSem[c] \in Nat
      BY <1>1, CoreFacts
    <3>4. Ordered(c, pc[c], Posted(c), 1, queue[Priority(c)], fresh[c], cur)
      BY <2>1, <2>4, <3>1 DEF InOrder
    <3>5. Ordered(c, pc[c], Posted(c) + 1, 0, queue[Priority(c)], fresh[c] \cup {cur.dst}, cur)
      BY <3>3, <3>4, OrderedDone
    <3>6. Posted(c)' = Posted(c) + 1
      BY <3>1, <3>3
    <3>7. QED
      BY <1>2, <2>2, <2>4, <3>2, <3>5, <3>6 DEF InOrder
  <2>5. QED
    BY <2>3, <2>4
<1>9. QED
  BY <1>5, <1>6, <1>7, <1>8 DEF IInv

LEMMA FreeStep == ASSUME IInv, FftFree PROVE IInv'
<1>1. Typing /\ ServiceInv /\ EveryRequestNotifiedOnce /\ OrderInv
  BY DEF IInv
<1>2. /\ fftPc = "free" /\ fftPc' = "notify" /\ block' = "free" /\ cur' = NoRequest
      /\ UNCHANGED <<pc, fresh, tsps, doneSem, queue, engine, hwiSem, replyTo, misdirected,
                     sent, waited>>
  BY DEF FftFree, coreVars, counts
<1>3. Typing'
  BY <1>1, <1>2 DEF Typing
<1>4. ServiceInv'
  BY <1>1, <1>2 DEF ServiceInv
<1>5. EveryRequestNotifiedOnce'
  <2>1. InService' = InService
    BY <1>2 DEF InService
  <2>2. QED
    BY <1>1, <1>2, <2>1 DEF EveryRequestNotifiedOnce
<1>6. OrderInv'
  <2> SUFFICES ASSUME ~misdirected, NEW d \in Cores PROVE InOrder(d)'
    BY <1>2 DEF OrderInv
  <2>1. InOrder(d)
    BY <1>1 DEF OrderInv
  <2>2. Posted(d)' = Posted(d) /\ InPass(d) = 0 /\ InPass(d)' = 0
    BY <1>2 DEF Posted, InPass
  <2>3. QED
    BY <1>2, <2>1, <2>2, OrderedKept DEF InOrder
<1>7. QED
  BY <1>3, <1>4, <1>5, <1>6 DEF IInv

LEMMA NotifyStep == ASSUME IInv, FftNotify PROVE IInv'
<1>1. Typing /\ ServiceInv /\ EveryRequestNotifiedOnce /\ OrderInv
  BY DEF IInv
<1>2. /\ fftPc = "notify" /\ fftPc' = "get" /\ replyTo' = 0 /\ block' = "held"
      /\ doneSem' = [doneSem EXCEPT ![replyTo] = doneSem[replyTo] + 1]
      /\ UNCHANGED <<pc, fresh, tsps, queue, cur, engine, hwiSem, misdirected, sent, waited>>
  BY DEF FftNotify, coreVars, counts
<1>3. PICK c \in Cores : replyTo = c
  BY <1>1, <1>2 DEF ServiceInv, Typing
<1>4. /\ doneSem[c] \in Nat /\ doneSem'[c] = doneSem[c] + 1
      /\ \A d \in Cores : d # c => doneSem'[d] = doneSem[d]
  BY <1>1, <1>2, <1>3 DEF Typing
<1>5. Typing'
  <2>1. doneSem' \in [Cores -> Nat]
    BY <1>1, <1>2, <1>3, <1>4 DEF Typing
  <2>2. QED
    BY <1>1, <1>2, <2>1 DEF Typing
<1>6. ServiceInv'
  BY <1>1, <1>2 DEF ServiceInv
<1>7. EveryRequestNotifiedOnce'
  <2>1. InService = 1 /\ InService' = 0
    BY <1>2 DEF InService
  <2>2. doneSem \in [Cores -> Nat] /\ doneSem' \in [Cores -> Nat]
    BY <1>1, <1>5 DEF Typing
  <2>3. doneSem \in [Cores -> Int] /\ doneSem' \in [Cores -> Int]
    BY <2>2
  <2>4. Total(doneSem') = Total(doneSem) + 1
    BY <1>4, <2>3, TotalStep
  <2>5. Total(doneSem)' = Total(doneSem) + 1
    BY <2>4 DEF Total
  <2>6. Total(sent)' = Total(sent) /\ Total(waited)' = Total(waited) /\ Queued' = Queued
    BY <1>2 DEF Total, Queued
  <2>7. Total(sent)' - Total(sent) = (Total(waited)' - Total(waited))
             + (Total(doneSem)' - Total(doneSem)) + (Queued' - Queued)
             + (InService' - InService)
    BY <1>1, <2>1, <2>5, <2>6, TotalTypes
  <2>8. QED
    BY <1>1, <1>5, <2>7, Balance
<1>8. OrderInv'
  <2> SUFFICES ASSUME ~misdirected, NEW d \in Cores PROVE InOrder(d)'
    BY <1>2 DEF OrderInv
  <2>1. InOrder(d)
    BY <1>1 DEF OrderInv
  <2>2. InPass(d)' = InPass(d)
    BY <1>2 DEF InPass
  <2>3. Posted(d)' = Posted(d)
    <3>1. doneSem[d] \in Nat
      BY <1>1 DEF Typing
    <3>2. CASE d = c
      BY <1>2, <1>3, <1>4, <3>2 DEF Posted
    <3>3. CASE d # c
      BY <1>2, <1>3, <1>4, <3>1, <3>3 DEF Posted
    <3>4. QED
      BY <3>2, <3>3
  <2>4. QED
    BY <1>2, <2>1, <2>2, <2>3 DEF InOrder
<1>9. QED
  BY <1>5, <1>6, <1>7, <1>8 DEF IInv

LEMMA NextIInv == IInv /\ [Next]_vars => IInv'
<1> SUFFICES ASSUME IInv, [Next]_vars PROVE IInv'
  OBVIOUS
<1>1. Typing /\ ServiceInv
  BY DEF IInv
<1>2. ASSUME NEW c \in Cores, CoreSend(c) PROVE IInv'
  BY <1>2, SendStep
<1>3. ASSUME NEW c \in Cores, CoreWait(c) PROVE IInv'
  BY <1>3, WaitStep
<1>4. ASSUME NEW c \in Cores, CoreCompute(c) PROVE IInv'
  <2>1. ~Finished(c) /\ Instr(c).op \notin {"send", "wait"} /\ Advance(c)
    BY <1>4 DEF CoreCompute, At
  <2>2. UNCHANGED <<fresh, doneSem, queue, fftVars, heapVars, counts>>
    BY <1>4 DEF CoreCompute
  <2>3. tsps' \in [Cores -> {"idle", "busy", "posted"}]
    BY <1>1, <1>4 DEF CoreCompute, Typing
  <2>4. QED
    BY <2>1, <2>2, <2>3, OtherStep
<1>5. ASSUME NEW c \in Cores, CoreTranspose(c) PROVE IInv'
  <2>1. ~Finished(c) /\ Instr(c).op \notin {"send", "wait"} /\ Advance(c)
    BY <1>5 DEF CoreTranspose, At
  <2>2. UNCHANGED <<fresh, doneSem, queue, fftVars, heapVars, counts>>
    BY <1>5 DEF CoreTranspose
  <2>3. tsps' \in [Cores -> {"idle", "busy", "posted"}]
    BY <1>1, <1>5 DEF CoreTranspose, Typing
  <2>4. QED
    BY <2>1, <2>2, <2>3, OtherStep
<1>6. ASSUME NEW c \in Cores, CoreWaitTranspose(c) PROVE IInv'
  <2>1. ~Finished(c) /\ Instr(c).op \notin {"send", "wait"} /\ Advance(c)
    BY <1>6 DEF CoreWaitTranspose, At
  <2>2. UNCHANGED <<fresh, doneSem, queue, fftVars, heapVars, counts>>
    BY <1>6 DEF CoreWaitTranspose
  <2>3. tsps' \in [Cores -> {"idle", "busy", "posted"}]
    BY <1>1, <1>6 DEF CoreWaitTranspose, Typing
  <2>4. QED
    BY <2>1, <2>2, <2>3, OtherStep
<1>7. ASSUME NEW c \in Cores, TspsDoneHandler(c) PROVE IInv'
  <2>1. UNCHANGED <<pc, fresh, doneSem, queue, fftPc, cur, engine, hwiSem, replyTo, block,
                    misdirected, sent, waited>>
    BY <1>7 DEF TspsDoneHandler, fftVars, heapVars, counts
  <2>2. tsps' \in [Cores -> {"idle", "busy", "posted"}]
    BY <1>1, <1>7 DEF TspsDoneHandler, Typing
  <2>3. Typing'
    BY <1>1, <2>1, <2>2 DEF Typing
  <2>4. ServiceInv'
    BY <1>1, <2>1 DEF ServiceInv
  <2>5. QED
    BY <2>1, <2>3, <2>4, QuietStep
<1>8. CASE FFTDoneHandler
  <2>1. /\ UNCHANGED <<pc, fresh, tsps, doneSem, queue, fftPc, cur, replyTo, block,
                       misdirected, sent, waited>>
        /\ engine' = FALSE /\ hwiSem' = 1
    BY <1>8 DEF FFTDoneHandler, coreVars, heapVars, counts
  <2>2. engine' \in BOOLEAN /\ hwiSem' \in 0 .. 1
    <3>1. engine' \in BOOLEAN
      BY <2>1, Zenon
    <3>2. QED
      BY <2>1, <3>1
  <2>3. Typing'
    BY <1>1, <2>1, <2>2 DEF Typing
  <2>4. ServiceInv'
    BY <1>1, <2>1 DEF ServiceInv
  <2>5. QED
    BY <2>1, <2>3, <2>4, QuietStep
<1>9. CASE FftPass1
  <2>1. /\ UNCHANGED <<pc, fresh, tsps, doneSem, queue, cur, replyTo, block, misdirected,
                       sent, waited>>
        /\ engine' = TRUE /\ hwiSem' = 0 /\ fftPc = "pass1" /\ fftPc' = "pass2"
    BY <1>9 DEF FftPass1, coreVars, heapVars, counts
  <2>2. engine' \in BOOLEAN /\ hwiSem' \in 0 .. 1
    <3>1. engine' \in BOOLEAN
      BY <2>1, Zenon
    <3>2. QED
      BY <2>1, <3>1
  <2>3. Typing'
    BY <1>1, <2>1, <2>2 DEF Typing
  <2>4. ServiceInv'
    BY <1>1, <2>1 DEF ServiceInv
  <2>5. QED
    BY <2>1, <2>3, <2>4, QuietStep
<1>10. CASE UNCHANGED vars
  <2>1. UNCHANGED <<pc, fresh, tsps, doneSem, queue, fftPc, cur, engine, hwiSem, replyTo,
                    block, misdirected, sent, waited>>
    BY <1>10 DEF vars, coreVars, fftVars, heapVars, counts
  <2>2. Typing' /\ ServiceInv'
    BY <1>1, <2>1 DEF Typing, ServiceInv
  <2>3. QED
    BY <2>1, <2>2, QuietStep
<1>11. CASE Fft
  BY <1>9, <1>11, GetStep, Pass2Step, FreeStep, NotifyStep DEF Fft
<1>12. QED
  BY <1>2, <1>3, <1>4, <1>5, <1>6, <1>7, <1>8, <1>10, <1>11 DEF Next, Core, Idle

-----------------------------------------------------------------------------
(* The theorems.                                                           *)

(* What core 1 and core 2 sent and did not wait for is, in that order,     *)
(* notified, in service and queued, unless a notification went astray      *)
(* (CKcfTracker.cpp and Kcf_Core3/src/FFTTask.cpp).                        *)
THEOREM Invariant == Spec => []IInv
BY InitIInv, NextIInv, PTL DEF Spec

LEMMA InvariantTyped == IInv => TypeOK
<1> SUFFICES ASSUME IInv PROVE TypeOK
  OBVIOUS
<1>1. Typing /\ ServiceInv
  BY DEF IInv
<1>2. pc \in [Cores -> [frame : 0 .. Updates + 1, call : 1 .. 8, line : 1 .. 12, i : 1 .. N]]
  <2>1. ASSUME NEW c \in Cores
        PROVE  pc[c] \in [frame : 0 .. Updates + 1, call : 1 .. 8, line : 1 .. 12, i : 1 .. N]
    <3>1. pc[c] \in [frame : Nat, call : 1 .. 8, line : 1 .. 12, i : 1 .. N]
          /\ pc[c].frame <= Updates + 1
      BY <1>1 DEF Typing, Places
    <3>2. pc[c].frame \in 0 .. Updates + 1
      BY <3>1, ParameterAssumption
    <3>3. QED
      BY <3>1, <3>2
  <2>2. QED
    BY <1>1, <2>1 DEF Typing
<1>3. \A r \in Outstanding : r.core \in Cores
  <2> SUFFICES ASSUME NEW r \in Outstanding PROVE r.core \in Cores
    OBVIOUS
  <2>1. CASE fftPc \in {"pass1", "pass2"} /\ r = cur
    BY <1>1, <2>1 DEF ServiceInv, Requests
  <2>2. CASE \E l \in Lists : r \in ToSet(queue[l])
    <3>1. PICK l \in Lists : r \in ToSet(queue[l])
      BY <2>2
    <3>2. queue[l] \in Seq(Requests)
      BY <1>1 DEF Typing, Lists
    <3>3. r \in Requests
      BY <3>1, <3>2, ElementOfSeq, LenProperties DEF ToSet
    <3>4. QED
      BY <3>3 DEF Requests
  <2>3. QED
    BY <2>1, <2>2 DEF Outstanding, Lists
<1>4. QED
  BY <1>1, <1>2, <1>3 DEF TypeOK, Typing

(* Every variable keeps its type.                                          *)
THEOREM TypeCorrect == Spec => []TypeOK
BY Invariant, InvariantTyped, PTL

(* Every request that core 1 or 2 sends is notified once, no more and no   *)
(* less, to whichever core (FFTTask.cpp, FFTTskFxn).                       *)
THEOREM NotifiedOnce == Spec => []EveryRequestNotifiedOnce
<1>1. IInv => EveryRequestNotifiedOnce
  BY DEF IInv
<1>2. QED
  BY <1>1, Invariant, PTL

LEMMA OrderCounts == IInv => CountingIsOrder
<1> SUFFICES ASSUME IInv, ~misdirected, NEW c \in Cores, At(c, "use") \/ At(c, "complete")
             PROVE  Instr(c).bufs \subseteq fresh[c]
  BY DEF CountingIsOrder
<1>1. Typing /\ InOrder(c)
  BY DEF IInv, OrderInv
<1>2. Held(pc[c]) \subseteq fresh[c]
  BY <1>1 DEF InOrder, Ordered
<1>3. Instr(c).op \in {"use", "complete"} /\ Instr(c) = InstrAt(pc[c]) /\ Disciplined(pc[c])
  BY <1>1, CoreFacts DEF At
<1>4. InstrAt(pc[c]).bufs \subseteq Held(pc[c])
  BY <1>3 DEF Disciplined, OtherFits
<1>5. QED
  BY <1>2, <1>3, <1>4

(* A core that counts notifications reads only complete results, as long   *)
(* as no notification went to the other core (CKcfTracker.cpp: the waits   *)
(* of gaussAutoCorrelation, gaussCrossCorrelation, train and detect).      *)
THEOREM CountingRight == Spec => []CountingIsOrder
BY Invariant, OrderCounts, PTL

LEMMA OrderKeepsBuffers == IInv => NoBufferReusedEarly
<1> SUFFICES ASSUME IInv, ~misdirected, NEW c \in Cores, At(c, "change"),
                    NEW r \in Outstanding, r.core = c
             PROVE  {r.src, r.dst} \cap Instr(c).bufs = {}
  BY DEF NoBufferReusedEarly
<1> DEFINE p == pc[c]
<1>1. Typing /\ ServiceInv /\ InOrder(c)
  BY DEF IInv, OrderInv
<1>2. Instr(c).op = "change" /\ Instr(c) = InstrAt(p) /\ Disciplined(p)
  BY <1>1, CoreFacts DEF At
<1>3. PICK s \in Int, w \in Int, x \in Int, n \in Int, in \in Int :
          /\ s = Sent(p) /\ w = Waited(p) /\ x = Posted(c) /\ n = Len(queue[Priority(c)])
          /\ in = InPass(c) /\ w >= 0 /\ x >= 0 /\ n >= 0 /\ in >= 0
  BY <1>1, <1>2, CoreFacts, LenProperties DEF Disciplined
<1>4. /\ s = w + x + in + n
      /\ in = 1 => cur = Request(c, p.frame, w + x + 1)
      /\ \A j \in 1 .. n : queue[Priority(c)][j] = Request(c, p.frame, w + x + in + j)
  BY <1>1, <1>3 DEF InOrder, Ordered
<1>5. \A k \in w + 1 .. s : Src(p.frame, k) \notin Instr(c).bufs
                           /\ Dst(p.frame, k) \notin Instr(c).bufs
  BY <1>2, <1>3 DEF Disciplined, OtherFits
<1> HIDE DEF p
<1>6. ASSUME NEW k \in w + 1 .. s, r = Request(c, p.frame, k)
      PROVE  {r.src, r.dst} \cap Instr(c).bufs = {}
  <2>1. r.src = Src(p.frame, k) /\ r.dst = Dst(p.frame, k)
    BY <1>6 DEF Request
  <2>2. QED
    BY <1>5, <2>1
<1>7. CASE fftPc \in {"pass1", "pass2"} /\ r = cur
  <2>1. in = 1
    BY <1>1, <1>3, <1>7 DEF ServiceInv, InPass
  <2>2. r = Request(c, p.frame, w + x + 1)
    BY <1>4, <1>7, <2>1
  <2>3. w + x + 1 \in w + 1 .. s
    <3>1. s = w + x + 1 + n /\ x >= 0 /\ n >= 0
      BY <1>3, <1>4, <2>1
    <3>2. QED
      BY <3>1
  <2>4. QED
    BY <1>6, <2>2, <2>3
<1>8. CASE \E l \in Lists : r \in ToSet(queue[l])
  <2>1. PICK l \in Lists : \E j \in DOMAIN queue[l] : r = queue[l][j]
    BY <1>8 DEF ToSet
  <2>2. DOMAIN queue[l] = 1 .. Len(queue[l])
    BY <1>1, LenProperties DEF Typing, Lists
  <2>3. PICK j \in 1 .. Len(queue[l]) : r = queue[l][j]
    BY <2>1, <2>2
  <2>4. Priority(c) = l
    BY <1>1, <2>3 DEF ServiceInv, Lists
  <2>5. r = Request(c, p.frame, w + x + in + j) /\ j \in 1 .. n
    BY <1>3, <1>4, <2>3, <2>4
  <2>6. w + x + in + j \in w + 1 .. s
    <3>1. s = w + x + in + n /\ x >= 0 /\ in >= 0 /\ j \in 1 .. n
      BY <1>3, <1>4, <2>5
    <3>2. QED
      BY <3>1
  <2>7. QED
    BY <1>6, <2>5, <2>6
<1>9. QED
  BY <1>7, <1>8 DEF Outstanding, Lists

(* Under the same condition a core never writes or frees a buffer that a   *)
(* request under way reads or writes.                                      *)
THEOREM BuffersKept == Spec => []NoBufferReusedEarly
BY Invariant, OrderKeepsBuffers, PTL

=============================================================================
