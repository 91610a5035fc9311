------------------------------- MODULE FftService -------------------------------
(***************************************************************************)
(* The FFT service of the four-core tracker.  The tracker cores 1 and 2    *)
(* send FFT requests to core 3 through one message queue, core 1 at high   *)
(* priority; core 3 serves them one at a time in two passes of the FFT     *)
(* engine and then notifies the core a request came from.  A notification  *)
(* carries nothing: a core only counts them, and concludes from the count  *)
(* which of its transforms are complete.                                   *)
(*                                                                         *)
(*   - what a tracker core does is CKcfTracker.cpp, reduced to the order   *)
(*     in which it sends requests, waits, reads results and reuses         *)
(*     buffers: the operator Program, one sequence of instructions;        *)
(*   - core 3 is Kcf_Core3/src/FFTTask.cpp;                                *)
(*   - the message heap is the one subtle part of the environment: core 3  *)
(*     frees the request and only then reads from it whom to notify, and   *)
(*     the next MessageQ_alloc of either core may return that very block.  *)
(***************************************************************************)
EXTENDS Integers, Sequences, SequencesExt

CONSTANTS Cores,    \* the tracker cores, a subset of {1, 2}
          N,        \* requests in a batch: KCF_REGION_NUM * 3 + 4 in the code
          Updates   \* how many frames are tracked after the first one

ASSUME ParameterAssumption ==
  /\ Cores \subseteq {1, 2} /\ Cores # {}
  /\ N \in Nat \ {0}
  /\ Updates \in Nat

-------------------------------------------------------------------------------
(* What a tracker core does with its buffers: the instructions of each      *)
(* function, where i is the chunk that its loops have reached.             *)

Batch(b) == {<<b, i>> : i \in 1..N}

Instruction(op, s, d, bs) == [op |-> op, src |-> s, dst |-> d, bufs |-> bs, loop |-> 0]
none == <<"none", 0>>

Send(s, d) == Instruction("send", s, d, {})     \* request dst := FFT(src)
Wait == Instruction("wait", none, none, {})     \* Semaphore_pend(hFFTDoneSem)
Use(bs) == Instruction("use", none, none, bs)   \* read what core 3 computed
Change(bs) == Instruction("change", none, none, bs)   \* write the buffers, or free them
Transpose == Instruction("transpose", none, none, {})
WaitTranspose == Instruction("waitTranspose", none, none, {})

\* The last one of a loop's n instructions.
Loop(n, last) == [last EXCEPT !.loop = n]

\* A program point, with what its comment says: these results are complete.
Complete(bs) == Instruction("complete", none, none, bs)

prob == <<"prob", 0>>
sum == <<"sum", 0>>
kxx == <<"kxx", 0>>
kzx == <<"kzx", 0>>
kzxHat == <<"kzxHat", 0>>

createGaussianPeak == <<Change({prob}), Send(prob, prob), Wait>>

getFeatures == <<Change(Batch("x")), Transpose, WaitTranspose, Change(Batch("x"))>>

\* The transform of chunk i is used as soon as i + 1 notifications came.
\* Faulty: the sum is freed once its inverse transform is requested.
gaussAutoCorrelationFreeEarly(i) ==
  <<Change({sum}),
    Loop(1, Send(<<"x", i>>, <<"tmplDft", i>>)),
    Wait, Loop(2, Use({<<"tmplDft", i>>})),
    Change({sum}), Send(sum, kxx), Change({sum}), Wait,
    Use({kxx}), Change({kxx})>>

gaussAutoCorrelation(i) ==
  <<Change({sum}),
    Loop(1, Send(<<"x", i>>, <<"tmplDft", i>>)),
    Wait, Loop(2, Use({<<"tmplDft", i>>})),
    Change({sum}), Send(sum, kxx), Wait, Change({sum}),
    Use({kxx}), Change({kxx})>>

\* Faulty: the template's transforms are not waited for.
gaussCrossCorrelationNoTemplateWait(i) ==
  <<Change({sum}),
    Loop(1, Send(<<"x", i>>, <<"zHat", i>>)),
    Wait, Loop(2, Use({<<"tmplDft", i>>, <<"zHat", i>>})),
    Change(Batch("zHat") \cup {sum}), Send(sum, kzx), Wait, Change({sum}),
    Use({kzx}), Change({kzx})>>

gaussCrossCorrelation(i) ==
  <<Change({sum}),
    Loop(1, Send(<<"x", i>>, <<"zHat", i>>)),
    Loop(1, Wait), Complete(Batch("tmplDft")),
    Wait, Loop(2, Use({<<"tmplDft", i>>, <<"zHat", i>>})),
    Change(Batch("zHat") \cup {sum}), Send(sum, kzx), Wait, Change({sum}),
    Use({kzx}), Change({kzx})>>

\* After gaussAutoCorrelation; in the end m_pTmpl is updated.
train ==
  <<Send(kxx, kxx), Wait, Use({kxx, prob}), Change({kxx} \cup Batch("tmpl"))>>

\* After gaussCrossCorrelation.
detect ==
  <<Send(kzx, kzxHat), Wait, Use({kzxHat}), Change({kzxHat}),
    Send(kzxHat, kzx), Wait, Change({kzxHat}), Use({kzx}), Change({kzx})>>

templateFft(i) == <<Loop(1, Send(<<"tmpl", i>>, <<"tmplDft", i>>))>>
freeTmplData == <<Change(Batch("x"))>>

\* The functions called for the first frame, with createGaussianPeak before it, and
\* for the later ones, one after the other.
init == [i \in 1..N |->
  <<createGaussianPeak, getFeatures, gaussAutoCorrelation(i), train, freeTmplData>>]

update == [i \in 1..N |->
  <<templateFft(i), getFeatures, gaussCrossCorrelation(i), detect,
    getFeatures, gaussAutoCorrelation(i), train, freeTmplData>>]

Program(frame, i) == IF frame = 0 THEN init[i] ELSE update[i]

\* A place in it: the frame, the function called, the instruction and the chunk.
Place(frame, call, line, i) == [frame |-> frame, call |-> call, line |-> line, i |-> i]
First(frame) == Place(frame, 1, 1, 1)

After(p) ==
  LET calls == Program(p.frame, p.i)
      loop == calls[p.call][p.line].loop
      i == IF loop = 0 THEN p.i ELSE 1
  IN  IF loop # 0 /\ p.i < N THEN Place(p.frame, p.call, p.line + 1 - loop, p.i + 1)
      ELSE IF p.line < Len(calls[p.call]) THEN Place(p.frame, p.call, p.line + 1, i)
      ELSE IF p.call < Len(calls) THEN Place(p.frame, p.call + 1, 1, i)
      ELSE First(p.frame + 1)

-------------------------------------------------------------------------------

VARIABLES pc,         \* the place of each core's next instruction
          fresh,      \* the buffers whose last requested transform is complete
          doneSem,    \* hFFTDoneSem of each core, counting
          tsps,       \* the transpose channel of each core
          queue,      \* the two lists of the FFT command queue
          fftPc,      \* where core 3's FFTTskFxn is
          cur,        \* the request core 3 serves
          replyTo,    \* what core 3 finds in its nReplyCoreId
          engine,     \* the FFT engine and the transfer behind it are running
          hwiSem,     \* hFFTHwiSem, binary
          block,      \* the request's memory: core 3's, freed, or allocated anew
          misdirected,  \* ghost: some notification went to the other core
          sent, waited  \* ghosts: the requests each core has sent, and waited for

coreVars == <<pc, fresh, tsps>>
fftVars == <<fftPc, cur, engine, hwiSem>>
heapVars == <<replyTo, block, misdirected>>
counts == <<sent, waited>>
vars == <<coreVars, doneSem, queue, fftVars, heapVars, counts>>

NoRequest == [core |-> 0, src |-> none, dst |-> none]
Finished(c) == pc[c].frame > Updates
Instr(c) == Program(pc[c].frame, pc[c].i)[pc[c].call][pc[c].line]
At(c, op) == ~Finished(c) /\ Instr(c).op = op
Advance(c) == pc' = [pc EXCEPT ![c] = After(@)]
Priority(c) == IF c = 1 THEN "high" ELSE "normal"

Init ==
  /\ pc = [c \in Cores |-> First(0)]
  /\ fresh = [c \in Cores |-> {}]
  /\ doneSem = [c \in Cores |-> 0]
  /\ tsps = [c \in Cores |-> "idle"]
  /\ queue = [p \in {"high", "normal"} |-> <<>>]
  /\ fftPc = "get"
  /\ cur = NoRequest
  /\ replyTo = 0
  /\ engine = FALSE
  /\ hwiSem = 0
  /\ block = "held"
  /\ misdirected = FALSE
  /\ sent = [c \in Cores |-> 0] /\ waited = [c \in Cores |-> 0]

-------------------------------------------------------------------------------
(* Tracker core c.                                                         *)

\* MessageQ_alloc, fill in, MessageQ_put.  Between core 3's MessageQ_free and
\* its Notify_sendEvent the allocator may hand out the block core 3 still reads.
CoreSend(c) ==
  /\ At(c, "send")
  /\ queue' = [queue EXCEPT ![Priority(c)] =
                 Append(@, [core |-> c, src |-> Instr(c).src, dst |-> Instr(c).dst])]
  /\ fresh' = [fresh EXCEPT ![c] = @ \ {Instr(c).dst}]
  /\ \/ UNCHANGED heapVars
     \/ /\ block = "free"
        /\ block' = "again"
        /\ replyTo' = c
        /\ misdirected' = (misdirected \/ replyTo # c)
  /\ sent' = [sent EXCEPT ![c] = @ + 1]
  /\ Advance(c)
  /\ UNCHANGED <<doneSem, tsps, fftVars, waited>>

CoreWait(c) ==
  /\ At(c, "wait")
  /\ doneSem[c] > 0
  /\ doneSem' = [doneSem EXCEPT ![c] = @ - 1]
  /\ waited' = [waited EXCEPT ![c] = @ + 1]
  /\ Advance(c)
  /\ UNCHANGED <<fresh, tsps, queue, fftVars, heapVars, sent>>

\* Computation on the core's own buffers; which buffers is in the instruction.
CoreCompute(c) ==
  /\ At(c, "use") \/ At(c, "change") \/ At(c, "complete")
  /\ Advance(c)
  /\ UNCHANGED <<fresh, doneSem, tsps, queue, fftVars, heapVars, counts>>

\* startTranspose programs and triggers the core's own channel.
CoreTranspose(c) ==
  /\ At(c, "transpose")
  /\ tsps' = [tsps EXCEPT ![c] = "busy"]
  /\ Advance(c)
  /\ UNCHANGED <<fresh, doneSem, queue, fftVars, heapVars, counts>>

\* The channel completes; TspsDoneHandler posts hTspsDoneSem.
TspsDoneHandler(c) ==
  /\ tsps[c] = "busy"
  /\ tsps' = [tsps EXCEPT ![c] = "posted"]
  /\ UNCHANGED <<pc, fresh, doneSem, queue, fftVars, heapVars, counts>>

CoreWaitTranspose(c) ==
  /\ At(c, "waitTranspose")
  /\ tsps[c] = "posted"
  /\ tsps' = [tsps EXCEPT ![c] = "idle"]
  /\ Advance(c)
  /\ UNCHANGED <<fresh, doneSem, queue, fftVars, heapVars, counts>>

-------------------------------------------------------------------------------
(* FFTTskFxn on core 3.                                                    *)

\* MessageQ_get takes from the high-priority list first; the first pass starts.
FftGet ==
  /\ fftPc = "get"
  /\ \E p \in {"high", "normal"} :
       /\ queue[p] # <<>>
       /\ p = "normal" => queue["high"] = <<>>
       /\ cur' = Head(queue[p])
       /\ replyTo' = Head(queue[p]).core
       /\ queue' = [queue EXCEPT ![p] = Tail(@)]
  /\ fftPc' = "pass1"
  /\ engine' = TRUE
  /\ UNCHANGED <<coreVars, doneSem, hwiSem, block, misdirected, counts>>

\* The engine and its transfer complete: FFTDoneHandler posts hFFTHwiSem.
FFTDoneHandler ==
  /\ engine
  /\ engine' = FALSE
  /\ hwiSem' = 1
  /\ UNCHANGED <<coreVars, doneSem, queue, fftPc, cur, heapVars, counts>>

\* The first pass is over, the second starts.
FftPass1 ==
  /\ fftPc = "pass1"
  /\ hwiSem = 1
  /\ hwiSem' = 0
  /\ engine' = TRUE
  /\ fftPc' = "pass2"
  /\ UNCHANGED <<coreVars, doneSem, queue, cur, heapVars, counts>>

\* The second pass is over: the result is complete.
FftPass2 ==
  /\ fftPc = "pass2"
  /\ hwiSem = 1
  /\ hwiSem' = 0
  /\ fresh' = [fresh EXCEPT ![cur.core] = @ \cup {cur.dst}]
  /\ fftPc' = "free"
  /\ UNCHANGED <<pc, tsps, doneSem, queue, cur, engine, heapVars, counts>>

\* MessageQ_free: the block belongs to the heap, core 3 keeps its address.
FftFree ==
  /\ fftPc = "free"
  /\ fftPc' = "notify"
  /\ block' = "free"
  /\ cur' = NoRequest
  /\ UNCHANGED <<coreVars, doneSem, queue, engine, hwiSem, replyTo, misdirected, counts>>

\* Faulty: Notify_sendEvent is not repeated when it fails.
FftNotifyOnce ==
  /\ fftPc = "notify"
  /\ \E done \in BOOLEAN :
       doneSem' = [doneSem EXCEPT ![replyTo] = IF done THEN @ + 1 ELSE @]
  /\ fftPc' = "get"
  /\ replyTo' = 0
  /\ block' = "held"
  /\ UNCHANGED <<coreVars, queue, cur, engine, hwiSem, misdirected, counts>>

\* Notify_sendEvent to hFftMsg->nReplyCoreId, read now; the callback on that
\* core, FFTDoneCbck, posts hFFTDoneSem.
FftNotify ==
  /\ fftPc = "notify"
  /\ doneSem' = [doneSem EXCEPT ![replyTo] = @ + 1]
  /\ fftPc' = "get"
  /\ replyTo' = 0
  /\ block' = "held"
  /\ UNCHANGED <<coreVars, queue, cur, engine, hwiSem, misdirected, counts>>

-------------------------------------------------------------------------------

Core(c) ==
  \/ CoreSend(c)
  \/ CoreWait(c)
  \/ CoreCompute(c)
  \/ CoreTranspose(c)
  \/ CoreWaitTranspose(c)

Fft == FftGet \/ FftPass1 \/ FftPass2 \/ FftFree \/ FftNotify

\* A core that ran its program waits for the next frame; a core whose
\* notification went to the other one may wait for it forever.
Idle ==
  /\ misdirected \/ \A c \in Cores : Finished(c)
  /\ UNCHANGED vars

Next ==
  \/ \E c \in Cores : Core(c) \/ TspsDoneHandler(c)
  \/ Fft
  \/ FFTDoneHandler
  \/ Idle

Spec == Init /\ [][Next]_vars

\* Every core runs, and the channels and the engine complete what they start.
FairSpec ==
  /\ Spec
  /\ WF_vars(Fft) /\ WF_vars(FFTDoneHandler)
  /\ \A c \in Cores : WF_vars(Core(c)) /\ WF_vars(TspsDoneHandler(c))

-------------------------------------------------------------------------------
(* Properties.                                                             *)

\* Requests core 3 has not finished: queued, or in one of the passes.
Outstanding ==
  ToSet(queue["high"]) \cup ToSet(queue["normal"])
  \cup (IF fftPc \in {"pass1", "pass2"} THEN {cur} ELSE {})

TypeOK ==
  /\ pc \in [Cores -> [frame : 0 .. Updates + 1, call : 1 .. 8, line : 1 .. 12, i : 1 .. N]]
  /\ doneSem \in [Cores -> Nat]
  /\ tsps \in [Cores -> {"idle", "busy", "posted"}]
  /\ DOMAIN queue = {"high", "normal"}
  /\ \A r \in Outstanding : r.core \in Cores
  /\ fftPc \in {"get", "pass1", "pass2", "free", "notify"}
  /\ replyTo \in Cores \cup {0}
  /\ engine \in BOOLEAN /\ hwiSem \in 0..1
  /\ block \in {"held", "free", "again"} /\ misdirected \in BOOLEAN

\* "wait for template fft done" (CKcfTracker.cpp:463): a core that has counted
\* one notification per chunk of the template finds the template's transform
\* complete.
TemplateFftDone ==
  \A c \in Cores : At(c, "complete") => Instr(c).bufs \subseteq fresh[c]

\* As long as no freed request was allocated again before core 3 read it, the
\* counting is right: what a core reads is complete.  It relies on the order of
\* the queue within a core, on template requests going first in update, and on
\* every request being matched by one wait.
CountingIsOrder ==
  ~misdirected => \A c \in Cores : At(c, "use") \/ At(c, "complete") =>
              Instr(c).bufs \subseteq fresh[c]

\* Under the same condition a core never writes or frees a buffer that a request
\* under way reads or writes.
NoBufferReusedEarly ==
  ~misdirected => \A c \in Cores : At(c, "change") =>
              \A r \in Outstanding : r.core = c => {r.src, r.dst} \cap Instr(c).bufs = {}

InService == IF fftPc = "get" THEN 0 ELSE 1
Total(f) == (IF 1 \in Cores THEN f[1] ELSE 0) + (IF 2 \in Cores THEN f[2] ELSE 0)

\* Every request is notified exactly once, to whichever core: requests sent are
\* waited for, posted and not waited for yet, queued or in service.
EveryRequestNotifiedOnce ==
  Total(sent) = Total(waited) + Total(doneSem)
                + Len(queue["high"]) + Len(queue["normal"]) + InService

\* Unless a notification was misdirected, both cores finish.
AllServed == <>(misdirected \/ \A c \in Cores : Finished(c))
================================================================================
