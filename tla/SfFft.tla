--------------------------------- MODULE SfFft ---------------------------------
(***************************************************************************)
(* The FFT task of the single-core trackers Kcf_SF and Kcf_SA.  The main   *)
(* task puts commands into a queue and counts the transforms done; the FFT *)
(* task, of higher priority on the same core, takes them and runs the FFT  *)
(* engine in two passes; the engine's interrupt wakes it in the middle of  *)
(* whatever the main task does.  No message is copied: a command is a      *)
(* variable of the main task, often on its stack, linked into the queue.   *)
(*                                                                         *)
(*   - what the main task does is Kcf_SF/src/CKcfTracker.cpp, reduced to   *)
(*     the order in which it writes commands and buffers, queues them,     *)
(*     waits, and reads results: the instructions of Program;              *)
(*   - the FFT task is Kcf_SF/src/FFTTask.cpp;                             *)
(*   - Queue_enqueue of SYS/BIOS is not atomic: it reads the last element  *)
(*     of the queue, then links the new one behind it.                     *)
(***************************************************************************)
EXTENDS Integers, Sequences, SequencesExt

CONSTANTS N,            \* transforms in a batch: KCF_REGION_NUM * 3 + 4
          Detects,      \* detections in an update: 1 in Kcf_SF, 3 in Kcf_SA
          Updates,      \* frames of a sequence after the first
          Runs          \* sequences tracked, one after the other

ASSUME SfFftAssumption ==
    /\ N \in Nat \ {0}
    /\ Detects \subseteq Nat \ {0} /\ Detects # {}
    /\ Updates \in Nat /\ Runs \in Nat

-------------------------------------------------------------------------------
(* What the main task does with its commands and buffers: the instructions *)
(* of each function, where i is the chunk that its loops have reached.     *)

Batch(b) == {<<b, i>> : i \in 1 .. N}

prob == <<"prob", 1>>
sum == <<"sum", 1>>
kxx == <<"kxx", 1>>
kzx == <<"kzx", 1>>
kzxHat == <<"kzxHat", 1>>
none == <<"none", 1>>

Command(c, s, d) == [cmd |-> c, src |-> s, dst |-> d]     \* FFTCmd: dst := FFT(src)
NoCommand == Command(none, none, none)

Instruction(op, bs, c) == [op |-> op, bufs |-> bs, cmd |-> c, loop |-> 0]

Wait == Instruction("wait", {}, NoCommand)          \* Semaphore_pend(hFFTDoneSem)
Use(bs) == Instruction("use", bs, NoCommand)        \* read what the engine computed
Change(bs) == Instruction("change", bs, NoCommand)  \* write, free, or leave the scope
Drain == Instruction("drain", {}, NoCommand)

\* A command that has been filled in is queued in three steps.
Enqueue == Instruction("enqueue", {}, NoCommand)
Link(c) == Instruction("link", {}, c)
Post == Instruction("post", {}, NoCommand)

\* The last one of a loop's n instructions.
Loop(n, last) == [last EXCEPT !.loop = n]

\* The commands of the trackers, and those of the batches for chunk i.
peakFft == Command(<<"peakCmd", 1>>, prob, prob)
autoFft(i) == Command(<<"autoCmd", i>>, <<"x", i>>, <<"tmplDft", i>>)
autoIfft == Command(<<"autoCmd", 1>>, sum, kxx)
crossFft(i) == Command(<<"crossCmd", i>>, <<"x", i>>, <<"zHat", i>>)
crossIfft == Command(<<"crossCmd", 1>>, sum, kzx)
trainFft == Command(<<"trainCmd", 1>>, kxx, kxx)
tmplFft(i) == Command(<<"m_pFFTCmd", i>>, <<"tmpl", i>>, <<"tmplDft", i>>)
detectFft == Command(<<"detectCmd", 1>>, kzx, kzxHat)
detectIfft == Command(<<"detectCmd", 1>>, kzxHat, kzx)

createGaussianPeak ==
    <<Change({prob, peakFft.cmd}), Enqueue, Link(peakFft), Post, Wait, Change({peakFft.cmd})>>

\* Every way to fill x waits for its transfer on the spot.
getFeatures == <<Change(Batch("x"))>>

gaussAutoCorrelation(i) ==
    <<Change({autoFft(i).cmd}), Enqueue, Link(autoFft(i)), Loop(4, Post),
      Change({sum}),
      Wait, Loop(2, Use({autoFft(i).dst})),
      Change({sum, autoIfft.cmd}), Enqueue, Link(autoIfft), Post, Wait,
      Change({sum}), Use({kxx}), Change({kxx} \cup Batch("autoCmd"))>>

\* first: m_bUpdatedFlag is not set, the template's transforms have to be awaited.
gaussCrossCorrelation(first, i) ==
    <<Change({crossFft(i).cmd}), Enqueue, Link(crossFft(i)), Loop(4, Post),
      IF first THEN Loop(1, Wait) ELSE Use({}),
      Change({sum}),
      Wait, Loop(2, Use({tmplFft(i).dst, crossFft(i).dst})),
      Change(Batch("zHat") \cup {sum, crossIfft.cmd}), Enqueue, Link(crossIfft), Post, Wait,
      Change({sum}), Use({kzx}), Change({kzx} \cup Batch("crossCmd"))>>

\* Mutant: the commands of the template are variables of train.
trainLocalCommands(i) ==
    LET c == Command(<<"trainCmd", i>>, tmplFft(i).src, tmplFft(i).dst)
    IN  <<Change({trainFft.cmd}), Enqueue, Link(trainFft), Post, Wait,
          Use({kxx, prob}), Change({kxx} \cup Batch("tmpl")),
          Change({c.cmd}), Enqueue, Link(c), Loop(4, Post),
          Change(Batch("trainCmd"))>>

\* After gaussAutoCorrelation.
train(i) ==
    <<Change({trainFft.cmd}), Enqueue, Link(trainFft), Post, Wait,
      Use({kxx, prob}), Change({kxx} \cup Batch("tmpl")),
      Change({tmplFft(i).cmd}), Enqueue, Link(tmplFft(i)), Loop(4, Post),
      Change({trainFft.cmd})>>

\* After gaussCrossCorrelation.
detect ==
    <<Change({detectFft.cmd}), Enqueue, Link(detectFft), Post, Wait,
      Use({kzxHat}), Change({kzxHat, detectIfft.cmd}), Enqueue, Link(detectIfft), Post, Wait,
      Change({kzxHat}), Use({kzx}), Change({kzx, detectIfft.cmd})>>

drain == <<Drain>>
freeTmplData == <<Change(Batch("x"))>>

\* The functions called one after the other before the first sequence, for the first
\* frame of a sequence and for a later one; an update calls the first three once for
\* each detection.
start == <<createGaussianPeak>>

init == [i \in 1 .. N |->
    <<getFeatures, drain, gaussAutoCorrelation(i), train(i), freeTmplData>>]

update(first) == [i \in 1 .. N |->
    <<getFeatures, gaussCrossCorrelation(first, i), detect,
      getFeatures, gaussAutoCorrelation(i), train(i), freeTmplData>>]

\* A place in it: the sequence (0 is what comes before the first), the frame,
\* the detection, the function called, the instruction and the chunk.
Place(run, frame, round, call, line, i) ==
    [run |-> run, frame |-> frame, round |-> round, call |-> call, line |-> line, i |-> i]

First(run, frame) == Place(run, frame, 1, 1, 1, 1)

Program(p) ==
    IF p.run = 0 THEN start
    ELSE IF p.frame = 0 THEN init[p.i] ELSE update(p.round = 1)[p.i]

\* The next place, for a tracker with n detections in an update.
After(n, p) ==
    LET calls == Program(p)
        loop == calls[p.call][p.line].loop
        i == IF loop = 0 THEN p.i ELSE 1
    IN  IF loop # 0 /\ p.i < N
        THEN Place(p.run, p.frame, p.round, p.call, p.line + 1 - loop, p.i + 1)
        ELSE IF p.line < Len(calls[p.call])
        THEN Place(p.run, p.frame, p.round, p.call, p.line + 1, i)
        ELSE IF p.frame > 0 /\ p.call = 3 /\ p.round < n
        THEN Place(p.run, p.frame, p.round + 1, 1, 1, i)
        ELSE IF p.call < Len(calls)
        THEN Place(p.run, p.frame, p.round, p.call + 1, 1, i)
        ELSE IF p.run > 0 /\ p.frame < Updates
        THEN First(p.run, p.frame + 1) ELSE First(p.run + 1, 0)

-------------------------------------------------------------------------------

VARIABLES detects,      \* the tracker that runs
          pc,           \* the place of the main task's next instruction
          enqueue,      \* its Queue_enqueue: "no", or what it found the last
                        \* element to be: the queue itself ("empty") or a command
          queue,        \* hFFTQue
          startSem, doneSem, hwiSem,    \* hFFTStartSem, hFFTDoneSem; hFFTHwiSem (binary)
          fftPc, cur,   \* the FFT task and the command it serves
          engine,       \* the FFT engine and the transfer behind it are running
          fresh,        \* the buffers whose last requested transform is complete
          raced,        \* ghost: a command was linked behind one no longer queued
          early         \* ghost: hFFTDoneSem was drained with commands outstanding

mainVars == <<detects, pc, enqueue>>
fftVars == <<fftPc, cur, engine>>
ghosts == <<raced, early>>
vars == <<mainVars, queue, startSem, doneSem, hwiSem, fftVars, fresh, ghosts>>

Init ==
    /\ detects \in Detects
    /\ pc = First(0, 0) /\ enqueue = "no"
    /\ queue = <<>>
    /\ startSem = 0 /\ doneSem = 0 /\ hwiSem = 0
    /\ fftPc = "get" /\ cur = NoCommand /\ engine = FALSE
    /\ fresh = {}
    /\ raced = FALSE /\ early = FALSE

Finished == pc.run > Runs
Instr == Program(pc)[pc.call][pc.line]
At(op) == ~Finished /\ Instr.op = op

Outstanding == ToSet(queue) \cup (IF cur = NoCommand THEN {} ELSE {cur})
Named(bs) == {c \in Outstanding : {c.cmd, c.src, c.dst} \cap bs # {}}

-------------------------------------------------------------------------------
(* The FFT task.                                                           *)

FftReady ==
    \/ fftPc = "get" /\ startSem > 0
    \/ fftPc \in {"pass1", "pass2"} /\ hwiSem = 1

\* The queue is empty only after a command was lost: the task then takes the
\* queue itself for a command, and finds no type of transform in it.
FftAbort ==
    /\ fftPc = "get" /\ startSem > 0
    /\ queue = <<>>
    /\ startSem' = startSem - 1
    /\ fftPc' = "aborted"
    /\ UNCHANGED <<mainVars, queue, doneSem, hwiSem, cur, engine, fresh, ghosts>>

FftGet ==
    /\ fftPc = "get" /\ startSem > 0
    /\ queue # <<>>
    /\ startSem' = startSem - 1
    /\ cur' = Head(queue)
    /\ queue' = Tail(queue)
    /\ engine' = TRUE
    /\ fftPc' = "pass1"
    /\ UNCHANGED <<mainVars, doneSem, hwiSem, fresh, ghosts>>

FftPass1 ==
    /\ fftPc = "pass1" /\ hwiSem = 1
    /\ hwiSem' = 0
    /\ engine' = TRUE
    /\ fftPc' = "pass2"
    /\ UNCHANGED <<mainVars, queue, startSem, doneSem, cur, fresh, ghosts>>

FftPass2 ==
    /\ fftPc = "pass2" /\ hwiSem = 1
    /\ hwiSem' = 0
    /\ fresh' = fresh \cup {cur.dst}
    /\ doneSem' = doneSem + 1
    /\ cur' = NoCommand
    /\ fftPc' = "get"
    /\ UNCHANGED <<mainVars, queue, startSem, engine, ghosts>>

\* The interrupt of the engine's transfer.
FFTDoneHandler ==
    /\ engine
    /\ engine' = FALSE
    /\ hwiSem' = 1
    /\ UNCHANGED <<mainVars, queue, startSem, doneSem, fftPc, cur, fresh, ghosts>>

-------------------------------------------------------------------------------
(* The main task runs when the FFT task waits.                             *)

Step ==
    /\ ~FftReady /\ fftPc # "aborted"
    /\ pc' = After(detects, pc)

MainCompute ==
    /\ At("use") \/ At("change")
    /\ Step
    /\ UNCHANGED <<detects, enqueue, queue, startSem, doneSem, hwiSem, fftVars, fresh, ghosts>>

\* Queue_enqueue up to the read of the last element.
EnqueueRead ==
    /\ At("enqueue")
    /\ Step
    /\ enqueue' = IF queue = <<>> THEN "empty" ELSE "command"
    /\ UNCHANGED <<detects, queue, startSem, doneSem, hwiSem, fftVars, fresh, ghosts>>

\* The rest of it.  Behind a command that left the queue meanwhile nobody will
\* find the new one, nor those linked behind it later.
EnqueueLink ==
    /\ At("link")
    /\ Step
    /\ enqueue' = "no"
    /\ LET lost == raced \/ (enqueue = "command" /\ queue = <<>>)
       IN  /\ queue' = IF lost THEN queue ELSE Append(queue, Instr.cmd)
           /\ raced' = lost
    /\ fresh' = fresh \ {Instr.cmd.dst}
    /\ UNCHANGED <<detects, startSem, doneSem, hwiSem, fftVars, early>>

\* Mutant: hFFTStartSem is binary.
MainPostBinary ==
    /\ At("post")
    /\ Step
    /\ startSem' = 1
    /\ UNCHANGED <<detects, enqueue, queue, doneSem, hwiSem, fftVars, fresh, ghosts>>

MainPost ==
    /\ At("post")
    /\ Step
    /\ startSem' = startSem + 1
    /\ UNCHANGED <<detects, enqueue, queue, doneSem, hwiSem, fftVars, fresh, ghosts>>

MainWait ==
    /\ At("wait") /\ doneSem > 0
    /\ Step
    /\ doneSem' = doneSem - 1
    /\ UNCHANGED <<detects, enqueue, queue, startSem, hwiSem, fftVars, fresh, ghosts>>

\* while(Semaphore_pend(hFFTDoneSem, BIOS_NO_WAIT)): one call after the other.
DrainOne ==
    /\ At("drain") /\ doneSem > 0
    /\ ~FftReady /\ fftPc # "aborted"
    /\ doneSem' = doneSem - 1
    /\ UNCHANGED <<mainVars, queue, startSem, hwiSem, fftVars, fresh, ghosts>>

DrainEnd ==
    /\ At("drain") /\ doneSem = 0
    /\ Step
    /\ early' = (early \/ Outstanding # {})
    /\ UNCHANGED <<detects, enqueue, queue, startSem, doneSem, hwiSem, fftVars, fresh, raced>>

-------------------------------------------------------------------------------

Main ==
    \/ MainCompute
    \/ EnqueueRead \/ EnqueueLink \/ MainPost
    \/ MainWait
    \/ DrainOne \/ DrainEnd

Fft == FftAbort \/ FftGet \/ FftPass1 \/ FftPass2

Idle ==
    /\ fftPc = "aborted" \/ Finished
    /\ UNCHANGED vars

Next == Main \/ Fft \/ FFTDoneHandler \/ Idle

Spec == Init /\ [][Next]_vars

\* The core runs whichever task can run, and the engine ends its passes.
FairSpec == Spec /\ WF_vars(Main) /\ WF_vars(Fft) /\ WF_vars(FFTDoneHandler)

-------------------------------------------------------------------------------
(* Properties.  Both hold as long as no command was lost in Queue_enqueue  *)
(* (main task and FFT task call it and Queue_dequeue without a lock) and   *)
(* init did not drain hFFTDoneSem before the last transforms of the        *)
(* sequence before were done (nothing but time keeps it from that).        *)

Undisturbed == ~raced /\ ~early

\* What the main task reads is complete, though it only counts, and the template's
\* transforms are counted a frame after they were queued, together with others; and
\* it never writes, frees or leaves the scope of a buffer or a command that is
\* queued or served (CKcfTracker.cpp:144-172, 615-999).
BuffersInOrder ==
    Undisturbed =>
        /\ At("use") => Instr.bufs \subseteq fresh
        /\ At("change") => Named(Instr.bufs) = {}

\* Every sequence is tracked to its end: no wait is left without its transform,
\* however often the two tasks have taken turns (FFTTask.cpp:21-74).
AllServed == <>(~Undisturbed \/ Finished)
================================================================================
