------------------------------ MODULE DualTracker ------------------------------
(***************************************************************************)
(* The four-core tracker of src/DSP: core 0 receives frames by DMA into a  *)
(* pair of buffers and hands every frame to the two tracker cores; each    *)
(* tracker core detects the target in the frame, trains its template on    *)
(* it and sends the result back.                                           *)
(*                                                                         *)
(*   - MainTsk, the receive interrupt and the two KCF manager tasks are    *)
(*     Kcf_Core0/src/main.cpp, the buffer pair is CRxBufManager;           *)
(*   - the loop of a tracker core is Kcf_Core1/src/KcfTask.cpp (Kcf_Core2  *)
(*     is the same program with the names of core 2);                      *)
(*   - the FFT requests a tracker core makes while it tracks are module    *)
(*     FftService; here detection and training are one step each, which    *)
(*     read the frame buffer.                                              *)
(*                                                                         *)
(* SYS/BIOS semaphores, events and MessageQ, and the EDMA channel, are not *)
(* in the sources: they are modelled by what the code relies on.           *)
(***************************************************************************)
EXTENDS Integers

CONSTANTS Cores,      \* the tracker cores, core 1 and core 2
          FRAME_NUM   \* common.h: how many frames a self test tracks

ASSUME FrameNumAssumption == FRAME_NUM \in Nat /\ FRAME_NUM >= 2
ASSUME CoresAssumption == Cores # {}

VARIABLES mainPc,     \* where MainTskFxn is
          nFrameCnt,  \* index of the frame being, or last, received
          hasStart,   \* hKcfHasStartEvt: the CxSTART bits posted
          allDone,    \* hAllDoneEvt: the CxDONE bits posted
          nRxInd,     \* CRxBufManager::m_nRxInd
          buf,        \* what each of m_pBuf[0..1] holds
          bufLive,    \* the two buffers are allocated
          dma,        \* the transfer in progress on the receive channel
          rxInt,      \* the transfer-complete interrupt is pending
          dataReady,  \* hCxDataReadySem, binary
          taskPc,     \* where CxKcfTskFxn is
          nCnt,       \* its frame counter
          results,    \* its result array
          msgAt,      \* who holds the one message of the task
          msg,        \* the message's fields
          corePc,     \* where KcfTskFxn of a tracker core is
          tmpl        \* the frame the tracker's template was last trained on

mainVars == <<mainPc, nFrameCnt, allDone, bufLive>>
rxVars == <<nRxInd, buf, dma, rxInt>>
taskVars == <<taskPc, nCnt, results>>
msgVars == <<msgAt, msg>>
coreVars == <<corePc, tmpl>>
vars == <<mainVars, rxVars, hasStart, dataReady, taskVars, msgVars, coreVars>>

Frames == 0 .. FRAME_NUM - 1
None == -1            \* no frame: an empty or half-written buffer, no template
Idle == [frame |-> None, dst |-> 0]
NoResult == [frame |-> None, tmpl |-> None]

\* The region the trackers start with is a constant of the program: a result
\* that comes from no frame.
GivenRoi == NoResult

GetRxBuf == nRxInd
GetOpBuf == 1 - nRxInd

Init ==
  /\ mainPc = "init"
  /\ nFrameCnt = 0
  /\ hasStart = {}
  /\ allDone = {}
  /\ nRxInd = 0
  /\ buf = [b \in 0..1 |-> None]
  /\ bufLive = FALSE
  /\ dma = Idle
  /\ rxInt = FALSE
  /\ dataReady = [c \in Cores |-> 0]
  /\ taskPc = [c \in Cores |-> "absent"]
  /\ nCnt = [c \in Cores |-> 0]
  /\ results = [c \in Cores |-> [f \in Frames |-> NoResult]]
  /\ msgAt = [c \in Cores |-> "task"]
  /\ msg = [c \in Cores |-> [pAddr |-> 0, bInit |-> FALSE, roi |-> NoResult]]
  /\ corePc = [c \in Cores |-> "boot"]
  /\ tmpl = [c \in Cores |-> None]

-------------------------------------------------------------------------------
(* The receive channel of CRxBufManager.                                   *)

\* SimStartRxData: programs the channel; from here on the destination holds
\* parts of two frames until the transfer completes.
SimStartRxData(frame) ==
  /\ dma' = [frame |-> frame, dst |-> GetRxBuf]
  /\ buf' = [buf EXCEPT ![GetRxBuf] = None]

\* The transfer completes and raises its interrupt.
RxTransferDone ==
  /\ dma # Idle
  /\ buf' = [buf EXCEPT ![dma.dst] = dma.frame]
  /\ dma' = Idle
  /\ rxInt' = TRUE
  /\ UNCHANGED <<mainVars, nRxInd, hasStart, dataReady, taskVars, msgVars, coreVars>>

\* SimRxDataHandler: flip, clear the flag, post both (binary) semaphores.
SimRxDataHandler ==
  /\ rxInt
  /\ nRxInd' = 1 - nRxInd
  /\ rxInt' = FALSE
  /\ dataReady' = [c \in Cores |-> 1]
  /\ UNCHANGED <<mainVars, buf, dma, hasStart, taskVars, msgVars, coreVars>>

-------------------------------------------------------------------------------
(* MainTskFxn.                                                             *)

\* Allocate the buffers, install the interrupt, create the two tasks, start
\* receiving frame 0.
MainSetup ==
  /\ mainPc = "init"
  /\ mainPc' = "pendStart"
  /\ bufLive' = TRUE
  /\ taskPc' = [c \in Cores |-> "open"]
  /\ SimStartRxData(0)
  /\ UNCHANGED <<nFrameCnt, allDone, nRxInd, rxInt, hasStart, dataReady, nCnt,
                 results, msgVars, coreVars>>

\* Faulty variant: the event mask is OR-ed, so one core's START is enough.
MainPendStartAnyCore ==
  /\ mainPc = "pendStart"
  /\ hasStart # {}
  /\ hasStart' = {}
  /\ mainPc' = "startRx"
  /\ UNCHANGED <<nFrameCnt, allDone, bufLive, rxVars, dataReady, taskVars,
                 msgVars, coreVars>>

\* Faulty variant: the START bits stay set.
MainPendStartNoClear ==
  /\ mainPc = "pendStart"
  /\ hasStart = Cores
  /\ mainPc' = "startRx"
  /\ UNCHANGED <<nFrameCnt, allDone, bufLive, rxVars, hasStart, dataReady,
                 taskVars, msgVars, coreVars>>

\* Event_pend(hKcfHasStartEvt, C1START + C2START, ...): wait for all, clear all.
MainPendStart ==
  /\ mainPc = "pendStart"
  /\ hasStart = Cores
  /\ hasStart' = {}
  /\ mainPc' = "startRx"
  /\ UNCHANGED <<nFrameCnt, allDone, bufLive, rxVars, dataReady, taskVars,
                 msgVars, coreVars>>

\* Faulty variant: the loop ends one frame early.
MainStartRxOneShort ==
  /\ mainPc = "startRx"
  /\ nFrameCnt' = nFrameCnt + 1
  /\ SimStartRxData(nFrameCnt + 1)
  /\ mainPc' = IF nFrameCnt + 1 >= FRAME_NUM - 2 THEN "pendDone" ELSE "pendStart"
  /\ UNCHANGED <<allDone, bufLive, nRxInd, rxInt, hasStart, dataReady, taskVars,
                 msgVars, coreVars>>

\* Start receiving the next frame; the loop ends with the last one.
MainStartRx ==
  /\ mainPc = "startRx"
  /\ nFrameCnt' = nFrameCnt + 1
  /\ SimStartRxData(nFrameCnt + 1)
  /\ mainPc' = IF nFrameCnt + 1 = FRAME_NUM - 1 THEN "pendDone" ELSE "pendStart"
  /\ UNCHANGED <<allDone, bufLive, nRxInd, rxInt, hasStart, dataReady, taskVars,
                 msgVars, coreVars>>

\* Faulty variant: the first core to finish ends the test.
MainReturnAnyDone ==
  /\ mainPc = "pendDone"
  /\ allDone # {}
  /\ allDone' = {}
  /\ mainPc' = "returned"
  /\ bufLive' = FALSE
  /\ UNCHANGED <<nFrameCnt, rxVars, hasStart, dataReady, taskVars, msgVars, coreVars>>

\* Event_pend(hAllDoneEvt, ...), then the return, which destroys rxBufMgr.
MainReturn ==
  /\ mainPc = "pendDone"
  /\ allDone = Cores
  /\ allDone' = {}
  /\ mainPc' = "returned"
  /\ bufLive' = FALSE
  /\ UNCHANGED <<nFrameCnt, rxVars, hasStart, dataReady, taskVars, msgVars, coreVars>>

-------------------------------------------------------------------------------
(* C1KcfTskFxn and C2KcfTskFxn: the task on core 0 that serves core c.     *)

\* MessageQ_open succeeds once core c has created its queue.
TaskOpen(c) ==
  /\ taskPc[c] = "open"
  /\ corePc[c] # "boot"
  /\ taskPc' = [taskPc EXCEPT ![c] = "pendData"]
  /\ UNCHANGED <<mainVars, rxVars, hasStart, dataReady, nCnt, results, msgVars, coreVars>>

TaskPendData(c) ==
  /\ taskPc[c] = "pendData"
  /\ dataReady[c] = 1
  /\ dataReady' = [dataReady EXCEPT ![c] = 0]
  /\ nCnt' = [nCnt EXCEPT ![c] = @ + 1]
  /\ taskPc' = [taskPc EXCEPT ![c] = "put"]
  /\ UNCHANGED <<mainVars, rxVars, hasStart, results, msgVars, coreVars>>

\* The message takes the address of the operating buffer as it is now; the
\* first one also carries the region to start with.
TaskPut(c) ==
  /\ taskPc[c] = "put"
  /\ msg' = [msg EXCEPT ![c] = [pAddr |-> GetOpBuf, bInit |-> nCnt[c] = 1,
                                roi |-> IF nCnt[c] = 1 THEN GivenRoi ELSE @.roi]]
  /\ msgAt' = [msgAt EXCEPT ![c] = "request"]
  /\ taskPc' = [taskPc EXCEPT ![c] = "postStart"]
  /\ UNCHANGED <<mainVars, rxVars, hasStart, dataReady, nCnt, results, coreVars>>

TaskPostStart(c) ==
  /\ taskPc[c] = "postStart"
  /\ hasStart' = hasStart \cup {c}
  /\ taskPc' = [taskPc EXCEPT ![c] = "getReply"]
  /\ UNCHANGED <<mainVars, rxVars, dataReady, nCnt, results, msgVars, coreVars>>

TaskGetReply(c) ==
  /\ taskPc[c] = "getReply"
  /\ msgAt[c] = "reply"
  /\ msgAt' = [msgAt EXCEPT ![c] = "task"]
  /\ results' = [results EXCEPT ![c][nCnt[c] - 1] = msg[c].roi]
  /\ taskPc' = [taskPc EXCEPT ![c] =
                  IF nCnt[c] = FRAME_NUM THEN "postDone" ELSE "pendData"]
  /\ UNCHANGED <<mainVars, rxVars, hasStart, dataReady, nCnt, msg, coreVars>>

TaskPostDone(c) ==
  /\ taskPc[c] = "postDone"
  /\ allDone' = allDone \cup {c}
  /\ taskPc' = [taskPc EXCEPT ![c] = "exited"]
  /\ UNCHANGED <<mainPc, nFrameCnt, bufLive, rxVars, hasStart, dataReady, nCnt,
                 results, msgVars, coreVars>>

-------------------------------------------------------------------------------
(* KcfTskFxn: the tracker core c.                                          *)

\* Create the message queue; core 0 can open it from here on.
CoreCreateQueue(c) ==
  /\ corePc[c] = "boot"
  /\ corePc' = [corePc EXCEPT ![c] = "setup"]
  /\ UNCHANGED <<mainVars, rxVars, hasStart, dataReady, taskVars, msgVars, tmpl>>

\* Open the FFT queue, build the tracker, the windows and the Gaussian peak.
CoreSetup(c) ==
  /\ corePc[c] = "setup"
  /\ corePc' = [corePc EXCEPT ![c] = "get"]
  /\ UNCHANGED <<mainVars, rxVars, hasStart, dataReady, taskVars, msgVars, tmpl>>

CoreGet(c) ==
  /\ corePc[c] = "get"
  /\ msgAt[c] = "request"
  /\ msgAt' = [msgAt EXCEPT ![c] = "core"]
  /\ corePc' = [corePc EXCEPT ![c] = IF msg[c].bInit THEN "train" ELSE "detect"]
  /\ UNCHANGED <<mainVars, rxVars, hasStart, dataReady, taskVars, msg, tmpl>>

\* update: getFeatures of the frame, then detect against the template.
CoreDetect(c) ==
  /\ corePc[c] = "detect"
  /\ msg' = [msg EXCEPT ![c].roi = [frame |-> buf[msg[c].pAddr], tmpl |-> tmpl[c]]]
  /\ corePc' = [corePc EXCEPT ![c] = "train"]
  /\ UNCHANGED <<mainVars, rxVars, hasStart, dataReady, taskVars, msgAt, tmpl>>

\* Faulty variant: the template is not trained on the frame that was tracked.
CoreTrainNothing(c) ==
  /\ corePc[c] = "train"
  /\ corePc' = [corePc EXCEPT ![c] = "reply"]
  /\ UNCHANGED <<mainVars, rxVars, hasStart, dataReady, taskVars, msgVars, tmpl>>

\* getFeatures of the frame again, at the new place, and train; in init the
\* region is the one the message came with.
CoreTrain(c) ==
  /\ corePc[c] = "train"
  /\ tmpl' = [tmpl EXCEPT ![c] = buf[msg[c].pAddr]]
  /\ corePc' = [corePc EXCEPT ![c] = "reply"]
  /\ UNCHANGED <<mainVars, rxVars, hasStart, dataReady, taskVars, msgVars>>

CoreReply(c) ==
  /\ corePc[c] = "reply"
  /\ msgAt' = [msgAt EXCEPT ![c] = "reply"]
  /\ corePc' = [corePc EXCEPT ![c] = "get"]
  /\ UNCHANGED <<mainVars, rxVars, hasStart, dataReady, taskVars, msg, tmpl>>

-------------------------------------------------------------------------------

Task(c) ==
  \/ TaskOpen(c)
  \/ TaskPendData(c)
  \/ TaskPut(c)
  \/ TaskPostStart(c)
  \/ TaskGetReply(c)
  \/ TaskPostDone(c)

Core(c) ==
  \/ CoreCreateQueue(c)
  \/ CoreSetup(c)
  \/ CoreGet(c)
  \/ CoreDetect(c)
  \/ CoreTrain(c)
  \/ CoreReply(c)

Main ==
  \/ MainSetup
  \/ MainPendStart
  \/ MainStartRx
  \/ MainReturn

\* After the self test the processors only idle.
Finished ==
  /\ mainPc = "returned"
  /\ UNCHANGED vars

Next ==
  \/ Main
  \/ RxTransferDone
  \/ SimRxDataHandler
  \/ \E c \in Cores : Task(c) \/ Core(c)
  \/ Finished

Spec == Init /\ [][Next]_vars

\* Transfers end, interrupts are taken, and every task of every processor runs
\* when it can: priorities only matter among ready tasks of core 0, all of
\* which block in turn.
Fairness ==
  /\ WF_vars(Main)
  /\ WF_vars(RxTransferDone)
  /\ WF_vars(SimRxDataHandler)
  /\ \A c \in Cores : WF_vars(Task(c)) /\ WF_vars(Core(c))

FairSpec == Spec /\ Fairness

-------------------------------------------------------------------------------
(* Properties.                                                             *)

Results == [frame : Frames \cup {None}, tmpl : Frames \cup {None}]

\* Every variable has its type.
TypeOK ==
  /\ mainPc \in {"init", "pendStart", "startRx", "pendDone", "returned"}
  /\ nFrameCnt \in Frames
  /\ hasStart \subseteq Cores
  /\ allDone \subseteq Cores
  /\ nRxInd \in 0..1
  /\ buf \in [0..1 -> Frames \cup {None}]
  /\ bufLive \in BOOLEAN
  /\ dma \in [frame : Frames \cup {None}, dst : 0..1]
  /\ rxInt \in BOOLEAN
  /\ dataReady \in [Cores -> 0..1]
  /\ taskPc \in [Cores -> {"absent", "open", "pendData", "put", "postStart",
                           "getReply", "postDone", "exited"}]
  /\ nCnt \in [Cores -> 0..FRAME_NUM]
  /\ results \in [Cores -> [Frames -> Results]]
  /\ msgAt \in [Cores -> {"task", "request", "core", "reply"}]
  /\ msg \in [Cores -> [pAddr : 0..1, bInit : BOOLEAN, roi : Results]]
  /\ corePc \in [Cores -> {"boot", "setup", "get", "detect", "train", "reply"}]
  /\ tmpl \in [Cores -> Frames \cup {None}]

\* A tracker core never sees the receive channel at work: for as long as it
\* reads the buffer its message names, the buffer is allocated and holds, whole,
\* the frame the task counted.  (Ping-pong of CRxBufManager against the START
\* events of main.cpp.)
FrameIntegrity ==
  \A c \in Cores : corePc[c] \in {"detect", "train"} =>
    /\ bufLive
    /\ buf[msg[c].pAddr] = nCnt[c] - 1

\* The buffers are only given back once nobody can touch them: no transfer, no
\* interrupt to come, no core tracking and no task waiting.
BuffersReleasedLast ==
  mainPc = "returned" =>
    /\ dma = Idle /\ ~rxInt
    /\ \A c \in Cores : taskPc[c] = "exited" /\ corePc[c] = "get"

\* The message handle of a task and the core that answers it are never used by
\* both: the core works exactly while it holds the message, and the task only
\* writes it when it has it back.
MessageHasOneOwner ==
  \A c \in Cores :
    /\ corePc[c] \in {"detect", "train", "reply"} <=> msgAt[c] = "core"
    /\ taskPc[c] \notin {"postStart", "getReply"} => msgAt[c] = "task"

\* None of the one-place signals of core 0 is overrun: a transfer only starts
\* when the last one has completed and its interrupt was served, the interrupt
\* never finds a binary semaphore already posted, and no START bit is posted
\* while the last one is still unread.  Any of them would lose a frame.
NoSignalOverrun ==
  [][/\ dma' # dma /\ dma' # Idle => dma = Idle /\ ~rxInt
     /\ rxInt /\ ~rxInt' => \A c \in Cores : dataReady[c] = 0
     /\ \A c \in Cores : taskPc[c] = "postStart" /\ taskPc'[c] # "postStart"
                           => c \notin hasStart]_vars

\* How many answers task c has recorded.
Answered(c) == IF taskPc[c] \in {"put", "postStart", "getReply"}
               THEN nCnt[c] - 1 ELSE nCnt[c]

\* The four cores together do what TrackContract promises.
Contract == INSTANCE TrackContract WITH next <- [c \in Cores |-> Answered(c)]
ImplementsContract == Contract!Spec

\* Under fair scheduling the self test ends with every frame answered by every
\* core.
AllFramesTracked ==
  <>(mainPc = "returned" /\ \A c \in Cores : Answered(c) = FRAME_NUM)

-------------------------------------------------------------------------------
(* The inductive invariant behind the safety properties.                   *)

\* How many frames the receive interrupt has handed to the tasks.
Delivered == IF mainPc # "init" /\ dma = Idle /\ ~rxInt
             THEN nFrameCnt + 1 ELSE nFrameCnt

\* How many START bits task c has posted, and how many main has read of each.
Posted(c) == IF taskPc[c] \in {"put", "postStart"} THEN nCnt[c] - 1 ELSE nCnt[c]
Consumed == IF mainPc = "startRx" THEN nFrameCnt + 1 ELSE nFrameCnt

\* The receive channel fills the buffer that is not in operation, with the
\* frame main counts; the operating buffer holds the frame delivered last.
RxInv ==
  /\ mainPc = "init" => dma = Idle /\ ~rxInt /\ nFrameCnt = 0
  /\ dma # Idle => dma = [frame |-> nFrameCnt, dst |-> nRxInd] /\ ~rxInt
  /\ rxInt => buf[nRxInd] = nFrameCnt
  /\ Delivered > 0 => buf[1 - nRxInd] = Delivered - 1

MainInv ==
  /\ bufLive <=> mainPc \notin {"init", "returned"}
  /\ mainPc \in {"init", "pendStart", "startRx"} => nFrameCnt < FRAME_NUM - 1
  /\ mainPc \in {"pendDone", "returned"} => nFrameCnt = FRAME_NUM - 1
  /\ mainPc = "startRx" => Delivered = nFrameCnt + 1
  /\ mainPc = "returned" => \A c \in Cores : taskPc[c] = "exited"

\* A START bit or a semaphore is posted exactly when its reader is one behind.
SignalInv(c) ==
  /\ Posted(c) = IF c \in hasStart THEN Consumed + 1 ELSE Consumed
  /\ nCnt[c] = IF dataReady[c] = 1 THEN Delivered - 1 ELSE Delivered

TaskInv(c) ==
  /\ taskPc[c] = "absent" <=> mainPc = "init"
  /\ taskPc[c] \in {"absent", "open"} => nCnt[c] = 0
  /\ taskPc[c] \notin {"absent", "open"} => corePc[c] # "boot"
  /\ taskPc[c] \in {"put", "postStart", "getReply"} => nCnt[c] > 0
  /\ taskPc[c] = "pendData" => nCnt[c] < FRAME_NUM
  /\ taskPc[c] \in {"postDone", "exited"} => nCnt[c] = FRAME_NUM
  /\ c \in allDone => taskPc[c] = "exited"

\* While a message is out, the buffer it names holds the frame counted.
MsgInv(c) ==
  /\ msgAt[c] \in {"request", "core"} =>
       /\ buf[msg[c].pAddr] = nCnt[c] - 1
       /\ nCnt[c] = Delivered => msg[c].pAddr = 1 - nRxInd
       /\ msg[c].bInit <=> nCnt[c] = 1
       /\ nCnt[c] = 1 => msg[c].roi = GivenRoi
  /\ corePc[c] = "detect" => nCnt[c] > 1

\* The answer being made, the template, and the answers made so far.
AnswerInv(c) ==
  /\ corePc[c] \in {"boot", "setup"} => Answered(c) = 0 /\ msgAt[c] # "reply"
  /\ msgAt[c] = "reply" \/ corePc[c] \in {"train", "reply"} =>
       msg[c].roi = Contract!Expected(nCnt[c] - 1)
  /\ tmpl[c] = IF taskPc[c] = "put" \/ msgAt[c] = "request"
                  \/ corePc[c] \in {"detect", "train"}
               THEN nCnt[c] - 2 ELSE nCnt[c] - 1
  /\ results[c] = [f \in Frames |-> IF f < Answered(c)
                                    THEN Contract!Expected(f) ELSE NoResult]

IInv ==
  /\ TypeOK
  /\ RxInv
  /\ MainInv
  /\ MessageHasOneOwner
  /\ \A c \in Cores : SignalInv(c) /\ TaskInv(c) /\ MsgInv(c) /\ AnswerInv(c)
================================================================================
