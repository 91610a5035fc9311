--------------------------- MODULE DualTracker_proof ---------------------------
(* Proofs about DualTracker, for any number of cores and frames.           *)
EXTENDS DualTracker, TLAPS

USE FrameNumAssumption, CoresAssumption

LEMMA InitIInv == Init => IInv
<1> SUFFICES ASSUME Init PROVE IInv
  OBVIOUS
<1> USE DEF Init, Frames, None, Idle, NoResult, Results
<1>1. TypeOK
  <2>1. NoResult \in Results
    OBVIOUS
  <2> HIDE DEF Results, NoResult
  <2>2. /\ results \in [Cores -> [Frames -> Results]]
        /\ msg \in [Cores -> [pAddr : 0..1, bInit : BOOLEAN, roi : Results]]
    BY <2>1
  <2>3. /\ mainPc \in {"init", "pendStart", "startRx", "pendDone", "returned"}
        /\ nFrameCnt \in Frames
        /\ hasStart \subseteq Cores
        /\ allDone \subseteq Cores
        /\ nRxInd \in 0..1
    OBVIOUS
  <2>3a. bufLive \in BOOLEAN /\ rxInt \in BOOLEAN
    OBVIOUS
  <2>4. /\ buf \in [0..1 -> Frames \cup {None}]
        /\ dma \in [frame : Frames \cup {None}, dst : 0..1]
        /\ dataReady \in [Cores -> 0..1]
        /\ nCnt \in [Cores -> 0..FRAME_NUM]
        /\ tmpl \in [Cores -> Frames \cup {None}]
    OBVIOUS
  <2>5. /\ taskPc \in [Cores -> {"absent", "open", "pendData", "put",
                 "postStart", "getReply", "postDone", "exited"}]
        /\ msgAt \in [Cores -> {"task", "request", "core", "reply"}]
        /\ corePc \in [Cores -> {"boot", "setup", "get", "detect", "train", "reply"}]
    OBVIOUS
  <2>6. QED
    BY <2>2, <2>3, <2>3a, <2>4, <2>5 DEF TypeOK
<1>2. RxInv /\ MainInv /\ MessageHasOneOwner
  BY DEF RxInv, MainInv, MessageHasOneOwner, Delivered
<1>3. ASSUME NEW c \in Cores PROVE SignalInv(c) /\ TaskInv(c) /\ MsgInv(c) /\ AnswerInv(c)
  BY <1>3 DEF SignalInv, TaskInv, MsgInv, AnswerInv, Delivered, Posted, Consumed, Answered
<1>4. QED
  BY <1>1, <1>2, <1>3 DEF IInv

LEMMA SetupStep == IInv /\ MainSetup => IInv'
<1> SUFFICES ASSUME IInv, MainSetup PROVE IInv'
  OBVIOUS
<1> USE DEF MainSetup, SimStartRxData, GetRxBuf, IInv, Frames, None, Idle, vars, mainVars, rxVars, taskVars, msgVars, coreVars
<1>1. TypeOK'
  <2> USE DEF TypeOK
  <2>1. /\ dma' \in [frame : Frames \cup {None}, dst : 0..1]
        /\ buf' \in [0..1 -> Frames \cup {None}]
    OBVIOUS
  <2>2. QED BY <2>1
<1>2. RxInv'
  BY DEF TypeOK, RxInv, Delivered
<1>3. MainInv'
  BY DEF TypeOK, RxInv, MainInv, TaskInv, Delivered
<1>3a. MessageHasOneOwner'
  BY DEF TypeOK, TaskInv, MessageHasOneOwner
<1>4. ASSUME NEW c \in Cores PROVE (SignalInv(c) /\ TaskInv(c) /\ MsgInv(c) /\ AnswerInv(c))'
  <2> USE DEF TypeOK, RxInv, MessageHasOneOwner, Delivered
  <2>1. SignalInv(c)'
    BY DEF SignalInv, TaskInv, Posted, Consumed
  <2>2. TaskInv(c)'
    BY DEF TaskInv
  <2>3. MsgInv(c)'
    BY DEF MsgInv, TaskInv
  <2>4. AnswerInv(c)'
    BY DEF AnswerInv, TaskInv, Answered
  <2>5. QED BY <2>1, <2>2, <2>3, <2>4
<1>5. QED
  BY <1>1, <1>2, <1>3, <1>3a, <1>4

(* While a frame is on its way no task is behind: each has taken and been  *)
(* told to go on with every frame delivered, or main would not have asked  *)
(* for the next one.                                                       *)
LEMMA NoneBehind ==
  ASSUME IInv, dma # Idle \/ rxInt, NEW c \in Cores
  PROVE  Delivered = nFrameCnt /\ nCnt[c] = nFrameCnt
<1>1. nFrameCnt \in Int /\ nCnt[c] \in Int /\ SignalInv(c)
  BY DEF IInv, TypeOK, Frames
<1>2. mainPc # "startRx" /\ Delivered = nFrameCnt
  BY DEF IInv, TypeOK, Frames, MainInv, Delivered
<1>3. nCnt[c] <= Delivered
  BY <1>1, <1>2 DEF SignalInv
<1>4. nCnt[c] >= nFrameCnt
  BY <1>1, <1>2 DEF SignalInv, Posted, Consumed
<1>5. QED
  BY <1>1, <1>2, <1>3, <1>4

(* When main is about to ask for a frame every task has taken the last one *)
(* delivered.                                                              *)
LEMMA AllStarted ==
  ASSUME IInv, mainPc = "startRx", NEW c \in Cores
  PROVE  /\ dma = Idle /\ ~rxInt
         /\ Delivered = nFrameCnt + 1 /\ nCnt[c] = nFrameCnt + 1
         /\ taskPc[c] \notin {"put", "postStart"} /\ c \notin hasStart
<1>1. nFrameCnt \in Int /\ nCnt[c] \in Int /\ SignalInv(c)
  BY DEF IInv, TypeOK, Frames
<1>2. Delivered = nFrameCnt + 1
  BY DEF IInv, MainInv
<1>3. dma = Idle /\ ~rxInt
  BY <1>1, <1>2 DEF Delivered
<1>4. nCnt[c] <= nFrameCnt + 1
  BY <1>1, <1>2 DEF SignalInv
<1>5. Posted(c) >= nFrameCnt + 1
  BY <1>1 DEF SignalInv, Consumed
<1>6. QED
  BY <1>1, <1>2, <1>3, <1>4, <1>5 DEF SignalInv, Posted, Consumed

(* A task that has not yet told main it started has the frame delivered    *)
(* last: no later one can have been asked for.                             *)
LEMMA PutsLatest ==
  ASSUME IInv, NEW c \in Cores, taskPc[c] \in {"put", "postStart"}
  PROVE  nCnt[c] = Delivered
<1>1. nFrameCnt \in Int /\ nCnt[c] \in Int /\ SignalInv(c)
  BY DEF IInv, TypeOK, Frames
<1>2. Delivered \in {nFrameCnt, nFrameCnt + 1}
  BY DEF Delivered
<1>3. nCnt[c] - 1 >= nFrameCnt
  BY <1>1 DEF SignalInv, Posted, Consumed
<1>4. QED
  BY <1>1, <1>2, <1>3 DEF SignalInv

LEMMA RxTransferDoneStep == ASSUME IInv, RxTransferDone PROVE IInv'
<1> USE DEF RxTransferDone, mainVars, rxVars, taskVars, msgVars, coreVars, IInv, Frames, None, Idle
<1>1. TypeOK'
  BY DEF TypeOK, TaskInv
<1>2. RxInv'
  BY DEF TypeOK, RxInv, MainInv, Delivered
<1>3. MainInv'
  BY DEF TypeOK, RxInv, MainInv, TaskInv, Delivered
<1>4. MessageHasOneOwner'
  BY DEF TypeOK, TaskInv, MessageHasOneOwner
<1>5. ASSUME NEW c \in Cores PROVE (SignalInv(c) /\ TaskInv(c) /\ MsgInv(c) /\ AnswerInv(c))'
  <2> USE <1>5 DEF TypeOK, MessageHasOneOwner
  <2>1. SignalInv(c)'
    BY DEF RxInv, MainInv, SignalInv, TaskInv, Posted, Consumed, Delivered
  <2>2. TaskInv(c)'
    BY DEF TaskInv, SignalInv, MainInv, RxInv, Delivered
  <2>3. MsgInv(c)'
    BY NoneBehind DEF MsgInv, RxInv, Delivered
  <2>4. AnswerInv(c)'
    BY DEF AnswerInv, MsgInv, TaskInv, Answered
  <2>5. QED
    BY <2>1, <2>2, <2>3, <2>4
<1>6. QED
  BY <1>1, <1>2, <1>3, <1>4, <1>5

LEMMA SimRxDataHandlerStep == ASSUME IInv, SimRxDataHandler PROVE IInv'
<1> USE DEF SimRxDataHandler, mainVars, rxVars, taskVars, msgVars, coreVars, IInv, Frames, None, Idle
<1>1. TypeOK'
  <2>1. nRxInd' \in 0..1 /\ dataReady' \in [Cores -> 0..1]
    BY DEF TypeOK
  <2>2. QED
    BY <2>1 DEF TypeOK
<1>2. RxInv'
  BY DEF TypeOK, RxInv, MainInv, Delivered
<1>3. MainInv'
  BY DEF TypeOK, RxInv, MainInv, TaskInv, Delivered
<1>4. MessageHasOneOwner'
  BY DEF TypeOK, TaskInv, MessageHasOneOwner
<1>5. ASSUME NEW c \in Cores PROVE (SignalInv(c) /\ TaskInv(c) /\ MsgInv(c) /\ AnswerInv(c))'
  <2> USE <1>5 DEF TypeOK, MessageHasOneOwner
  <2>1. SignalInv(c)'
    BY DEF RxInv, MainInv, SignalInv, TaskInv, Posted, Consumed, Delivered
  <2>2. TaskInv(c)'
    BY DEF TaskInv, SignalInv, MainInv, RxInv, Delivered
  <2>3. MsgInv(c)'
    BY DEF MsgInv, RxInv, MainInv, SignalInv, TaskInv, Posted, Consumed, Delivered
  <2>4. AnswerInv(c)'
    BY DEF AnswerInv, MsgInv, TaskInv, Answered
  <2>5. QED
    BY <2>1, <2>2, <2>3, <2>4
<1>6. QED
  BY <1>1, <1>2, <1>3, <1>4, <1>5

LEMMA MainPendStartStep == ASSUME IInv, MainPendStart PROVE IInv'
<1> USE DEF MainPendStart, mainVars, rxVars, taskVars, msgVars, coreVars, IInv, Frames, None, Idle
<1>1. TypeOK'
  BY DEF TypeOK, TaskInv
<1>2. RxInv'
  BY DEF TypeOK, RxInv, MainInv, Delivered
<1>3. MainInv'
  <2>1. PICK c \in Cores : TRUE
    OBVIOUS
  <2>2. nFrameCnt \in Int /\ nCnt[c] \in Int /\ SignalInv(c)
    BY <2>1 DEF TypeOK
  <2>3. nCnt[c] >= nFrameCnt + 1
    BY <2>1, <2>2 DEF SignalInv, Posted, Consumed
  <2>4. Delivered \in {nFrameCnt, nFrameCnt + 1}
    BY DEF Delivered
  <2>5. Delivered = nFrameCnt + 1
    BY <2>2, <2>3, <2>4 DEF SignalInv
  <2>6. QED
    BY <2>5 DEF TypeOK, MainInv, Delivered
<1>4. MessageHasOneOwner'
  BY DEF TypeOK, TaskInv, MessageHasOneOwner
<1>5. ASSUME NEW c \in Cores PROVE (SignalInv(c) /\ TaskInv(c) /\ MsgInv(c) /\ AnswerInv(c))'
  <2> USE <1>5 DEF TypeOK, MessageHasOneOwner
  <2>1. SignalInv(c)'
    BY DEF RxInv, MainInv, SignalInv, TaskInv, Posted, Consumed, Delivered
  <2>2. TaskInv(c)'
    BY DEF TaskInv, SignalInv, MainInv, RxInv, Delivered
  <2>3. MsgInv(c)'
    BY DEF MsgInv, RxInv, MainInv, SignalInv, TaskInv, Posted, Consumed, Delivered
  <2>4. AnswerInv(c)'
    BY DEF AnswerInv, MsgInv, TaskInv, Answered
  <2>5. QED
    BY <2>1, <2>2, <2>3, <2>4
<1>6. QED
  BY <1>1, <1>2, <1>3, <1>4, <1>5

LEMMA MainStartRxStep == ASSUME IInv, MainStartRx PROVE IInv'
<1> USE DEF MainStartRx, SimStartRxData, GetRxBuf, mainVars, rxVars, taskVars, msgVars, coreVars, IInv, Frames, None, Idle
<1>1. TypeOK'
  <2>1. nFrameCnt' \in Frames
    BY DEF TypeOK, MainInv
  <2>2. /\ dma' \in [frame : Frames \cup {None}, dst : 0..1]
        /\ buf' \in [0..1 -> Frames \cup {None}]
    BY <2>1 DEF TypeOK
  <2>3. QED
    BY <2>1, <2>2 DEF TypeOK
<1>2. RxInv'
  BY DEF TypeOK, RxInv, MainInv, Delivered
<1>3. MainInv'
  BY DEF TypeOK, RxInv, MainInv, TaskInv, Delivered
<1>4. MessageHasOneOwner'
  BY DEF TypeOK, TaskInv, MessageHasOneOwner
<1>5. ASSUME NEW c \in Cores PROVE (SignalInv(c) /\ TaskInv(c) /\ MsgInv(c) /\ AnswerInv(c))'
  <2> USE <1>5 DEF TypeOK, MessageHasOneOwner
  <2>1. SignalInv(c)'
    BY DEF RxInv, MainInv, SignalInv, TaskInv, Posted, Consumed, Delivered
  <2>2. TaskInv(c)'
    BY DEF TaskInv, SignalInv, MainInv, RxInv, Delivered
  <2>3. MsgInv(c)'
    BY AllStarted DEF MsgInv, Delivered
  <2>4. AnswerInv(c)'
    BY DEF AnswerInv, MsgInv, TaskInv, Answered
  <2>5. QED
    BY <2>1, <2>2, <2>3, <2>4
<1>6. QED
  BY <1>1, <1>2, <1>3, <1>4, <1>5

LEMMA MainReturnStep == ASSUME IInv, MainReturn PROVE IInv'
<1> USE DEF MainReturn, mainVars, rxVars, taskVars, msgVars, coreVars, IInv, Frames, None, Idle
<1>1. TypeOK'
  BY DEF TypeOK, TaskInv
<1>2. RxInv'
  BY DEF TypeOK, RxInv, MainInv, Delivered
<1>3. MainInv'
  BY DEF TypeOK, RxInv, MainInv, TaskInv, Delivered
<1>4. MessageHasOneOwner'
  BY DEF TypeOK, TaskInv, MessageHasOneOwner
<1>5. ASSUME NEW c \in Cores PROVE (SignalInv(c) /\ TaskInv(c) /\ MsgInv(c) /\ AnswerInv(c))'
  <2> USE <1>5 DEF TypeOK, MessageHasOneOwner
  <2>1. SignalInv(c)'
    BY DEF RxInv, MainInv, SignalInv, TaskInv, Posted, Consumed, Delivered
  <2>2. TaskInv(c)'
    BY DEF TaskInv, SignalInv, MainInv, RxInv, Delivered
  <2>3. MsgInv(c)'
    BY DEF MsgInv, RxInv, MainInv, SignalInv, TaskInv, Posted, Consumed, Delivered
  <2>4. AnswerInv(c)'
    BY DEF AnswerInv, MsgInv, TaskInv, Answered
  <2>5. QED
    BY <2>1, <2>2, <2>3, <2>4
<1>6. QED
  BY <1>1, <1>2, <1>3, <1>4, <1>5

LEMMA TaskOpenStep == ASSUME IInv, NEW d \in Cores, TaskOpen(d) PROVE IInv'
<1> USE DEF TaskOpen, mainVars, rxVars, taskVars, msgVars, coreVars, IInv, Frames, None, Idle
<1>1. TypeOK'
  BY DEF TypeOK, TaskInv
<1>2. RxInv'
  BY DEF TypeOK, RxInv, MainInv, Delivered
<1>3. MainInv'
  BY DEF TypeOK, RxInv, MainInv, TaskInv, Delivered
<1>4. MessageHasOneOwner'
  BY DEF TypeOK, TaskInv, MessageHasOneOwner
<1>5. ASSUME NEW c \in Cores PROVE (SignalInv(c) /\ TaskInv(c) /\ MsgInv(c) /\ AnswerInv(c))'
  <2> USE <1>5 DEF TypeOK, MessageHasOneOwner
  <2>1. SignalInv(c)'
    BY DEF RxInv, MainInv, SignalInv, TaskInv, Posted, Consumed, Delivered
  <2>2. TaskInv(c)'
    BY DEF TaskInv, SignalInv, MainInv, RxInv, Delivered
  <2>3. MsgInv(c)'
    BY DEF MsgInv, RxInv, MainInv, SignalInv, TaskInv, Posted, Consumed, Delivered
  <2>4. AnswerInv(c)'
    BY DEF AnswerInv, MsgInv, TaskInv, Answered
  <2>5. QED
    BY <2>1, <2>2, <2>3, <2>4
<1>6. QED
  BY <1>1, <1>2, <1>3, <1>4, <1>5

LEMMA TaskPendDataStep == ASSUME IInv, NEW d \in Cores, TaskPendData(d) PROVE IInv'
<1> USE DEF TaskPendData, mainVars, rxVars, taskVars, msgVars, coreVars, IInv, Frames, None, Idle
<1>1. TypeOK'
  BY DEF TypeOK, TaskInv
<1>2. RxInv'
  BY DEF TypeOK, RxInv, MainInv, Delivered
<1>3. MainInv'
  BY DEF TypeOK, RxInv, MainInv, TaskInv, Delivered
<1>4. MessageHasOneOwner'
  BY DEF TypeOK, TaskInv, MessageHasOneOwner
<1>5. ASSUME NEW c \in Cores PROVE (SignalInv(c) /\ TaskInv(c) /\ MsgInv(c) /\ AnswerInv(c))'
  <2> USE <1>5 DEF TypeOK, MessageHasOneOwner
  <2>1. SignalInv(c)'
    BY DEF RxInv, MainInv, SignalInv, TaskInv, Posted, Consumed, Delivered
  <2>2. TaskInv(c)'
    BY DEF TaskInv, SignalInv, MainInv, RxInv, Delivered
  <2>3. MsgInv(c)'
    <3>1. CASE c = d
      BY <3>1 DEF MsgInv
    <3>2. CASE c # d
      BY <3>2 DEF MsgInv, Delivered
    <3>3. QED
      BY <3>1, <3>2
  <2>4. AnswerInv(c)'
    BY DEF AnswerInv, MsgInv, TaskInv, Answered
  <2>5. QED
    BY <2>1, <2>2, <2>3, <2>4
<1>6. QED
  BY <1>1, <1>2, <1>3, <1>4, <1>5

LEMMA TaskPutStep == ASSUME IInv, NEW d \in Cores, TaskPut(d) PROVE IInv'
<1> USE DEF TaskPut, GetOpBuf, GivenRoi, mainVars, rxVars, taskVars, msgVars, coreVars, IInv, Frames, None, Idle
<1>1. TypeOK'
  <2>1. NoResult \in Results
    BY DEF NoResult, Results
  <2>2. msg' \in [Cores -> [pAddr : 0..1, bInit : BOOLEAN, roi : Results]]
    <3> HIDE DEF Frames, None
    <3>1. 1 - nRxInd \in 0..1
      BY DEF TypeOK
    <3>2. [pAddr |-> 1 - nRxInd, bInit |-> nCnt[d] = 1,
           roi |-> IF nCnt[d] = 1 THEN GivenRoi ELSE msg[d].roi]
            \in [pAddr : 0..1, bInit : BOOLEAN, roi : Results]
      BY <2>1, <3>1 DEF TypeOK
    <3>3. QED
      BY <3>2 DEF TypeOK
  <2>3. QED
    BY <2>2 DEF TypeOK
<1>2. RxInv'
  BY DEF TypeOK, RxInv, MainInv, Delivered
<1>3. MainInv'
  BY DEF TypeOK, RxInv, MainInv, TaskInv, Delivered
<1>4. MessageHasOneOwner'
  BY DEF TypeOK, TaskInv, MessageHasOneOwner
<1>5. ASSUME NEW c \in Cores PROVE (SignalInv(c) /\ TaskInv(c) /\ MsgInv(c) /\ AnswerInv(c))'
  <2> USE <1>5 DEF TypeOK, MessageHasOneOwner
  <2>1. SignalInv(c)'
    BY DEF RxInv, MainInv, SignalInv, TaskInv, Posted, Consumed, Delivered
  <2>2. TaskInv(c)'
    BY DEF TaskInv, SignalInv, MainInv, RxInv, Delivered
  <2>3. MsgInv(c)'
    <3>1. CASE c = d
      <4>1. nCnt[c] = Delivered /\ nCnt[c] > 0
        BY <3>1, PutsLatest DEF TaskInv
      <4>2. buf[1 - nRxInd] = nCnt[c] - 1
        BY <4>1 DEF RxInv
      <4>3. /\ msg'[c].pAddr = 1 - nRxInd
            /\ msg'[c].bInit <=> nCnt[c] = 1
            /\ nCnt[c] = 1 => msg'[c].roi = GivenRoi
            /\ corePc'[c] # "detect"
        BY <3>1
      <4>4. QED
        BY <4>2, <4>3 DEF MsgInv
    <3>2. CASE c # d
      BY <3>2 DEF MsgInv, Delivered
    <3>3. QED
      BY <3>1, <3>2
  <2>4. AnswerInv(c)'
    BY DEF AnswerInv, MsgInv, TaskInv, Answered
  <2>5. QED
    BY <2>1, <2>2, <2>3, <2>4
<1>6. QED
  BY <1>1, <1>2, <1>3, <1>4, <1>5

LEMMA TaskPostStartStep == ASSUME IInv, NEW d \in Cores, TaskPostStart(d) PROVE IInv'
<1> USE DEF TaskPostStart, mainVars, rxVars, taskVars, msgVars, coreVars, IInv, Frames, None, Idle
<1>1. TypeOK'
  BY DEF TypeOK, TaskInv
<1>2. RxInv'
  BY DEF TypeOK, RxInv, MainInv, Delivered
<1>3. MainInv'
  BY DEF TypeOK, RxInv, MainInv, TaskInv, Delivered
<1>4. MessageHasOneOwner'
  BY DEF TypeOK, TaskInv, MessageHasOneOwner
<1>5. ASSUME NEW c \in Cores PROVE (SignalInv(c) /\ TaskInv(c) /\ MsgInv(c) /\ AnswerInv(c))'
  <2> USE <1>5 DEF TypeOK, MessageHasOneOwner
  <2>1. SignalInv(c)'
    BY DEF RxInv, MainInv, SignalInv, TaskInv, Posted, Consumed, Delivered
  <2>2. TaskInv(c)'
    BY DEF TaskInv, SignalInv, MainInv, RxInv, Delivered
  <2>3. MsgInv(c)'
    BY DEF MsgInv, RxInv, MainInv, SignalInv, TaskInv, Posted, Consumed, Delivered
  <2>4. AnswerInv(c)'
    BY DEF AnswerInv, MsgInv, TaskInv, Answered
  <2>5. QED
    BY <2>1, <2>2, <2>3, <2>4
<1>6. QED
  BY <1>1, <1>2, <1>3, <1>4, <1>5

LEMMA TaskGetReplyStep == ASSUME IInv, NEW d \in Cores, TaskGetReply(d) PROVE IInv'
<1> USE DEF TaskGetReply, mainVars, rxVars, taskVars, msgVars, coreVars, IInv, Frames, None, Idle
<1>1. TypeOK'
  BY DEF TypeOK, TaskInv
<1>2. RxInv'
  BY DEF TypeOK, RxInv, MainInv, Delivered
<1>3. MainInv'
  BY DEF TypeOK, RxInv, MainInv, TaskInv, Delivered
<1>4. MessageHasOneOwner'
  BY DEF TypeOK, TaskInv, MessageHasOneOwner
<1>5. ASSUME NEW c \in Cores PROVE (SignalInv(c) /\ TaskInv(c) /\ MsgInv(c) /\ AnswerInv(c))'
  <2> USE <1>5 DEF TypeOK, MessageHasOneOwner
  <2>1. SignalInv(c)'
    BY DEF RxInv, MainInv, SignalInv, TaskInv, Posted, Consumed, Delivered
  <2>2. TaskInv(c)'
    BY DEF TaskInv, SignalInv, MainInv, RxInv, Delivered
  <2>3. MsgInv(c)'
    BY DEF MsgInv, RxInv, MainInv, SignalInv, TaskInv, Posted, Consumed, Delivered
  <2>4. AnswerInv(c)'
    <3>1. CASE c = d
      <4>1. Answered(c) = nCnt[c] - 1 /\ Answered(c)' = nCnt[c]
        BY <3>1 DEF Answered
      <4>2. msg[c].roi = Contract!Expected(nCnt[c] - 1)
        BY <3>1 DEF AnswerInv
      <4>3. results'[c] = [results[c] EXCEPT ![nCnt[c] - 1] = Contract!Expected(nCnt[c] - 1)]
        BY <3>1, <4>2
      <4>4. results[c] = [f \in Frames |-> IF f < nCnt[c] - 1
                            THEN Contract!Expected(f) ELSE NoResult]
        BY <4>1 DEF AnswerInv
      <4>5. nCnt[c] \in Int /\ nCnt'[c] = nCnt[c]
        OBVIOUS
      <4>6. results'[c] = [f \in Frames |-> IF f < nCnt[c]
                             THEN Contract!Expected(f) ELSE NoResult]
        <5>1. /\ results'[c] = [f \in Frames |-> results'[c][f]]
          BY <4>3, <4>4
        <5>2. ASSUME NEW f \in Frames
              PROVE  results'[c][f] = IF f < nCnt[c] THEN Contract!Expected(f) ELSE NoResult
          <6>1. CASE f = nCnt[c] - 1
            BY <4>3, <4>4, <4>5, <6>1
          <6>2. CASE f # nCnt[c] - 1
            BY <4>3, <4>4, <4>5, <6>2
          <6>3. QED
            BY <6>1, <6>2
        <5>3. QED
          BY <5>1, <5>2
      <4>7. tmpl[c] = nCnt[c] - 1 /\ msgAt'[c] = "task" /\ taskPc'[c] # "put"
            /\ corePc[c] \notin {"boot", "setup", "detect", "train", "reply"}
        BY <3>1 DEF AnswerInv
      <4>8. QED
        BY <4>1, <4>5, <4>6, <4>7 DEF AnswerInv
    <3>2. CASE c # d
      BY <3>2 DEF AnswerInv, Answered
    <3>3. QED
      BY <3>1, <3>2
  <2>5. QED
    BY <2>1, <2>2, <2>3, <2>4
<1>6. QED
  BY <1>1, <1>2, <1>3, <1>4, <1>5

LEMMA TaskPostDoneStep == ASSUME IInv, NEW d \in Cores, TaskPostDone(d) PROVE IInv'
<1> USE DEF TaskPostDone, mainVars, rxVars, taskVars, msgVars, coreVars, IInv, Frames, None, Idle
<1>1. TypeOK'
  BY DEF TypeOK, TaskInv
<1>2. RxInv'
  BY DEF TypeOK, RxInv, MainInv, Delivered
<1>3. MainInv'
  BY DEF TypeOK, RxInv, MainInv, TaskInv, Delivered
<1>4. MessageHasOneOwner'
  BY DEF TypeOK, TaskInv, MessageHasOneOwner
<1>5. ASSUME NEW c \in Cores PROVE (SignalInv(c) /\ TaskInv(c) /\ MsgInv(c) /\ AnswerInv(c))'
  <2> USE <1>5 DEF TypeOK, MessageHasOneOwner
  <2>1. SignalInv(c)'
    BY DEF RxInv, MainInv, SignalInv, TaskInv, Posted, Consumed, Delivered
  <2>2. TaskInv(c)'
    BY DEF TaskInv, SignalInv, MainInv, RxInv, Delivered
  <2>3. MsgInv(c)'
    BY DEF MsgInv, RxInv, MainInv, SignalInv, TaskInv, Posted, Consumed, Delivered
  <2>4. AnswerInv(c)'
    BY DEF AnswerInv, MsgInv, TaskInv, Answered
  <2>5. QED
    BY <2>1, <2>2, <2>3, <2>4
<1>6. QED
  BY <1>1, <1>2, <1>3, <1>4, <1>5

LEMMA CoreCreateQueueStep == ASSUME IInv, NEW d \in Cores, CoreCreateQueue(d) PROVE IInv'
<1> USE DEF CoreCreateQueue, mainVars, rxVars, taskVars, msgVars, coreVars, IInv, Frames, None, Idle
<1>1. TypeOK'
  BY DEF TypeOK, TaskInv
<1>2. RxInv'
  BY DEF TypeOK, RxInv, MainInv, Delivered
<1>3. MainInv'
  BY DEF TypeOK, RxInv, MainInv, TaskInv, Delivered
<1>4. MessageHasOneOwner'
  BY DEF TypeOK, TaskInv, MessageHasOneOwner
<1>5. ASSUME NEW c \in Cores PROVE (SignalInv(c) /\ TaskInv(c) /\ MsgInv(c) /\ AnswerInv(c))'
  <2> USE <1>5 DEF TypeOK, MessageHasOneOwner
  <2>1. SignalInv(c)'
    BY DEF RxInv, MainInv, SignalInv, TaskInv, Posted, Consumed, Delivered
  <2>2. TaskInv(c)'
    BY DEF TaskInv, SignalInv, MainInv, RxInv, Delivered
  <2>3. MsgInv(c)'
    BY DEF MsgInv, RxInv, MainInv, SignalInv, TaskInv, Posted, Consumed, Delivered
  <2>4. AnswerInv(c)'
    BY DEF AnswerInv, MsgInv, TaskInv, Answered
  <2>5. QED
    BY <2>1, <2>2, <2>3, <2>4
<1>6. QED
  BY <1>1, <1>2, <1>3, <1>4, <1>5

LEMMA CoreSetupStep == ASSUME IInv, NEW d \in Cores, CoreSetup(d) PROVE IInv'
<1> USE DEF CoreSetup, mainVars, rxVars, taskVars, msgVars, coreVars, IInv, Frames, None, Idle
<1>1. TypeOK'
  BY DEF TypeOK, TaskInv
<1>2. RxInv'
  BY DEF TypeOK, RxInv, MainInv, Delivered
<1>3. MainInv'
  BY DEF TypeOK, RxInv, MainInv, TaskInv, Delivered
<1>4. MessageHasOneOwner'
  BY DEF TypeOK, TaskInv, MessageHasOneOwner
<1>5. ASSUME NEW c \in Cores PROVE (SignalInv(c) /\ TaskInv(c) /\ MsgInv(c) /\ AnswerInv(c))'
  <2> USE <1>5 DEF TypeOK, MessageHasOneOwner
  <2>1. SignalInv(c)'
    BY DEF RxInv, MainInv, SignalInv, TaskInv, Posted, Consumed, Delivered
  <2>2. TaskInv(c)'
    BY DEF TaskInv, SignalInv, MainInv, RxInv, Delivered
  <2>3. MsgInv(c)'
    BY DEF MsgInv, RxInv, MainInv, SignalInv, TaskInv, Posted, Consumed, Delivered
  <2>4. AnswerInv(c)'
    BY DEF AnswerInv, MsgInv, TaskInv, Answered
  <2>5. QED
    BY <2>1, <2>2, <2>3, <2>4
<1>6. QED
  BY <1>1, <1>2, <1>3, <1>4, <1>5

LEMMA CoreGetStep == ASSUME IInv, NEW d \in Cores, CoreGet(d) PROVE IInv'
<1> USE DEF CoreGet, mainVars, rxVars, taskVars, msgVars, coreVars, IInv, Frames, None, Idle
<1>1. TypeOK'
  BY DEF TypeOK, TaskInv
<1>2. RxInv'
  BY DEF TypeOK, RxInv, MainInv, Delivered
<1>3. MainInv'
  BY DEF TypeOK, RxInv, MainInv, TaskInv, Delivered
<1>4. MessageHasOneOwner'
  BY DEF TypeOK, TaskInv, MessageHasOneOwner
<1>5. ASSUME NEW c \in Cores PROVE (SignalInv(c) /\ TaskInv(c) /\ MsgInv(c) /\ AnswerInv(c))'
  <2> USE <1>5 DEF TypeOK, MessageHasOneOwner
  <2>1. SignalInv(c)'
    BY DEF RxInv, MainInv, SignalInv, TaskInv, Posted, Consumed, Delivered
  <2>2. TaskInv(c)'
    BY DEF TaskInv, SignalInv, MainInv, RxInv, Delivered
  <2>3. MsgInv(c)'
    <3>1. CASE c = d
      <4>1. msgAt[c] = "request" /\ MsgInv(c) /\ nCnt[c] > 0 /\ nCnt[c] \in Int
        BY <3>1 DEF TaskInv
      <4>2. corePc'[c] = "detect" => nCnt[c] > 1
        BY <3>1, <4>1 DEF MsgInv
      <4>3. QED
        BY <3>1, <4>1, <4>2 DEF MsgInv, Delivered
    <3>2. CASE c # d
      BY <3>2 DEF MsgInv, Delivered
    <3>3. QED
      BY <3>1, <3>2
  <2>4. AnswerInv(c)'
    <3>1. CASE c = d
      <4>0. corePc'[c] = "train" => nCnt[c] = 1 /\ msg[c].roi = NoResult
        BY <3>1 DEF MsgInv, GivenRoi
      <4>1. corePc'[c] = "train" => msg[c].roi = Contract!Expected(nCnt[c] - 1)
        BY <4>0 DEF Contract!Expected, Contract!NoResult, NoResult
      <4>2. tmpl[c] = nCnt[c] - 2
        BY <3>1 DEF AnswerInv, MsgInv, TaskInv
      <4>3. QED
        BY <3>1, <4>1, <4>2 DEF AnswerInv, Answered, TaskInv
    <3>2. CASE c # d
      BY <3>2 DEF AnswerInv, Answered
    <3>3. QED
      BY <3>1, <3>2
  <2>5. QED
    BY <2>1, <2>2, <2>3, <2>4
<1>6. QED
  BY <1>1, <1>2, <1>3, <1>4, <1>5

LEMMA CoreDetectStep == ASSUME IInv, NEW d \in Cores, CoreDetect(d) PROVE IInv'
<1> USE DEF CoreDetect, mainVars, rxVars, taskVars, msgVars, coreVars, IInv, Frames, None, Idle
<1>1. TypeOK'
  <2> DEFINE roi == [frame |-> buf[msg[d].pAddr], tmpl |-> tmpl[d]]
  <2>1. roi \in Results
    BY DEF TypeOK, Results
  <2>2. msg' \in [Cores -> [pAddr : 0..1, bInit : BOOLEAN, roi : Results]]
    <3>1. msg \in [Cores -> [pAddr : 0..1, bInit : BOOLEAN, roi : Results]]
      BY DEF TypeOK
    <3>2. msg' = [msg EXCEPT ![d].roi = roi]
      OBVIOUS
    <3> HIDE DEF Frames, None, roi, CoreDetect, IInv
    <3>3. QED
      BY <2>1, <3>1, <3>2
  <2>3. QED
    BY <2>2 DEF TypeOK
<1>2. RxInv'
  BY DEF TypeOK, RxInv, MainInv, Delivered
<1>3. MainInv'
  BY DEF TypeOK, RxInv, MainInv, TaskInv, Delivered
<1>4. MessageHasOneOwner'
  BY DEF TypeOK, TaskInv, MessageHasOneOwner
<1>5. ASSUME NEW c \in Cores PROVE (SignalInv(c) /\ TaskInv(c) /\ MsgInv(c) /\ AnswerInv(c))'
  <2> USE <1>5 DEF TypeOK, MessageHasOneOwner
  <2>1. SignalInv(c)'
    BY DEF RxInv, MainInv, SignalInv, TaskInv, Posted, Consumed, Delivered
  <2>2. TaskInv(c)'
    BY DEF TaskInv, SignalInv, MainInv, RxInv, Delivered
  <2>3. MsgInv(c)'
    BY DEF MsgInv, RxInv, MainInv, SignalInv, TaskInv, Posted, Consumed, Delivered
  <2>4. AnswerInv(c)'
    <3>1. CASE c = d
      <4>0. nCnt[c] > 1 /\ nCnt[c] \in Int /\ buf[msg[c].pAddr] = nCnt[c] - 1
            /\ tmpl[c] = nCnt[c] - 2
        BY <3>1 DEF MsgInv, AnswerInv
      <4>1. msg'[c].roi = Contract!Expected(nCnt[c] - 1)
        BY <3>1, <4>0 DEF Contract!Expected
      <4>2. tmpl[c] = nCnt[c] - 2
        BY <3>1 DEF AnswerInv, MsgInv, TaskInv
      <4>3. QED
        BY <3>1, <4>1, <4>2 DEF AnswerInv, Answered, TaskInv
    <3>2. CASE c # d
      BY <3>2 DEF AnswerInv, Answered
    <3>3. QED
      BY <3>1, <3>2
  <2>5. QED
    BY <2>1, <2>2, <2>3, <2>4
<1>6. QED
  BY <1>1, <1>2, <1>3, <1>4, <1>5

LEMMA CoreTrainStep == ASSUME IInv, NEW d \in Cores, CoreTrain(d) PROVE IInv'
<1> USE DEF CoreTrain, mainVars, rxVars, taskVars, msgVars, coreVars, IInv, Frames, None, Idle
<1>1. TypeOK'
  BY DEF TypeOK, TaskInv
<1>2. RxInv'
  BY DEF TypeOK, RxInv, MainInv, Delivered
<1>3. MainInv'
  BY DEF TypeOK, RxInv, MainInv, TaskInv, Delivered
<1>4. MessageHasOneOwner'
  BY DEF TypeOK, TaskInv, MessageHasOneOwner
<1>5. ASSUME NEW c \in Cores PROVE (SignalInv(c) /\ TaskInv(c) /\ MsgInv(c) /\ AnswerInv(c))'
  <2> USE <1>5 DEF TypeOK, MessageHasOneOwner
  <2>1. SignalInv(c)'
    BY DEF RxInv, MainInv, SignalInv, TaskInv, Posted, Consumed, Delivered
  <2>2. TaskInv(c)'
    BY DEF TaskInv, SignalInv, MainInv, RxInv, Delivered
  <2>3. MsgInv(c)'
    BY DEF MsgInv, RxInv, MainInv, SignalInv, TaskInv, Posted, Consumed, Delivered
  <2>4. AnswerInv(c)'
    BY DEF AnswerInv, MsgInv, TaskInv, Answered
  <2>5. QED
    BY <2>1, <2>2, <2>3, <2>4
<1>6. QED
  BY <1>1, <1>2, <1>3, <1>4, <1>5

LEMMA CoreReplyStep == ASSUME IInv, NEW d \in Cores, CoreReply(d) PROVE IInv'
<1> USE DEF CoreReply, mainVars, rxVars, taskVars, msgVars, coreVars, IInv, Frames, None, Idle
<1>1. TypeOK'
  BY DEF TypeOK, TaskInv
<1>2. RxInv'
  BY DEF TypeOK, RxInv, MainInv, Delivered
<1>3. MainInv'
  BY DEF TypeOK, RxInv, MainInv, TaskInv, Delivered
<1>4. MessageHasOneOwner'
  BY DEF TypeOK, TaskInv, MessageHasOneOwner
<1>5. ASSUME NEW c \in Cores PROVE (SignalInv(c) /\ TaskInv(c) /\ MsgInv(c) /\ AnswerInv(c))'
  <2> USE <1>5 DEF TypeOK, MessageHasOneOwner
  <2>1. SignalInv(c)'
    BY DEF RxInv, MainInv, SignalInv, TaskInv, Posted, Consumed, Delivered
  <2>2. TaskInv(c)'
    BY DEF TaskInv, SignalInv, MainInv, RxInv, Delivered
  <2>3. MsgInv(c)'
    BY DEF MsgInv, RxInv, MainInv, SignalInv, TaskInv, Posted, Consumed, Delivered
  <2>4. AnswerInv(c)'
    BY DEF AnswerInv, MsgInv, TaskInv, Answered
  <2>5. QED
    BY <2>1, <2>2, <2>3, <2>4
<1>6. QED
  BY <1>1, <1>2, <1>3, <1>4, <1>5

-------------------------------------------------------------------------------

LEMMA NextIInv == IInv /\ [Next]_vars => IInv'
<1> SUFFICES ASSUME IInv, [Next]_vars PROVE IInv'
  OBVIOUS
<1>1. CASE Main
  BY <1>1, SetupStep, MainPendStartStep, MainStartRxStep, MainReturnStep DEF Main
<1>2. CASE RxTransferDone \/ SimRxDataHandler
  BY <1>2, RxTransferDoneStep, SimRxDataHandlerStep
<1>3. ASSUME NEW c \in Cores, Task(c) PROVE IInv'
  BY <1>3, TaskOpenStep, TaskPendDataStep, TaskPutStep, TaskPostStartStep,
     TaskGetReplyStep, TaskPostDoneStep DEF Task
<1>4. ASSUME NEW c \in Cores, Core(c) PROVE IInv'
  BY <1>4, CoreCreateQueueStep, CoreSetupStep, CoreGetStep, CoreDetectStep,
     CoreTrainStep, CoreReplyStep DEF Core
<1>5. CASE UNCHANGED vars
  BY <1>5 DEF vars, mainVars, rxVars, taskVars, msgVars, coreVars, IInv, TypeOK,
     RxInv, MainInv, MessageHasOneOwner, SignalInv, TaskInv, MsgInv, AnswerInv,
     Delivered, Posted, Consumed, Answered
<1>6. QED
  BY <1>1, <1>2, <1>3, <1>4, <1>5 DEF Next, Finished

THEOREM Invariant == Spec => []IInv
<1>1. QED
  BY InitIInv, NextIInv, PTL DEF Spec

\* Every variable of the four cores keeps its type.
THEOREM TypeCorrect == Spec => []TypeOK
<1>1. IInv => TypeOK
  BY DEF IInv
<1>2. QED
  BY <1>1, Invariant, PTL

\* A tracker core always reads a whole frame, the one its task counted.
THEOREM TrackersReadWholeFrames == Spec => []FrameIntegrity
<1>1. IInv => FrameIntegrity
  <2> SUFFICES ASSUME IInv, NEW c \in Cores, corePc[c] \in {"detect", "train"}
               PROVE  bufLive /\ buf[msg[c].pAddr] = nCnt[c] - 1
    BY DEF FrameIntegrity
  <2>1. msgAt[c] = "core"
    BY DEF IInv, MessageHasOneOwner
  <2>2. taskPc[c] \in {"postStart", "getReply"}
    BY <2>1 DEF IInv, MessageHasOneOwner
  <2>3. bufLive
    BY <2>2 DEF IInv, MainInv, TaskInv
  <2>4. QED
    BY <2>1, <2>3 DEF IInv, MsgInv
<1>2. QED
  BY <1>1, Invariant, PTL

\* The message of a task is the task's or the core's, never both's.
THEOREM MessageOwnership == Spec => []MessageHasOneOwner
<1>1. IInv => MessageHasOneOwner
  BY DEF IInv
<1>2. QED
  BY <1>1, Invariant, PTL

\* When MainTskFxn returns and frees the buffers, nothing can touch them.
THEOREM BuffersFreedLast == Spec => []BuffersReleasedLast
<1>1. IInv => BuffersReleasedLast
  <2> SUFFICES ASSUME IInv, mainPc = "returned"
               PROVE  /\ dma = Idle /\ ~rxInt
                      /\ \A c \in Cores : taskPc[c] = "exited" /\ corePc[c] = "get"
    BY DEF BuffersReleasedLast
  <2>1. ASSUME NEW c \in Cores PROVE taskPc[c] = "exited" /\ nCnt[c] = FRAME_NUM
    BY <2>1 DEF IInv, MainInv, TaskInv
  <2>2. nFrameCnt = FRAME_NUM - 1
    BY DEF IInv, MainInv
  <2>3. dma = Idle /\ ~rxInt
    <3>1. SUFFICES ASSUME dma # Idle \/ rxInt PROVE FALSE
      OBVIOUS
    <3>2. PICK c \in Cores : TRUE
      OBVIOUS
    <3>3. QED
      BY <2>1, <2>2, <3>1, <3>2, NoneBehind
  <2>4. ASSUME NEW c \in Cores PROVE corePc[c] = "get"
    <3>1. msgAt[c] = "task" /\ corePc[c] \notin {"detect", "train", "reply"}
      BY <2>1, <2>4 DEF IInv, MessageHasOneOwner
    <3>2. Answered(c) # 0
      BY <2>1, <2>4 DEF Answered
    <3>3. corePc[c] \notin {"boot", "setup"}
      BY <2>4, <3>2 DEF IInv, AnswerInv
    <3>4. QED
      BY <2>4, <3>1, <3>3 DEF IInv, TypeOK
  <2>5. QED
    BY <2>1, <2>3, <2>4
<1>2. QED
  BY <1>1, Invariant, PTL

\* No transfer, interrupt, semaphore post or START bit overwrites one that was
\* not yet served.
THEOREM SignalsNotOverrun == Spec => NoSignalOverrun
<1>1. ASSUME IInv, Next
      PROVE  /\ dma' # dma /\ dma' # Idle => dma = Idle /\ ~rxInt
             /\ rxInt /\ ~rxInt' => \A c \in Cores : dataReady[c] = 0
             /\ \A c \in Cores : taskPc[c] = "postStart" /\ taskPc'[c] # "postStart"
                                   => c \notin hasStart
  <2>1. ASSUME dma' # dma, dma' # Idle PROVE dma = Idle /\ ~rxInt
    <3>1. MainSetup \/ MainStartRx
      BY <1>1, <2>1 DEF Next, Main, Task, Core, Finished, vars, mainVars, rxVars,
         RxTransferDone, SimRxDataHandler, MainPendStart, MainReturn, TaskOpen,
         TaskPendData, TaskPut, TaskPostStart, TaskGetReply, TaskPostDone,
         CoreCreateQueue, CoreSetup, CoreGet, CoreDetect, CoreTrain, CoreReply
    <3>2. CASE MainSetup
      BY <1>1, <3>2 DEF MainSetup, IInv, RxInv
    <3>3. CASE MainStartRx
      <4>1. PICK c \in Cores : TRUE
        OBVIOUS
      <4>2. QED
        BY <1>1, <3>3, <4>1, AllStarted DEF MainStartRx
    <3>4. QED
      BY <3>1, <3>2, <3>3
  <2>2. ASSUME rxInt, ~rxInt', NEW c \in Cores PROVE dataReady[c] = 0
    <3>1. Delivered = nFrameCnt /\ nCnt[c] = nFrameCnt
      BY <1>1, <2>2, NoneBehind
    <3>2. nFrameCnt \in Int /\ dataReady[c] \in 0..1 /\ SignalInv(c)
      BY <1>1 DEF IInv, TypeOK, Frames
    <3>3. QED
      BY <3>1, <3>2 DEF SignalInv
  <2>3. ASSUME NEW c \in Cores, taskPc[c] = "postStart" PROVE c \notin hasStart
    <3>1. nFrameCnt \in Int /\ nCnt[c] \in Int /\ SignalInv(c)
      BY <1>1 DEF IInv, TypeOK, Frames
    <3>2. nCnt[c] \in {nFrameCnt, nFrameCnt + 1}
      BY <1>1, <2>3, PutsLatest DEF Delivered
    <3>3. QED
      BY <2>3, <3>1, <3>2 DEF SignalInv, Posted, Consumed
  <2>4. QED
    BY <2>1, <2>2, <2>3
<1>2. IInv /\ [Next]_vars =>
        [/\ dma' # dma /\ dma' # Idle => dma = Idle /\ ~rxInt
         /\ rxInt /\ ~rxInt' => \A c \in Cores : dataReady[c] = 0
         /\ \A c \in Cores : taskPc[c] = "postStart" /\ taskPc'[c] # "postStart"
                               => c \notin hasStart]_vars
  BY <1>1
<1>3. QED
  BY <1>2, Invariant, PTL DEF Spec, NoSignalOverrun

-------------------------------------------------------------------------------

\* A task that records an answer is at most one frame ahead of every other.
LEMMA AnswerInStep ==
  ASSUME IInv, NEW c \in Cores, NEW d \in Cores, taskPc[c] = "getReply"
  PROVE  nCnt[c] - 1 <= Answered(d) + 1
<1>1. /\ nFrameCnt \in Int /\ nCnt[c] \in Int /\ nCnt[d] \in Int
      /\ SignalInv(c) /\ SignalInv(d)
  BY DEF IInv, TypeOK, Frames
<1>2. nCnt[c] <= nFrameCnt + 1
  <2>1. Delivered \in {nFrameCnt, nFrameCnt + 1}
    BY DEF Delivered
  <2>2. QED
    BY <1>1, <2>1 DEF SignalInv
<1>3. nFrameCnt <= Posted(d)
  BY <1>1 DEF SignalInv, Consumed
<1>4. Posted(d) <= Answered(d) + 1
  BY <1>1 DEF Posted, Answered
<1>5. Posted(d) \in Int /\ Answered(d) \in Int
  BY <1>1 DEF Posted, Answered
<1>6. QED
  BY <1>1, <1>2, <1>3, <1>4, <1>5

\* A step either records one answer, as the contract allows, or changes nothing
\* the contract sees.
LEMMA ContractStep ==
  ASSUME IInv, [Next]_vars
  PROVE  [Contract!Next]_<<results, [c \in Cores |-> Answered(c)]>>
<1> DEFINE ans == [c \in Cores |-> Answered(c)]
<1>1. ASSUME NEW c \in Cores, TaskGetReply(c) PROVE Contract!Answer(c)
  <2> USE DEF TaskGetReply
  <2>1. Answered(c) = nCnt[c] - 1 /\ nCnt[c] \in 1..FRAME_NUM
    BY <1>1 DEF IInv, TypeOK, TaskInv, Answered
  <2>2. \A d \in Cores : ans[c] <= ans[d] + 1
    BY <1>1, <2>1, AnswerInStep
  <2>3. msg[c].roi = Contract!Expected(nCnt[c] - 1)
    BY <1>1 DEF IInv, AnswerInv
  <2>4. results' = [results EXCEPT ![c][ans[c]] = Contract!Expected(ans[c])]
    BY <1>1, <2>1, <2>3
  <2>5. ans' = [ans EXCEPT ![c] = @ + 1]
    <3>1. ASSUME NEW d \in Cores
          PROVE  Answered(d)' = IF d = c THEN Answered(c) + 1 ELSE Answered(d)
      BY <1>1, <2>1 DEF Answered, IInv, TypeOK
    <3>2. QED
      BY <3>1
  <2>6. ans[c] < FRAME_NUM
    BY <2>1
  <2>7. QED
    BY <2>2, <2>4, <2>5, <2>6 DEF Contract!Answer
<1>2. ASSUME Main \/ RxTransferDone \/ SimRxDataHandler \/ UNCHANGED vars
      PROVE  UNCHANGED <<results, ans>>
  <2>1. results' = results /\ nCnt' = nCnt /\ (taskPc' = taskPc \/ MainSetup)
    BY <1>2 DEF Main, RxTransferDone, SimRxDataHandler, MainSetup, MainPendStart,
       MainStartRx, MainReturn, vars, taskVars
  <2>2. ASSUME NEW c \in Cores PROVE Answered(c)' = Answered(c)
    BY <2>1 DEF MainSetup, IInv, TypeOK, TaskInv, Answered
  <2>3. QED
    BY <2>1, <2>2
<1>3. ASSUME NEW c \in Cores, Core(c) PROVE UNCHANGED <<results, ans>>
  <2>1. results' = results /\ nCnt' = nCnt /\ taskPc' = taskPc
    BY <1>3 DEF Core, CoreCreateQueue, CoreSetup, CoreGet, CoreDetect, CoreTrain,
       CoreReply, taskVars
  <2>2. QED
    BY <2>1 DEF Answered
<1>4. ASSUME NEW c \in Cores, Task(c), ~TaskGetReply(c)
      PROVE  UNCHANGED <<results, ans>>
  <2>1. results' = results
    BY <1>4 DEF Task, TaskOpen, TaskPendData, TaskPut, TaskPostStart, TaskPostDone
  <2>2. ASSUME NEW d \in Cores PROVE Answered(d)' = Answered(d)
    BY <1>4 DEF Task, TaskOpen, TaskPendData, TaskPut, TaskPostStart, TaskPostDone,
       Answered, IInv, TypeOK
  <2>3. QED
    BY <2>1, <2>2
<1>5. QED
  BY <1>1, <1>2, <1>3, <1>4 DEF Next, Finished, Contract!Next

\* The four cores implement TrackContract: every core answers every frame once,
\* in order, from the frame and the template before it, in step with the others.
THEOREM ContractImplemented == Spec => ImplementsContract
<1>1. Init => Contract!Init
  BY DEF Init, Contract!Init, Answered, Frames, Contract!Frames, NoResult,
     Contract!NoResult, None
<1>2. IInv /\ [Next]_vars => [Contract!Next]_<<results, [c \in Cores |-> Answered(c)]>>
  BY ContractStep
<1>3. QED
  BY <1>1, <1>2, Invariant, PTL DEF Spec, ImplementsContract, Contract!Spec
================================================================================
