-------------------------------- MODULE KcfLink --------------------------------
(***************************************************************************)
(* The link between the host program kcf_dsp and the DSP program of Kcf_SF *)
(* and Kcf_SA: who waits for what while a sequence of frames is tracked.   *)
(*                                                                         *)
(* The actors are the main thread of kcf_dsp and its thread                *)
(* waitingInterrupt, the DSP's MainTskFxn and its interrupt handler        *)
(* SrioHandler, and between them the FPGA bridge, whose registers both     *)
(* sides read and write.  MainTskFxn and main are straight programs, made  *)
(* of lists of lines; one register access is one line and one step, so     *)
(* what one side reads may be old when it writes it back.                  *)
(*                                                                         *)
(* Doorbells are named by what they mean.  The name the host uses for a    *)
(* doorbell it receives is the name of the semaphore it posts.             *)
(***************************************************************************)
EXTENDS Integers, Sequences

CONSTANTS FRAME_NUM,    \* frames in a sequence
          SEQUENCES,    \* sequences, one run of kcf_dsp each
          Builds,       \* the values of HW_FHOG_MODE the program is built with
          COLLISIONS    \* how often a pulse of the bridge may be hidden by a write

ASSUME LinkAssumption ==
    /\ FRAME_NUM \in Nat \ {0} /\ SEQUENCES \in Nat \ {0} /\ COLLISIONS \in Nat
    /\ Builds \subseteq BOOLEAN /\ Builds # {}

VARIABLES
    HW_FHOG_MODE,               \* features computed by the FPGA (1 in main.h) or the DSP
    run, nFrame, pc,            \* kcf_dsp: run, part of the program, line (0: not running)
    nTempPC, src,               \* its nTemp and pSrcData
    mapped, sem, results,       \* m_pSrio2Pcie # NULL, the semaphores, pResults
    irq, nInfo, event,          \* waitingInterrupt, its nInfo, the driver's events_irq
    h2c, c2h,                   \* write of pSrcData under way; data for read
    csr, mode, txinfo, sw_dst, msi,   \* bridge: SRIO_CSR, SRIO_MODE, DB_TXINFO, SW_DST, MSI[0]
    job,                        \* bridge: the SW transfers started (a sequence of at most one)
    toDsp, toFpga,              \* SRIO packets in flight, either way
    frame, again,               \* MainTskFxn: frame, tracker in its second features
    call, dsp,                  \* the call it is in and the line
    nTemp, nCsrVal,             \* the values it read
    dsem, outdb,                \* its semaphores; status bit of the outgoing doorbell
    inbound, stat,              \* received doorbells, their interrupt status
    m_nRxInd, mem, fpgaMem,     \* receive index; memory of the DSP and of the FPGA
    used, tracked,              \* history: frames this call of the tracker used; all calls
    hidden                      \* history: pulses hidden so far

pcVars == <<run, nFrame, pc, nTempPC, src, mapped, results>>
irqVars == <<irq, nInfo, event>>
regs == <<csr, mode, txinfo, sw_dst>>
links == <<toDsp, toFpga>>
place == <<frame, again, call, dsp>>
task == <<place, nTemp, nCsrVal, m_nRxInd, used>>
srio == <<outdb, inbound, stat>>
vars == <<HW_FHOG_MODE, pcVars, sem, irqVars, h2c, c2h, regs, msi, job, links, task, dsem, srio,
          mem, fpgaMem, tracked, hidden>>

Frame(r, i) == [run |-> r, part |-> i]
SeqInfo(r) == Frame(r, -1)
NoData == Frame(0, 0)

PcDoorbells == {"STARTREQ", "STARTH2C", "STARTC2H", "PROCDONE"}    \* to the host
DspDoorbells == {"PC_STARTREQ", "SWFROMPC_DONE", "SWFROMFPGA_DONE"} \* to the DSP

-----------------------------------------------------------------------------
(* kcf_dsp: main, with sendDB and startH2C.  Its place is a part of the    *)
(* program and a line of it; a semaphore's name is the wait for it.        *)

\* The request and the sequence information.
HostRequest ==
    <<"infoRead", "infoWrite", "csrRead", "csrWrite", "STARTREQ", "write", "written">>

\* Mutant: the write returns before the data has left pSrcData.
HostFrameNoWait == <<"load", "STARTH2C", "write">>

HostFrame == <<"load", "STARTH2C", "write", "written">>

\* Mutant: the program does not wait for the DSP to be ready.
HostEndNoReady == <<"STARTC2H", "startC2H", "unmap", "cancel">>

HostEnd == <<"STARTC2H", "startC2H", "PROCDONE", "unmap", "cancel">>

\* Part i is frame i - 1.
Host == IF nFrame = 0 THEN HostRequest ELSE IF nFrame <= FRAME_NUM THEN HostFrame ELSE HostEnd

HostAt(line) == pc > 0 /\ Host[pc] = line
HostNext == IF pc < Len(Host) THEN pc' = pc + 1 /\ nFrame' = nFrame
            ELSE pc' = 1 /\ nFrame' = nFrame + 1

-----------------------------------------------------------------------------
(* Kcf_SF: CSrio2PcieManager.cpp, Srio2PcieLLD.h, CKcfTracker.cpp,         *)
(* MainTask.cpp.  The place of MainTskFxn is a call and a line of it; a    *)
(* message's name is the call of startTxDbWithMSI that sends it.           *)

SwCalls == {"seqInfo", "frame", "features"}

\* Mutant: the slot of the last message is not waited for.
startTxDbWithMSIAtOnce == <<"modeRead", "modeWrite", "sendDB", "outdb">>

startTxDbWithMSI == <<"modeRead", "modeWrite", "msiFree", "sendDB", "outdb">>

\* startSwTxFromPC and startSwTxFromFPGA.
startSwTx == <<"csrRead", "params", "infoRead", "infoWrite", "modeRead", "modeWrite", "csrWrite">>

\* Mutant: the features are used without waiting for them.
getFeaturesNoPend == <<"use">>

\* getFeaturesByHwFhog, what follows startSwTxFromFPGA.
getFeatures == <<"SWFROMFPGA_DONE", "use">>

MainTskFxn ==
    CASE call \in PcDoorbells -> startTxDbWithMSI
      [] call \in SwCalls -> startSwTx
      [] call = "request" -> <<"PC_STARTREQ">>
      [] call = "info" -> <<"SWFROMPC_DONE", "init">>
      [] call = "flip" -> <<"SWFROMPC_DONE", "flipIndex">>
      [] call = "nwToFPGA" -> <<"modeRead", "modeWrite", "wdma">>
      [] call = "fhog" -> <<"startHwFhog", "FHOG">>
      [] call = "template" -> getFeatures
      [] call = "image" -> <<"use">>
      [] call = "result" -> <<"result">>
      [] call = "nwToPC" -> <<"modeRead", "modeWrite">>
      [] call = "results" -> <<"wdma", "deinit">>

DspAt(line) == call # "abort" /\ MainTskFxn[dsp] = line

Call(c) == call' = c /\ UNCHANGED <<frame, again>>

Features == IF HW_FHOG_MODE THEN "nwToFPGA" ELSE "image"

\* CKcfTracker::init computes features once, update twice.
tracker == IF frame = 1 \/ again THEN Call("result")
           ELSE call' = Features /\ again' = TRUE /\ frame' = frame

NextFrame ==
    /\ frame' = frame + 1 /\ again' = FALSE
    /\ call' = IF frame = FRAME_NUM THEN "nwToPC" ELSE IF HW_FHOG_MODE THEN "STARTH2C" ELSE "flip"

\* Mutant: a frame is requested after the last one.
AfterFlipOneMore == IF HW_FHOG_MODE THEN Features ELSE "STARTH2C"

\* Unless the FPGA computes features the next frame comes while this one is tracked.
AfterFlip == IF ~HW_FHOG_MODE /\ frame < FRAME_NUM THEN "STARTH2C" ELSE Features

\* Where MainTskFxn goes when the call is done.  Frame 0 is before the loop.
Return ==
    \/ call = "request" /\ call' = "STARTREQ" /\ frame' = 0 /\ again' = again
    \/ call = "STARTREQ" /\ Call("seqInfo")
    \/ call = "seqInfo" /\ Call("info")
    \/ call = "info" /\ IF HW_FHOG_MODE THEN NextFrame ELSE Call("STARTH2C")
    \/ call = "STARTH2C" /\ Call("frame")
    \/ call = "frame" /\ IF HW_FHOG_MODE THEN Call("flip")
                         ELSE IF frame = 0 THEN NextFrame ELSE Call(Features)
    \/ call = "flip" /\ Call(AfterFlip)
    \/ call = "nwToFPGA" /\ Call("fhog")
    \/ call = "fhog" /\ Call("features")
    \/ call = "features" /\ Call("template")
    \/ call \in {"template", "image"} /\ tracker
    \/ call = "result" /\ NextFrame
    \/ call = "nwToPC" /\ Call("STARTC2H")
    \/ call = "STARTC2H" /\ Call("results")
    \/ call = "results" /\ Call("PROCDONE")
    \/ call = "PROCDONE" /\ Call("request")

DspNext == IF dsp < Len(MainTskFxn) THEN dsp' = dsp + 1 /\ UNCHANGED <<call, frame, again>>
           ELSE dsp' = 1 /\ Return

rxBuf(ind) == IF ind = 0 THEN "rxBuf0" ELSE "rxBuf1"
getOpBuf == rxBuf(1 - m_nRxInd)

\* Mutant: the frame is received into the buffer the tracker works on.
SwDstOpBuf == IF call = "seqInfo" THEN "seqInfo" ELSE IF call = "frame" THEN getOpBuf ELSE "tmpl"

SwDst == IF call = "seqInfo" THEN "seqInfo" ELSE IF call = "frame" THEN rxBuf(m_nRxInd) ELSE "tmpl"

\* kcf_dsp is not running and MainTskFxn waits for it, as after a sequence.
Init ==
    /\ HW_FHOG_MODE \in Builds
    /\ run = 0 /\ pc = 0 /\ nFrame = FRAME_NUM + 1 /\ src = NoData
    /\ mapped = FALSE /\ sem = [i \in PcDoorbells |-> 0] /\ results = <<>>
    /\ irq = "none" /\ nInfo = "STARTREQ" /\ event = FALSE /\ h2c = FALSE /\ c2h = <<>>
    /\ csr = [db |-> FALSE, sw |-> FALSE, err |-> FALSE]
    /\ mode = [nomsi |-> FALSE, sw |-> FALSE, nw |-> FALSE]
    /\ nTempPC = csr /\ txinfo = [db |-> "PC_STARTREQ", sw |-> "PC_STARTREQ"] /\ sw_dst = "seqInfo"
    /\ msi = [busy |-> FALSE, info |-> "STARTREQ", err |-> FALSE]
    /\ job = <<>> /\ hidden = 0
    /\ toDsp = <<>> /\ toFpga = <<>>
    /\ call = "request" /\ dsp = 1 /\ frame = FRAME_NUM + 1 /\ again = FALSE
    /\ nTemp = mode /\ nCsrVal = FALSE
    /\ dsem = [i \in DspDoorbells \cup {"FHOG"} |-> 0]
    /\ outdb = FALSE /\ inbound = <<>> /\ stat = FALSE
    /\ m_nRxInd = 0
    /\ mem = [b \in {"seqInfo", "rxBuf0", "rxBuf1", "tmpl"} |-> NoData]
    /\ fpgaMem = [block |-> NoData, features |-> NoData, busy |-> FALSE]
    /\ used = {} /\ tracked = <<>>

-----------------------------------------------------------------------------
(* The bridge.                                                             *)

Doorbell(from, info) == [type |-> "doorbell", from |-> from, info |-> info]
Response(p) == [p EXCEPT !.type = "response"]

\* In the cycle of a register write the bridge misses pulses.
Writing == \/ HostAt("infoWrite") \/ HostAt("csrWrite")
           \/ DspAt("modeWrite") \/ DspAt("params") \/ DspAt("infoWrite") \/ DspAt("csrWrite")

Missed(hide) == /\ hide => Writing /\ hidden < COLLISIONS
                /\ hidden' = IF hide THEN hidden + 1 ELSE hidden

\* What a write of SRIO_CSR with these start bits does.
WriteCsr(db, sw) ==
    /\ csr' = [db |-> csr.db \/ db, sw |-> csr.sw \/ sw,
               err |-> csr.err \/ (db /\ csr.db) \/ (sw /\ csr.sw)]
    /\ toDsp' = IF db /\ ~csr.db THEN Append(toDsp, Doorbell("db", txinfo.db)) ELSE toDsp
    /\ job' = IF sw /\ ~csr.sw
              THEN Append(job, [fromFPGA |-> mode.sw, dst |-> sw_dst, info |-> txinfo.sw])
              ELSE job

\* The transfer and the doorbell after it.
SwTransfer ==
    /\ job # <<>>
    /\ LET j == Head(job) IN
       /\ \/ j.fromFPGA /\ mem' = [mem EXCEPT ![j.dst] = fpgaMem.features] /\ h2c' = h2c
          \/ ~j.fromFPGA /\ h2c /\ mem' = [mem EXCEPT ![j.dst] = src] /\ h2c' = FALSE
       /\ toDsp' = Append(toDsp, Doorbell("sw", j.info))
    /\ job' = Tail(job)
    /\ UNCHANGED <<HW_FHOG_MODE, pcVars, sem, irqVars, c2h, regs, msi, toFpga, task, dsem,
                   srio, fpgaMem, tracked, hidden>>

FpgaReceives(hide) ==
    /\ toFpga # <<>> /\ toFpga' = Tail(toFpga) /\ Missed(hide)
    /\ LET p == Head(toFpga) IN
       \/ /\ p.type = "response"
          /\ csr' = IF hide THEN csr ELSE [csr EXCEPT ![p.from] = FALSE]
          /\ UNCHANGED <<toDsp, msi, event>>
       \/ /\ p.type = "doorbell"
          /\ toDsp' = Append(toDsp, Response(p)) /\ csr' = csr
          /\ msi' = IF hide \/ mode.nomsi THEN msi
                    ELSE IF msi.busy THEN [msi EXCEPT !.err = TRUE]
                    ELSE [msi EXCEPT !.busy = TRUE, !.info = p.info]
          /\ event' = (event \/ (msi'.busy /\ ~msi.busy))
    /\ UNCHANGED <<HW_FHOG_MODE, pcVars, sem, irq, nInfo, h2c, c2h, mode, txinfo, sw_dst,
                   job, task, dsem, srio, mem, fpgaMem, tracked>>

\* The FHOG hardware: features of the block, and its interrupt.
HwFhogDoneHandler ==
    /\ fpgaMem.busy
    /\ fpgaMem' = [fpgaMem EXCEPT !.features = fpgaMem.block, !.busy = FALSE]
    /\ dsem' = [dsem EXCEPT !["FHOG"] = @ + 1]
    /\ UNCHANGED <<HW_FHOG_MODE, pcVars, sem, irqVars, h2c, c2h, regs, msi, job, links,
                   task, srio, mem, tracked, hidden>>

-----------------------------------------------------------------------------
(* The host: main of kcf_dsp, one instruction at a time.                   *)

\* The next run starts after the DSP has seen the response to its last doorbell: its
\* own doorbell would take the status away for which sendDB polls (SrioHandler).
HostInit ==
    /\ pc = 0 /\ run < SEQUENCES /\ ~DspAt("outdb")
    /\ run' = run + 1 /\ pc' = 1 /\ nFrame' = 0 /\ src' = SeqInfo(run + 1)
    /\ sem' = [i \in PcDoorbells |-> 0] /\ results' = <<>> /\ tracked' = <<>>
    /\ mapped' = TRUE /\ irq' = "read"
    /\ UNCHANGED <<HW_FHOG_MODE, nTempPC, nInfo, event, h2c, c2h, regs, msi, job, links,
                   task, dsem, srio, mem, fpgaMem, hidden>>

HostRegs ==
    /\ \/ HostAt("infoRead") /\ nTempPC' = txinfo /\ HostNext
          /\ UNCHANGED <<csr, txinfo, toDsp, job>>
       \/ HostAt("infoWrite") /\ txinfo' = [nTempPC EXCEPT !.db = "PC_STARTREQ"] /\ HostNext
          /\ UNCHANGED <<nTempPC, csr, toDsp, job>>
       \/ HostAt("csrRead") /\ nTempPC' = csr
          /\ pc' = (IF csr.db THEN pc + 2 ELSE pc + 1)     \* -1, which main ignores
          /\ nFrame' = nFrame
          /\ UNCHANGED <<csr, txinfo, toDsp, job>>
       \/ HostAt("csrWrite") /\ WriteCsr(TRUE, nTempPC.sw) /\ HostNext
          /\ UNCHANGED <<nTempPC, txinfo>>
    /\ UNCHANGED <<HW_FHOG_MODE, run, src, mapped, results, sem, irqVars, h2c, c2h, mode,
                   sw_dst, msi, toFpga, task, dsem, srio, mem, fpgaMem, tracked, hidden>>

HostStream ==
    /\ \/ HostAt("load") /\ src' = Frame(run, nFrame - 1) /\ UNCHANGED <<h2c, c2h, results>>
       \/ HostAt("write") /\ h2c' = TRUE /\ UNCHANGED <<src, c2h, results>>
       \/ HostAt("written") /\ ~h2c /\ UNCHANGED <<src, h2c, c2h, results>>
       \/ HostAt("startC2H") /\ c2h # <<>> /\ results' = c2h /\ c2h' = <<>>
          /\ UNCHANGED <<src, h2c>>
    /\ HostNext
    /\ UNCHANGED <<HW_FHOG_MODE, run, nTempPC, mapped, sem, irqVars, regs, msi, job, links,
                   task, dsem, srio, mem, fpgaMem, tracked, hidden>>

HostWait ==
    /\ \E i \in PcDoorbells : HostAt(i) /\ sem[i] > 0 /\ sem' = [sem EXCEPT ![i] = @ - 1]
    /\ HostNext
    /\ UNCHANGED <<HW_FHOG_MODE, run, nTempPC, src, mapped, results, irqVars, h2c, c2h,
                   regs, msi, job, links, task, dsem, srio, mem, fpgaMem, tracked, hidden>>

\* munmap, pthread_cancel and pthread_join; then kcf_dsp may be run again.
HostDeInit ==
    /\ \/ HostAt("unmap") /\ mapped' = FALSE /\ irq' = irq /\ HostNext
       \/ HostAt("cancel") /\ irq = "read" /\ irq' = "none" /\ mapped' = mapped
          /\ pc' = 0 /\ nFrame' = nFrame
    /\ UNCHANGED <<HW_FHOG_MODE, run, nTempPC, src, results, sem, nInfo, event, h2c, c2h,
                   regs, msi, job, links, task, dsem, srio, mem, fpgaMem, tracked, hidden>>

-----------------------------------------------------------------------------
(* The host: the thread waitingInterrupt.                                  *)

IrqRead ==
    /\ irq = "read" /\ event /\ event' = FALSE /\ irq' = "info"
    /\ UNCHANGED <<HW_FHOG_MODE, pcVars, sem, nInfo, h2c, c2h, regs, msi, job, links, task,
                   dsem, srio, mem, fpgaMem, tracked, hidden>>

\* Reading MSI_INFO[0] frees the slot.
IrqInfo(hide) ==
    /\ irq = "info" /\ irq' = "post" /\ nInfo' = msi.info /\ Missed(hide)
    /\ msi' = IF hide THEN msi ELSE [msi EXCEPT !.busy = FALSE]
    /\ UNCHANGED <<HW_FHOG_MODE, pcVars, sem, event, h2c, c2h, regs, job, links, task, dsem,
                   srio, mem, fpgaMem, tracked>>

IrqPost ==
    /\ irq = "post" /\ irq' = "read" /\ sem' = [sem EXCEPT ![nInfo] = @ + 1]
    /\ UNCHANGED <<HW_FHOG_MODE, pcVars, nInfo, event, h2c, c2h, regs, msi, job, links,
                   task, dsem, srio, mem, fpgaMem, tracked, hidden>>

-----------------------------------------------------------------------------
(* The DSP.                                                                *)

\* A packet from the FPGA: the response to a doorbell of the DSP, or a
\* doorbell, which is answered, stored and signalled.
DspReceives ==
    /\ toDsp # <<>> /\ toDsp' = Tail(toDsp)
    /\ LET p == Head(toDsp) IN
       \/ /\ p.type = "response" /\ outdb' = TRUE
          /\ UNCHANGED <<toFpga, inbound, stat>>
       \/ /\ p.type = "doorbell"
          /\ toFpga' = Append(toFpga, Response(p))
          /\ inbound' = Append(inbound, p.info) /\ stat' = TRUE /\ outdb' = outdb
    /\ UNCHANGED <<HW_FHOG_MODE, pcVars, sem, irqVars, h2c, c2h, regs, msi, job, task, dsem,
                   mem, fpgaMem, tracked, hidden>>

\* The handler takes one doorbell and clears all status bits, OUTDB too;
\* hRxDbStartReqSem is binary.
SrioHandler ==
    /\ stat /\ stat' = FALSE /\ outdb' = FALSE /\ inbound' = Tail(inbound)
    /\ LET m_nDbInfo == Head(inbound) IN
       dsem' = [dsem EXCEPT ![m_nDbInfo] = IF m_nDbInfo = "PC_STARTREQ" THEN 1 ELSE @ + 1]
    /\ UNCHANGED <<HW_FHOG_MODE, pcVars, sem, irqVars, h2c, c2h, regs, msi, job, links,
                   task, mem, fpgaMem, tracked, hidden>>

\* The bit of SRIO_MODE a call sets: the message is wanted, where SW and NW go.
NewMode == IF call \in PcDoorbells THEN [nTemp EXCEPT !.nomsi = FALSE]
           ELSE IF call \in SwCalls THEN [nTemp EXCEPT !.sw = call = "features"]
           ELSE [nTemp EXCEPT !.nw = call = "nwToFPGA"]

SwInfo == IF call = "features" THEN "SWFROMFPGA_DONE" ELSE "SWFROMPC_DONE"

\* MainTskFxn reads or writes a register of the bridge.  Only startTxSeqInfoFromPC
\* gives up when a transfer is still under way, the others try again.
DspRegs ==
    /\ \/ DspAt("modeRead") /\ nTemp' = mode /\ DspNext
          /\ UNCHANGED <<regs, toDsp, job, nCsrVal>>
       \/ DspAt("modeWrite") /\ mode' = NewMode /\ DspNext
          /\ UNCHANGED <<csr, txinfo, sw_dst, toDsp, job, nTemp, nCsrVal>>
       \/ DspAt("msiFree") /\ ~msi.busy /\ DspNext
          /\ UNCHANGED <<regs, toDsp, job, nTemp, nCsrVal>>
       \/ DspAt("csrRead") /\ ~csr.sw /\ nCsrVal' = csr.db /\ DspNext
          /\ UNCHANGED <<regs, toDsp, job, nTemp>>
       \/ DspAt("csrRead") /\ csr.sw /\ call = "seqInfo" /\ call' = "abort"
          /\ UNCHANGED <<dsp, frame, again>>
          /\ UNCHANGED <<regs, toDsp, job, nTemp, nCsrVal>>
       \/ DspAt("params") /\ sw_dst' = SwDst /\ DspNext
          /\ UNCHANGED <<csr, mode, txinfo, toDsp, job, nTemp, nCsrVal>>
       \/ DspAt("infoRead") /\ nTemp' = txinfo /\ DspNext
          /\ UNCHANGED <<regs, toDsp, job, nCsrVal>>
       \/ DspAt("infoWrite") /\ txinfo' = [nTemp EXCEPT !.sw = SwInfo] /\ DspNext
          /\ UNCHANGED <<csr, mode, sw_dst, toDsp, job, nTemp, nCsrVal>>
       \/ DspAt("csrWrite") /\ WriteCsr(nCsrVal, TRUE) /\ DspNext
          /\ UNCHANGED <<mode, txinfo, sw_dst, nTemp, nCsrVal>>
    /\ UNCHANGED <<HW_FHOG_MODE, pcVars, sem, irqVars, h2c, c2h, msi, toFpga, m_nRxInd,
                   used, dsem, srio, mem, fpgaMem, tracked, hidden>>

\* CSL_srioSendDB: send the doorbell, then poll for its response.
DspSendDB ==
    /\ \/ DspAt("sendDB") /\ outdb' = FALSE /\ toFpga' = Append(toFpga, Doorbell("dsp", call))
       \/ DspAt("outdb") /\ outdb /\ outdb' = FALSE /\ toFpga' = toFpga
    /\ DspNext
    /\ UNCHANGED <<HW_FHOG_MODE, pcVars, sem, irqVars, h2c, c2h, regs, msi, job, toDsp,
                   nTemp, nCsrVal, m_nRxInd, used, dsem, inbound, stat, mem, fpgaMem,
                   tracked, hidden>>

\* The bridge sends an NW transfer where SRIO_MODE says.
DspHardware ==
    /\ \/ /\ DspAt("wdma")
          /\ LET data == IF call = "nwToFPGA" THEN mem[getOpBuf] ELSE tracked IN
             IF mode.nw THEN fpgaMem' = [fpgaMem EXCEPT !.block = data] /\ c2h' = c2h
             ELSE c2h' = data /\ fpgaMem' = fpgaMem
       \/ DspAt("startHwFhog") /\ fpgaMem' = [fpgaMem EXCEPT !.busy = TRUE] /\ c2h' = c2h
    /\ DspNext
    /\ UNCHANGED <<HW_FHOG_MODE, pcVars, sem, irqVars, h2c, regs, msi, job, links, nTemp,
                   nCsrVal, m_nRxInd, used, dsem, srio, mem, tracked, hidden>>

DspPend ==
    /\ \E i \in DOMAIN dsem : DspAt(i) /\ dsem[i] > 0 /\ dsem' = [dsem EXCEPT ![i] = @ - 1]
    /\ DspNext
    /\ UNCHANGED <<HW_FHOG_MODE, pcVars, sem, irqVars, h2c, c2h, regs, msi, job, links,
                   nTemp, nCsrVal, m_nRxInd, used, srio, mem, fpgaMem, tracked, hidden>>

\* CRxBufManager: init and deinit, which leave the index alone, and flipIndex.
DspBuffers ==
    /\ \/ /\ DspAt("init") \/ DspAt("deinit")
          /\ mem' = [mem EXCEPT !["rxBuf0"] = NoData, !["rxBuf1"] = NoData]
          /\ m_nRxInd' = m_nRxInd
       \/ DspAt("flipIndex") /\ m_nRxInd' = 1 - m_nRxInd /\ mem' = mem
    /\ DspNext
    /\ UNCHANGED <<HW_FHOG_MODE, pcVars, sem, irqVars, h2c, c2h, regs, msi, job, links,
                   nTemp, nCsrVal, used, dsem, srio, fpgaMem, tracked, hidden>>

\* The tracker computes with features, or has a result for the frame.
DspTrack ==
    /\ \/ /\ DspAt("use") /\ tracked' = tracked
          /\ used' = used \cup {mem[IF call = "image" THEN getOpBuf ELSE "tmpl"]}
       \/ DspAt("result") /\ tracked' = Append(tracked, used) /\ used' = {}
    /\ DspNext
    /\ UNCHANGED <<HW_FHOG_MODE, pcVars, sem, irqVars, h2c, c2h, regs, msi, job, links,
                   nTemp, nCsrVal, m_nRxInd, dsem, srio, mem, fpgaMem, hidden>>

-----------------------------------------------------------------------------
Main == HostInit \/ HostRegs \/ HostStream \/ HostWait \/ HostDeInit
Irq == IrqRead \/ (\E hide \in BOOLEAN : IrqInfo(hide)) \/ IrqPost
Task == DspRegs \/ DspSendDB \/ DspHardware \/ DspPend \/ DspBuffers \/ DspTrack
Bridge == SwTransfer \/ (\E hide \in BOOLEAN : FpgaReceives(hide)) \/ HwFhogDoneHandler

Next == Main \/ Irq \/ Task \/ SrioHandler \/ Bridge \/ DspReceives

Spec == Init /\ [][Next]_vars

\* Two processors, two threads on the host, and hardware that does not stop.
\* A program that waits for a flag or a semaphore stays enabled once it is set
\* until it takes it; a polling loop takes no step of the model.
FairSpec == /\ Spec
            /\ WF_vars(Main) /\ WF_vars(Irq) /\ WF_vars(Task) /\ WF_vars(SrioHandler)
            /\ WF_vars(SwTransfer) /\ WF_vars(\E hide \in BOOLEAN : FpgaReceives(hide))
            /\ WF_vars(HwFhogDoneHandler) /\ WF_vars(DspReceives)

-----------------------------------------------------------------------------
Tokens == {NoData} \cup [run : 1 .. SEQUENCES, part : -1 .. FRAME_NUM - 1]
Infos == PcDoorbells \cup DspDoorbells
Packets == [type : {"doorbell", "response"}, from : {"db", "sw", "dsp"}, info : Infos]
TxInfo == [db : Infos, sw : Infos]
Results == [1 .. FRAME_NUM -> SUBSET Tokens]

\* Every variable has a value of its type.
TypeOK ==
    /\ HW_FHOG_MODE \in Builds
    /\ run \in 0 .. SEQUENCES /\ nFrame \in 0 .. FRAME_NUM + 1 /\ pc \in 0 .. Len(Host)
    /\ src \in Tokens
    /\ nTempPC \in TxInfo \/ nTempPC \in [db : BOOLEAN, sw : BOOLEAN, err : BOOLEAN]
    /\ mapped \in BOOLEAN /\ sem \in [PcDoorbells -> 0 .. 1]
    /\ results \in {<<>>} \cup Results /\ c2h \in {<<>>} \cup Results
    /\ irq \in {"none", "read", "info", "post"} /\ nInfo \in PcDoorbells /\ event \in BOOLEAN
    /\ h2c \in BOOLEAN
    /\ csr \in [db : BOOLEAN, sw : BOOLEAN, err : BOOLEAN]
    /\ mode \in [nomsi : BOOLEAN, sw : BOOLEAN, nw : BOOLEAN]
    /\ txinfo \in TxInfo /\ sw_dst \in DOMAIN mem
    /\ msi \in [busy : BOOLEAN, info : PcDoorbells, err : BOOLEAN]
    /\ Len(job) <= 1 /\ hidden \in 0 .. COLLISIONS
    /\ \A p \in {toDsp[i] : i \in DOMAIN toDsp} \cup {toFpga[i] : i \in DOMAIN toFpga} :
          p \in Packets
    /\ frame \in 0 .. FRAME_NUM + 1 /\ again \in BOOLEAN /\ nCsrVal \in BOOLEAN
    /\ nTemp \in TxInfo \/ nTemp \in [nomsi : BOOLEAN, sw : BOOLEAN, nw : BOOLEAN]
    /\ dsem \in [DspDoorbells \cup {"FHOG"} -> 0 .. 1]
    /\ outdb \in BOOLEAN /\ stat \in BOOLEAN /\ m_nRxInd \in 0 .. 1
    /\ \A i \in DOMAIN inbound : inbound[i] \in DspDoorbells
    /\ mem \in [{"seqInfo", "rxBuf0", "rxBuf1", "tmpl"} -> Tokens]
    /\ fpgaMem \in [block : Tokens, features : Tokens, busy : BOOLEAN]
    /\ used \subseteq Tokens /\ \A i \in DOMAIN tracked : tracked[i] \subseteq Tokens

\* A semaphore says only that some transfer has ended.  When the DSP is past
\* the wait it is the one it asked for: the sequence information of this run,
\* the next frame of this run, the features of the frame being tracked.
WaitedForThisTransfer ==
    /\ DspAt("init") => mem["seqInfo"] = SeqInfo(run)
    /\ DspAt("flipIndex") => mem[rxBuf(m_nRxInd)] = Frame(run, Len(tracked))
    /\ DspAt("use") /\ call = "template" => mem["tmpl"] = Frame(run, Len(tracked))

\* No transfer is under way into the buffer the tracker works on, or into a
\* buffer that is freed; and the host's thread waitingInterrupt reads a register
\* only while it is mapped.
NoUseAfterFree ==
    /\ \A i \in DOMAIN job : job[i].dst # getOpBuf /\ ~DspAt("deinit")
    /\ irq = "info" => mapped

\* Everything between host and DSP has room for one, and is not used twice at
\* once.  SrioHandler takes one doorbell and clears the status of all of them
\* and of the DSP's own, but they never come at the same time.  No message meets
\* the last one in its slot.  And unless a hidden pulse left a bit set for good,
\* nobody starts a doorbell or a transfer while the last of its kind is under
\* way: the bridge never has an error to report.
NothingCollides ==
    /\ Len(inbound) <= 1 /\ (DspAt("outdb") => ~stat)
    /\ ~msi.err /\ (hidden = 0 => ~csr.err)

\* When a run of kcf_dsp has returned and no pulse was hidden it leaves nothing
\* behind that the next one could take for its own: no message, event,
\* semaphore, data or transfer.
CleanHandover ==
    pc = 0 /\ hidden = 0 =>
        /\ irq = "none" /\ ~mapped /\ ~event /\ ~msi.busy /\ ~h2c /\ c2h = <<>>
        /\ job = <<>> /\ ~csr.db /\ ~csr.sw /\ ~fpgaMem.busy /\ inbound = <<>>
        /\ \A i \in DOMAIN sem : sem[i] = 0
        /\ \A i \in DOMAIN dsem : dsem[i] = 0

\* Refinement: host and DSP together keep the contract of TrackSession.
Session == INSTANCE TrackSession
ImplementsSession == Session!Spec

\* Unless a pulse of the bridge was lost, every run of kcf_dsp ends and the DSP
\* waits for a next one: no two of the four actors wait for each other.
EverySequenceEnds == <>(hidden > 0 \/ (pc = 0 /\ run = SEQUENCES /\ call = "request"))
=============================================================================
