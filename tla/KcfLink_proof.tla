----------------------------- MODULE KcfLink_proof -----------------------------
(***************************************************************************)
(* What KcfLink promises holds for every number of frames and sequences,   *)
(* for both builds and for any number of hidden pulses.                    *)
(***************************************************************************)
EXTENDS KcfLink, TLAPS

Calls == PcDoorbells \cup SwCalls \cup
    {"request", "info", "flip", "nwToFPGA", "fhog", "template", "image", "result", "nwToPC",
      "results"}

Lines == IF call \in PcDoorbells THEN 5 ELSE IF call \in SwCalls THEN 7
         ELSE IF call = "nwToFPGA" THEN 3 ELSE IF call \in {"request", "image", "result"} THEN 1
           ELSE 2

HostLines == IF nFrame = 0 THEN 7 ELSE IF nFrame <= FRAME_NUM THEN 4 ELSE 5

\* The places of the two programs.
HostPlaced ==
    /\ nFrame \in 0 .. FRAME_NUM + 1 /\ pc \in 0 .. HostLines
    /\ pc = 0 => nFrame = FRAME_NUM + 1

InHw == call \in {"nwToFPGA", "fhog", "features", "template"}

DspPlaced ==
    /\ call \in Calls \cup {"abort"} /\ dsp \in 1 .. Lines
    /\ frame \in 0 .. FRAME_NUM + 1 /\ again \in BOOLEAN
    /\ call \in {"STARTREQ", "seqInfo", "info", "abort"} => frame = 0
    /\ call \in {"nwToPC", "STARTC2H", "results", "PROCDONE", "request"} => frame = FRAME_NUM + 1
    /\ call \in {"STARTH2C", "frame"} => IF HW_FHOG_MODE THEN frame \in 1 .. FRAME_NUM
                                         ELSE frame \in 0 .. FRAME_NUM - 1
    /\ InHw \/ call \in {"flip", "image", "result"} => frame \in 1 .. FRAME_NUM
    /\ InHw => HW_FHOG_MODE
    /\ call = "image" => ~HW_FHOG_MODE
    /\ again => InHw \/ call \in {"image", "result"}

\* The DSP has not yet seen the request of this run.
Lag == call = "request" /\ nFrame = 0

\* How many blocks of data (the sequence information is the first) the DSP has
\* waited for, asked for, and whether it has one under way.
Past == \/ call \in {"info", "flip"} /\ dsp = 2
        \/ InHw \/ call \in {"image", "result"}
        \/ ~HW_FHOG_MODE /\ call \in {"STARTH2C", "frame"}
Waited == IF Lag THEN 0 ELSE IF Past THEN frame + 1 ELSE frame
OutPC == \/ call \in {"info", "flip"} /\ dsp = 1
         \/ ~HW_FHOG_MODE /\ call \in {"image", "result"} /\ frame < FRAME_NUM
Asking == (call \in {"STARTREQ", "STARTH2C"} /\ dsp = 5) \/ call \in {"seqInfo", "frame", "abort"}
Asked == IF OutPC \/ Asking THEN Waited + 1 ELSE Waited

\* How many requests the host has taken and how many writes it has begun.
Granted == IF (nFrame = 0 /\ pc >= 6) \/ (nFrame \in 1 .. FRAME_NUM /\ pc >= 3)
           THEN nFrame + 1 ELSE nFrame
InWrite == (nFrame = 0 /\ pc = 7) \/ (nFrame \in 1 .. FRAME_NUM /\ pc = 4)
Written == IF InWrite THEN nFrame + 1 ELSE nFrame

\* Host and DSP count the blocks alike.
CountInv ==
    /\ h2c => InWrite
    /\ (IF h2c THEN Written - 1 ELSE Written) = (IF OutPC
       /\ job = <<>> THEN Waited + 1 ELSE Waited)
    /\ Asked = Granted \/ Asked = Granted + 1
    /\ nFrame = 0 /\ pc < 5 => call = "request"

SentC2H == (call = "STARTC2H" /\ dsp = 5) \/ call \in {"results", "PROCDONE"} \/ (call =
  "request" /\ ~Lag)
TakenC2H == nFrame = FRAME_NUM + 1 /\ (pc = 0 \/ pc >= 2)
SentDone == (call = "PROCDONE" /\ dsp = 5) \/ (call = "request" /\ ~Lag)
TakenDone == nFrame = FRAME_NUM + 1 /\ (pc = 0 \/ pc >= 4)

\* A message sent and not yet taken by main.
Pending(m) ==
    \/ m = "STARTREQ" /\ Asked = Granted + 1 /\ Granted = 0
    \/ m = "STARTH2C" /\ Asked = Granted + 1 /\ Granted > 0
    \/ m = "STARTC2H" /\ SentC2H /\ ~TakenC2H
    \/ m = "PROCDONE" /\ SentDone /\ ~TakenDone

AtOutdb == call \in PcDoorbells /\ dsp = 5
OnWay(m) == AtOutdb /\ call = m /\ toFpga # <<>> 
InSlot(m) == (event \/ irq = "info") /\ msi.info = m
InPost(m) == irq = "post" /\ nInfo = m
InSem(m) == sem[m] = 1

\* A pending message is in one place, or it was lost with a hidden pulse.
MsgInv(m) ==
    /\ OnWay(m) \/ InSlot(m) \/ InPost(m) \/ InSem(m) => Pending(m)
    /\ Pending(m) => OnWay(m) \/ InSlot(m) \/ InPost(m) \/ InSem(m) \/ hidden > 0
    /\ ~(OnWay(m) /\ (InSlot(m) \/ InPost(m) \/ InSem(m)))
    /\ ~(InSlot(m) /\ (InPost(m) \/ InSem(m))) /\ ~(InPost(m) /\ InSem(m))

SlotInv ==
    /\ TakenC2H => SentC2H
    /\ TakenDone => SentDone
    /\ ~msi.err
    /\ (call \in PcDoorbells /\ dsp = 4) \/ (AtOutdb /\ toFpga # <<>>) => ~msi.busy
    /\ event => msi.busy
    /\ irq = "info" => msi.busy /\ ~event
    /\ hidden = 0 /\ msi.busy => event \/ irq = "info"
    /\ (irq = "none") <=> (pc = 0)
    /\ mapped <=> (pc > 0 /\ ~(nFrame = FRAME_NUM + 1 /\ pc = 5))

\* The doorbell the DSP waits for.
Out == IF Lag /\ pc = 5 THEN "PC_STARTREQ" ELSE IF OutPC THEN "SWFROMPC_DONE"
       ELSE IF call = "template" /\ dsp = 1 THEN "SWFROMFPGA_DONE" ELSE "none"
From(x) == IF x = "PC_STARTREQ" THEN "db" ELSE "sw"
NoSem == \A x \in DspDoorbells : dsem[x] = 0
OnlySem(y) == \A x \in DspDoorbells : dsem[x] = IF x = y THEN 1 ELSE 0

\* It is in one place, from the transfer it tells of to the semaphore.
TokenInv ==
    \/ /\ Out \notin {"none", "PC_STARTREQ"}
       /\ job # <<>> /\ toDsp = <<>> /\ inbound = <<>> /\ ~stat /\ NoSem
    \/ /\ Out # "none" /\ job = <<>> /\ toDsp = <<Doorbell(From(Out), Out)>>
       /\ inbound = <<>> /\ ~stat /\ NoSem
    \/ Out # "none" /\ job = <<>> /\ toDsp = <<>> /\ inbound = <<Out>> /\ stat /\ NoSem
    \/ Out # "none" /\ job = <<>> /\ toDsp = <<>> /\ inbound = <<>> /\ ~stat /\ OnlySem(Out)
    \/ /\ Out = "none" \/ (Out = "PC_STARTREQ" /\ hidden > 0)
       /\ job = <<>> /\ (toDsp = <<>> \/ AtOutdb) /\ inbound = <<>> /\ ~stat /\ NoSem

\* The response to a doorbell of the bridge that the bridge has not yet seen.
HasResp(f) == toFpga # <<>> /\ toFpga[1].type = "response" /\ toFpga[1].from = f

OutdbInv ==
    /\ toFpga # <<>> => HasResp("db") \/ HasResp("sw") \/ toFpga = <<Doorbell("dsp", call)>>
    /\ ~AtOutdb => /\ ~outdb /\ toFpga # <<Doorbell("dsp", call)>>
                   /\ toFpga = <<>> \/ toFpga = <<toFpga[1]>>
    /\ AtOutdb => \/ toFpga = <<>> /\ toDsp = <<Response(Doorbell("dsp", call))>> /\ ~outdb
                  \/ toFpga = <<>> /\ toDsp = <<>> /\ outdb
                  \/ toFpga = <<Doorbell("dsp", call)>> /\ toDsp = <<>> /\ ~outdb
                  \/ /\ HasResp("db") \/ HasResp("sw")
                     /\ toFpga = <<toFpga[1], Doorbell("dsp", call)>> /\ toDsp = <<>> /\ ~outdb

Busy(f) == HasResp(f) \/ (f = "sw" /\ job # <<>>) \/ (toDsp # <<>> /\ toDsp[1].from = f)

\* The busy bits, and where the DSP may be while they wait for a response.
CsrInv ==
    /\ \A f \in {"db", "sw"} : /\ Busy(f) => csr[f]
                               /\ csr[f] => Busy(f) \/ hidden > 0
    /\ csr.err => hidden > 0
    /\ HasResp("db") => call \in {"request", "STARTREQ"} /\ nFrame = 0 /\ pc = 5 /\ toDsp = <<>>
    /\ HasResp("sw") => /\ job = <<>> /\ toDsp = <<>>
                        /\ call \notin {"request", "STARTREQ", "seqInfo", "frame", "results",
                           "PROCDONE",
                                        "abort"}
                        /\ ~(call = "features" /\ dsp >= 2)
    /\ call \in SwCalls /\ dsp >= 2 => ~csr.sw /\ (nCsrVal <=> csr.db)
    /\ nFrame = 0 /\ pc = 4 => ~csr.db /\ (nTempPC.sw <=> csr.sw)
    /\ nFrame = 0 /\ pc = 2 => nTempPC = txinfo
    /\ txinfo.db = "PC_STARTREQ"

\* What the DSP has written to the registers it shares with the host.
RegInv ==
    /\ ~mode.nomsi
    /\ \/ call \in PcDoorbells \cup {"nwToPC", "nwToFPGA"} /\ dsp = 2
       \/ call \in SwCalls /\ dsp = 6
       => nTemp = mode
    /\ call \in SwCalls /\ dsp >= 3 => sw_dst = SwDst
    /\ call \in SwCalls /\ dsp = 4 => nTemp = txinfo
    /\ call \in SwCalls /\ dsp >= 5 => txinfo.sw = SwInfo
    /\ call \in SwCalls /\ dsp = 7 => (mode.sw <=> call = "features")
    /\ call = "nwToFPGA" /\ dsp = 3 => mode.nw
    /\ call = "STARTC2H" \/ (call = "results" /\ dsp = 1) => ~mode.nw

\* Every block is the right one, where it is.
This == Frame(run, frame - 1)
Tracking == InHw \/ call = "image" \/ (~HW_FHOG_MODE /\ frame > 0
  /\ call \in {"STARTH2C", "frame"})
JobDst == IF call = "info" THEN "seqInfo" ELSE IF call = "template" THEN "tmpl" ELSE
  rxBuf(m_nRxInd)

DataInv ==
    /\ pc > 0 /\ nFrame = 0 => src = SeqInfo(run)
    /\ nFrame \in 1 .. FRAME_NUM /\ pc >= 2 => src = Frame(run, nFrame - 1)
    /\ job # <<>> => /\ job = <<job[1]>> /\ (job[1].fromFPGA <=> call = "template")
                     /\ job[1].dst = JobDst /\ job[1].info = Out
    /\ call = "info" /\ job = <<>> => mem["seqInfo"] = SeqInfo(run)
    /\ OutPC /\ job = <<>> /\ call # "info" => mem[rxBuf(m_nRxInd)] = Frame(run, Waited - 1)
    /\ call = "flip" /\ dsp = 2 => mem[rxBuf(m_nRxInd)] = This
    /\ Tracking => mem[getOpBuf] = This
    /\ call = "fhog" => fpgaMem.block = This
    /\ (call = "fhog" /\ dsp = 2 /\ ~fpgaMem.busy) \/ call \in {"features", "template"}
       => fpgaMem.features = This
    /\ call = "template" /\ job = <<>> => mem["tmpl"] = This
    /\ fpgaMem.busy => call = "fhog" /\ dsp = 2 /\ dsem["FHOG"] = 0
    /\ dsem["FHOG"] # 0 => call = "fhog" /\ dsp = 2 /\ dsem["FHOG"] = 1

WdmaDone == (call = "results" /\ dsp = 2) \/ call = "PROCDONE" \/ (call = "request" /\ ~Lag)
Read == nFrame = FRAME_NUM + 1 /\ (pc = 0 \/ pc >= 3)

ResultInv ==
    /\ run = 0 => pc = 0 /\ call = "request"
    /\ used = IF call = "result" \/ again THEN {This} ELSE {}
    /\ Len(tracked) = IF run = 0 \/ Lag \/ frame = 0 THEN 0 ELSE frame - 1
    /\ c2h = IF WdmaDone /\ ~Read THEN tracked ELSE <<>>
    /\ results = IF Read THEN tracked ELSE <<>>
    /\ Read => WdmaDone

Mode == [nomsi : BOOLEAN, sw : BOOLEAN, nw : BOOLEAN]
Csr == [db : BOOLEAN, sw : BOOLEAN, err : BOOLEAN]

TypeInv ==
    /\ HW_FHOG_MODE \in BOOLEAN
    /\ run \in 0 .. SEQUENCES /\ hidden \in Nat /\ mapped \in BOOLEAN /\ h2c \in BOOLEAN
    /\ sem \in [PcDoorbells -> 0 .. 1] /\ dsem \in [DspDoorbells \cup {"FHOG"} -> 0 .. 1]
    /\ irq \in {"none", "read", "info", "post"} /\ nInfo \in PcDoorbells /\ event \in BOOLEAN
    /\ csr \in Csr /\ mode \in Mode /\ txinfo \in TxInfo
    /\ msi \in [busy : BOOLEAN, info : PcDoorbells, err : BOOLEAN]
    /\ nCsrVal \in BOOLEAN /\ outdb \in BOOLEAN /\ stat \in BOOLEAN /\ m_nRxInd \in 0 .. 1
    /\ DOMAIN mem = {"seqInfo", "rxBuf0", "rxBuf1", "tmpl"}
    /\ tracked \in Seq(SUBSET [run : Int, part : Int])

IInv ==
    /\ TypeInv /\ HostPlaced /\ DspPlaced /\ CountInv /\ SlotInv /\ TokenInv /\ OutdbInv
    /\ CsrInv /\ RegInv /\ DataInv /\ ResultInv
    /\ \A m \in PcDoorbells : MsgInv(m)

-----------------------------------------------------------------------------
(* Sequences of one and of two.                                            *)

LEMMA One == ASSUME NEW s, s = <<s[1]>> PROVE Head(s) = s[1] /\ Tail(s) = <<>> /\ s # <<>>
<1>1. \A x : s = <<x>> => Head(s) = x /\ Tail(s) = <<>> /\ s # <<>> OBVIOUS
<1> QED BY <1>1, Zenon

LEMMA Two ==
    ASSUME NEW s, NEW y, s = <<s[1], y>>
    PROVE  Head(s) = s[1] /\ Tail(s) = <<y>> /\ s # <<>>
<1>1. \A x : s = <<x, y>> => Head(s) = x /\ Tail(s) = <<y>> /\ s # <<>> OBVIOUS
<1> QED BY <1>1, Zenon

LEMMA AppendToOne == \A x, y : Append(<<x>>, y) = <<x, y>>
<1> TAKE x, y
<1>1. Append(<<x>>, y) = [i \in 1 .. 2 |-> IF i = 1 THEN x ELSE y]
  <2>1. <<x>> \in Seq({x, y}) /\ Len(<<x>>) = 1 OBVIOUS
  <2> QED BY <2>1
<1>2. <<x, y>> = [i \in 1 .. 2 |-> IF i = 1 THEN x ELSE y] OBVIOUS
<1> QED BY <1>1, <1>2, Zenon

LEMMA AppendOne == ASSUME NEW s, NEW y, s = <<s[1]>> PROVE Append(s, y) = <<s[1], y>>
<1>1. Append(<<s[1]>>, y) = <<s[1], y>> BY AppendToOne, Zenon
<1> QED BY <1>1, Zenon

-----------------------------------------------------------------------------
(* Where the two programs are when they are at a line.                     *)

LEMMA DbProgram == ASSUME call \in PcDoorbells PROVE MainTskFxn = startTxDbWithMSI
<1>1. CASE call = "STARTREQ" BY <1>1, Zenon DEF MainTskFxn, PcDoorbells, SwCalls
<1>2. CASE call = "STARTH2C" BY <1>2, Zenon DEF MainTskFxn, PcDoorbells, SwCalls
<1>3. CASE call = "STARTC2H" BY <1>3, Zenon DEF MainTskFxn, PcDoorbells, SwCalls
<1>4. CASE call = "PROCDONE" BY <1>4, Zenon DEF MainTskFxn, PcDoorbells, SwCalls
<1> QED BY <1>1, <1>2, <1>3, <1>4 DEF PcDoorbells

LEMMA SwProgram == ASSUME call \in SwCalls PROVE MainTskFxn = startSwTx
  BY Zenon DEF MainTskFxn, PcDoorbells, SwCalls

LEMMA OtherProgram ==
    /\ call = "request" => MainTskFxn = <<"PC_STARTREQ">>
    /\ call = "info" => MainTskFxn = <<"SWFROMPC_DONE", "init">>
    /\ call = "flip" => MainTskFxn = <<"SWFROMPC_DONE", "flipIndex">>
    /\ call = "nwToFPGA" => MainTskFxn = <<"modeRead", "modeWrite", "wdma">>
    /\ call = "fhog" => MainTskFxn = <<"startHwFhog", "FHOG">>
    /\ call = "template" => MainTskFxn = <<"SWFROMFPGA_DONE", "use">>
    /\ call = "image" => MainTskFxn = <<"use">>
    /\ call = "result" => MainTskFxn = <<"result">>
    /\ call = "nwToPC" => MainTskFxn = <<"modeRead", "modeWrite">>
    /\ call = "results" => MainTskFxn = <<"wdma", "deinit">>
<1>1. call = "request" => MainTskFxn = <<"PC_STARTREQ">>
  BY Zenon DEF MainTskFxn, PcDoorbells, SwCalls
<1>2. call = "info" => MainTskFxn = <<"SWFROMPC_DONE", "init">>
  BY Zenon DEF MainTskFxn, PcDoorbells, SwCalls
<1>3. call = "flip" => MainTskFxn = <<"SWFROMPC_DONE", "flipIndex">>
  BY Zenon DEF MainTskFxn, PcDoorbells, SwCalls
<1>4. call = "nwToFPGA" => MainTskFxn = <<"modeRead", "modeWrite", "wdma">>
  BY Zenon DEF MainTskFxn, PcDoorbells, SwCalls
<1>5. call = "fhog" => MainTskFxn = <<"startHwFhog", "FHOG">>
  BY Zenon DEF MainTskFxn, PcDoorbells, SwCalls
<1>6. call = "template" => MainTskFxn = <<"SWFROMFPGA_DONE", "use">>
  BY Zenon DEF MainTskFxn, PcDoorbells, SwCalls, getFeatures
<1>7. call = "image" => MainTskFxn = <<"use">> BY Zenon DEF MainTskFxn, PcDoorbells, SwCalls
<1>8. call = "result" => MainTskFxn = <<"result">> BY Zenon DEF MainTskFxn, PcDoorbells, SwCalls
<1>9. call = "nwToPC" => MainTskFxn = <<"modeRead", "modeWrite">>
  BY Zenon DEF MainTskFxn, PcDoorbells, SwCalls
<1>10. call = "results" => MainTskFxn = <<"wdma", "deinit">>
  BY Zenon DEF MainTskFxn, PcDoorbells, SwCalls
<1> QED BY <1>1, <1>2, <1>3, <1>4, <1>5, <1>6, <1>7, <1>8, <1>9, <1>10

LEMMA DspLength == ASSUME DspPlaced, call # "abort" PROVE Len(MainTskFxn) = Lines
<1>1. CASE call \in PcDoorbells BY <1>1, DbProgram DEF startTxDbWithMSI, Lines
<1>2. CASE call \in SwCalls BY <1>2, SwProgram DEF startSwTx, Lines, PcDoorbells, SwCalls
<1>3. CASE call \notin PcDoorbells \cup SwCalls
  BY <1>3, OtherProgram DEF Lines, DspPlaced, Calls
<1> QED BY <1>1, <1>2, <1>3

DspTable ==
    /\ DspAt("modeRead") => \/ call \in PcDoorbells \cup {"nwToFPGA", "nwToPC"} /\ dsp = 1
                            \/ call \in SwCalls /\ dsp = 5
    /\ DspAt("modeWrite") => \/ call \in PcDoorbells \cup {"nwToFPGA", "nwToPC"} /\ dsp = 2
                             \/ call \in SwCalls /\ dsp = 6
    /\ DspAt("msiFree") => call \in PcDoorbells /\ dsp = 3
    /\ DspAt("sendDB") => call \in PcDoorbells /\ dsp = 4
    /\ DspAt("outdb") <=> (call \in PcDoorbells /\ dsp = 5)
    /\ DspAt("csrRead") => call \in SwCalls /\ dsp = 1
    /\ DspAt("params") => call \in SwCalls /\ dsp = 2
    /\ DspAt("infoRead") => call \in SwCalls /\ dsp = 3
    /\ DspAt("infoWrite") => call \in SwCalls /\ dsp = 4
    /\ DspAt("csrWrite") => call \in SwCalls /\ dsp = 7
    /\ DspAt("wdma") => (call = "nwToFPGA" /\ dsp = 3) \/ (call = "results" /\ dsp = 1)
    /\ DspAt("startHwFhog") => call = "fhog" /\ dsp = 1
    /\ DspAt("use") => (call = "template" /\ dsp = 2) \/ (call = "image" /\ dsp = 1)
    /\ DspAt("result") => call = "result" /\ dsp = 1
    /\ DspAt("init") => call = "info" /\ dsp = 2
    /\ DspAt("deinit") => call = "results" /\ dsp = 2
    /\ DspAt("flipIndex") => call = "flip" /\ dsp = 2
    /\ DspAt("PC_STARTREQ") => call = "request" /\ dsp = 1
    /\ DspAt("SWFROMPC_DONE") => call \in {"info", "flip"} /\ dsp = 1
    /\ DspAt("SWFROMFPGA_DONE") => call = "template" /\ dsp = 1
    /\ DspAt("FHOG") => call = "fhog" /\ dsp = 2

LEMMA DspLines == ASSUME DspPlaced PROVE DspTable
<1>0. CASE call = "abort" BY <1>0 DEF DspAt, DspTable, PcDoorbells
<1>1. CASE call \in PcDoorbells
  <2>1. MainTskFxn = startTxDbWithMSI BY <1>1, DbProgram
  <2>2. dsp \in 1 .. 5 BY <1>1 DEF DspPlaced, Lines
  <2> QED BY <1>1, <2>1, <2>2 DEF DspAt, DspTable, startTxDbWithMSI, PcDoorbells, SwCalls
<1>2. CASE call \in SwCalls
  <2>1. MainTskFxn = startSwTx BY <1>2, SwProgram
  <2>2. dsp \in 1 .. 7 BY <1>2 DEF DspPlaced, Lines, SwCalls, PcDoorbells
  <2> QED BY <1>2, <2>1, <2>2 DEF DspAt, DspTable, startSwTx, SwCalls, PcDoorbells
<1>3. CASE call \in Calls \ (PcDoorbells \cup SwCalls)
  <2>1. dsp \in 1 .. Lines BY DEF DspPlaced
  <2> QED BY <1>3, <2>1, OtherProgram DEF DspAt, DspTable, Lines, Calls, PcDoorbells, SwCalls
<1> QED BY <1>0, <1>1, <1>2, <1>3 DEF DspPlaced

HostTable ==
    /\ HostAt("infoRead") => nFrame = 0 /\ pc = 1
    /\ HostAt("infoWrite") => nFrame = 0 /\ pc = 2
    /\ HostAt("csrRead") => nFrame = 0 /\ pc = 3
    /\ HostAt("csrWrite") => nFrame = 0 /\ pc = 4
    /\ HostAt("STARTREQ") => nFrame = 0 /\ pc = 5
    /\ HostAt("load") => nFrame \in 1 .. FRAME_NUM /\ pc = 1
    /\ HostAt("STARTH2C") => nFrame \in 1 .. FRAME_NUM /\ pc = 2
    /\ HostAt("write") => (nFrame = 0 /\ pc = 6) \/ (nFrame \in 1 .. FRAME_NUM /\ pc = 3)
    /\ HostAt("written") => (nFrame = 0 /\ pc = 7) \/ (nFrame \in 1 .. FRAME_NUM /\ pc = 4)
    /\ HostAt("STARTC2H") => nFrame = FRAME_NUM + 1 /\ pc = 1
    /\ HostAt("startC2H") => nFrame = FRAME_NUM + 1 /\ pc = 2
    /\ HostAt("PROCDONE") => nFrame = FRAME_NUM + 1 /\ pc = 3
    /\ HostAt("unmap") => nFrame = FRAME_NUM + 1 /\ pc = 4
    /\ HostAt("cancel") => nFrame = FRAME_NUM + 1 /\ pc = 5

LEMMA HostProgram ==
    ASSUME HostPlaced, FRAME_NUM \in Nat \ {0}
    PROVE  HostTable /\ Len(Host) = HostLines
<1>0. nFrame \in Int /\ pc \in Int BY DEF HostPlaced, HostLines
<1>1. CASE nFrame = 0
  <2>1. Host = HostRequest BY <1>1 DEF Host
  <2>2. pc \in 0 .. 7 BY <1>1 DEF HostPlaced, HostLines
  <2> QED BY <1>1, <2>1, <2>2 DEF HostTable, HostAt, HostRequest, HostLines
<1>2. CASE nFrame \in 1 .. FRAME_NUM
  <2>1. Host = HostFrame BY <1>2 DEF Host
  <2>2. pc \in 0 .. 4 BY <1>2 DEF HostPlaced, HostLines
  <2> QED BY <1>2, <2>1, <2>2 DEF HostTable, HostAt, HostFrame, HostLines
<1>3. CASE nFrame = FRAME_NUM + 1
  <2>1. Host = HostEnd BY <1>3 DEF Host
  <2>2. pc \in 0 .. 5 BY <1>3 DEF HostPlaced, HostLines
  <2> QED BY <1>3, <2>1, <2>2 DEF HostTable, HostAt, HostEnd, HostLines
<1> QED BY <1>0, <1>1, <1>2, <1>3 DEF HostPlaced

-----------------------------------------------------------------------------
(* The initial states, and a step that changes nothing.                    *)

\* kcf_dsp is not running and MainTskFxn waits for it: all counts are at their ends.
LEMMA InitIInv == Init => IInv
<1> SUFFICES ASSUME Init PROVE IInv OBVIOUS
<1>1. /\ call = "request" /\ ~Lag /\ ~OutPC /\ Out = "none" /\ ~AtOutdb /\ ~InHw
      /\ FRAME_NUM \in Nat \ {0}
  BY LinkAssumption DEF Init, Lag, OutPC, Out, AtOutdb, InHw, PcDoorbells
<1>2. TypeInv
  <2>1. again = FALSE /\ HW_FHOG_MODE \in BOOLEAN BY LinkAssumption DEF Init
  <2>2. /\ mapped \in BOOLEAN /\ event \in BOOLEAN /\ h2c \in BOOLEAN /\ nCsrVal \in BOOLEAN
        /\ outdb \in BOOLEAN /\ stat \in BOOLEAN
    BY Zenon DEF Init
  <2>3. csr \in Csr /\ mode \in Mode /\ msi \in [busy : BOOLEAN, info : PcDoorbells, err :
        BOOLEAN]
    BY DEF Init, Csr, Mode, PcDoorbells
  <2>4. run \in 0 .. SEQUENCES BY LinkAssumption DEF Init
  <2>5. /\ sem \in [PcDoorbells -> 0 .. 1] /\ dsem \in [DspDoorbells \cup {"FHOG"} -> 0 .. 1]
        /\ txinfo \in TxInfo /\ DOMAIN mem = {"seqInfo", "rxBuf0", "rxBuf1", "tmpl"}
    BY DEF Init, TxInfo, Infos, PcDoorbells, DspDoorbells
  <2>6. tracked \in Seq(SUBSET [run : Int, part : Int]) BY DEF Init
  <2> QED BY <2>1, <2>2, <2>3, <2>4, <2>5, <2>6 DEF Init, TypeInv, PcDoorbells
<1>3. HostPlaced
  BY LinkAssumption, <1>1 DEF Init, HostPlaced, HostLines
<1>4. DspPlaced
  <2>1. again \in BOOLEAN /\ ~again BY Zenon DEF Init
  <2>2. call = "request" /\ dsp = 1 /\ frame = FRAME_NUM + 1 BY DEF Init
  <2> QED BY <1>1, <2>1, <2>2 DEF DspPlaced, Lines, InHw, Calls, PcDoorbells, SwCalls
<1>5. CountInv
  BY LinkAssumption, <1>1 DEF Init, CountInv, InWrite, Written, Granted, Waited, Past, OutPC,
    Asked, Asking, Lag, InHw, HostPlaced, HostLines, DspPlaced
<1>6. SlotInv
  BY LinkAssumption, <1>1 DEF Init, SlotInv, TakenC2H, SentC2H, TakenDone, SentDone, Lag, AtOutdb,
    PcDoorbells, SwCalls
<1>7. TokenInv
  BY LinkAssumption, <1>1 DEF Init, TokenInv, Out, OutPC, Lag, From, NoSem, OnlySem, AtOutdb,
    Doorbell, DspDoorbells
<1>8. OutdbInv
  BY LinkAssumption, <1>1 DEF Init, OutdbInv, HasResp, AtOutdb, Doorbell, Response, PcDoorbells
<1>9. CsrInv
  BY LinkAssumption, <1>1 DEF Init, CsrInv, Busy, HasResp, SwCalls, Doorbell
<1>10. RegInv
  BY LinkAssumption, <1>1 DEF Init, RegInv, SwDst, SwInfo, rxBuf, SwCalls, PcDoorbells
<1>11. DataInv
  BY LinkAssumption, <1>1 DEF Init, DataInv, Tracking, JobDst, This, OutPC, Waited, Past, Out,
    Lag, InHw, rxBuf, getOpBuf, Frame, SeqInfo
<1>12. ResultInv
  BY LinkAssumption, <1>1 DEF Init, ResultInv, WdmaDone, Read, Lag, InHw, This, Frame
<1>13. ASSUME NEW m \in PcDoorbells PROVE MsgInv(m)
  <2>1. Granted = FRAME_NUM + 1 /\ Asked = FRAME_NUM + 1 /\ TakenC2H /\ TakenDone
    BY <1>1 DEF Init, Granted, Asked, Asking, Waited, Past, TakenC2H, TakenDone, PcDoorbells
  <2>2. ~Pending(m) BY <1>1, <2>1 DEF Pending
  <2> QED BY <1>1, <2>2 DEF Init, MsgInv, OnWay, InSlot, InPost, InSem
<1> QED BY <1>2, <1>3, <1>4, <1>5, <1>6, <1>7, <1>8, <1>9, <1>10, <1>11, <1>12, <1>13 DEF IInv

\* A step that changes nothing.
LEMMA StutterStep ==
    ASSUME IInv, UNCHANGED vars
    PROVE  IInv'
<1>0. /\ TypeInv /\ HostPlaced /\ DspPlaced /\ CountInv /\ SlotInv /\ TokenInv /\ OutdbInv
      /\ CsrInv /\ RegInv /\ DataInv /\ ResultInv /\ FRAME_NUM \in Nat \ {0}
  BY LinkAssumption DEF IInv
<1>1. UNCHANGED <<HW_FHOG_MODE, pcVars, sem, irqVars, h2c, c2h, regs, msi, job, links, place,
  nTemp, nCsrVal, m_nRxInd, used, dsem, srio, mem, fpgaMem, tracked, hidden>>
  BY DEF vars, pcVars, irqVars, regs, links, place, task, srio
<1> USE DEF pcVars, irqVars, regs, links, place, task, srio
<1>2. Lag' = Lag /\ Waited' = Waited /\ OutPC' = OutPC /\ Asked' = Asked
      /\ SentC2H' = SentC2H /\ SentDone' = SentDone
  BY <1>1 DEF Lag, Waited, OutPC, Asked, Past, Asking, InHw, SentC2H, SentDone
<1>3. TypeInv'
  BY <1>0, <1>1 DEF TypeInv
<1>4. HostPlaced'
  BY <1>0, <1>1 DEF HostPlaced, HostLines
<1>5. DspPlaced'
  BY <1>0, <1>1 DEF DspPlaced, Lines, InHw
<1>6. CountInv'
  BY <1>0, <1>1, <1>2 DEF CountInv, InWrite, Written, Granted, HostPlaced, HostLines
<1>7. SlotInv'
  BY <1>0, <1>1 DEF SlotInv, TakenC2H, SentC2H, TakenDone, SentDone, Lag, AtOutdb, PcDoorbells,
    SwCalls
<1>8. TokenInv'
  BY <1>0, <1>1 DEF TokenInv, Out, OutPC, Lag, From, NoSem, OnlySem, AtOutdb, Doorbell,
    DspDoorbells
<1>9. OutdbInv'
  BY <1>0, <1>1 DEF OutdbInv, HasResp, AtOutdb
<1>10. CsrInv'
  BY <1>0, <1>1 DEF CsrInv, Busy, HasResp
<1>11. RegInv'
  BY <1>0, <1>1 DEF RegInv, SwDst, SwInfo
<1>12. DataInv'
  BY <1>0, <1>1 DEF DataInv, Tracking, JobDst, This, OutPC, Waited, Past, Out, Lag, InHw, rxBuf,
    getOpBuf, Frame, SeqInfo
<1>13. ResultInv'
  BY <1>0, <1>1 DEF ResultInv, WdmaDone, Read, Lag, InHw, This, Frame
<1>14. ASSUME NEW m \in PcDoorbells PROVE MsgInv(m)'
  <2>1. MsgInv(m) BY DEF IInv
  <2> QED BY <1>1, <1>2, <2>1 DEF MsgInv, Pending, OnWay, InSlot, InPost, InSem, AtOutdb, Granted,
    TakenC2H, TakenDone, SlotInv, TypeInv
<1> QED BY <1>3, <1>4, <1>5, <1>6, <1>7, <1>8, <1>9, <1>10, <1>11, <1>12, <1>13, <1>14 DEF IInv

-----------------------------------------------------------------------------
(* The main thread of kcf_dsp.                                             *)

\* While the host asks for a sequence the DSP waits and nothing is under way.
LEMMA Requesting ==
    ASSUME IInv, nFrame = 0, pc \in 1 .. 4
    PROVE  /\ call = "request" /\ job = <<>> /\ toDsp = <<>> /\ toFpga = <<>> /\ inbound = <<>>
           /\ ~stat /\ NoSem /\ (csr.db \/ csr.sw => hidden > 0)
<1>1. call = "request" BY DEF IInv, CountInv
<1>2. ~AtOutdb /\ Out = "none" BY <1>1 DEF AtOutdb, Out, OutPC, Lag, PcDoorbells
<1>3. job = <<>> /\ toDsp = <<>> /\ inbound = <<>> /\ ~stat /\ NoSem BY <1>2 DEF IInv, TokenInv
<1>4. toFpga = <<>> BY <1>1, <1>2 DEF IInv, OutdbInv, CsrInv
<1>5. csr.db \/ csr.sw => hidden > 0 BY <1>3, <1>4 DEF IInv, CsrInv, Busy, HasResp
<1> QED BY <1>1, <1>3, <1>4, <1>5

\* A run begins: it has taken PROCDONE of the last one, so nothing of that is pending.
LEMMA HostInitStep ==
    ASSUME IInv, HostInit
    PROVE  IInv'
<1>0. /\ TypeInv /\ HostPlaced /\ DspPlaced /\ CountInv /\ SlotInv /\ TokenInv /\ OutdbInv
      /\ CsrInv /\ RegInv /\ DataInv /\ ResultInv /\ FRAME_NUM \in Nat \ {0}
  BY LinkAssumption DEF IInv
<1>1. /\ pc = 0 /\ run < SEQUENCES /\ ~DspAt("outdb")
      /\ run' = run + 1 /\ pc' = 1 /\ nFrame' = 0 /\ src' = SeqInfo(run + 1)
      /\ sem' = [i \in PcDoorbells |-> 0] /\ results' = <<>> /\ tracked' = <<>>
      /\ mapped' = TRUE /\ irq' = "read"
      /\ UNCHANGED <<HW_FHOG_MODE, nTempPC, nInfo, event, h2c, c2h, regs, msi, job, links,
        place, nTemp, nCsrVal, m_nRxInd, used, dsem, srio, mem, fpgaMem, hidden>>
  BY DEF HostInit, pcVars, irqVars, regs, links, place, task, srio
<1> USE DEF pcVars, irqVars, regs, links, place, task, srio
<1>2. nFrame = FRAME_NUM + 1 /\ TakenDone /\ TakenC2H
  BY <1>0, <1>1 DEF HostPlaced, TakenDone, TakenC2H
<1>3. ~AtOutdb
  BY <1>0, <1>1, DspLines DEF DspTable, AtOutdb
<1>4. call = "request" /\ ~Lag /\ ~AtOutdb /\ dsp = 1 /\ frame = FRAME_NUM + 1 /\ ~again
  BY <1>0, <1>2, <1>3 DEF SlotInv, SentDone, Lag, AtOutdb, DspPlaced, InHw, Lines, PcDoorbells,
    SwCalls
<1>5. Asked = FRAME_NUM + 1 /\ Granted = FRAME_NUM + 1 /\ Out = "none"
  BY <1>0, <1>2, <1>4 DEF Asked, Waited, Granted, OutPC, Asking, Past, InHw, Out, PcDoorbells,
    SwCalls
<1>6. Lag' /\ Asked' = 0 /\ Granted' = 0 /\ Out' = "none"
  BY <1>1, <1>4 DEF Lag, Asked, Waited, Granted, OutPC, Asking, Out, PcDoorbells, SwCalls
<1>7. mapped' \in BOOLEAN /\ mapped'
  BY <1>1, Zenon
<1>8. TypeInv'
  BY <1>0, <1>1, LinkAssumption DEF TypeInv
<1>9. HostPlaced'
  BY <1>0, <1>1 DEF HostPlaced, HostLines
<1>10. DspPlaced'
  BY <1>0, <1>1 DEF DspPlaced, Lines, InHw
<1>11. CountInv'
  BY <1>0, <1>1, <1>4 DEF CountInv, InWrite, Written, Granted, Waited, Past, OutPC, Asked, Asking,
    Lag, InHw, HostPlaced, HostLines, DspPlaced
<1>12. SlotInv'
  <2>1. ~TakenC2H' /\ ~TakenDone' BY <1>1 DEF TakenC2H, TakenDone
  <2>2. mapped' <=> (pc' > 0 /\ ~(nFrame' = FRAME_NUM + 1 /\ pc' = 5)) BY <1>1
  <2>3. ~(call \in PcDoorbells) BY <1>4 DEF PcDoorbells
  <2>4. irq = "none" BY <1>0, <1>1 DEF SlotInv
  <2> QED BY <1>0, <1>1, <2>1, <2>2, <2>3, <2>4 DEF SlotInv, AtOutdb
<1>13. TokenInv'
  BY <1>0, <1>1 DEF TokenInv, Out, OutPC, NoSem, OnlySem, AtOutdb, Doorbell, DspDoorbells
<1>14. OutdbInv'
  BY <1>0, <1>1 DEF OutdbInv, HasResp, AtOutdb
<1>15. CsrInv'
  BY <1>0, <1>1 DEF CsrInv, Busy, HasResp
<1>16. RegInv'
  BY <1>0, <1>1 DEF RegInv, SwDst, SwInfo
<1>17. DataInv'
  BY <1>0, <1>1, <1>4 DEF DataInv, Tracking, JobDst, This, OutPC, Waited, Past, Out, Lag, InHw,
    rxBuf, getOpBuf, Frame, SeqInfo
<1>18. ResultInv'
  BY <1>0, <1>1, <1>2, <1>4 DEF ResultInv, Read, Lag, InHw, This, Frame, TypeInv
<1>19. ASSUME NEW m \in PcDoorbells PROVE MsgInv(m)'
  <2>1. MsgInv(m) BY DEF IInv
  <2>2. ~Pending(m) BY <1>2, <1>5 DEF Pending
  <2>3. ~Pending(m)' BY <1>1, <1>4, <1>6 DEF Pending, SentC2H, SentDone, PcDoorbells
  <2> QED BY <1>1, <2>1, <2>2, <2>3 DEF MsgInv, OnWay, InSlot, InPost, InSem, AtOutdb
<1> QED BY <1>8, <1>9, <1>10, <1>11, <1>12, <1>13, <1>14, <1>15, <1>16, <1>17, <1>18, <1>19
  DEF IInv

\* main reads DB_TXINFO: nobody else writes it until the doorbell is sent.
LEMMA HostInfoReadStep ==
    ASSUME IInv, HostRegs, HostAt("infoRead")
    PROVE  IInv'
<1>0. /\ TypeInv /\ HostPlaced /\ DspPlaced /\ CountInv /\ SlotInv /\ TokenInv /\ OutdbInv
      /\ CsrInv /\ RegInv /\ DataInv /\ ResultInv /\ FRAME_NUM \in Nat \ {0}
  BY LinkAssumption DEF IInv
<1>t. HostTable /\ Len(Host) = HostLines BY <1>0, HostProgram
<1>1. nFrame = 0 /\ pc = 1 BY <1>t DEF HostTable
<1>2. ~HostAt("infoWrite") /\ ~HostAt("csrRead") /\ ~HostAt("csrWrite")
  BY <1>t DEF HostTable
<1>3. /\ nTempPC' = txinfo
      /\ HostNext
      /\ UNCHANGED <<HW_FHOG_MODE, run, src, mapped, results, sem, irqVars, h2c, c2h, regs, msi,
        job, links, place, nTemp, nCsrVal, m_nRxInd, used, dsem, srio, mem, fpgaMem, tracked,
        hidden>>
  BY <1>2 DEF HostRegs, irqVars, regs, links, place, task, srio
<1>4. nFrame' = 0 /\ pc' = 2
  BY <1>1, <1>3, <1>t DEF HostNext, HostLines
<1> USE DEF pcVars, irqVars, regs, links, place, task, srio
<1>5. TypeInv'
  BY <1>0, <1>3 DEF TypeInv
<1>6. HostPlaced'
  BY <1>0, <1>4 DEF HostPlaced, HostLines
<1>7. DspPlaced'
  BY <1>0, <1>3 DEF DspPlaced, Lines, InHw
<1>8. CountInv'
  BY <1>0, <1>1, <1>3, <1>4 DEF CountInv, InWrite, Written, Granted, Waited, Past, OutPC, Asked,
    Asking, Lag, InHw, HostPlaced, HostLines, DspPlaced
<1>9. SlotInv'
  BY <1>0, <1>1, <1>3, <1>4 DEF SlotInv, TakenC2H, SentC2H, TakenDone, SentDone, Lag, AtOutdb,
    PcDoorbells, SwCalls
<1>10. TokenInv'
  BY <1>0, <1>1, <1>3, <1>4 DEF TokenInv, Out, OutPC, NoSem, OnlySem, AtOutdb, Doorbell,
    DspDoorbells
<1>11. OutdbInv'
  BY <1>0, <1>3 DEF OutdbInv, HasResp, AtOutdb
<1>12. CsrInv'
  BY <1>0, <1>1, <1>3, <1>4 DEF CsrInv, Busy, HasResp
<1>13. RegInv'
  BY <1>0, <1>3 DEF RegInv, SwDst, SwInfo
<1>14. DataInv'
  BY <1>0, <1>1, <1>3, <1>4 DEF DataInv, Tracking, JobDst, This, OutPC, Waited, Past, Out, Lag,
    InHw, rxBuf, getOpBuf, Frame, SeqInfo
<1>15. ResultInv'
  BY <1>0, <1>1, <1>3, <1>4 DEF ResultInv, WdmaDone, Read, Lag, InHw, This, Frame
<1>16. ASSUME NEW m \in PcDoorbells PROVE MsgInv(m)'
  <2>1. MsgInv(m) BY DEF IInv
  <2> QED BY <1>0, <1>1, <1>3, <1>4, <2>1 DEF MsgInv, Pending, OnWay, InSlot, InPost, InSem,
    AtOutdb, Asked, Granted, Asking, OutPC, Waited, Past, Lag, InHw, SentC2H, TakenC2H, SentDone,
    TakenDone, PcDoorbells
<1> QED BY <1>5, <1>6, <1>7, <1>8, <1>9, <1>10, <1>11, <1>12, <1>13, <1>14, <1>15, <1>16 DEF IInv

\* What it writes is what is there: db never changes, sw is the value just read.
LEMMA HostInfoWriteStep ==
    ASSUME IInv, HostRegs, HostAt("infoWrite")
    PROVE  IInv'
<1>0. /\ TypeInv /\ HostPlaced /\ DspPlaced /\ CountInv /\ SlotInv /\ TokenInv /\ OutdbInv
      /\ CsrInv /\ RegInv /\ DataInv /\ ResultInv /\ FRAME_NUM \in Nat \ {0}
  BY LinkAssumption DEF IInv
<1>t. HostTable /\ Len(Host) = HostLines BY <1>0, HostProgram
<1>1. nFrame = 0 /\ pc = 2 BY <1>t DEF HostTable
<1>2. ~HostAt("infoRead") /\ ~HostAt("csrRead") /\ ~HostAt("csrWrite")
  BY <1>t DEF HostTable
<1>3. /\ txinfo' = [nTempPC EXCEPT !.db = "PC_STARTREQ"]
      /\ HostNext
      /\ UNCHANGED <<HW_FHOG_MODE, run, nTempPC, src, mapped, results, sem, irqVars, h2c, c2h,
        csr, mode, sw_dst, msi, job, links, place, nTemp, nCsrVal, m_nRxInd, used, dsem, srio,
        mem, fpgaMem, tracked, hidden>>
  BY <1>2 DEF HostRegs, links, place, task, srio
<1>4. nFrame' = 0 /\ pc' = 3
  BY <1>1, <1>3, <1>t DEF HostNext, HostLines
<1> USE DEF pcVars, irqVars, regs, links, place, task, srio
<1>5. txinfo' = txinfo
  BY <1>0, <1>1, <1>3 DEF CsrInv, TypeInv, TxInfo
<1>6. TypeInv'
  BY <1>0, <1>3, <1>5 DEF TypeInv
<1>7. HostPlaced'
  BY <1>0, <1>4 DEF HostPlaced, HostLines
<1>8. DspPlaced'
  BY <1>0, <1>3 DEF DspPlaced, Lines, InHw
<1>9. CountInv'
  BY <1>0, <1>1, <1>3, <1>4 DEF CountInv, InWrite, Written, Granted, Waited, Past, OutPC, Asked,
    Asking, Lag, InHw, HostPlaced, HostLines, DspPlaced
<1>10. SlotInv'
  BY <1>0, <1>1, <1>3, <1>4 DEF SlotInv, TakenC2H, SentC2H, TakenDone, SentDone, Lag, AtOutdb,
    PcDoorbells, SwCalls
<1>11. TokenInv'
  BY <1>0, <1>1, <1>3, <1>4 DEF TokenInv, Out, OutPC, NoSem, OnlySem, AtOutdb, Doorbell,
    DspDoorbells
<1>12. OutdbInv'
  BY <1>0, <1>3 DEF OutdbInv, HasResp, AtOutdb
<1>13. CsrInv'
  BY <1>0, <1>1, <1>3, <1>4 DEF CsrInv, Busy, HasResp
<1>14. RegInv'
  BY <1>0, <1>3, <1>5 DEF RegInv, SwDst, SwInfo
<1>15. DataInv'
  BY <1>0, <1>1, <1>3, <1>4 DEF DataInv, Tracking, JobDst, This, OutPC, Waited, Past, Out, Lag,
    InHw, rxBuf, getOpBuf, Frame, SeqInfo
<1>16. ResultInv'
  BY <1>0, <1>1, <1>3, <1>4 DEF ResultInv, WdmaDone, Read, Lag, InHw, This, Frame
<1>17. ASSUME NEW m \in PcDoorbells PROVE MsgInv(m)'
  <2>1. MsgInv(m) BY DEF IInv
  <2> QED BY <1>1, <1>3, <1>4, <2>1 DEF MsgInv, Pending, OnWay, InSlot, InPost, InSem, AtOutdb,
    Asked, Granted, Asking, OutPC, Waited, Past, Lag, InHw, SentC2H, TakenC2H, SentDone,
    TakenDone, PcDoorbells
<1> QED BY <1>6, <1>7, <1>8, <1>9, <1>10, <1>11, <1>12, <1>13, <1>14, <1>15, <1>16, <1>17 DEF IInv

\* main reads SRIO_CSR: a busy bit can only be one that a hidden pulse left set.
LEMMA HostCsrReadStep ==
    ASSUME IInv, HostRegs, HostAt("csrRead")
    PROVE  IInv'
<1>0. /\ TypeInv /\ HostPlaced /\ DspPlaced /\ CountInv /\ SlotInv /\ TokenInv /\ OutdbInv
      /\ CsrInv /\ RegInv /\ DataInv /\ ResultInv /\ FRAME_NUM \in Nat \ {0}
  BY LinkAssumption DEF IInv
<1>t. HostTable /\ Len(Host) = HostLines BY <1>0, HostProgram
<1>1. nFrame = 0 /\ pc = 3 BY <1>t DEF HostTable
<1>2. ~HostAt("infoWrite") /\ ~HostAt("infoRead") /\ ~HostAt("csrWrite")
  BY <1>t DEF HostTable
<1>3. /\ nTempPC' = csr /\ pc' = IF csr.db THEN pc + 2 ELSE pc + 1
      /\ UNCHANGED <<HW_FHOG_MODE, run, nFrame, src, mapped, results, sem, irqVars, h2c, c2h,
        regs, msi, job, links, place, nTemp, nCsrVal, m_nRxInd, used, dsem, srio, mem, fpgaMem,
        tracked, hidden>>
  BY <1>2 DEF HostRegs, irqVars, regs, links, place, task, srio
<1> USE DEF pcVars, irqVars, regs, links, place, task, srio
<1>5. /\ call = "request" /\ job = <<>> /\ toDsp = <<>> /\ toFpga = <<>> /\ inbound = <<>>
         /\ ~stat
      /\ NoSem /\ (csr.db \/ csr.sw => hidden > 0)
  BY <1>1, Requesting
<1>6. TypeInv'
  BY <1>0, <1>3 DEF TypeInv
<1>7. HostPlaced'
  BY <1>0, <1>1, <1>3 DEF HostPlaced, HostLines
<1>8. DspPlaced'
  BY <1>0, <1>3 DEF DspPlaced, Lines, InHw
<1>9. CountInv'
  BY <1>0, <1>1, <1>3 DEF CountInv, InWrite, Written, Granted, Waited, Past, OutPC, Asked, Asking,
    Lag, InHw, HostPlaced, HostLines, DspPlaced
<1>10. SlotInv'
  BY <1>0, <1>1, <1>3 DEF SlotInv, TakenC2H, SentC2H, TakenDone, SentDone, Lag, AtOutdb,
    PcDoorbells, SwCalls
<1>11. TokenInv'
  BY <1>1, <1>3, <1>5 DEF TokenInv, Out, OutPC, NoSem, OnlySem, AtOutdb, Doorbell, DspDoorbells
<1>12. OutdbInv'
  BY <1>0, <1>3 DEF OutdbInv, HasResp, AtOutdb
<1>13. CsrInv'
  BY <1>0, <1>1, <1>3 DEF CsrInv, Busy, HasResp
<1>14. RegInv'
  BY <1>0, <1>3 DEF RegInv, SwDst, SwInfo
<1>15. DataInv'
  BY <1>0, <1>1, <1>3, <1>5 DEF DataInv, Tracking, JobDst, This, OutPC, Waited, Past, Out, Lag,
    InHw, rxBuf, getOpBuf, Frame, SeqInfo
<1>16. ResultInv'
  BY <1>0, <1>1, <1>3 DEF ResultInv, WdmaDone, Read, Lag, InHw, This, Frame
<1>17. ASSUME NEW m \in PcDoorbells PROVE MsgInv(m)'
  <2>1. MsgInv(m) BY DEF IInv
  <2> QED BY <1>0, <1>1, <1>3, <2>1 DEF MsgInv, Pending, OnWay, InSlot, InPost, InSem, AtOutdb,
    Asked, Granted, Asking, OutPC, Waited, Past, Lag, InHw, SentC2H, TakenC2H, SentDone,
    TakenDone, PcDoorbells
<1> QED BY <1>6, <1>7, <1>8, <1>9, <1>10, <1>11, <1>12, <1>13, <1>14, <1>15, <1>16, <1>17 DEF IInv

\* The start bit: the doorbell PC_STARTREQ is on its way, and nothing else is.
LEMMA HostCsrWriteStep ==
    ASSUME IInv, HostRegs, HostAt("csrWrite")
    PROVE  IInv'
<1>0. /\ TypeInv /\ HostPlaced /\ DspPlaced /\ CountInv /\ SlotInv /\ TokenInv /\ OutdbInv
      /\ CsrInv /\ RegInv /\ DataInv /\ ResultInv /\ FRAME_NUM \in Nat \ {0}
  BY LinkAssumption DEF IInv
<1>t. HostTable /\ Len(Host) = HostLines BY <1>0, HostProgram
<1>1. nFrame = 0 /\ pc = 4 BY <1>t DEF HostTable
<1>2. ~HostAt("infoWrite") /\ ~HostAt("csrRead") /\ ~HostAt("infoRead")
  BY <1>t DEF HostTable
<1>3. /\ WriteCsr(TRUE, nTempPC.sw)
      /\ HostNext
      /\ UNCHANGED <<HW_FHOG_MODE, run, nTempPC, src, mapped, results, sem, irqVars, h2c, c2h,
        mode, txinfo, sw_dst, msi, toFpga, place, nTemp, nCsrVal, m_nRxInd, used, dsem, srio,
        mem, fpgaMem, tracked, hidden>>
  BY <1>2 DEF HostRegs, links, place, task, srio
<1>4. nFrame' = 0 /\ pc' = 5
  BY <1>1, <1>3, <1>t DEF HostNext, HostLines
<1> USE DEF pcVars, irqVars, regs, links, place, task, srio
<1>5. /\ call = "request" /\ job = <<>> /\ toDsp = <<>> /\ toFpga = <<>> /\ inbound = <<>>
         /\ ~stat
      /\ NoSem /\ (csr.db \/ csr.sw => hidden > 0)
  BY <1>1, Requesting
<1>6. csr'.db /\ (csr'.sw <=> csr.sw) /\ (csr'.err => csr.err \/ csr.sw)
  BY <1>0, <1>1, <1>3 DEF WriteCsr, CsrInv
<1>7. csr' \in Csr
  BY <1>3 DEF WriteCsr, Csr
<1>8. job' = <<>>
  BY <1>0, <1>1, <1>3, <1>5 DEF WriteCsr, CsrInv
<1>9. toDsp' = <<Doorbell("db", "PC_STARTREQ")>>
  BY <1>0, <1>1, <1>3, <1>5 DEF WriteCsr, CsrInv
<1>10. TypeInv'
  BY <1>0, <1>3, <1>7 DEF TypeInv
<1>11. HostPlaced'
  BY <1>0, <1>4 DEF HostPlaced, HostLines
<1>12. DspPlaced'
  BY <1>0, <1>3 DEF DspPlaced, Lines, InHw
<1>13. CountInv'
  BY <1>0, <1>1, <1>3, <1>4 DEF CountInv, InWrite, Written, Granted, Waited, Past, OutPC, Asked,
    Asking, Lag, InHw, HostPlaced, HostLines, DspPlaced
<1>14. SlotInv'
  BY <1>0, <1>1, <1>3, <1>4 DEF SlotInv, TakenC2H, SentC2H, TakenDone, SentDone, Lag, AtOutdb,
    PcDoorbells, SwCalls
<1>15. TokenInv'
  BY <1>3, <1>4, <1>5, <1>8, <1>9 DEF TokenInv, Out, OutPC, Lag, From, NoSem, OnlySem, AtOutdb,
    Doorbell, DspDoorbells
<1>16. OutdbInv'
  BY <1>0, <1>3, <1>5 DEF OutdbInv, AtOutdb, Doorbell, Response, PcDoorbells
<1>17. CsrInv'
  BY <1>0, <1>3, <1>4, <1>5, <1>6, <1>8, <1>9 DEF CsrInv, Busy, HasResp, SwCalls, Doorbell
<1>18. RegInv'
  BY <1>0, <1>3 DEF RegInv, SwDst, SwInfo
<1>19. DataInv'
  BY <1>0, <1>1, <1>3, <1>4, <1>5, <1>8 DEF DataInv, Tracking, JobDst, This, OutPC, Waited, Past,
    Out, Lag, InHw, rxBuf, getOpBuf, Frame, SeqInfo
<1>20. ResultInv'
  BY <1>0, <1>1, <1>3, <1>4 DEF ResultInv, WdmaDone, Read, Lag, InHw, This, Frame
<1>21. ASSUME NEW m \in PcDoorbells PROVE MsgInv(m)'
  <2>1. MsgInv(m) BY DEF IInv
  <2> QED BY <1>1, <1>3, <1>4, <2>1 DEF MsgInv, Pending, OnWay, InSlot, InPost, InSem, AtOutdb,
    Asked, Granted, Asking, OutPC, Waited, Past, Lag, InHw, SentC2H, TakenC2H, SentDone,
    TakenDone, PcDoorbells
<1> QED BY <1>10, <1>11, <1>12, <1>13, <1>14, <1>15, <1>16, <1>17, <1>18, <1>19, <1>20, <1>21
  DEF IInv

\* main takes STARTREQ: what the DSP has asked for is granted.
LEMMA HostWaitSTARTREQ ==
    ASSUME IInv, HostWait, HostAt("STARTREQ")
    PROVE  IInv'
<1>0. /\ TypeInv /\ HostPlaced /\ DspPlaced /\ CountInv /\ SlotInv /\ TokenInv /\ OutdbInv
      /\ CsrInv /\ RegInv /\ DataInv /\ ResultInv /\ FRAME_NUM \in Nat \ {0}
  BY LinkAssumption DEF IInv
<1>t. HostTable /\ Len(Host) = HostLines BY <1>0, HostProgram
<1>1. nFrame = 0 /\ pc = 5 BY <1>t DEF HostTable
<1>2. ~HostAt("STARTH2C") /\ ~HostAt("STARTC2H") /\ ~HostAt("PROCDONE")
  BY <1>t DEF HostTable
<1>3. /\ sem["STARTREQ"] > 0 /\ sem' = [sem EXCEPT !["STARTREQ"] = @ - 1]
      /\ HostNext
      /\ UNCHANGED <<HW_FHOG_MODE, run, nTempPC, src, mapped, results, irqVars, h2c, c2h, regs,
        msi, job, links, place, nTemp, nCsrVal, m_nRxInd, used, dsem, srio, mem, fpgaMem,
        tracked, hidden>>
  BY <1>2 DEF HostWait, place, task, srio, PcDoorbells
<1>4. nFrame' = 0 /\ pc' = 6
  BY <1>1, <1>3, <1>t DEF HostNext, HostLines
<1> USE DEF pcVars, irqVars, regs, links, place, task, srio
<1>5. InSem("STARTREQ") /\ MsgInv("STARTREQ")
  BY <1>3 DEF IInv, TypeInv, InSem, PcDoorbells
<1>6. Asked = 1 /\ Granted = 0 /\ ~Lag
  BY <1>5 DEF MsgInv, Pending, Asked, Waited, Asking, OutPC, Lag, PcDoorbells, SwCalls
<1>7. Lag' = Lag /\ Waited' = Waited /\ OutPC' = OutPC /\ Asked' = Asked
      /\ SentC2H' = SentC2H /\ SentDone' = SentDone
  BY <1>1, <1>3, <1>4 DEF Lag, Waited, OutPC, Asked, Past, Asking, InHw, SentC2H, SentDone
<1>8. ~HasResp("db")
  BY <1>0, <1>5, <1>6 DEF CsrInv, MsgInv, OnWay, AtOutdb, HasResp, Asked, Asking, OutPC, Waited,
    Lag, Past, InHw, PcDoorbells, SwCalls, DspPlaced
<1>9. TypeInv'
  BY <1>0, <1>3 DEF TypeInv, Infos, PcDoorbells, DspDoorbells
<1>10. HostPlaced'
  BY <1>0, <1>4 DEF HostPlaced, HostLines
<1>11. DspPlaced'
  BY <1>0, <1>3 DEF DspPlaced, Lines, InHw
<1>12. CountInv'
  BY <1>0, <1>3, <1>4, <1>6, <1>7 DEF CountInv, InWrite, Written, Granted, HostPlaced, HostLines
<1>13. SlotInv'
  BY <1>0, <1>1, <1>3, <1>4 DEF SlotInv, TakenC2H, SentC2H, TakenDone, SentDone, Lag, AtOutdb,
    PcDoorbells, SwCalls
<1>14. TokenInv'
  BY <1>0, <1>1, <1>3, <1>6 DEF TokenInv, Out, OutPC, Lag, From, NoSem, OnlySem, AtOutdb,
    Doorbell, DspDoorbells
<1>15. OutdbInv'
  BY <1>0, <1>3 DEF OutdbInv, HasResp, AtOutdb
<1>16. CsrInv'
  BY <1>0, <1>3, <1>4, <1>8 DEF CsrInv, Busy, HasResp
<1>17. RegInv'
  BY <1>0, <1>3 DEF RegInv, SwDst, SwInfo
<1>18. DataInv'
  BY <1>0, <1>1, <1>3, <1>4, <1>6 DEF DataInv, Tracking, JobDst, This, OutPC, Waited, Past, Out,
    Lag, InHw, rxBuf, getOpBuf, Frame, SeqInfo
<1>19. ResultInv'
  BY <1>0, <1>1, <1>3, <1>4 DEF ResultInv, WdmaDone, Read, Lag, InHw, This, Frame
<1>20. ASSUME NEW m \in PcDoorbells PROVE MsgInv(m)'
  <2>1. MsgInv(m) BY DEF IInv
  <2>2. InSem(m)' <=> InSem(m) /\ m # "STARTREQ"
    BY <1>0, <1>3 DEF InSem, TypeInv
  <2>3. Pending(m)' <=> Pending(m) /\ m # "STARTREQ"
    BY <1>0, <1>1, <1>4, <1>7 DEF Pending, Granted, TakenC2H, TakenDone, PcDoorbells, CountInv
  <2>4. (OnWay(m)' <=> OnWay(m)) /\ (InSlot(m)' <=> InSlot(m)) /\ (InPost(m)' <=> InPost(m))
    BY <1>3 DEF OnWay, InSlot, InPost, AtOutdb
  <2> QED BY <1>3, <1>5, <2>1, <2>2, <2>3, <2>4 DEF MsgInv
<1> QED BY <1>9, <1>10, <1>11, <1>12, <1>13, <1>14, <1>15, <1>16, <1>17, <1>18, <1>19, <1>20
  DEF IInv

\* main takes STARTH2C: what the DSP has asked for is granted.
LEMMA HostWaitSTARTH2C ==
    ASSUME IInv, HostWait, HostAt("STARTH2C")
    PROVE  IInv'
<1>0. /\ TypeInv /\ HostPlaced /\ DspPlaced /\ CountInv /\ SlotInv /\ TokenInv /\ OutdbInv
      /\ CsrInv /\ RegInv /\ DataInv /\ ResultInv /\ FRAME_NUM \in Nat \ {0}
  BY LinkAssumption DEF IInv
<1>t. HostTable /\ Len(Host) = HostLines BY <1>0, HostProgram
<1>1. nFrame \in 1 .. FRAME_NUM /\ pc = 2 BY <1>t DEF HostTable
<1>2. ~HostAt("STARTREQ") /\ ~HostAt("STARTC2H") /\ ~HostAt("PROCDONE")
  BY <1>t DEF HostTable
<1>3. /\ sem["STARTH2C"] > 0 /\ sem' = [sem EXCEPT !["STARTH2C"] = @ - 1]
      /\ HostNext
      /\ UNCHANGED <<HW_FHOG_MODE, run, nTempPC, src, mapped, results, irqVars, h2c, c2h, regs,
        msi, job, links, place, nTemp, nCsrVal, m_nRxInd, used, dsem, srio, mem, fpgaMem,
        tracked, hidden>>
  BY <1>2 DEF HostWait, place, task, srio, PcDoorbells
<1>4. nFrame' = nFrame /\ pc' = 3
  BY <1>1, <1>3, <1>t DEF HostNext, HostLines
<1> USE DEF pcVars, irqVars, regs, links, place, task, srio
<1>5. InSem("STARTH2C") /\ MsgInv("STARTH2C")
  BY <1>3 DEF IInv, TypeInv, InSem, PcDoorbells
<1>6. Asked = Granted + 1 /\ Granted > 0
  BY <1>5 DEF MsgInv, Pending, Asked
<1>7. Lag' = Lag /\ Waited' = Waited /\ OutPC' = OutPC /\ Asked' = Asked
      /\ SentC2H' = SentC2H /\ SentDone' = SentDone
  BY <1>3, <1>4 DEF Lag, Waited, OutPC, Asked, Past, Asking, InHw, SentC2H, SentDone
<1>8. TypeInv'
  BY <1>0, <1>3 DEF TypeInv, Infos, PcDoorbells, DspDoorbells
<1>9. HostPlaced'
  BY <1>0, <1>4 DEF HostPlaced, HostLines
<1>10. DspPlaced'
  BY <1>0, <1>3 DEF DspPlaced, Lines, InHw
<1>11. CountInv'
  BY <1>0, <1>1, <1>3, <1>4, <1>6, <1>7 DEF CountInv, InWrite, Written, Granted, HostPlaced,
    HostLines
<1>12. SlotInv'
  BY <1>0, <1>1, <1>3, <1>4 DEF SlotInv, TakenC2H, SentC2H, TakenDone, SentDone, Lag, AtOutdb,
    PcDoorbells, SwCalls
<1>13. TokenInv'
  BY <1>0, <1>1, <1>3, <1>4 DEF TokenInv, Out, OutPC, NoSem, OnlySem, AtOutdb, Doorbell,
    DspDoorbells
<1>14. OutdbInv'
  BY <1>0, <1>3 DEF OutdbInv, HasResp, AtOutdb
<1>15. CsrInv'
  BY <1>0, <1>1, <1>3, <1>4 DEF CsrInv, Busy, HasResp
<1>16. RegInv'
  BY <1>0, <1>3 DEF RegInv, SwDst, SwInfo
<1>17. DataInv'
  BY <1>0, <1>1, <1>3, <1>4 DEF DataInv, Tracking, JobDst, This, OutPC, Waited, Past, Out, Lag,
    InHw, rxBuf, getOpBuf, Frame, SeqInfo
<1>18. ResultInv'
  BY <1>0, <1>1, <1>3, <1>4 DEF ResultInv, WdmaDone, Read, Lag, InHw, This, Frame
<1>19. ASSUME NEW m \in PcDoorbells PROVE MsgInv(m)'
  <2>1. MsgInv(m) BY DEF IInv
  <2>2. InSem(m)' <=> InSem(m) /\ m # "STARTH2C"
    BY <1>0, <1>3 DEF InSem, TypeInv
  <2>3. Pending(m)' <=> Pending(m) /\ m # "STARTH2C"
    BY <1>0, <1>1, <1>4, <1>7 DEF Pending, Granted, TakenC2H, TakenDone, PcDoorbells, CountInv
  <2>4. (OnWay(m)' <=> OnWay(m)) /\ (InSlot(m)' <=> InSlot(m)) /\ (InPost(m)' <=> InPost(m))
    BY <1>3 DEF OnWay, InSlot, InPost, AtOutdb
  <2> QED BY <1>3, <1>5, <2>1, <2>2, <2>3, <2>4 DEF MsgInv
<1> QED BY <1>8, <1>9, <1>10, <1>11, <1>12, <1>13, <1>14, <1>15, <1>16, <1>17, <1>18, <1>19
  DEF IInv

\* main takes STARTC2H: the DSP is about to send the results.
LEMMA HostWaitSTARTC2H ==
    ASSUME IInv, HostWait, HostAt("STARTC2H")
    PROVE  IInv'
<1>0. /\ TypeInv /\ HostPlaced /\ DspPlaced /\ CountInv /\ SlotInv /\ TokenInv /\ OutdbInv
      /\ CsrInv /\ RegInv /\ DataInv /\ ResultInv /\ FRAME_NUM \in Nat \ {0}
  BY LinkAssumption DEF IInv
<1>t. HostTable /\ Len(Host) = HostLines BY <1>0, HostProgram
<1>1. nFrame = FRAME_NUM + 1 /\ pc = 1 BY <1>t DEF HostTable
<1>2. ~HostAt("STARTREQ") /\ ~HostAt("STARTH2C") /\ ~HostAt("PROCDONE")
  BY <1>t DEF HostTable
<1>3. /\ sem["STARTC2H"] > 0 /\ sem' = [sem EXCEPT !["STARTC2H"] = @ - 1]
      /\ HostNext
      /\ UNCHANGED <<HW_FHOG_MODE, run, nTempPC, src, mapped, results, irqVars, h2c, c2h, regs,
        msi, job, links, place, nTemp, nCsrVal, m_nRxInd, used, dsem, srio, mem, fpgaMem,
        tracked, hidden>>
  BY <1>2 DEF HostWait, place, task, srio, PcDoorbells
<1>4. nFrame' = nFrame /\ pc' = 2
  BY <1>1, <1>3, <1>t DEF HostNext, HostLines
<1> USE DEF pcVars, irqVars, regs, links, place, task, srio
<1>5. InSem("STARTC2H") /\ MsgInv("STARTC2H")
  BY <1>3 DEF IInv, TypeInv, InSem, PcDoorbells
<1>6. SentC2H /\ ~TakenC2H
  BY <1>5 DEF MsgInv, Pending, Asked
<1>7. Lag' = Lag /\ Waited' = Waited /\ OutPC' = OutPC /\ Asked' = Asked
      /\ SentC2H' = SentC2H /\ SentDone' = SentDone
  BY <1>3, <1>4 DEF Lag, Waited, OutPC, Asked, Past, Asking, InHw, SentC2H, SentDone
<1>8. TypeInv'
  BY <1>0, <1>3 DEF TypeInv, Infos, PcDoorbells, DspDoorbells
<1>9. HostPlaced'
  BY <1>0, <1>4 DEF HostPlaced, HostLines
<1>10. DspPlaced'
  BY <1>0, <1>3 DEF DspPlaced, Lines, InHw
<1>11. CountInv'
  BY <1>0, <1>1, <1>3, <1>4, <1>7 DEF CountInv, InWrite, Written, Granted, HostPlaced, HostLines
<1>12. SlotInv'
  BY <1>0, <1>1, <1>3, <1>4, <1>6 DEF SlotInv, TakenC2H, SentC2H, TakenDone, SentDone, Lag,
    AtOutdb, PcDoorbells, SwCalls
<1>13. TokenInv'
  BY <1>0, <1>1, <1>3, <1>4 DEF TokenInv, Out, OutPC, NoSem, OnlySem, AtOutdb, Doorbell,
    DspDoorbells
<1>14. OutdbInv'
  BY <1>0, <1>3 DEF OutdbInv, HasResp, AtOutdb
<1>15. CsrInv'
  BY <1>0, <1>1, <1>3, <1>4 DEF CsrInv, Busy, HasResp
<1>16. RegInv'
  BY <1>0, <1>3 DEF RegInv, SwDst, SwInfo
<1>17. DataInv'
  BY <1>0, <1>1, <1>3, <1>4 DEF DataInv, Tracking, JobDst, This, OutPC, Waited, Past, Out, Lag,
    InHw, rxBuf, getOpBuf, Frame, SeqInfo
<1>18. ResultInv'
  BY <1>0, <1>1, <1>3, <1>4 DEF ResultInv, WdmaDone, Read, Lag, InHw, This, Frame
<1>19. ASSUME NEW m \in PcDoorbells PROVE MsgInv(m)'
  <2>1. MsgInv(m) BY DEF IInv
  <2>2. InSem(m)' <=> InSem(m) /\ m # "STARTC2H"
    BY <1>0, <1>3 DEF InSem, TypeInv
  <2>3. Pending(m)' <=> Pending(m) /\ m # "STARTC2H"
    BY <1>1, <1>4, <1>7 DEF Pending, Granted, TakenC2H, TakenDone, PcDoorbells, CountInv
  <2>4. (OnWay(m)' <=> OnWay(m)) /\ (InSlot(m)' <=> InSlot(m)) /\ (InPost(m)' <=> InPost(m))
    BY <1>3 DEF OnWay, InSlot, InPost, AtOutdb
  <2> QED BY <1>3, <1>5, <2>1, <2>2, <2>3, <2>4 DEF MsgInv
<1> QED BY <1>8, <1>9, <1>10, <1>11, <1>12, <1>13, <1>14, <1>15, <1>16, <1>17, <1>18, <1>19
  DEF IInv

\* main takes PROCDONE: the DSP is done.
LEMMA HostWaitPROCDONE ==
    ASSUME IInv, HostWait, HostAt("PROCDONE")
    PROVE  IInv'
<1>0. /\ TypeInv /\ HostPlaced /\ DspPlaced /\ CountInv /\ SlotInv /\ TokenInv /\ OutdbInv
      /\ CsrInv /\ RegInv /\ DataInv /\ ResultInv /\ FRAME_NUM \in Nat \ {0}
  BY LinkAssumption DEF IInv
<1>t. HostTable /\ Len(Host) = HostLines BY <1>0, HostProgram
<1>1. nFrame = FRAME_NUM + 1 /\ pc = 3 BY <1>t DEF HostTable
<1>2. ~HostAt("STARTREQ") /\ ~HostAt("STARTH2C") /\ ~HostAt("STARTC2H")
  BY <1>t DEF HostTable
<1>3. /\ sem["PROCDONE"] > 0 /\ sem' = [sem EXCEPT !["PROCDONE"] = @ - 1]
      /\ HostNext
      /\ UNCHANGED <<HW_FHOG_MODE, run, nTempPC, src, mapped, results, irqVars, h2c, c2h, regs,
        msi, job, links, place, nTemp, nCsrVal, m_nRxInd, used, dsem, srio, mem, fpgaMem,
        tracked, hidden>>
  BY <1>2 DEF HostWait, place, task, srio, PcDoorbells
<1>4. nFrame' = nFrame /\ pc' = 4
  BY <1>1, <1>3, <1>t DEF HostNext, HostLines
<1> USE DEF pcVars, irqVars, regs, links, place, task, srio
<1>5. InSem("PROCDONE") /\ MsgInv("PROCDONE")
  BY <1>3 DEF IInv, TypeInv, InSem, PcDoorbells
<1>6. SentDone /\ ~TakenDone
  BY <1>5 DEF MsgInv, Pending, Asked
<1>7. Lag' = Lag /\ Waited' = Waited /\ OutPC' = OutPC /\ Asked' = Asked
      /\ SentC2H' = SentC2H /\ SentDone' = SentDone
  BY <1>3, <1>4 DEF Lag, Waited, OutPC, Asked, Past, Asking, InHw, SentC2H, SentDone
<1>8. TypeInv'
  BY <1>0, <1>3 DEF TypeInv, Infos, PcDoorbells, DspDoorbells
<1>9. HostPlaced'
  BY <1>0, <1>4 DEF HostPlaced, HostLines
<1>10. DspPlaced'
  BY <1>0, <1>3 DEF DspPlaced, Lines, InHw
<1>11. CountInv'
  BY <1>0, <1>1, <1>3, <1>4, <1>7 DEF CountInv, InWrite, Written, Granted, HostPlaced, HostLines
<1>12. SlotInv'
  BY <1>0, <1>1, <1>3, <1>4, <1>6 DEF SlotInv, TakenC2H, SentC2H, TakenDone, SentDone, Lag,
    AtOutdb, PcDoorbells, SwCalls
<1>13. TokenInv'
  BY <1>0, <1>1, <1>3, <1>4 DEF TokenInv, Out, OutPC, NoSem, OnlySem, AtOutdb, Doorbell,
    DspDoorbells
<1>14. OutdbInv'
  BY <1>0, <1>3 DEF OutdbInv, HasResp, AtOutdb
<1>15. CsrInv'
  BY <1>0, <1>1, <1>3, <1>4 DEF CsrInv, Busy, HasResp
<1>16. RegInv'
  BY <1>0, <1>3 DEF RegInv, SwDst, SwInfo
<1>17. DataInv'
  BY <1>0, <1>1, <1>3, <1>4 DEF DataInv, Tracking, JobDst, This, OutPC, Waited, Past, Out, Lag,
    InHw, rxBuf, getOpBuf, Frame, SeqInfo
<1>18. ResultInv'
  BY <1>0, <1>1, <1>3, <1>4 DEF ResultInv, WdmaDone, Read, Lag, InHw, This, Frame
<1>19. ASSUME NEW m \in PcDoorbells PROVE MsgInv(m)'
  <2>1. MsgInv(m) BY DEF IInv
  <2>2. InSem(m)' <=> InSem(m) /\ m # "PROCDONE"
    BY <1>0, <1>3 DEF InSem, TypeInv
  <2>3. Pending(m)' <=> Pending(m) /\ m # "PROCDONE"
    BY <1>1, <1>4, <1>7 DEF Pending, Granted, TakenC2H, TakenDone, PcDoorbells, CountInv
  <2>4. (OnWay(m)' <=> OnWay(m)) /\ (InSlot(m)' <=> InSlot(m)) /\ (InPost(m)' <=> InPost(m))
    BY <1>3 DEF OnWay, InSlot, InPost, AtOutdb
  <2> QED BY <1>3, <1>5, <2>1, <2>2, <2>3, <2>4 DEF MsgInv
<1> QED BY <1>8, <1>9, <1>10, <1>11, <1>12, <1>13, <1>14, <1>15, <1>16, <1>17, <1>18, <1>19
  DEF IInv

\* pSrcData is loaded while no write is under way.
LEMMA HostLoadStep ==
    ASSUME IInv, HostStream, HostAt("load")
    PROVE  IInv'
<1>0. /\ TypeInv /\ HostPlaced /\ DspPlaced /\ CountInv /\ SlotInv /\ TokenInv /\ OutdbInv
      /\ CsrInv /\ RegInv /\ DataInv /\ ResultInv /\ FRAME_NUM \in Nat \ {0}
  BY LinkAssumption DEF IInv
<1>t. HostTable /\ Len(Host) = HostLines BY <1>0, HostProgram
<1>1. nFrame \in 1 .. FRAME_NUM /\ pc = 1 BY <1>t DEF HostTable
<1>2. ~HostAt("write") /\ ~HostAt("written") /\ ~HostAt("startC2H")
  BY <1>t DEF HostTable
<1>3. /\ src' = Frame(run, nFrame - 1)
      /\ HostNext
      /\ UNCHANGED <<HW_FHOG_MODE, run, nTempPC, mapped, results, sem, irqVars, h2c, c2h, regs,
        msi, job, links, place, nTemp, nCsrVal, m_nRxInd, used, dsem, srio, mem, fpgaMem,
        tracked, hidden>>
  BY <1>2 DEF HostStream, links, place, task, srio
<1>4. nFrame' = nFrame /\ pc' = 2
  BY <1>1, <1>3, <1>t DEF HostNext, HostLines
<1> USE DEF pcVars, irqVars, regs, links, place, task, srio
<1>5. TypeInv'
  BY <1>0, <1>3 DEF TypeInv
<1>6. HostPlaced'
  BY <1>0, <1>4 DEF HostPlaced, HostLines
<1>7. DspPlaced'
  BY <1>0, <1>3 DEF DspPlaced, Lines, InHw
<1>8. CountInv'
  BY <1>0, <1>1, <1>3, <1>4 DEF CountInv, InWrite, Written, Granted, Waited, Past, OutPC, Asked,
    Asking, Lag, InHw, HostPlaced, HostLines, DspPlaced
<1>9. SlotInv'
  BY <1>0, <1>1, <1>3, <1>4 DEF SlotInv, TakenC2H, SentC2H, TakenDone, SentDone, Lag, AtOutdb,
    PcDoorbells, SwCalls
<1>10. TokenInv'
  BY <1>0, <1>1, <1>3, <1>4 DEF TokenInv, Out, OutPC, NoSem, OnlySem, AtOutdb, Doorbell,
    DspDoorbells
<1>11. OutdbInv'
  BY <1>0, <1>3 DEF OutdbInv, HasResp, AtOutdb
<1>12. CsrInv'
  BY <1>0, <1>1, <1>3, <1>4 DEF CsrInv, Busy, HasResp
<1>13. RegInv'
  BY <1>0, <1>3 DEF RegInv, SwDst, SwInfo
<1>14. DataInv'
  BY <1>0, <1>1, <1>3, <1>4 DEF DataInv, Tracking, JobDst, This, OutPC, Waited, Past, Out, Lag,
    InHw, rxBuf, getOpBuf, Frame, SeqInfo
<1>15. ResultInv'
  BY <1>0, <1>1, <1>3, <1>4 DEF ResultInv, WdmaDone, Read, Lag, InHw, This, Frame
<1>16. ASSUME NEW m \in PcDoorbells PROVE MsgInv(m)'
  <2>1. MsgInv(m) BY DEF IInv
  <2> QED BY <1>0, <1>1, <1>3, <1>4, <2>1 DEF MsgInv, Pending, OnWay, InSlot, InPost, InSem,
    AtOutdb, Asked, Granted, Asking, OutPC, Waited, Past, Lag, InHw, SentC2H, TakenC2H, SentDone,
    TakenDone, PcDoorbells
<1> QED BY <1>5, <1>6, <1>7, <1>8, <1>9, <1>10, <1>11, <1>12, <1>13, <1>14, <1>15, <1>16 DEF IInv

\* The write of one more block begins.
LEMMA HostWriteStep ==
    ASSUME IInv, HostStream, HostAt("write")
    PROVE  IInv'
<1>0. /\ TypeInv /\ HostPlaced /\ DspPlaced /\ CountInv /\ SlotInv /\ TokenInv /\ OutdbInv
      /\ CsrInv /\ RegInv /\ DataInv /\ ResultInv /\ FRAME_NUM \in Nat \ {0}
  BY LinkAssumption DEF IInv
<1>t. HostTable /\ Len(Host) = HostLines BY <1>0, HostProgram
<1>1. (nFrame = 0 /\ pc = 6) \/ (nFrame \in 1 .. FRAME_NUM /\ pc = 3)
  BY <1>t DEF HostTable
<1>2. ~HostAt("load") /\ ~HostAt("written") /\ ~HostAt("startC2H")
  BY <1>t DEF HostTable
<1>3. /\ h2c' = TRUE
      /\ HostNext
      /\ UNCHANGED <<HW_FHOG_MODE, run, nTempPC, src, mapped, results, sem, irqVars, c2h, regs,
        msi, job, links, place, nTemp, nCsrVal, m_nRxInd, used, dsem, srio, mem, fpgaMem,
        tracked, hidden>>
  BY <1>2 DEF HostStream, links, place, task, srio
<1>4. nFrame' = nFrame /\ pc' = pc + 1
  BY <1>1, <1>3, <1>t DEF HostNext, HostLines
<1> USE DEF pcVars, irqVars, regs, links, place, task, srio
<1>5. TypeInv'
  BY <1>0, <1>3 DEF TypeInv
<1>6. HostPlaced'
  BY <1>0, <1>1, <1>4 DEF HostPlaced, HostLines
<1>7. DspPlaced'
  BY <1>0, <1>3 DEF DspPlaced, Lines, InHw
<1>8. CountInv'
  BY <1>0, <1>1, <1>3, <1>4 DEF CountInv, InWrite, Written, Granted, Waited, Past, OutPC, Asked,
    Asking, Lag, InHw, HostPlaced, HostLines, DspPlaced
<1>9. SlotInv'
  BY <1>0, <1>1, <1>3, <1>4 DEF SlotInv, TakenC2H, SentC2H, TakenDone, SentDone, Lag, AtOutdb,
    PcDoorbells, SwCalls
<1>10. TokenInv'
  BY <1>0, <1>1, <1>3, <1>4 DEF TokenInv, Out, OutPC, NoSem, OnlySem, AtOutdb, Doorbell,
    DspDoorbells
<1>11. OutdbInv'
  BY <1>0, <1>3 DEF OutdbInv, HasResp, AtOutdb
<1>12. CsrInv'
  BY <1>0, <1>1, <1>3, <1>4 DEF CsrInv, Busy, HasResp
<1>13. RegInv'
  BY <1>0, <1>3 DEF RegInv, SwDst, SwInfo
<1>14. DataInv'
  BY <1>0, <1>1, <1>3, <1>4 DEF DataInv, Tracking, JobDst, This, OutPC, Waited, Past, Out, Lag,
    InHw, rxBuf, getOpBuf, Frame, SeqInfo
<1>15. ResultInv'
  BY <1>0, <1>1, <1>3, <1>4 DEF ResultInv, WdmaDone, Read, Lag, InHw, This, Frame
<1>16. ASSUME NEW m \in PcDoorbells PROVE MsgInv(m)'
  <2>1. MsgInv(m) BY DEF IInv
  <2> QED BY <1>0, <1>1, <1>3, <1>4, <2>1 DEF MsgInv, Pending, OnWay, InSlot, InPost, InSem,
    AtOutdb, Asked, Granted, Asking, OutPC, Waited, Past, Lag, InHw, SentC2H, TakenC2H, SentDone,
    TakenDone, PcDoorbells
<1> QED BY <1>5, <1>6, <1>7, <1>8, <1>9, <1>10, <1>11, <1>12, <1>13, <1>14, <1>15, <1>16 DEF IInv

\* The write has returned: the DSP's transfer has taken the data.
LEMMA HostWrittenStep ==
    ASSUME IInv, HostStream, HostAt("written")
    PROVE  IInv'
<1>0. /\ TypeInv /\ HostPlaced /\ DspPlaced /\ CountInv /\ SlotInv /\ TokenInv /\ OutdbInv
      /\ CsrInv /\ RegInv /\ DataInv /\ ResultInv /\ FRAME_NUM \in Nat \ {0}
  BY LinkAssumption DEF IInv
<1>t. HostTable /\ Len(Host) = HostLines BY <1>0, HostProgram
<1>1. (nFrame = 0 /\ pc = 7) \/ (nFrame \in 1 .. FRAME_NUM /\ pc = 4)
  BY <1>t DEF HostTable
<1>2. ~HostAt("load") /\ ~HostAt("write") /\ ~HostAt("startC2H")
  BY <1>t DEF HostTable
<1>3. /\ ~h2c
      /\ HostNext
      /\ UNCHANGED <<HW_FHOG_MODE, run, nTempPC, src, mapped, results, sem, irqVars, h2c, c2h,
        regs, msi, job, links, place, nTemp, nCsrVal, m_nRxInd, used, dsem, srio, mem, fpgaMem,
        tracked, hidden>>
  BY <1>2 DEF HostStream, links, place, task, srio
<1>4. nFrame' = nFrame + 1 /\ pc' = 1
  BY <1>1, <1>3, <1>t DEF HostNext, HostLines
<1> USE DEF pcVars, irqVars, regs, links, place, task, srio
<1>5. ~Lag
  BY <1>0, <1>1, <1>3 DEF CountInv, Lag, OutPC, Written, InWrite, Waited, PcDoorbells, SwCalls
<1>6. ~Lag'
  BY <1>0, <1>4 DEF Lag, HostPlaced
<1>7. Lag' = Lag /\ Waited' = Waited /\ OutPC' = OutPC /\ Asked' = Asked
      /\ SentC2H' = SentC2H /\ SentDone' = SentDone
  BY <1>3, <1>5, <1>6 DEF Lag, Waited, OutPC, Asked, Past, Asking, InHw, SentC2H, SentDone
<1>8. TypeInv'
  BY <1>0, <1>3 DEF TypeInv
<1>9. HostPlaced'
  BY <1>0, <1>1, <1>4 DEF HostPlaced, HostLines
<1>10. DspPlaced'
  BY <1>0, <1>3 DEF DspPlaced, Lines, InHw
<1>11. CountInv'
  BY <1>0, <1>1, <1>3, <1>4 DEF CountInv, InWrite, Written, Granted, Waited, Past, OutPC, Asked,
    Asking, Lag, InHw, HostPlaced, HostLines, DspPlaced
<1>12. SlotInv'
  BY <1>0, <1>1, <1>3, <1>4 DEF SlotInv, TakenC2H, SentC2H, TakenDone, SentDone, Lag, AtOutdb,
    PcDoorbells, SwCalls
<1>13. TokenInv'
  BY <1>0, <1>1, <1>3, <1>4 DEF TokenInv, Out, OutPC, NoSem, OnlySem, AtOutdb, Doorbell,
    DspDoorbells
<1>14. OutdbInv'
  BY <1>0, <1>3 DEF OutdbInv, HasResp, AtOutdb
<1>15. CsrInv'
  BY <1>0, <1>1, <1>3, <1>4 DEF CsrInv, Busy, HasResp
<1>16. RegInv'
  BY <1>0, <1>3 DEF RegInv, SwDst, SwInfo
<1>17. DataInv'
  BY <1>0, <1>1, <1>3, <1>4 DEF DataInv, Tracking, JobDst, This, OutPC, Waited, Past, Out, Lag,
    InHw, rxBuf, getOpBuf, Frame, SeqInfo
<1>18. ResultInv'
  BY <1>0, <1>1, <1>3, <1>4, <1>7 DEF ResultInv, WdmaDone, Read, Lag, InHw, This, Frame
<1>19. ASSUME NEW m \in PcDoorbells PROVE MsgInv(m)'
  <2>1. MsgInv(m) BY DEF IInv
  <2> QED BY <1>0, <1>1, <1>3, <1>4, <1>7, <2>1 DEF MsgInv, Pending, OnWay, InSlot, InPost, InSem,
    AtOutdb, Granted, TakenC2H, TakenDone, PcDoorbells, CountInv, SlotInv
<1> QED BY <1>8, <1>9, <1>10, <1>11, <1>12, <1>13, <1>14, <1>15, <1>16, <1>17, <1>18, <1>19
  DEF IInv

\* The read takes the results of all frames.
LEMMA HostStartC2HStep ==
    ASSUME IInv, HostStream, HostAt("startC2H")
    PROVE  IInv'
<1>0. /\ TypeInv /\ HostPlaced /\ DspPlaced /\ CountInv /\ SlotInv /\ TokenInv /\ OutdbInv
      /\ CsrInv /\ RegInv /\ DataInv /\ ResultInv /\ FRAME_NUM \in Nat \ {0}
  BY LinkAssumption DEF IInv
<1>t. HostTable /\ Len(Host) = HostLines BY <1>0, HostProgram
<1>1. nFrame = FRAME_NUM + 1 /\ pc = 2 BY <1>t DEF HostTable
<1>2. ~HostAt("load") /\ ~HostAt("write") /\ ~HostAt("written")
  BY <1>t DEF HostTable
<1>3. /\ c2h # <<>> /\ results' = c2h /\ c2h' = <<>>
      /\ HostNext
      /\ UNCHANGED <<HW_FHOG_MODE, run, nTempPC, src, mapped, sem, irqVars, h2c, regs, msi, job,
        links, place, nTemp, nCsrVal, m_nRxInd, used, dsem, srio, mem, fpgaMem, tracked,
        hidden>>
  BY <1>2 DEF HostStream, links, place, task, srio
<1>4. nFrame' = nFrame /\ pc' = 3
  BY <1>1, <1>3, <1>t DEF HostNext, HostLines
<1> USE DEF pcVars, irqVars, regs, links, place, task, srio
<1>5. TypeInv'
  BY <1>0, <1>3 DEF TypeInv
<1>6. HostPlaced'
  BY <1>0, <1>4 DEF HostPlaced, HostLines
<1>7. DspPlaced'
  BY <1>0, <1>3 DEF DspPlaced, Lines, InHw
<1>8. CountInv'
  BY <1>0, <1>1, <1>3, <1>4 DEF CountInv, InWrite, Written, Granted, Waited, Past, OutPC, Asked,
    Asking, Lag, InHw, HostPlaced, HostLines, DspPlaced
<1>9. SlotInv'
  BY <1>0, <1>1, <1>3, <1>4 DEF SlotInv, TakenC2H, SentC2H, TakenDone, SentDone, Lag, AtOutdb,
    PcDoorbells, SwCalls
<1>10. TokenInv'
  BY <1>0, <1>1, <1>3, <1>4 DEF TokenInv, Out, OutPC, NoSem, OnlySem, AtOutdb, Doorbell,
    DspDoorbells
<1>11. OutdbInv'
  BY <1>0, <1>3 DEF OutdbInv, HasResp, AtOutdb
<1>12. CsrInv'
  BY <1>0, <1>1, <1>3, <1>4 DEF CsrInv, Busy, HasResp
<1>13. RegInv'
  BY <1>0, <1>3 DEF RegInv, SwDst, SwInfo
<1>14. DataInv'
  BY <1>0, <1>1, <1>3, <1>4 DEF DataInv, Tracking, JobDst, This, OutPC, Waited, Past, Out, Lag,
    InHw, rxBuf, getOpBuf, Frame, SeqInfo
<1>15. ResultInv'
  BY <1>0, <1>1, <1>3, <1>4 DEF ResultInv, WdmaDone, Read, Lag, InHw, This, Frame
<1>16. ASSUME NEW m \in PcDoorbells PROVE MsgInv(m)'
  <2>1. MsgInv(m) BY DEF IInv
  <2> QED BY <1>0, <1>1, <1>3, <1>4, <2>1 DEF MsgInv, Pending, OnWay, InSlot, InPost, InSem,
    AtOutdb, Asked, Granted, Asking, OutPC, Waited, Past, Lag, InHw, SentC2H, TakenC2H, SentDone,
    TakenDone, PcDoorbells
<1> QED BY <1>5, <1>6, <1>7, <1>8, <1>9, <1>10, <1>11, <1>12, <1>13, <1>14, <1>15, <1>16 DEF IInv

\* munmap: waitingInterrupt has nothing more to read.
LEMMA HostUnmapStep ==
    ASSUME IInv, HostDeInit, HostAt("unmap")
    PROVE  IInv'
<1>0. /\ TypeInv /\ HostPlaced /\ DspPlaced /\ CountInv /\ SlotInv /\ TokenInv /\ OutdbInv
      /\ CsrInv /\ RegInv /\ DataInv /\ ResultInv /\ FRAME_NUM \in Nat \ {0}
  BY LinkAssumption DEF IInv
<1>t. HostTable /\ Len(Host) = HostLines BY <1>0, HostProgram
<1>1. nFrame = FRAME_NUM + 1 /\ pc = 4 BY <1>t DEF HostTable
<1>2. ~HostAt("cancel")
  BY <1>t DEF HostTable
<1>3. /\ mapped' = FALSE
      /\ HostNext
      /\ UNCHANGED <<HW_FHOG_MODE, run, nTempPC, src, results, sem, irqVars, h2c, c2h, regs,
        msi, job, links, place, nTemp, nCsrVal, m_nRxInd, used, dsem, srio, mem, fpgaMem,
        tracked, hidden>>
  BY <1>2 DEF HostDeInit, irqVars, regs, links, place, task, srio
<1>4. nFrame' = nFrame /\ pc' = 5
  BY <1>0, <1>1, <1>3, <1>t DEF HostNext, HostLines
<1> USE DEF pcVars, irqVars, regs, links, place, task, srio
<1>5. mapped' \in BOOLEAN /\ ~mapped'
  BY <1>3, Zenon
<1>6. TypeInv'
  BY <1>0, <1>3, <1>5 DEF TypeInv
<1>7. HostPlaced'
  BY <1>0, <1>1, <1>4 DEF HostPlaced, HostLines
<1>8. DspPlaced'
  BY <1>0, <1>3 DEF DspPlaced, Lines, InHw
<1>9. CountInv'
  BY <1>0, <1>1, <1>3, <1>4 DEF CountInv, InWrite, Written, Granted, Waited, Past, OutPC, Asked,
    Asking, Lag, InHw, HostPlaced, HostLines, DspPlaced
<1>10. SlotInv'
  BY <1>0, <1>1, <1>3, <1>4 DEF SlotInv, TakenC2H, SentC2H, TakenDone, SentDone, Lag, AtOutdb,
    PcDoorbells, SwCalls
<1>11. TokenInv'
  BY <1>0, <1>1, <1>3, <1>4 DEF TokenInv, Out, OutPC, Lag, From, NoSem, OnlySem, AtOutdb,
    Doorbell, DspDoorbells
<1>12. OutdbInv'
  BY <1>0, <1>3 DEF OutdbInv, HasResp, AtOutdb
<1>13. CsrInv'
  BY <1>0, <1>3, <1>4 DEF CsrInv, Busy, HasResp
<1>14. RegInv'
  BY <1>0, <1>3 DEF RegInv, SwDst, SwInfo
<1>15. DataInv'
  BY <1>0, <1>1, <1>3, <1>4 DEF DataInv, Tracking, JobDst, This, OutPC, Waited, Past, Out, Lag,
    InHw, rxBuf, getOpBuf, Frame, SeqInfo
<1>16. ResultInv'
  BY <1>0, <1>1, <1>3, <1>4 DEF ResultInv, WdmaDone, Read, Lag, InHw, This, Frame
<1>17. ASSUME NEW m \in PcDoorbells PROVE MsgInv(m)'
  <2>1. MsgInv(m) BY DEF IInv
  <2> QED BY <1>1, <1>3, <1>4, <2>1 DEF MsgInv, Pending, OnWay, InSlot, InPost, InSem, AtOutdb,
    Asked, Granted, Asking, OutPC, Waited, Past, Lag, InHw, SentC2H, TakenC2H, SentDone,
    TakenDone, PcDoorbells
<1> QED BY <1>6, <1>7, <1>8, <1>9, <1>10, <1>11, <1>12, <1>13, <1>14, <1>15, <1>16, <1>17 DEF IInv

\* pthread_cancel: waitingInterrupt waits in read.
LEMMA HostCancelStep ==
    ASSUME IInv, HostDeInit, HostAt("cancel")
    PROVE  IInv'
<1>0. /\ TypeInv /\ HostPlaced /\ DspPlaced /\ CountInv /\ SlotInv /\ TokenInv /\ OutdbInv
      /\ CsrInv /\ RegInv /\ DataInv /\ ResultInv /\ FRAME_NUM \in Nat \ {0}
  BY LinkAssumption DEF IInv
<1>t. HostTable /\ Len(Host) = HostLines BY <1>0, HostProgram
<1>1. nFrame = FRAME_NUM + 1 /\ pc = 5 BY <1>t DEF HostTable
<1>2. ~HostAt("unmap")
  BY <1>t DEF HostTable
<1>3. /\ irq = "read" /\ irq' = "none" /\ pc' = 0
      /\ UNCHANGED <<HW_FHOG_MODE, run, nFrame, nTempPC, src, mapped, results, sem, nInfo,
        event, h2c, c2h, regs, msi, job, links, place, nTemp, nCsrVal, m_nRxInd, used, dsem,
        srio, mem, fpgaMem, tracked, hidden>>
  BY <1>2 DEF HostDeInit, links, place, task, srio
<1> USE DEF pcVars, irqVars, regs, links, place, task, srio
<1>5. TypeInv'
  BY <1>0, <1>3 DEF TypeInv
<1>6. HostPlaced'
  BY <1>0, <1>1, <1>3 DEF HostPlaced, HostLines
<1>7. DspPlaced'
  BY <1>0, <1>3 DEF DspPlaced, Lines, InHw
<1>8. CountInv'
  BY <1>0, <1>1, <1>3 DEF CountInv, InWrite, Written, Granted, Waited, Past, OutPC, Asked, Asking,
    Lag, InHw, HostPlaced, HostLines, DspPlaced
<1>9. SlotInv'
  BY <1>0, <1>1, <1>3 DEF SlotInv, TakenC2H, SentC2H, TakenDone, SentDone, Lag, AtOutdb,
    PcDoorbells, SwCalls
<1>10. TokenInv'
  BY <1>0, <1>1, <1>3 DEF TokenInv, Out, OutPC, Lag, From, NoSem, OnlySem, AtOutdb, Doorbell,
    DspDoorbells
<1>11. OutdbInv'
  BY <1>0, <1>3 DEF OutdbInv, HasResp, AtOutdb
<1>12. CsrInv'
  BY <1>0, <1>1, <1>3 DEF CsrInv, Busy, HasResp
<1>13. RegInv'
  BY <1>0, <1>3 DEF RegInv, SwDst, SwInfo
<1>14. DataInv'
  BY <1>0, <1>1, <1>3 DEF DataInv, Tracking, JobDst, This, OutPC, Waited, Past, Out, Lag, InHw,
    rxBuf, getOpBuf, Frame, SeqInfo
<1>15. ResultInv'
  BY <1>0, <1>1, <1>3 DEF ResultInv, WdmaDone, Read, Lag, InHw, This, Frame
<1>16. ASSUME NEW m \in PcDoorbells PROVE MsgInv(m)'
  <2>1. MsgInv(m) BY DEF IInv
  <2> QED BY <1>0, <1>1, <1>3, <2>1 DEF MsgInv, Pending, OnWay, InSlot, InPost, InSem, AtOutdb,
    Asked, Granted, Asking, OutPC, Waited, Past, Lag, InHw, SentC2H, TakenC2H, SentDone,
    TakenDone, PcDoorbells
<1> QED BY <1>5, <1>6, <1>7, <1>8, <1>9, <1>10, <1>11, <1>12, <1>13, <1>14, <1>15, <1>16 DEF IInv

-----------------------------------------------------------------------------
(* The thread waitingInterrupt, and the hardware.                          *)

\* The thread has the event: the message stays in its slot.
LEMMA IrqReadStep ==
    ASSUME IInv, IrqRead
    PROVE  IInv'
<1>0. /\ TypeInv /\ HostPlaced /\ DspPlaced /\ CountInv /\ SlotInv /\ TokenInv /\ OutdbInv
      /\ CsrInv /\ RegInv /\ DataInv /\ ResultInv /\ FRAME_NUM \in Nat \ {0}
  BY LinkAssumption DEF IInv
<1>1. /\ irq = "read" /\ event /\ event' = FALSE /\ irq' = "info"
      /\ UNCHANGED <<HW_FHOG_MODE, pcVars, sem, nInfo, h2c, c2h, regs, msi, job, links, place,
        nTemp, nCsrVal, m_nRxInd, used, dsem, srio, mem, fpgaMem, tracked, hidden>>
  BY DEF IrqRead, pcVars, irqVars, regs, links, place, task, srio
<1> USE DEF pcVars, irqVars, regs, links, place, task, srio
<1>2. Lag' = Lag /\ Waited' = Waited /\ OutPC' = OutPC /\ Asked' = Asked
      /\ SentC2H' = SentC2H /\ SentDone' = SentDone
  BY <1>1 DEF Lag, Waited, OutPC, Asked, Past, Asking, InHw, SentC2H, SentDone
<1>3. event' \in BOOLEAN
  BY <1>1, Zenon
<1>4. TypeInv'
  BY <1>0, <1>1, <1>3 DEF TypeInv
<1>5. HostPlaced'
  BY <1>0, <1>1 DEF HostPlaced, HostLines
<1>6. DspPlaced'
  BY <1>0, <1>1 DEF DspPlaced, Lines, InHw
<1>7. CountInv'
  BY <1>0, <1>1, <1>2 DEF CountInv, InWrite, Written, Granted, HostPlaced, HostLines
<1>8. SlotInv'
  BY <1>0, <1>1 DEF SlotInv, TakenC2H, SentC2H, TakenDone, SentDone, Lag, AtOutdb, PcDoorbells,
    SwCalls
<1>9. TokenInv'
  BY <1>0, <1>1 DEF TokenInv, Out, OutPC, Lag, From, NoSem, OnlySem, AtOutdb, Doorbell,
    DspDoorbells
<1>10. OutdbInv'
  BY <1>0, <1>1 DEF OutdbInv, HasResp, AtOutdb
<1>11. CsrInv'
  BY <1>0, <1>1 DEF CsrInv, Busy, HasResp
<1>12. RegInv'
  BY <1>0, <1>1 DEF RegInv, SwDst, SwInfo
<1>13. DataInv'
  BY <1>0, <1>1 DEF DataInv, Tracking, JobDst, This, OutPC, Waited, Past, Out, Lag, InHw, rxBuf,
    getOpBuf, Frame, SeqInfo
<1>14. ResultInv'
  BY <1>0, <1>1 DEF ResultInv, WdmaDone, Read, Lag, InHw, This, Frame
<1>15. ASSUME NEW m \in PcDoorbells PROVE MsgInv(m)'
  <2>1. MsgInv(m) BY DEF IInv
  <2> QED BY <1>1, <1>2, <2>1 DEF MsgInv, Pending, OnWay, InSlot, InPost, InSem, AtOutdb, Granted,
    TakenC2H, TakenDone, SlotInv, TypeInv
<1> QED BY <1>4, <1>5, <1>6, <1>7, <1>8, <1>9, <1>10, <1>11, <1>12, <1>13, <1>14, <1>15 DEF IInv

\* It reads the message, which leaves the slot unless the pulse that frees it is hidden.
LEMMA IrqInfoStep ==
    ASSUME IInv, NEW hide \in BOOLEAN, IrqInfo(hide)
    PROVE  IInv'
<1>0. /\ TypeInv /\ HostPlaced /\ DspPlaced /\ CountInv /\ SlotInv /\ TokenInv /\ OutdbInv
      /\ CsrInv /\ RegInv /\ DataInv /\ ResultInv /\ FRAME_NUM \in Nat \ {0}
  BY LinkAssumption DEF IInv
<1>1. /\ irq = "info" /\ irq' = "post" /\ nInfo' = msi.info
      /\ hidden' = IF hide THEN hidden + 1 ELSE hidden
      /\ msi' = IF hide THEN msi ELSE [msi EXCEPT !.busy = FALSE]
      /\ UNCHANGED <<HW_FHOG_MODE, pcVars, sem, event, h2c, c2h, regs, job, links, place, nTemp,
        nCsrVal, m_nRxInd, used, dsem, srio, mem, fpgaMem, tracked>>
  BY DEF IrqInfo, Missed, pcVars, irqVars, regs, links, place, task, srio
<1> USE DEF pcVars, irqVars, regs, links, place, task, srio
<1>2. Lag' = Lag /\ Waited' = Waited /\ OutPC' = OutPC /\ Asked' = Asked
      /\ SentC2H' = SentC2H /\ SentDone' = SentDone
  BY <1>1 DEF Lag, Waited, OutPC, Asked, Past, Asking, InHw, SentC2H, SentDone
<1>3. hidden' \in Nat /\ (hide => hidden' > 0) /\ (hidden > 0 => hidden' > 0)
  BY <1>0, <1>1 DEF TypeInv
<1>4. /\ msi' \in [busy : BOOLEAN, info : PcDoorbells, err : BOOLEAN] /\ msi'.info = msi.info
      /\ (msi'.err <=> msi.err) /\ (msi'.busy <=> hide /\ msi.busy)
  BY <1>0, <1>1 DEF TypeInv
<1>5. TypeInv'
  BY <1>0, <1>1, <1>4 DEF TypeInv
<1>6. HostPlaced'
  BY <1>0, <1>1 DEF HostPlaced, HostLines
<1>7. DspPlaced'
  BY <1>0, <1>1 DEF DspPlaced, Lines, InHw
<1>8. CountInv'
  BY <1>0, <1>1, <1>2 DEF CountInv, InWrite, Written, Granted, HostPlaced, HostLines
<1>9. SlotInv'
  BY <1>0, <1>1, <1>3 DEF SlotInv, TakenC2H, SentC2H, TakenDone, SentDone, Lag, AtOutdb,
    PcDoorbells, SwCalls
<1>10. TokenInv'
  BY <1>0, <1>1, <1>3 DEF TokenInv, Out, OutPC, Lag, From, NoSem, OnlySem, AtOutdb, Doorbell,
    DspDoorbells
<1>11. OutdbInv'
  BY <1>0, <1>1 DEF OutdbInv, HasResp, AtOutdb
<1>12. CsrInv'
  BY <1>0, <1>1, <1>3 DEF CsrInv, Busy, HasResp
<1>13. RegInv'
  BY <1>0, <1>1 DEF RegInv, SwDst, SwInfo
<1>14. DataInv'
  BY <1>0, <1>1 DEF DataInv, Tracking, JobDst, This, OutPC, Waited, Past, Out, Lag, InHw, rxBuf,
    getOpBuf, Frame, SeqInfo
<1>15. ResultInv'
  BY <1>0, <1>1 DEF ResultInv, WdmaDone, Read, Lag, InHw, This, Frame
<1>16. ASSUME NEW m \in PcDoorbells PROVE MsgInv(m)'
  <2>1. MsgInv(m) BY DEF IInv
  <2> QED BY <1>0, <1>1, <1>2, <2>1 DEF MsgInv, Pending, OnWay, InSlot, InPost, InSem, AtOutdb,
    Granted, TakenC2H, TakenDone, SlotInv, TypeInv
<1> QED BY <1>5, <1>6, <1>7, <1>8, <1>9, <1>10, <1>11, <1>12, <1>13, <1>14, <1>15, <1>16 DEF IInv

\* It posts the semaphore: no other message of that name is pending.
LEMMA IrqPostStep ==
    ASSUME IInv, IrqPost
    PROVE  IInv'
<1>0. /\ TypeInv /\ HostPlaced /\ DspPlaced /\ CountInv /\ SlotInv /\ TokenInv /\ OutdbInv
      /\ CsrInv /\ RegInv /\ DataInv /\ ResultInv /\ FRAME_NUM \in Nat \ {0}
  BY LinkAssumption DEF IInv
<1>1. /\ irq = "post" /\ irq' = "read" /\ sem' = [sem EXCEPT ![nInfo] = @ + 1]
      /\ UNCHANGED <<HW_FHOG_MODE, pcVars, nInfo, event, h2c, c2h, regs, msi, job, links, place,
        nTemp, nCsrVal, m_nRxInd, used, dsem, srio, mem, fpgaMem, tracked, hidden>>
  BY DEF IrqPost, pcVars, irqVars, regs, links, place, task, srio
<1> USE DEF pcVars, irqVars, regs, links, place, task, srio
<1>2. Lag' = Lag /\ Waited' = Waited /\ OutPC' = OutPC /\ Asked' = Asked
      /\ SentC2H' = SentC2H /\ SentDone' = SentDone
  BY <1>1 DEF Lag, Waited, OutPC, Asked, Past, Asking, InHw, SentC2H, SentDone
<1>3. sem[nInfo] = 0
  <2>1. MsgInv(nInfo) /\ InPost(nInfo) BY <1>1 DEF IInv, TypeInv, InPost
  <2> QED BY <1>0, <2>1 DEF MsgInv, InSem, TypeInv
<1>4. TypeInv'
  BY <1>0, <1>1, <1>3 DEF TypeInv
<1>5. HostPlaced'
  BY <1>0, <1>1 DEF HostPlaced, HostLines
<1>6. DspPlaced'
  BY <1>0, <1>1 DEF DspPlaced, Lines, InHw
<1>7. CountInv'
  BY <1>0, <1>1, <1>2 DEF CountInv, InWrite, Written, Granted, HostPlaced, HostLines
<1>8. SlotInv'
  BY <1>0, <1>1 DEF SlotInv, TakenC2H, SentC2H, TakenDone, SentDone, Lag, AtOutdb, PcDoorbells,
    SwCalls
<1>9. TokenInv'
  BY <1>0, <1>1 DEF TokenInv, Out, OutPC, Lag, From, NoSem, OnlySem, AtOutdb, Doorbell,
    DspDoorbells
<1>10. OutdbInv'
  BY <1>0, <1>1 DEF OutdbInv, HasResp, AtOutdb
<1>11. CsrInv'
  BY <1>0, <1>1 DEF CsrInv, Busy, HasResp
<1>12. RegInv'
  BY <1>0, <1>1 DEF RegInv, SwDst, SwInfo
<1>13. DataInv'
  BY <1>0, <1>1 DEF DataInv, Tracking, JobDst, This, OutPC, Waited, Past, Out, Lag, InHw, rxBuf,
    getOpBuf, Frame, SeqInfo
<1>14. ResultInv'
  BY <1>0, <1>1 DEF ResultInv, WdmaDone, Read, Lag, InHw, This, Frame
<1>15. ASSUME NEW m \in PcDoorbells PROVE MsgInv(m)'
  <2>1. MsgInv(m) BY DEF IInv
  <2> QED BY <1>0, <1>1, <1>2, <2>1 DEF MsgInv, Pending, OnWay, InSlot, InPost, InSem, AtOutdb,
    Granted, TakenC2H, TakenDone, SlotInv, TypeInv
<1> QED BY <1>4, <1>5, <1>6, <1>7, <1>8, <1>9, <1>10, <1>11, <1>12, <1>13, <1>14, <1>15 DEF IInv

\* The FHOG hardware is done: the features are those of the block.
LEMMA HwFhogDoneStep ==
    ASSUME IInv, HwFhogDoneHandler
    PROVE  IInv'
<1>0. /\ TypeInv /\ HostPlaced /\ DspPlaced /\ CountInv /\ SlotInv /\ TokenInv /\ OutdbInv
      /\ CsrInv /\ RegInv /\ DataInv /\ ResultInv /\ FRAME_NUM \in Nat \ {0}
  BY LinkAssumption DEF IInv
<1>1. /\ fpgaMem.busy /\ fpgaMem' = [fpgaMem EXCEPT !.features = fpgaMem.block, !.busy = FALSE]
      /\ dsem' = [dsem EXCEPT !["FHOG"] = @ + 1]
      /\ UNCHANGED <<HW_FHOG_MODE, pcVars, sem, irqVars, h2c, c2h, regs, msi, job, links, place,
        nTemp, nCsrVal, m_nRxInd, used, srio, mem, tracked, hidden>>
  BY DEF HwFhogDoneHandler, pcVars, irqVars, regs, links, place, task, srio
<1> USE DEF pcVars, irqVars, regs, links, place, task, srio
<1>2. Lag' = Lag /\ Waited' = Waited /\ OutPC' = OutPC /\ Asked' = Asked
      /\ SentC2H' = SentC2H /\ SentDone' = SentDone
  BY <1>1 DEF Lag, Waited, OutPC, Asked, Past, Asking, InHw, SentC2H, SentDone
<1>3. dsem["FHOG"] = 0
  BY <1>0, <1>1 DEF DataInv
<1>4. TypeInv'
  BY <1>0, <1>1, <1>3 DEF TypeInv
<1>5. HostPlaced'
  BY <1>0, <1>1 DEF HostPlaced, HostLines
<1>6. DspPlaced'
  BY <1>0, <1>1 DEF DspPlaced, Lines, InHw
<1>7. CountInv'
  BY <1>0, <1>1, <1>2 DEF CountInv, InWrite, Written, Granted, HostPlaced, HostLines
<1>8. SlotInv'
  BY <1>0, <1>1 DEF SlotInv, TakenC2H, SentC2H, TakenDone, SentDone, Lag, AtOutdb, PcDoorbells,
    SwCalls
<1>9. TokenInv'
  BY <1>0, <1>1 DEF TokenInv, Out, OutPC, Lag, From, NoSem, OnlySem, AtOutdb, Doorbell,
    DspDoorbells
<1>10. OutdbInv'
  BY <1>0, <1>1 DEF OutdbInv, HasResp, AtOutdb
<1>11. CsrInv'
  BY <1>0, <1>1 DEF CsrInv, Busy, HasResp
<1>12. RegInv'
  BY <1>0, <1>1 DEF RegInv, SwDst, SwInfo
<1>13. DataInv'
  BY <1>0, <1>1 DEF DataInv, Tracking, JobDst, This, OutPC, Waited, Past, Out, Lag, InHw, rxBuf,
    getOpBuf, Frame, SeqInfo
<1>14. ResultInv'
  BY <1>0, <1>1 DEF ResultInv, WdmaDone, Read, Lag, InHw, This, Frame
<1>15. ASSUME NEW m \in PcDoorbells PROVE MsgInv(m)'
  <2>1. MsgInv(m) BY DEF IInv
  <2> QED BY <1>1, <1>2, <2>1 DEF MsgInv, Pending, OnWay, InSlot, InPost, InSem, AtOutdb, Granted,
    TakenC2H, TakenDone, SlotInv, TypeInv
<1> QED BY <1>4, <1>5, <1>6, <1>7, <1>8, <1>9, <1>10, <1>11, <1>12, <1>13, <1>14, <1>15 DEF IInv

\* The handler takes the one doorbell that has come, and OUTDB is not waited for.
LEMMA SrioHandlerStep ==
    ASSUME IInv, SrioHandler
    PROVE  IInv'
<1>0. /\ TypeInv /\ HostPlaced /\ DspPlaced /\ CountInv /\ SlotInv /\ TokenInv /\ OutdbInv
      /\ CsrInv /\ RegInv /\ DataInv /\ ResultInv /\ FRAME_NUM \in Nat \ {0}
  BY LinkAssumption DEF IInv
<1>1. /\ stat /\ stat' = FALSE /\ outdb' = FALSE /\ inbound' = Tail(inbound)
      /\ dsem' = [dsem EXCEPT ![Head(inbound)] = IF Head(inbound) = "PC_STARTREQ" THEN 1 ELSE @ +
         1]
      /\ UNCHANGED <<HW_FHOG_MODE, pcVars, sem, irqVars, h2c, c2h, regs, msi, job, links, place,
        nTemp, nCsrVal, m_nRxInd, used, mem, fpgaMem, tracked, hidden>>
  BY DEF SrioHandler, pcVars, irqVars, regs, links, place, task, srio
<1> USE DEF pcVars, irqVars, regs, links, place, task, srio
<1>2. Lag' = Lag /\ Waited' = Waited /\ OutPC' = OutPC /\ Asked' = Asked
      /\ SentC2H' = SentC2H /\ SentDone' = SentDone
  BY <1>1 DEF Lag, Waited, OutPC, Asked, Past, Asking, InHw, SentC2H, SentDone
<1>3. Out' = Out /\ (AtOutdb' <=> AtOutdb)
  BY <1>1, <1>2 DEF Out, AtOutdb
<1>4. Out # "none" /\ job = <<>> /\ toDsp = <<>> /\ inbound = <<Out>> /\ NoSem
  BY <1>0, <1>1 DEF TokenInv
<1>5. Out \in DspDoorbells /\ ~AtOutdb
  BY <1>4 DEF Out, OutPC, Lag, AtOutdb, DspDoorbells, PcDoorbells
<1>6. inbound' = <<>> /\ Head(inbound) = Out
  BY <1>1, <1>4
<1>7. \A x \in DspDoorbells \cup {"FHOG"} : dsem'[x] = IF x = Out THEN 1 ELSE dsem[x]
  BY <1>0, <1>1, <1>4, <1>5 DEF NoSem, TypeInv
<1>8. dsem' \in [DspDoorbells \cup {"FHOG"} -> 0 .. 1]
  BY <1>0, <1>1, <1>4, <1>5 DEF NoSem, TypeInv
<1>9. ~stat' /\ ~outdb' /\ stat' \in BOOLEAN /\ outdb' \in BOOLEAN
  BY <1>1, Zenon
<1>10. TypeInv'
  BY <1>0, <1>1, <1>8, <1>9 DEF TypeInv
<1>11. HostPlaced'
  BY <1>0, <1>1 DEF HostPlaced, HostLines
<1>12. DspPlaced'
  BY <1>0, <1>1 DEF DspPlaced, Lines, InHw
<1>13. CountInv'
  BY <1>0, <1>1, <1>2 DEF CountInv, InWrite, Written, Granted, HostPlaced, HostLines
<1>14. SlotInv'
  BY <1>0, <1>1 DEF SlotInv, TakenC2H, SentC2H, TakenDone, SentDone, Lag, AtOutdb, PcDoorbells,
    SwCalls
<1>15. TokenInv'
  BY <1>1, <1>3, <1>4, <1>8 DEF TokenInv, NoSem, OnlySem, From
<1>16. OutdbInv'
  BY <1>0, <1>1, <1>3, <1>5 DEF OutdbInv, HasResp
<1>17. CsrInv'
  BY <1>0, <1>1 DEF CsrInv, Busy, HasResp
<1>18. RegInv'
  BY <1>0, <1>1 DEF RegInv, SwDst, SwInfo
<1>19. DataInv'
  BY <1>0, <1>1, <1>4 DEF DataInv, Tracking, JobDst, This, OutPC, Waited, Past, Out, Lag, InHw,
    rxBuf, getOpBuf, Frame, SeqInfo
<1>20. ResultInv'
  BY <1>0, <1>1 DEF ResultInv, WdmaDone, Read, Lag, InHw, This, Frame
<1>21. ASSUME NEW m \in PcDoorbells PROVE MsgInv(m)'
  <2>1. MsgInv(m) BY DEF IInv
  <2> QED BY <1>1, <1>2, <1>3, <2>1 DEF MsgInv, Pending, OnWay, InSlot, InPost, InSem, Granted,
    TakenC2H, TakenDone
<1> QED BY <1>10, <1>11, <1>12, <1>13, <1>14, <1>15, <1>16, <1>17, <1>18, <1>19, <1>20, <1>21
  DEF IInv

\* A transfer ends: its data are the ones the DSP waits for, the doorbell follows.
LEMMA SwTransferStep ==
    ASSUME IInv, SwTransfer
    PROVE  IInv'
<1>0. /\ TypeInv /\ HostPlaced /\ DspPlaced /\ CountInv /\ SlotInv /\ TokenInv /\ OutdbInv
      /\ CsrInv /\ RegInv /\ DataInv /\ ResultInv /\ FRAME_NUM \in Nat \ {0}
  BY LinkAssumption DEF IInv
<1>1. /\ job # <<>> /\ toDsp' = Append(toDsp, Doorbell("sw", Head(job).info)) /\ job' = Tail(job)
      /\ \/ Head(job).fromFPGA /\ mem' = [mem EXCEPT ![Head(job).dst] = fpgaMem.features]
            /\ h2c' = h2c
         \/ ~Head(job).fromFPGA /\ h2c /\ mem' = [mem EXCEPT ![Head(job).dst] = src]
            /\ h2c' = FALSE
      /\ UNCHANGED <<HW_FHOG_MODE, pcVars, sem, irqVars, c2h, regs, msi, toFpga, place, nTemp,
        nCsrVal, m_nRxInd, used, dsem, srio, fpgaMem, tracked, hidden>>
  BY DEF SwTransfer, pcVars, irqVars, regs, links, place, task, srio
<1> USE DEF pcVars, irqVars, regs, links, place, task, srio
<1>2. Lag' = Lag /\ Waited' = Waited /\ OutPC' = OutPC /\ Asked' = Asked
      /\ SentC2H' = SentC2H /\ SentDone' = SentDone
  BY <1>1 DEF Lag, Waited, OutPC, Asked, Past, Asking, InHw, SentC2H, SentDone
<1>3. Out' = Out /\ (AtOutdb' <=> AtOutdb)
  BY <1>1, <1>2 DEF Out, AtOutdb
<1>4. Out # "none" /\ Out # "PC_STARTREQ" /\ toDsp = <<>> /\ inbound = <<>> /\ ~stat /\ NoSem
  BY <1>0, <1>1 DEF TokenInv
<1>5. (OutPC <=> call # "template") /\ (call = "template" => dsp = 1)
      /\ call \in {"info", "flip", "image", "result", "template"} /\ Out \in DspDoorbells
  BY <1>4 DEF Out, OutPC, DspDoorbells
<1>6. (Head(job).fromFPGA <=> call = "template") /\ Head(job).dst = JobDst
      /\ Head(job).info = Out /\ job' = <<>>
  <2>1. job = <<job[1]>> /\ (job[1].fromFPGA <=> call = "template") /\ job[1].dst = JobDst
        /\ job[1].info = Out
    BY <1>0, <1>1 DEF DataInv
  <2>2. Head(job) = job[1] /\ Tail(job) = <<>> BY <2>1, One
  <2> QED BY <1>1, <2>1, <2>2
<1>7. toDsp' = <<Doorbell("sw", Out)>>
  BY <1>1, <1>4, <1>6
<1>8. toFpga = <<>> /\ ~AtOutdb
  BY <1>0, <1>1, <1>5 DEF OutdbInv, CsrInv, AtOutdb, PcDoorbells
<1>9. OutPC => h2c /\ src = IF call = "info" THEN SeqInfo(run) ELSE Frame(run, Waited - 1)
  <2> SUFFICES ASSUME OutPC PROVE h2c /\ src = IF call = "info" THEN SeqInfo(run) ELSE Frame(run,
      Waited - 1)
    OBVIOUS
  <2>1. h2c BY <1>1, <1>5, <1>6
  <2>2. InWrite /\ Written - 1 = Waited BY <1>0, <1>1, <2>1 DEF CountInv
  <2>3. Waited = IF call \in {"info", "flip"} THEN frame ELSE frame + 1
    BY <1>5 DEF Waited, Past, OutPC, InHw, Lag
  <2>4. Waited = nFrame BY <1>0, <2>2, <2>3 DEF Written, HostPlaced
  <2>5. CASE call = "info" BY <1>0, <2>1, <2>2, <2>3, <2>4, <2>5 DEF DspPlaced, InWrite, DataInv
  <2>6. CASE call # "info"
    <3>1. Waited \in 1 .. FRAME_NUM BY <1>0, <2>3, <2>6 DEF DspPlaced, OutPC
    <3> QED BY <1>0, <2>1, <2>2, <2>4, <2>6, <3>1 DEF InWrite, DataInv
  <2> QED BY <2>5, <2>6
<1>10. mem' = [mem EXCEPT ![JobDst] = IF call = "template" THEN fpgaMem.features ELSE src]
  BY <1>1, <1>6
<1>11. h2c' \in BOOLEAN /\ (h2c' <=> h2c /\ call = "template")
  <2>1. h2c \in BOOLEAN BY <1>0 DEF TypeInv
  <2>2. CASE call = "template"
    <3>1. h2c' = h2c BY <1>1, <1>6, <2>2
    <3> QED BY <2>1, <2>2, <3>1, Zenon
  <2>3. CASE call # "template"
    <3>1. h2c' = FALSE BY <1>1, <1>6, <2>3
    <3> QED BY <2>3, <3>1, Zenon
  <2> QED BY <2>2, <2>3
<1>12. TypeInv'
  BY <1>0, <1>1, <1>11 DEF TypeInv
<1>13. HostPlaced'
  BY <1>0, <1>1 DEF HostPlaced, HostLines
<1>14. DspPlaced'
  BY <1>0, <1>1 DEF DspPlaced, Lines, InHw
<1>15. CountInv'
  BY <1>0, <1>1, <1>2, <1>5, <1>6 DEF CountInv, InWrite, Written, Granted, HostPlaced, HostLines
<1>16. SlotInv'
  BY <1>0, <1>1 DEF SlotInv, TakenC2H, SentC2H, TakenDone, SentDone, Lag, AtOutdb, PcDoorbells,
    SwCalls
<1>17. TokenInv'
  BY <1>1, <1>3, <1>4, <1>6 DEF TokenInv, NoSem, OnlySem, From
<1>18. OutdbInv'
  BY <1>0, <1>1, <1>3, <1>8 DEF OutdbInv
<1>19. CsrInv'
  BY <1>0, <1>1, <1>4, <1>8 DEF CsrInv, Busy, HasResp, SwCalls, Doorbell, Response
<1>20. RegInv'
  BY <1>0, <1>1 DEF RegInv, SwDst, SwInfo
<1>21. DataInv'
  <2>1. DOMAIN mem = {"seqInfo", "rxBuf0", "rxBuf1", "tmpl"} /\ m_nRxInd \in 0 .. 1
    BY <1>0 DEF TypeInv
  <2>2. JobDst \in DOMAIN mem BY <2>1 DEF JobDst, rxBuf
  <2>3. mem'[JobDst] = (IF call = "template" THEN fpgaMem.features ELSE src)
        /\ \A b \in DOMAIN mem : b # JobDst => mem'[b] = mem[b]
    BY <1>10, <2>2
  <2>4. JobDst # getOpBuf /\ getOpBuf \in DOMAIN mem BY <2>1 DEF JobDst, rxBuf, getOpBuf
  <2>5. (call = "flip" /\ dsp = 2) => FALSE BY <1>5 DEF OutPC
  <2>6. getOpBuf' = getOpBuf /\ This' = This /\ (Tracking' <=> Tracking)
        /\ (OutPC' <=> OutPC) /\ Waited' = Waited
    BY <1>1, <1>2 DEF getOpBuf, This, Tracking, InHw
  <2>7. OutPC /\ call # "info" => mem'[rxBuf(m_nRxInd)] = Frame(run, Waited - 1)
    BY <1>5, <1>9, <2>3 DEF JobDst
  <2>8. call = "info" => mem'["seqInfo"] = SeqInfo(run) BY <1>5, <1>9, <2>3 DEF JobDst
  <2>9. call = "template" => mem'["tmpl"] = This BY <1>0, <2>3 DEF JobDst, DataInv
  <2>10. Tracking => mem'[getOpBuf] = This BY <1>0, <2>3, <2>4 DEF DataInv
  <2> QED BY <1>0, <1>1, <2>5, <2>6, <2>7, <2>8, <2>9, <2>10 DEF DataInv
<1>22. ResultInv'
  BY <1>0, <1>1 DEF ResultInv, WdmaDone, Read, Lag, InHw, This, Frame
<1>23. ASSUME NEW m \in PcDoorbells PROVE MsgInv(m)'
  <2>1. MsgInv(m) BY DEF IInv
  <2> QED BY <1>1, <1>2, <1>3, <2>1 DEF MsgInv, Pending, OnWay, InSlot, InPost, InSem, Granted,
    TakenC2H, TakenDone
<1> QED BY <1>12, <1>13, <1>14, <1>15, <1>16, <1>17, <1>18, <1>19, <1>20, <1>21, <1>22, <1>23
  DEF IInv

\* The response to a doorbell of the DSP: sendDB sees OUTDB.
LEMMA DspReceivesResponseStep ==
    ASSUME IInv, DspReceives, toDsp[1].type = "response"
    PROVE  IInv'
<1>0. /\ TypeInv /\ HostPlaced /\ DspPlaced /\ CountInv /\ SlotInv /\ TokenInv /\ OutdbInv
      /\ CsrInv /\ RegInv /\ DataInv /\ ResultInv /\ FRAME_NUM \in Nat \ {0}
  BY LinkAssumption DEF IInv
<1>1. /\ toDsp # <<>> /\ toDsp' = Tail(toDsp) /\ outdb' = TRUE
      /\ UNCHANGED <<HW_FHOG_MODE, pcVars, sem, irqVars, h2c, c2h, regs, msi, job, toFpga,
        place, nTemp, nCsrVal, m_nRxInd, used, dsem, inbound, stat, mem, fpgaMem, tracked,
        hidden>>
  BY DEF DspReceives, pcVars, irqVars, regs, links, place, task, srio
<1> USE DEF pcVars, irqVars, regs, links, place, task, srio
<1>2. Lag' = Lag /\ Waited' = Waited /\ OutPC' = OutPC /\ Asked' = Asked
      /\ SentC2H' = SentC2H /\ SentDone' = SentDone
  BY <1>1 DEF Lag, Waited, OutPC, Asked, Past, Asking, InHw, SentC2H, SentDone
<1>3. Out' = Out /\ (AtOutdb' <=> AtOutdb)
  BY <1>1, <1>2 DEF Out, AtOutdb
<1>4. AtOutdb /\ toFpga = <<>> /\ toDsp = <<Response(Doorbell("dsp", call))>>
  BY <1>0, <1>1 DEF TokenInv, OutdbInv, Doorbell, Response
<1>5. toDsp' = <<>> /\ job = <<>> /\ inbound = <<>> /\ ~stat /\ NoSem
      /\ (Out = "none" \/ (Out = "PC_STARTREQ" /\ hidden > 0))
  BY <1>0, <1>1, <1>4 DEF TokenInv, Doorbell
<1>6. outdb' /\ outdb' \in BOOLEAN
  BY <1>1, Zenon
<1>7. TypeInv'
  BY <1>0, <1>1 DEF TypeInv
<1>8. HostPlaced'
  BY <1>0, <1>1 DEF HostPlaced, HostLines
<1>9. DspPlaced'
  BY <1>0, <1>1 DEF DspPlaced, Lines, InHw
<1>10. CountInv'
  BY <1>0, <1>1, <1>2 DEF CountInv, InWrite, Written, Granted, HostPlaced, HostLines
<1>11. SlotInv'
  BY <1>0, <1>1 DEF SlotInv, TakenC2H, SentC2H, TakenDone, SentDone, Lag, AtOutdb, PcDoorbells,
    SwCalls
<1>12. TokenInv'
  BY <1>1, <1>3, <1>5 DEF TokenInv, NoSem
<1>13. OutdbInv'
  BY <1>1, <1>3, <1>4 DEF OutdbInv
<1>14. CsrInv'
  BY <1>0, <1>1, <1>4 DEF CsrInv, Busy, HasResp, SwCalls, Doorbell, Response
<1>15. RegInv'
  BY <1>0, <1>1 DEF RegInv, SwDst, SwInfo
<1>16. DataInv'
  BY <1>0, <1>1 DEF DataInv, Tracking, JobDst, This, OutPC, Waited, Past, Out, Lag, InHw, rxBuf,
    getOpBuf, Frame, SeqInfo
<1>17. ResultInv'
  BY <1>0, <1>1 DEF ResultInv, WdmaDone, Read, Lag, InHw, This, Frame
<1>18. ASSUME NEW m \in PcDoorbells PROVE MsgInv(m)'
  <2>1. MsgInv(m) BY DEF IInv
  <2> QED BY <1>1, <1>2, <1>3, <2>1 DEF MsgInv, Pending, OnWay, InSlot, InPost, InSem, Granted,
    TakenC2H, TakenDone
<1> QED BY <1>7, <1>8, <1>9, <1>10, <1>11, <1>12, <1>13, <1>14, <1>15, <1>16, <1>17, <1>18
  DEF IInv

\* A doorbell of the bridge: answered, and stored for SrioHandler.
LEMMA DspReceivesDoorbellStep ==
    ASSUME IInv, DspReceives, toDsp[1].type = "doorbell"
    PROVE  IInv'
<1>0. /\ TypeInv /\ HostPlaced /\ DspPlaced /\ CountInv /\ SlotInv /\ TokenInv /\ OutdbInv
      /\ CsrInv /\ RegInv /\ DataInv /\ ResultInv /\ FRAME_NUM \in Nat \ {0}
  BY LinkAssumption DEF IInv
<1>1. /\ toDsp # <<>> /\ toDsp' = Tail(toDsp) /\ toFpga' = Append(toFpga, Response(toDsp[1]))
      /\ inbound' = Append(inbound, toDsp[1].info) /\ stat' = TRUE
      /\ UNCHANGED <<HW_FHOG_MODE, pcVars, sem, irqVars, h2c, c2h, regs, msi, job, place, nTemp,
        nCsrVal, m_nRxInd, used, dsem, outdb, mem, fpgaMem, tracked, hidden>>
  BY DEF DspReceives, pcVars, irqVars, regs, links, place, task, srio
<1> USE DEF pcVars, irqVars, regs, links, place, task, srio
<1>2. Lag' = Lag /\ Waited' = Waited /\ OutPC' = OutPC /\ Asked' = Asked
      /\ SentC2H' = SentC2H /\ SentDone' = SentDone
  BY <1>1 DEF Lag, Waited, OutPC, Asked, Past, Asking, InHw, SentC2H, SentDone
<1>3. Out' = Out /\ (AtOutdb' <=> AtOutdb)
  BY <1>1, <1>2 DEF Out, AtOutdb
<1>4. toDsp = <<Doorbell(From(Out), Out)>> /\ job = <<>> /\ inbound = <<>> /\ NoSem
      /\ Out # "none"
  BY <1>0, <1>1 DEF TokenInv, OutdbInv, Doorbell, Response
<1>5. Out \in DspDoorbells /\ ~AtOutdb
  BY <1>4 DEF Out, OutPC, Lag, AtOutdb, DspDoorbells, PcDoorbells
<1>6. toFpga = <<>>
  BY <1>0, <1>4 DEF OutdbInv, CsrInv
<1>7. toDsp' = <<>> /\ toFpga' = <<Response(Doorbell(From(Out), Out))>> /\ inbound' = <<Out>>
  BY <1>1, <1>4, <1>6 DEF Doorbell
<1>8. stat' /\ stat' \in BOOLEAN
  BY <1>1, Zenon
<1>9. TypeInv'
  BY <1>0, <1>1 DEF TypeInv
<1>10. HostPlaced'
  BY <1>0, <1>1 DEF HostPlaced, HostLines
<1>11. DspPlaced'
  BY <1>0, <1>1 DEF DspPlaced, Lines, InHw
<1>12. CountInv'
  BY <1>0, <1>1, <1>2 DEF CountInv, InWrite, Written, Granted, HostPlaced, HostLines
<1>13. SlotInv'
  BY <1>0, <1>1, <1>5 DEF SlotInv, TakenC2H, SentC2H, TakenDone, SentDone, Lag, AtOutdb,
    PcDoorbells, SwCalls
<1>14. TokenInv'
  BY <1>1, <1>3, <1>4, <1>7 DEF TokenInv, NoSem
<1>15. OutdbInv'
  BY <1>0, <1>1, <1>3, <1>4, <1>6 DEF OutdbInv, HasResp, Doorbell, Response, From
<1>16. CsrInv'
  BY <1>0, <1>1, <1>4, <1>7 DEF CsrInv, Busy, HasResp, SwCalls, Doorbell, Response, From, Out,
    OutPC, Lag
<1>17. RegInv'
  BY <1>0, <1>1 DEF RegInv, SwDst, SwInfo
<1>18. DataInv'
  BY <1>0, <1>1 DEF DataInv, Tracking, JobDst, This, OutPC, Waited, Past, Out, Lag, InHw, rxBuf,
    getOpBuf, Frame, SeqInfo
<1>19. ResultInv'
  BY <1>0, <1>1 DEF ResultInv, WdmaDone, Read, Lag, InHw, This, Frame
<1>20. ASSUME NEW m \in PcDoorbells PROVE MsgInv(m)'
  <2>1. MsgInv(m) BY DEF IInv
  <2> QED BY <1>1, <1>2, <1>3, <1>5, <2>1 DEF MsgInv, Pending, OnWay, InSlot, InPost, InSem,
    Granted, TakenC2H, TakenDone
<1> QED BY <1>9, <1>10, <1>11, <1>12, <1>13, <1>14, <1>15, <1>16, <1>17, <1>18, <1>19, <1>20
  DEF IInv

\* The bridge sees a response: the engine is free, unless the pulse is hidden.
LEMMA FpgaReceivesResponseStep ==
    ASSUME IInv, NEW hide \in BOOLEAN, FpgaReceives(hide), toFpga[1].type = "response"
    PROVE  IInv'
<1>0. /\ TypeInv /\ HostPlaced /\ DspPlaced /\ CountInv /\ SlotInv /\ TokenInv /\ OutdbInv
      /\ CsrInv /\ RegInv /\ DataInv /\ ResultInv /\ FRAME_NUM \in Nat \ {0}
  BY LinkAssumption DEF IInv
<1>1. /\ toFpga # <<>> /\ toFpga' = Tail(toFpga) /\ csr' = IF hide THEN csr ELSE [csr EXCEPT
         ![toFpga[1].from] = FALSE]
      /\ hidden' = IF hide THEN hidden + 1 ELSE hidden
      /\ UNCHANGED <<HW_FHOG_MODE, pcVars, sem, irqVars, h2c, c2h, mode, txinfo, sw_dst, msi,
        job, toDsp, place, nTemp, nCsrVal, m_nRxInd, used, dsem, srio, mem, fpgaMem, tracked>>
  BY DEF FpgaReceives, Missed, pcVars, irqVars, regs, links, place, task, srio
<1> USE DEF pcVars, irqVars, regs, links, place, task, srio
<1>2. Lag' = Lag /\ Waited' = Waited /\ OutPC' = OutPC /\ Asked' = Asked
      /\ SentC2H' = SentC2H /\ SentDone' = SentDone
  BY <1>1 DEF Lag, Waited, OutPC, Asked, Past, Asking, InHw, SentC2H, SentDone
<1>3. Out' = Out /\ (AtOutdb' <=> AtOutdb)
  BY <1>1, <1>2 DEF Out, AtOutdb
<1>4. hidden' \in Nat /\ (hide => hidden' > 0) /\ (hidden > 0 => hidden' > 0)
  BY <1>0, <1>1 DEF TypeInv
<1>5. HasResp("db") \/ HasResp("sw")
  BY <1>0, <1>1 DEF OutdbInv, Doorbell
<1>6. toFpga' = IF AtOutdb THEN <<Doorbell("dsp", call)>> ELSE <<>>
  <2>1. CASE AtOutdb
    <3>1. toFpga = <<toFpga[1], Doorbell("dsp", call)>>
      BY <1>0, <1>5, <2>1 DEF OutdbInv, HasResp, Doorbell
    <3> QED BY <1>1, <2>1, <3>1, Two
  <2>2. CASE ~AtOutdb
    <3>1. toFpga = <<toFpga[1]>> BY <1>0, <1>1, <2>2 DEF OutdbInv
    <3> QED BY <1>1, <2>2, <3>1, One
  <2> QED BY <2>1, <2>2
<1>7. (toFpga' # <<>> <=> AtOutdb) /\ ~HasResp("db")' /\ ~HasResp("sw")'
  BY <1>6 DEF HasResp, Doorbell
<1>8. csr' \in Csr /\ (csr'.err <=> csr.err) /\ (csr'.db <=> csr.db /\ (hide \/ ~HasResp("db")))
      /\ (csr'.sw <=> csr.sw /\ (hide \/ ~HasResp("sw")))
  BY <1>0, <1>1, <1>5 DEF HasResp, TypeInv, Csr
<1>9. job = <<>> \/ ~HasResp("sw")
  BY <1>0 DEF CsrInv
<1>10. toDsp = <<>> /\ ~outdb
  BY <1>0, <1>1 DEF CsrInv, OutdbInv
<1>11. /\ Busy("db") <=> HasResp("db")
       /\ Busy("sw") <=> HasResp("sw") \/ job # <<>>
       /\ ~Busy("db")' /\ (Busy("sw")' <=> job # <<>>)
  BY <1>1, <1>7, <1>10 DEF Busy
<1>12. TypeInv'
  BY <1>0, <1>1, <1>8 DEF TypeInv
<1>13. HostPlaced'
  BY <1>0, <1>1 DEF HostPlaced, HostLines
<1>14. DspPlaced'
  BY <1>0, <1>1 DEF DspPlaced, Lines, InHw
<1>15. CountInv'
  BY <1>0, <1>1, <1>2 DEF CountInv, InWrite, Written, Granted, HostPlaced, HostLines
<1>16. SlotInv'
  BY <1>0, <1>1, <1>4 DEF SlotInv, TakenC2H, SentC2H, TakenDone, SentDone, Lag, AtOutdb,
    PcDoorbells, SwCalls
<1>17. TokenInv'
  BY <1>0, <1>1, <1>3, <1>4 DEF TokenInv, NoSem, OnlySem, From
<1>18. OutdbInv'
  <2>1. CASE AtOutdb BY <1>1, <1>3, <1>6, <1>10, <2>1 DEF OutdbInv
  <2>2. CASE ~AtOutdb BY <1>1, <1>3, <1>6, <1>10, <2>2 DEF OutdbInv
  <2> QED BY <2>1, <2>2
<1>19. CsrInv'
  <2>1. \A f \in {"db", "sw"} : (Busy(f)' => csr'[f]) /\ (csr'[f] => Busy(f)' \/ hidden' > 0)
    <3>1. (csr'.db => hidden' > 0) /\ ~Busy("db")'
      BY <1>0, <1>4, <1>8, <1>11 DEF CsrInv
    <3>2. (Busy("sw")' => csr'.sw) /\ (csr'.sw => Busy("sw")' \/ hidden' > 0)
      BY <1>0, <1>4, <1>8, <1>11 DEF CsrInv
    <3> QED BY <3>1, <3>2
  <2>2. call \in SwCalls /\ dsp >= 2 => ~csr'.sw /\ (nCsrVal <=> csr'.db)
    BY <1>0, <1>8 DEF CsrInv, SwCalls
  <2>3. nFrame = 0 /\ pc = 4 => ~csr'.db /\ (nTempPC.sw <=> csr'.sw)
    BY <1>0, <1>8 DEF CsrInv, CountInv
  <2> QED BY <1>0, <1>1, <1>4, <1>7, <2>1, <2>2, <2>3 DEF CsrInv
<1>20. RegInv'
  BY <1>0, <1>1 DEF RegInv, SwDst, SwInfo
<1>21. DataInv'
  BY <1>0, <1>1 DEF DataInv, Tracking, JobDst, This, OutPC, Waited, Past, Out, Lag, InHw, rxBuf,
    getOpBuf, Frame, SeqInfo
<1>22. ResultInv'
  BY <1>0, <1>1 DEF ResultInv, WdmaDone, Read, Lag, InHw, This, Frame
<1>23. ASSUME NEW m \in PcDoorbells PROVE MsgInv(m)'
  <2>1. MsgInv(m) BY DEF IInv
  <2> QED BY <1>1, <1>2, <1>3, <1>4, <1>7, <2>1 DEF MsgInv, Pending, OnWay, InSlot, InPost, InSem,
    Granted, TakenC2H, TakenDone
<1> QED BY <1>12, <1>13, <1>14, <1>15, <1>16, <1>17, <1>18, <1>19, <1>20, <1>21, <1>22, <1>23
  DEF IInv

\* The bridge sees a message: the slot is free, and an event if the pulse is seen.
LEMMA FpgaReceivesDoorbellStep ==
    ASSUME IInv, NEW hide \in BOOLEAN, FpgaReceives(hide), toFpga[1].type = "doorbell"
    PROVE  IInv'
<1>0. /\ TypeInv /\ HostPlaced /\ DspPlaced /\ CountInv /\ SlotInv /\ TokenInv /\ OutdbInv
      /\ CsrInv /\ RegInv /\ DataInv /\ ResultInv /\ FRAME_NUM \in Nat \ {0}
  BY LinkAssumption DEF IInv
<1>1. /\ toFpga # <<>> /\ toFpga' = Tail(toFpga) /\ toDsp' = Append(toDsp, Response(Head(toFpga)))
      /\ hidden' = IF hide THEN hidden + 1 ELSE hidden
      /\ msi' = (IF hide \/ mode.nomsi THEN msi ELSE IF msi.busy THEN [msi EXCEPT !.err = TRUE]
                 ELSE [msi EXCEPT !.busy = TRUE, !.info = Head(toFpga).info])
      /\ event' \in BOOLEAN /\ (event' <=> event \/ (msi'.busy /\ ~msi.busy))
      /\ UNCHANGED <<HW_FHOG_MODE, pcVars, sem, irq, nInfo, h2c, c2h, regs, job, place, nTemp,
        nCsrVal, m_nRxInd, used, dsem, srio, mem, fpgaMem, tracked>>
  <2>1. Head(toFpga).type # "response" BY DEF FpgaReceives
  <2>2. /\ csr' = csr /\ toDsp' = Append(toDsp, Response(Head(toFpga)))
        /\ msi' = (IF hide \/ mode.nomsi THEN msi ELSE IF msi.busy THEN [msi EXCEPT !.err = TRUE]
                   ELSE [msi EXCEPT !.busy = TRUE, !.info = Head(toFpga).info])
        /\ event' = (event \/ (msi'.busy /\ ~msi.busy))
    BY <2>1, Zenon DEF FpgaReceives
  <2>3. event' \in BOOLEAN /\ (event' <=> event \/ (msi'.busy /\ ~msi.busy)) BY <2>2
  <2> QED BY <2>2, <2>3 DEF FpgaReceives, Missed, pcVars, irqVars, regs, links, place, task, srio
<1> USE DEF pcVars, irqVars, regs, links, place, task, srio
<1>2. Lag' = Lag /\ Waited' = Waited /\ OutPC' = OutPC /\ Asked' = Asked
      /\ SentC2H' = SentC2H /\ SentDone' = SentDone
  BY <1>1 DEF Lag, Waited, OutPC, Asked, Past, Asking, InHw, SentC2H, SentDone
<1>3. Out' = Out /\ (AtOutdb' <=> AtOutdb)
  BY <1>1, <1>2 DEF Out, AtOutdb
<1>4. hidden' \in Nat /\ (hide => hidden' > 0) /\ (hidden > 0 => hidden' > 0)
  BY <1>0, <1>1 DEF TypeInv
<1>5. AtOutdb /\ toFpga = <<Doorbell("dsp", call)>> /\ toDsp = <<>> /\ ~outdb
  BY <1>0, <1>1 DEF OutdbInv, HasResp
<1>6. toFpga' = <<>> /\ toDsp' = <<Response(Doorbell("dsp", call))>>
  BY <1>1, <1>5
<1>7. Out = "none"
  BY <1>5 DEF Out, OutPC, Lag, AtOutdb, PcDoorbells
<1>8. ~msi.busy /\ ~mode.nomsi /\ ~event /\ ~msi.err /\ irq # "info"
  BY <1>0, <1>5 DEF SlotInv, RegInv
<1>9. /\ msi' \in [busy : BOOLEAN, info : PcDoorbells, err : BOOLEAN] /\ ~msi'.err
      /\ (msi'.busy <=> ~hide) /\ (msi'.busy => msi'.info = call)
  <2>0. msi \in [busy : BOOLEAN, info : PcDoorbells, err : BOOLEAN] /\ call \in PcDoorbells
    BY <1>0, <1>5 DEF TypeInv, AtOutdb
  <2>1. CASE hide
    <3>1. msi' = msi BY <1>1, <2>1, Zenon
    <3> QED BY <1>8, <2>0, <2>1, <3>1
  <2>2. CASE ~hide
    <3>1. Head(toFpga).info = call BY <1>5 DEF Doorbell
    <3>2. msi' = [msi EXCEPT !.busy = TRUE, !.info = call] BY <1>1, <1>8, <2>2, <3>1
    <3> QED BY <1>8, <2>0, <2>2, <3>2
  <2> QED BY <2>1, <2>2
<1>10. event' \in BOOLEAN /\ (event' <=> ~hide)
  BY <1>1, <1>8 DEF TypeInv
<1>11. TypeInv'
  BY <1>0, <1>1, <1>9 DEF TypeInv
<1>12. HostPlaced'
  BY <1>0, <1>1 DEF HostPlaced, HostLines
<1>13. DspPlaced'
  BY <1>0, <1>1 DEF DspPlaced, Lines, InHw
<1>14. CountInv'
  BY <1>0, <1>1, <1>2 DEF CountInv, InWrite, Written, Granted, HostPlaced, HostLines
<1>15. SlotInv'
  BY <1>0, <1>1, <1>5 DEF SlotInv, TakenC2H, SentC2H, TakenDone, SentDone, Lag, AtOutdb,
    PcDoorbells, SwCalls
<1>16. TokenInv'
  BY <1>0, <1>1, <1>3, <1>5, <1>7 DEF TokenInv, NoSem
<1>17. OutdbInv'
  BY <1>0, <1>1, <1>6 DEF OutdbInv, HasResp
<1>18. CsrInv'
  BY <1>0, <1>1, <1>4, <1>6 DEF CsrInv, Busy, HasResp, SwCalls, Doorbell, Response
<1>19. RegInv'
  BY <1>0, <1>1 DEF RegInv, SwDst, SwInfo
<1>20. DataInv'
  BY <1>0, <1>1 DEF DataInv, Tracking, JobDst, This, OutPC, Waited, Past, Out, Lag, InHw, rxBuf,
    getOpBuf, Frame, SeqInfo
<1>21. ResultInv'
  BY <1>0, <1>1 DEF ResultInv, WdmaDone, Read, Lag, InHw, This, Frame
<1>22. ASSUME NEW m \in PcDoorbells PROVE MsgInv(m)'
  <2>1. MsgInv(m) BY DEF IInv
  <2> QED BY <1>1, <1>2, <1>4, <1>5, <1>8, <1>9, <2>1 DEF MsgInv, Pending, OnWay, InSlot, InPost,
    InSem, Granted, TakenC2H, TakenDone, AtOutdb
<1> QED BY <1>11, <1>12, <1>13, <1>14, <1>15, <1>16, <1>17, <1>18, <1>19, <1>20, <1>21, <1>22
  DEF IInv

-----------------------------------------------------------------------------
(* MainTskFxn: registers.                                                  *)

\* SRIO_MODE is written by the DSP only.
LEMMA DspModeReadStep ==
    ASSUME IInv, DspRegs, DspAt("modeRead")
    PROVE  IInv'
<1>0. /\ TypeInv /\ HostPlaced /\ DspPlaced /\ CountInv /\ SlotInv /\ TokenInv /\ OutdbInv
      /\ CsrInv /\ RegInv /\ DataInv /\ ResultInv /\ FRAME_NUM \in Nat \ {0}
  BY LinkAssumption DEF IInv
<1>t. DspTable /\ (call # "abort" => Len(MainTskFxn) = Lines)
  BY <1>0, DspLines, DspLength
<1>1. (call \in PcDoorbells \cup {"nwToFPGA", "nwToPC"} /\ dsp = 1) \/ (call \in SwCalls
      /\ dsp = 5)
  BY <1>t DEF DspTable
<1>2. ~DspAt("modeWrite") /\ ~DspAt("msiFree") /\ ~DspAt("csrRead") /\ ~DspAt("params") /\
  ~DspAt("infoRead") /\ ~DspAt("infoWrite") /\ ~DspAt("csrWrite")
  BY <1>t DEF DspTable, PcDoorbells, SwCalls
<1>3. /\ nTemp' = mode
      /\ DspNext
      /\ UNCHANGED <<HW_FHOG_MODE, pcVars, sem, irqVars, h2c, c2h, regs, msi, job, links,
        nCsrVal, m_nRxInd, used, dsem, srio, mem, fpgaMem, tracked, hidden>>
  BY <1>2 DEF DspRegs, links, place, task, srio
<1>4. dsp' = dsp + 1 /\ UNCHANGED <<call, frame, again>>
  <2>1. call # "abort" /\ dsp < Lines BY <1>1 DEF Lines, PcDoorbells, SwCalls
  <2>2. dsp < Len(MainTskFxn) BY <1>t, <2>1
  <2> QED BY <1>3, <2>2 DEF DspNext
<1> USE DEF pcVars, irqVars, regs, links, place, task, srio
<1>5. Lag' = Lag /\ Waited' = Waited /\ OutPC' = OutPC /\ Asked' = Asked
      /\ SentC2H' = SentC2H /\ SentDone' = SentDone
  BY <1>1, <1>3, <1>4 DEF Lag, Waited, OutPC, Asked, Past, Asking, InHw, SentC2H, SentDone,
    PcDoorbells, SwCalls
<1>6. Out' = Out /\ (AtOutdb' <=> AtOutdb)
  BY <1>1, <1>3, <1>4, <1>5 DEF Out, AtOutdb, PcDoorbells, SwCalls
<1>7. /\ call \notin {"info", "flip", "fhog", "template", "image", "result", "results", "request"}
      /\ This' = This /\ (Tracking' <=> Tracking) /\ JobDst' = JobDst
         /\ getOpBuf' = getOpBuf /\ (WdmaDone' <=> WdmaDone) /\ (InHw' <=> InHw)
  BY <1>1, <1>3, <1>4 DEF This, Frame, Tracking, InHw, JobDst, getOpBuf, rxBuf, WdmaDone,
    PcDoorbells, SwCalls
<1>8. TypeInv'
  BY <1>0, <1>3 DEF TypeInv
<1>9. HostPlaced'
  BY <1>0, <1>3 DEF HostPlaced, HostLines
<1>10. DspPlaced'
  BY <1>0, <1>1, <1>3, <1>4 DEF DspPlaced, Lines, InHw, Calls, PcDoorbells, SwCalls
<1>11. CountInv'
  BY <1>0, <1>3, <1>4, <1>5 DEF CountInv, InWrite, Written, Granted, HostPlaced, HostLines
<1>12. SlotInv'
  BY <1>0, <1>1, <1>3, <1>4, <1>5 DEF SlotInv, TakenC2H, TakenDone, AtOutdb, PcDoorbells, SwCalls
<1>13. TokenInv'
  BY <1>0, <1>3, <1>6 DEF TokenInv, NoSem, OnlySem, From
<1>14. OutdbInv'
  BY <1>0, <1>3, <1>4, <1>6 DEF OutdbInv, HasResp
<1>15. CsrInv'
  BY <1>0, <1>1, <1>3, <1>4 DEF CsrInv, Busy, HasResp, SwCalls, PcDoorbells, Doorbell, Response
<1>16. RegInv'
  BY <1>0, <1>1, <1>3, <1>4 DEF RegInv, SwDst, SwInfo
<1>17. DataInv'
  BY <1>0, <1>3, <1>4, <1>5, <1>6, <1>7 DEF DataInv
<1>18. ResultInv'
  BY <1>0, <1>3, <1>4, <1>5, <1>7 DEF ResultInv, Read
<1>19. ASSUME NEW m \in PcDoorbells PROVE MsgInv(m)'
  <2>1. MsgInv(m) BY DEF IInv
  <2> QED BY <1>3, <1>4, <1>5, <1>6, <2>1 DEF MsgInv, Pending, OnWay, InSlot, InPost, InSem,
    Granted, TakenC2H, TakenDone
<1> QED BY <1>8, <1>9, <1>10, <1>11, <1>12, <1>13, <1>14, <1>15, <1>16, <1>17, <1>18, <1>19
  DEF IInv

\* SRIO_MODE: the bit of this call.
LEMMA DspModeWriteStep ==
    ASSUME IInv, DspRegs, DspAt("modeWrite"), call # "nwToPC"
    PROVE  IInv'
<1>0. /\ TypeInv /\ HostPlaced /\ DspPlaced /\ CountInv /\ SlotInv /\ TokenInv /\ OutdbInv
      /\ CsrInv /\ RegInv /\ DataInv /\ ResultInv /\ FRAME_NUM \in Nat \ {0}
  BY LinkAssumption DEF IInv
<1>t. DspTable /\ (call # "abort" => Len(MainTskFxn) = Lines)
  BY <1>0, DspLines, DspLength
<1>1. (call \in PcDoorbells \cup {"nwToFPGA", "nwToPC"} /\ dsp = 2) \/ (call \in SwCalls
      /\ dsp = 6)
  BY <1>t DEF DspTable
<1>2. ~DspAt("modeRead") /\ ~DspAt("msiFree") /\ ~DspAt("csrRead") /\ ~DspAt("params") /\
  ~DspAt("infoRead") /\ ~DspAt("infoWrite") /\ ~DspAt("csrWrite")
  BY <1>t DEF DspTable, PcDoorbells, SwCalls
<1>3. /\ mode' = NewMode
      /\ DspNext
      /\ UNCHANGED <<HW_FHOG_MODE, pcVars, sem, irqVars, h2c, c2h, csr, txinfo, sw_dst, msi,
        job, links, nTemp, nCsrVal, m_nRxInd, used, dsem, srio, mem, fpgaMem, tracked, hidden>>
  BY <1>2 DEF DspRegs, links, place, task, srio
<1>4. dsp' = dsp + 1 /\ UNCHANGED <<call, frame, again>>
  <2>1. call # "abort" /\ dsp < Lines BY <1>1 DEF Lines, PcDoorbells, SwCalls
  <2>2. dsp < Len(MainTskFxn) BY <1>t, <2>1
  <2> QED BY <1>3, <2>2 DEF DspNext
<1> USE DEF pcVars, irqVars, regs, links, place, task, srio
<1>5. Lag' = Lag /\ Waited' = Waited /\ OutPC' = OutPC /\ Asked' = Asked
      /\ SentC2H' = SentC2H /\ SentDone' = SentDone
  BY <1>1, <1>3, <1>4 DEF Lag, Waited, OutPC, Asked, Past, Asking, InHw, SentC2H, SentDone,
    PcDoorbells, SwCalls
<1>6. Out' = Out /\ (AtOutdb' <=> AtOutdb)
  BY <1>1, <1>3, <1>4, <1>5 DEF Out, AtOutdb
<1>7. /\ call \notin {"info", "flip", "fhog", "template", "image", "result", "results", "request"}
      /\ This' = This /\ (Tracking' <=> Tracking) /\ JobDst' = JobDst
         /\ getOpBuf' = getOpBuf /\ (WdmaDone' <=> WdmaDone) /\ (InHw' <=> InHw)
  BY <1>1, <1>3, <1>4 DEF This, Frame, Tracking, InHw, JobDst, getOpBuf, rxBuf, WdmaDone,
    PcDoorbells, SwCalls
<1>8. nTemp = mode
  BY <1>0, <1>1 DEF RegInv
<1>9. /\ mode' \in Mode /\ ~mode'.nomsi /\ (call \in PcDoorbells => (mode'.nw <=> mode.nw))
      /\ (call \in SwCalls => (mode'.sw <=> call = "features") /\ (mode'.nw <=> mode.nw))
         /\ (call = "nwToFPGA" => mode'.nw)
  <2>1. mode \in Mode /\ ~mode.nomsi BY <1>0 DEF TypeInv, RegInv
  <2>2. CASE call \in PcDoorbells
    <3>1. mode' = [mode EXCEPT !.nomsi = FALSE] BY <1>3, <1>8, <2>2 DEF NewMode
    <3> QED BY <2>1, <2>2, <3>1 DEF Mode, PcDoorbells, SwCalls
  <2>3. CASE call \in SwCalls
    <3>1. mode' = [mode EXCEPT !.sw = (call = "features")]
      BY <1>3, <1>8, <2>3 DEF NewMode, PcDoorbells, SwCalls
    <3> QED BY <2>1, <2>3, <3>1 DEF Mode, SwCalls
  <2>4. CASE call = "nwToFPGA"
    <3>1. mode' = [mode EXCEPT !.nw = (call = "nwToFPGA")]
      BY <1>3, <1>8, <2>4 DEF NewMode, PcDoorbells, SwCalls
    <3> QED BY <2>1, <2>4, <3>1 DEF Mode, PcDoorbells, SwCalls
  <2> QED BY <1>1, <2>2, <2>3, <2>4
<1>10. TypeInv'
  BY <1>0, <1>3, <1>9 DEF TypeInv
<1>11. HostPlaced'
  BY <1>0, <1>3 DEF HostPlaced, HostLines
<1>12. DspPlaced'
  BY <1>0, <1>1, <1>3, <1>4 DEF DspPlaced, Lines, InHw
<1>13. CountInv'
  BY <1>0, <1>3, <1>4, <1>5 DEF CountInv, InWrite, Written, Granted, HostPlaced, HostLines
<1>14. SlotInv'
  BY <1>0, <1>1, <1>3, <1>4, <1>5 DEF SlotInv, TakenC2H, TakenDone, AtOutdb, PcDoorbells, SwCalls
<1>15. TokenInv'
  BY <1>0, <1>3, <1>6 DEF TokenInv, NoSem, OnlySem, From
<1>16. OutdbInv'
  BY <1>0, <1>3, <1>4, <1>6 DEF OutdbInv, HasResp
<1>17. CsrInv'
  BY <1>0, <1>1, <1>3, <1>4 DEF CsrInv, Busy, HasResp, SwCalls
<1>18. RegInv'
  BY <1>0, <1>1, <1>3, <1>4, <1>9 DEF RegInv, SwDst, SwInfo, rxBuf, SwCalls, PcDoorbells
<1>19. DataInv'
  BY <1>0, <1>3, <1>4, <1>5, <1>6, <1>7 DEF DataInv
<1>20. ResultInv'
  BY <1>0, <1>3, <1>4, <1>5, <1>7 DEF ResultInv, Read
<1>21. ASSUME NEW m \in PcDoorbells PROVE MsgInv(m)'
  <2>1. MsgInv(m) BY DEF IInv
  <2> QED BY <1>3, <1>4, <1>5, <1>6, <2>1 DEF MsgInv, Pending, OnWay, InSlot, InPost, InSem,
    Granted, TakenC2H, TakenDone
<1> QED BY <1>10, <1>11, <1>12, <1>13, <1>14, <1>15, <1>16, <1>17, <1>18, <1>19, <1>20, <1>21
  DEF IInv

\* After the last frame NW is directed to the host.
LEMMA DspModeWriteEndStep ==
    ASSUME IInv, DspRegs, DspAt("modeWrite"), call = "nwToPC"
    PROVE  IInv'
<1>0. /\ TypeInv /\ HostPlaced /\ DspPlaced /\ CountInv /\ SlotInv /\ TokenInv /\ OutdbInv
      /\ CsrInv /\ RegInv /\ DataInv /\ ResultInv /\ FRAME_NUM \in Nat \ {0}
  BY LinkAssumption DEF IInv
<1>t. DspTable /\ (call # "abort" => Len(MainTskFxn) = Lines)
  BY <1>0, DspLines, DspLength
<1>1. call = "nwToPC" /\ dsp = 2 BY <1>t DEF DspTable, PcDoorbells, SwCalls
<1>2. ~DspAt("modeRead") /\ ~DspAt("msiFree") /\ ~DspAt("csrRead") /\ ~DspAt("params") /\
  ~DspAt("infoRead") /\ ~DspAt("infoWrite") /\ ~DspAt("csrWrite")
  BY <1>t DEF DspTable, SwCalls
<1>3. /\ mode' = NewMode
      /\ DspNext
      /\ UNCHANGED <<HW_FHOG_MODE, pcVars, sem, irqVars, h2c, c2h, csr, txinfo, sw_dst, msi,
        job, links, nTemp, nCsrVal, m_nRxInd, used, dsem, srio, mem, fpgaMem, tracked, hidden>>
  BY <1>2 DEF DspRegs, links, place, task, srio
<1>4. dsp' = 1 /\ call' = "STARTC2H" /\ UNCHANGED <<again, frame>>
  <2>1. call # "abort" /\ ~(dsp < Lines) BY <1>1 DEF Lines, PcDoorbells, SwCalls
  <2>2. ~(dsp < Len(MainTskFxn)) BY <1>t, <2>1
  <2>3. dsp' = 1 /\ Return BY <1>3, <2>2 DEF DspNext
  <2> QED BY <2>3 DEF Return, Call
<1> USE DEF pcVars, irqVars, regs, links, place, task, srio
<1>5. Lag' = Lag /\ Waited' = Waited /\ OutPC' = OutPC /\ Asked' = Asked
      /\ SentC2H' = SentC2H /\ SentDone' = SentDone
  BY <1>4 DEF Lag, Waited, OutPC, Asked, Past, Asking, InHw, SentC2H, SentDone, PcDoorbells,
    SwCalls, DspPlaced
<1>6. Out' = Out /\ ~AtOutdb /\ ~AtOutdb'
  BY <1>3, <1>4, <1>5 DEF Out, AtOutdb, PcDoorbells
<1>7. mode' = [mode EXCEPT !.nw = FALSE]
  <2>1. nTemp = mode BY <1>0, <1>1 DEF RegInv
  <2>2. NewMode = [nTemp EXCEPT !.nw = FALSE] BY <1>1 DEF NewMode, PcDoorbells, SwCalls
  <2> QED BY <1>3, <2>1, <2>2
<1>8. mode' \in Mode /\ ~mode'.nw /\ ~mode'.nomsi
  BY <1>0, <1>7 DEF TypeInv, Mode, RegInv
<1>9. TypeInv'
  BY <1>0, <1>3, <1>8 DEF TypeInv
<1>10. HostPlaced'
  BY <1>0, <1>3 DEF HostPlaced, HostLines
<1>11. DspPlaced'
  BY <1>0, <1>4 DEF DspPlaced, Lines, InHw, Calls, PcDoorbells, SwCalls
<1>12. CountInv'
  BY <1>0, <1>3, <1>5 DEF CountInv, InWrite, Written, Granted, HostPlaced, HostLines
<1>13. SlotInv'
  BY <1>0, <1>3, <1>4, <1>5 DEF SlotInv, TakenC2H, TakenDone, AtOutdb, PcDoorbells, SwCalls
<1>14. TokenInv'
  BY <1>0, <1>3, <1>6 DEF TokenInv, NoSem, OnlySem, From
<1>15. OutdbInv'
  BY <1>0, <1>3, <1>6 DEF OutdbInv, HasResp, Doorbell, Response
<1>16. CsrInv'
  BY <1>0, <1>3, <1>4 DEF CsrInv, Busy, HasResp, SwCalls
<1>17. RegInv'
  BY <1>4, <1>8 DEF RegInv
<1>18. DataInv'
  BY <1>0, <1>3, <1>4 DEF DataInv, Tracking, JobDst, This, OutPC, Waited, Past, Out, Lag, InHw,
    rxBuf, getOpBuf, Frame, SeqInfo
<1>19. ResultInv'
  BY <1>0, <1>3, <1>4 DEF ResultInv, WdmaDone, Read, Lag, InHw, This, Frame
<1>20. ASSUME NEW m \in PcDoorbells PROVE MsgInv(m)'
  <2>1. MsgInv(m) BY DEF IInv
  <2> QED BY <1>3, <1>5, <1>6, <2>1 DEF MsgInv, Pending, OnWay, InSlot, InPost, InSem, Granted,
    TakenC2H, TakenDone
<1> QED BY <1>9, <1>10, <1>11, <1>12, <1>13, <1>14, <1>15, <1>16, <1>17, <1>18, <1>19, <1>20
  DEF IInv

\* The slot of the last message is free.
LEMMA DspMsiFreeStep ==
    ASSUME IInv, DspRegs, DspAt("msiFree")
    PROVE  IInv'
<1>0. /\ TypeInv /\ HostPlaced /\ DspPlaced /\ CountInv /\ SlotInv /\ TokenInv /\ OutdbInv
      /\ CsrInv /\ RegInv /\ DataInv /\ ResultInv /\ FRAME_NUM \in Nat \ {0}
  BY LinkAssumption DEF IInv
<1>t. DspTable /\ (call # "abort" => Len(MainTskFxn) = Lines)
  BY <1>0, DspLines, DspLength
<1>1. call \in PcDoorbells /\ dsp = 3 BY <1>t DEF DspTable
<1>2. ~DspAt("modeRead") /\ ~DspAt("modeWrite") /\ ~DspAt("csrRead") /\ ~DspAt("params") /\
  ~DspAt("infoRead") /\ ~DspAt("infoWrite") /\ ~DspAt("csrWrite")
  BY <1>t DEF DspTable, PcDoorbells, SwCalls
<1>3. /\ ~msi.busy
      /\ DspNext
      /\ UNCHANGED <<HW_FHOG_MODE, pcVars, sem, irqVars, h2c, c2h, regs, msi, job, links, nTemp,
        nCsrVal, m_nRxInd, used, dsem, srio, mem, fpgaMem, tracked, hidden>>
  BY <1>2 DEF DspRegs, links, place, task, srio
<1>4. dsp' = dsp + 1 /\ UNCHANGED <<call, frame, again>>
  <2>1. call # "abort" /\ dsp < Lines BY <1>1 DEF Lines, PcDoorbells
  <2>2. dsp < Len(MainTskFxn) BY <1>t, <2>1
  <2> QED BY <1>3, <2>2 DEF DspNext
<1> USE DEF pcVars, irqVars, regs, links, place, task, srio
<1>5. Lag' = Lag /\ Waited' = Waited /\ OutPC' = OutPC /\ Asked' = Asked
      /\ SentC2H' = SentC2H /\ SentDone' = SentDone
  BY <1>1, <1>3, <1>4 DEF Lag, Waited, OutPC, Asked, Past, Asking, InHw, SentC2H, SentDone,
    PcDoorbells, SwCalls
<1>6. Out' = Out /\ (AtOutdb' <=> AtOutdb)
  BY <1>1, <1>3, <1>4, <1>5 DEF Out, AtOutdb
<1>7. /\ call \notin {"info", "flip", "fhog", "template", "image", "result", "results", "request"}
      /\ This' = This /\ (Tracking' <=> Tracking) /\ JobDst' = JobDst
         /\ getOpBuf' = getOpBuf /\ (WdmaDone' <=> WdmaDone) /\ (InHw' <=> InHw)
  BY <1>1, <1>3, <1>4 DEF This, Frame, Tracking, InHw, JobDst, getOpBuf, rxBuf, WdmaDone,
    PcDoorbells, SwCalls
<1>8. TypeInv'
  BY <1>0, <1>3 DEF TypeInv
<1>9. HostPlaced'
  BY <1>0, <1>3 DEF HostPlaced, HostLines
<1>10. DspPlaced'
  BY <1>0, <1>1, <1>3, <1>4 DEF DspPlaced, Lines, InHw
<1>11. CountInv'
  BY <1>0, <1>3, <1>4, <1>5 DEF CountInv, InWrite, Written, Granted, HostPlaced, HostLines
<1>12. SlotInv'
  BY <1>0, <1>3, <1>5 DEF SlotInv, TakenC2H, TakenDone
<1>13. TokenInv'
  BY <1>0, <1>3, <1>6 DEF TokenInv, NoSem, OnlySem, From
<1>14. OutdbInv'
  BY <1>0, <1>3, <1>4, <1>6 DEF OutdbInv, HasResp
<1>15. CsrInv'
  BY <1>0, <1>1, <1>3, <1>4 DEF CsrInv, Busy, HasResp, SwCalls
<1>16. RegInv'
  BY <1>0, <1>1, <1>3, <1>4 DEF RegInv, rxBuf, SwCalls, PcDoorbells
<1>17. DataInv'
  BY <1>0, <1>3, <1>4, <1>5, <1>6, <1>7 DEF DataInv
<1>18. ResultInv'
  BY <1>0, <1>3, <1>4, <1>5, <1>7 DEF ResultInv, Read
<1>19. ASSUME NEW m \in PcDoorbells PROVE MsgInv(m)'
  <2>1. MsgInv(m) BY DEF IInv
  <2> QED BY <1>3, <1>4, <1>5, <1>6, <2>1 DEF MsgInv, Pending, OnWay, InSlot, InPost, InSem,
    Granted, TakenC2H, TakenDone
<1> QED BY <1>8, <1>9, <1>10, <1>11, <1>12, <1>13, <1>14, <1>15, <1>16, <1>17, <1>18, <1>19
  DEF IInv

\* No transfer is under way.
LEMMA DspCsrReadStep ==
    ASSUME IInv, DspRegs, DspAt("csrRead"), ~csr.sw
    PROVE  IInv'
<1>0. /\ TypeInv /\ HostPlaced /\ DspPlaced /\ CountInv /\ SlotInv /\ TokenInv /\ OutdbInv
      /\ CsrInv /\ RegInv /\ DataInv /\ ResultInv /\ FRAME_NUM \in Nat \ {0}
  BY LinkAssumption DEF IInv
<1>t. DspTable /\ (call # "abort" => Len(MainTskFxn) = Lines)
  BY <1>0, DspLines, DspLength
<1>1. call \in SwCalls /\ dsp = 1 BY <1>t DEF DspTable
<1>2. ~DspAt("modeRead") /\ ~DspAt("modeWrite") /\ ~DspAt("msiFree") /\ ~DspAt("params") /\
  ~DspAt("infoRead") /\ ~DspAt("infoWrite") /\ ~DspAt("csrWrite")
  BY <1>t DEF DspTable, PcDoorbells, SwCalls
<1>3. /\ nCsrVal' = csr.db
      /\ DspNext
      /\ UNCHANGED <<HW_FHOG_MODE, pcVars, sem, irqVars, h2c, c2h, regs, msi, job, links, nTemp,
        m_nRxInd, used, dsem, srio, mem, fpgaMem, tracked, hidden>>
  BY <1>2 DEF DspRegs, links, place, task, srio
<1>4. dsp' = dsp + 1 /\ UNCHANGED <<call, frame, again>>
  <2>1. call # "abort" /\ dsp < Lines BY <1>1 DEF Lines, SwCalls
  <2>2. dsp < Len(MainTskFxn) BY <1>t, <2>1
  <2> QED BY <1>3, <2>2 DEF DspNext
<1> USE DEF pcVars, irqVars, regs, links, place, task, srio
<1>5. Lag' = Lag /\ Waited' = Waited /\ OutPC' = OutPC /\ Asked' = Asked
      /\ SentC2H' = SentC2H /\ SentDone' = SentDone
  BY <1>1, <1>3, <1>4 DEF Lag, Waited, OutPC, Asked, Past, Asking, InHw, SentC2H, SentDone,
    PcDoorbells, SwCalls
<1>6. Out' = Out /\ (AtOutdb' <=> AtOutdb)
  BY <1>1, <1>3, <1>4, <1>5 DEF Out, AtOutdb, PcDoorbells, SwCalls
<1>7. /\ call \notin {"info", "flip", "fhog", "template", "image", "result", "results", "request"}
      /\ This' = This /\ (Tracking' <=> Tracking) /\ JobDst' = JobDst
         /\ getOpBuf' = getOpBuf /\ (WdmaDone' <=> WdmaDone) /\ (InHw' <=> InHw)
  BY <1>1, <1>3, <1>4 DEF This, Frame, Tracking, InHw, JobDst, getOpBuf, rxBuf, WdmaDone,
    PcDoorbells, SwCalls
<1>8. TypeInv'
  BY <1>0, <1>3 DEF TypeInv, Csr, TxInfo
<1>9. HostPlaced'
  BY <1>0, <1>3 DEF HostPlaced, HostLines
<1>10. DspPlaced'
  BY <1>0, <1>1, <1>3, <1>4 DEF DspPlaced, Lines, InHw
<1>11. CountInv'
  BY <1>0, <1>3, <1>4, <1>5 DEF CountInv, InWrite, Written, Granted, HostPlaced, HostLines
<1>12. SlotInv'
  BY <1>0, <1>1, <1>3, <1>4, <1>5 DEF SlotInv, TakenC2H, TakenDone, AtOutdb, PcDoorbells, SwCalls
<1>13. TokenInv'
  BY <1>0, <1>3, <1>6 DEF TokenInv, NoSem, OnlySem, From
<1>14. OutdbInv'
  BY <1>0, <1>3, <1>4, <1>6 DEF OutdbInv, HasResp
<1>15. CsrInv'
  BY <1>0, <1>1, <1>3 DEF CsrInv, Busy, HasResp, SwCalls
<1>16. RegInv'
  BY <1>0, <1>1, <1>3, <1>4 DEF RegInv, rxBuf, SwCalls, PcDoorbells
<1>17. DataInv'
  BY <1>0, <1>3, <1>4, <1>5, <1>6, <1>7 DEF DataInv
<1>18. ResultInv'
  BY <1>0, <1>3, <1>4, <1>5, <1>7 DEF ResultInv, Read
<1>19. ASSUME NEW m \in PcDoorbells PROVE MsgInv(m)'
  <2>1. MsgInv(m) BY DEF IInv
  <2> QED BY <1>3, <1>4, <1>5, <1>6, <2>1 DEF MsgInv, Pending, OnWay, InSlot, InPost, InSem,
    Granted, TakenC2H, TakenDone
<1> QED BY <1>8, <1>9, <1>10, <1>11, <1>12, <1>13, <1>14, <1>15, <1>16, <1>17, <1>18, <1>19
  DEF IInv

\* startTxSeqInfoFromPC gives up: only when a hidden pulse left the busy bit set.
LEMMA DspAbortStep ==
    ASSUME IInv, DspRegs, DspAt("csrRead"), csr.sw
    PROVE  IInv'
<1>0. /\ TypeInv /\ HostPlaced /\ DspPlaced /\ CountInv /\ SlotInv /\ TokenInv /\ OutdbInv
      /\ CsrInv /\ RegInv /\ DataInv /\ ResultInv /\ FRAME_NUM \in Nat \ {0}
  BY LinkAssumption DEF IInv
<1>t. DspTable /\ (call # "abort" => Len(MainTskFxn) = Lines)
  BY <1>0, DspLines, DspLength
<1>1. call \in SwCalls /\ dsp = 1 BY <1>t DEF DspTable
<1>2. ~DspAt("modeRead") /\ ~DspAt("modeWrite") /\ ~DspAt("msiFree") /\ ~DspAt("params") /\
  ~DspAt("infoRead") /\ ~DspAt("infoWrite") /\ ~DspAt("csrWrite")
  BY <1>t DEF DspTable, PcDoorbells, SwCalls
<1>3. /\ call = "seqInfo" /\ call' = "abort" /\ UNCHANGED <<dsp, frame, again>>
      /\ UNCHANGED <<HW_FHOG_MODE, pcVars, sem, irqVars, h2c, c2h, regs, msi, job, links, frame,
        again, dsp, nTemp, nCsrVal, m_nRxInd, used, dsem, srio, mem, fpgaMem, tracked, hidden>>
  BY <1>2 DEF DspRegs, links, place, task, srio
<1> USE DEF pcVars, irqVars, regs, links, place, task, srio
<1>5. Lag' = Lag /\ Waited' = Waited /\ OutPC' = OutPC /\ Asked' = Asked
      /\ SentC2H' = SentC2H /\ SentDone' = SentDone
  BY <1>3 DEF Lag, Waited, OutPC, Asked, Past, Asking, InHw, SentC2H, SentDone, PcDoorbells,
    SwCalls, DspPlaced
<1>6. Out' = Out /\ ~AtOutdb /\ ~AtOutdb'
  BY <1>3, <1>5 DEF Out, AtOutdb, PcDoorbells
<1>7. TypeInv'
  BY <1>0, <1>3 DEF TypeInv
<1>8. HostPlaced'
  BY <1>0, <1>3 DEF HostPlaced, HostLines
<1>9. DspPlaced'
  BY <1>0, <1>1, <1>3 DEF DspPlaced, Lines, InHw
<1>10. CountInv'
  BY <1>0, <1>3, <1>5 DEF CountInv, InWrite, Written, Granted, HostPlaced, HostLines
<1>11. SlotInv'
  BY <1>0, <1>3, <1>5 DEF SlotInv, TakenC2H, TakenDone, AtOutdb, PcDoorbells, SwCalls
<1>12. TokenInv'
  BY <1>0, <1>3, <1>6 DEF TokenInv, NoSem, OnlySem, From
<1>13. OutdbInv'
  BY <1>0, <1>3, <1>6 DEF OutdbInv, HasResp, Doorbell, Response
<1>14. CsrInv'
  BY <1>0, <1>3 DEF CsrInv, Busy, HasResp, SwCalls
<1>15. RegInv'
  BY <1>0, <1>3 DEF RegInv, rxBuf, SwCalls, PcDoorbells
<1>16. DataInv'
  BY <1>0, <1>3 DEF DataInv, Tracking, JobDst, This, OutPC, Waited, Past, Out, Lag, InHw, rxBuf,
    getOpBuf, Frame, SeqInfo
<1>17. ResultInv'
  BY <1>0, <1>3 DEF ResultInv, WdmaDone, Read, Lag, InHw, This, Frame
<1>18. ASSUME NEW m \in PcDoorbells PROVE MsgInv(m)'
  <2>1. MsgInv(m) BY DEF IInv
  <2> QED BY <1>3, <1>5, <1>6, <2>1 DEF MsgInv, Pending, OnWay, InSlot, InPost, InSem, Granted,
    TakenC2H, TakenDone
<1> QED BY <1>7, <1>8, <1>9, <1>10, <1>11, <1>12, <1>13, <1>14, <1>15, <1>16, <1>17, <1>18
  DEF IInv

\* The destination of the transfer.
LEMMA DspParamsStep ==
    ASSUME IInv, DspRegs, DspAt("params")
    PROVE  IInv'
<1>0. /\ TypeInv /\ HostPlaced /\ DspPlaced /\ CountInv /\ SlotInv /\ TokenInv /\ OutdbInv
      /\ CsrInv /\ RegInv /\ DataInv /\ ResultInv /\ FRAME_NUM \in Nat \ {0}
  BY LinkAssumption DEF IInv
<1>t. DspTable /\ (call # "abort" => Len(MainTskFxn) = Lines)
  BY <1>0, DspLines, DspLength
<1>1. call \in SwCalls /\ dsp = 2 BY <1>t DEF DspTable
<1>2. ~DspAt("modeRead") /\ ~DspAt("modeWrite") /\ ~DspAt("msiFree") /\ ~DspAt("csrRead") /\
  ~DspAt("infoRead") /\ ~DspAt("infoWrite") /\ ~DspAt("csrWrite")
  BY <1>t DEF DspTable, PcDoorbells, SwCalls
<1>3. /\ sw_dst' = SwDst
      /\ DspNext
      /\ UNCHANGED <<HW_FHOG_MODE, pcVars, sem, irqVars, h2c, c2h, csr, mode, txinfo, msi, job,
        links, nTemp, nCsrVal, m_nRxInd, used, dsem, srio, mem, fpgaMem, tracked, hidden>>
  BY <1>2 DEF DspRegs, links, place, task, srio
<1>4. dsp' = dsp + 1 /\ UNCHANGED <<call, frame, again>>
  <2>1. call # "abort" /\ dsp < Lines BY <1>1 DEF Lines, SwCalls
  <2>2. dsp < Len(MainTskFxn) BY <1>t, <2>1
  <2> QED BY <1>3, <2>2 DEF DspNext
<1> USE DEF pcVars, irqVars, regs, links, place, task, srio
<1>5. Lag' = Lag /\ Waited' = Waited /\ OutPC' = OutPC /\ Asked' = Asked
      /\ SentC2H' = SentC2H /\ SentDone' = SentDone
  BY <1>1, <1>3, <1>4 DEF Lag, Waited, OutPC, Asked, Past, Asking, InHw, SentC2H, SentDone,
    PcDoorbells, SwCalls
<1>6. Out' = Out /\ (AtOutdb' <=> AtOutdb)
  BY <1>1, <1>3, <1>4, <1>5 DEF Out, AtOutdb
<1>7. /\ call \notin {"info", "flip", "fhog", "template", "image", "result", "results", "request"}
      /\ This' = This /\ (Tracking' <=> Tracking) /\ JobDst' = JobDst
         /\ getOpBuf' = getOpBuf /\ (WdmaDone' <=> WdmaDone) /\ (InHw' <=> InHw)
  BY <1>1, <1>3, <1>4 DEF This, Frame, Tracking, InHw, JobDst, getOpBuf, rxBuf, WdmaDone,
    PcDoorbells, SwCalls
<1>8. TypeInv'
  BY <1>0, <1>3 DEF TypeInv
<1>9. HostPlaced'
  BY <1>0, <1>3 DEF HostPlaced, HostLines
<1>10. DspPlaced'
  BY <1>0, <1>1, <1>3, <1>4 DEF DspPlaced, Lines, InHw
<1>11. CountInv'
  BY <1>0, <1>3, <1>4, <1>5 DEF CountInv, InWrite, Written, Granted, HostPlaced, HostLines
<1>12. SlotInv'
  BY <1>0, <1>1, <1>3, <1>4, <1>5 DEF SlotInv, TakenC2H, TakenDone, AtOutdb, PcDoorbells, SwCalls
<1>13. TokenInv'
  BY <1>0, <1>3, <1>6 DEF TokenInv, NoSem, OnlySem, From
<1>14. OutdbInv'
  BY <1>0, <1>3, <1>4, <1>6 DEF OutdbInv, HasResp
<1>15. CsrInv'
  BY <1>0, <1>1, <1>3 DEF CsrInv, Busy, HasResp, SwCalls
<1>16. RegInv'
  BY <1>0, <1>1, <1>3, <1>4 DEF RegInv, SwDst, rxBuf, SwCalls, PcDoorbells
<1>17. DataInv'
  BY <1>0, <1>3, <1>4, <1>5, <1>6, <1>7 DEF DataInv
<1>18. ResultInv'
  BY <1>0, <1>3, <1>4, <1>5, <1>7 DEF ResultInv, Read
<1>19. ASSUME NEW m \in PcDoorbells PROVE MsgInv(m)'
  <2>1. MsgInv(m) BY DEF IInv
  <2> QED BY <1>3, <1>4, <1>5, <1>6, <2>1 DEF MsgInv, Pending, OnWay, InSlot, InPost, InSem,
    Granted, TakenC2H, TakenDone
<1> QED BY <1>8, <1>9, <1>10, <1>11, <1>12, <1>13, <1>14, <1>15, <1>16, <1>17, <1>18, <1>19
  DEF IInv

\* DB_TXINFO: the host does not write it while the DSP is in a sequence.
LEMMA DspInfoReadStep ==
    ASSUME IInv, DspRegs, DspAt("infoRead")
    PROVE  IInv'
<1>0. /\ TypeInv /\ HostPlaced /\ DspPlaced /\ CountInv /\ SlotInv /\ TokenInv /\ OutdbInv
      /\ CsrInv /\ RegInv /\ DataInv /\ ResultInv /\ FRAME_NUM \in Nat \ {0}
  BY LinkAssumption DEF IInv
<1>t. DspTable /\ (call # "abort" => Len(MainTskFxn) = Lines)
  BY <1>0, DspLines, DspLength
<1>1. call \in SwCalls /\ dsp = 3 BY <1>t DEF DspTable
<1>2. ~DspAt("modeRead") /\ ~DspAt("modeWrite") /\ ~DspAt("msiFree") /\ ~DspAt("csrRead") /\
  ~DspAt("params") /\ ~DspAt("infoWrite") /\ ~DspAt("csrWrite")
  BY <1>t DEF DspTable, PcDoorbells, SwCalls
<1>3. /\ nTemp' = txinfo
      /\ DspNext
      /\ UNCHANGED <<HW_FHOG_MODE, pcVars, sem, irqVars, h2c, c2h, regs, msi, job, links,
        nCsrVal, m_nRxInd, used, dsem, srio, mem, fpgaMem, tracked, hidden>>
  BY <1>2 DEF DspRegs, links, place, task, srio
<1>4. dsp' = dsp + 1 /\ UNCHANGED <<call, frame, again>>
  <2>1. call # "abort" /\ dsp < Lines BY <1>1 DEF Lines, SwCalls
  <2>2. dsp < Len(MainTskFxn) BY <1>t, <2>1
  <2> QED BY <1>3, <2>2 DEF DspNext
<1> USE DEF pcVars, irqVars, regs, links, place, task, srio
<1>5. Lag' = Lag /\ Waited' = Waited /\ OutPC' = OutPC /\ Asked' = Asked
      /\ SentC2H' = SentC2H /\ SentDone' = SentDone
  BY <1>1, <1>3, <1>4 DEF Lag, Waited, OutPC, Asked, Past, Asking, InHw, SentC2H, SentDone,
    PcDoorbells, SwCalls
<1>6. Out' = Out /\ (AtOutdb' <=> AtOutdb)
  BY <1>1, <1>3, <1>4, <1>5 DEF Out, AtOutdb
<1>7. /\ call \notin {"info", "flip", "fhog", "template", "image", "result", "results", "request"}
      /\ This' = This /\ (Tracking' <=> Tracking) /\ JobDst' = JobDst
         /\ getOpBuf' = getOpBuf /\ (WdmaDone' <=> WdmaDone) /\ (InHw' <=> InHw)
  BY <1>1, <1>3, <1>4 DEF This, Frame, Tracking, InHw, JobDst, getOpBuf, rxBuf, WdmaDone,
    PcDoorbells, SwCalls
<1>8. TypeInv'
  BY <1>0, <1>3 DEF TypeInv
<1>9. HostPlaced'
  BY <1>0, <1>3 DEF HostPlaced, HostLines
<1>10. DspPlaced'
  BY <1>0, <1>1, <1>3, <1>4 DEF DspPlaced, Lines, InHw
<1>11. CountInv'
  BY <1>0, <1>3, <1>4, <1>5 DEF CountInv, InWrite, Written, Granted, HostPlaced, HostLines
<1>12. SlotInv'
  BY <1>0, <1>1, <1>3, <1>4, <1>5 DEF SlotInv, TakenC2H, TakenDone, AtOutdb, PcDoorbells, SwCalls
<1>13. TokenInv'
  BY <1>0, <1>3, <1>6 DEF TokenInv, NoSem, OnlySem, From
<1>14. OutdbInv'
  BY <1>0, <1>3, <1>4, <1>6 DEF OutdbInv, HasResp
<1>15. CsrInv'
  BY <1>0, <1>1, <1>3 DEF CsrInv, Busy, HasResp, SwCalls
<1>16. RegInv'
  BY <1>0, <1>1, <1>3, <1>4 DEF RegInv, SwDst
<1>17. DataInv'
  BY <1>0, <1>3, <1>4, <1>5, <1>6, <1>7 DEF DataInv
<1>18. ResultInv'
  BY <1>0, <1>3, <1>4, <1>5, <1>7 DEF ResultInv, Read
<1>19. ASSUME NEW m \in PcDoorbells PROVE MsgInv(m)'
  <2>1. MsgInv(m) BY DEF IInv
  <2> QED BY <1>3, <1>4, <1>5, <1>6, <2>1 DEF MsgInv, Pending, OnWay, InSlot, InPost, InSem,
    Granted, TakenC2H, TakenDone
<1> QED BY <1>8, <1>9, <1>10, <1>11, <1>12, <1>13, <1>14, <1>15, <1>16, <1>17, <1>18, <1>19
  DEF IInv

\* The doorbell that shall follow the transfer.
LEMMA DspInfoWriteStep ==
    ASSUME IInv, DspRegs, DspAt("infoWrite")
    PROVE  IInv'
<1>0. /\ TypeInv /\ HostPlaced /\ DspPlaced /\ CountInv /\ SlotInv /\ TokenInv /\ OutdbInv
      /\ CsrInv /\ RegInv /\ DataInv /\ ResultInv /\ FRAME_NUM \in Nat \ {0}
  BY LinkAssumption DEF IInv
<1>t. DspTable /\ (call # "abort" => Len(MainTskFxn) = Lines)
  BY <1>0, DspLines, DspLength
<1>1. call \in SwCalls /\ dsp = 4 BY <1>t DEF DspTable
<1>2. ~DspAt("modeRead") /\ ~DspAt("modeWrite") /\ ~DspAt("msiFree") /\ ~DspAt("csrRead") /\
  ~DspAt("params") /\ ~DspAt("infoRead") /\ ~DspAt("csrWrite")
  BY <1>t DEF DspTable
<1>3. /\ txinfo' = [nTemp EXCEPT !.sw = SwInfo]
      /\ DspNext
      /\ UNCHANGED <<HW_FHOG_MODE, pcVars, sem, irqVars, h2c, c2h, csr, mode, sw_dst, msi, job,
        links, nTemp, nCsrVal, m_nRxInd, used, dsem, srio, mem, fpgaMem, tracked, hidden>>
  BY <1>2 DEF DspRegs, links, place, task, srio
<1>4. dsp' = dsp + 1 /\ UNCHANGED <<call, frame, again>>
  <2>1. call # "abort" /\ dsp < Lines BY <1>1 DEF Lines, SwCalls
  <2>2. dsp < Len(MainTskFxn) BY <1>t, <2>1
  <2> QED BY <1>3, <2>2 DEF DspNext
<1> USE DEF pcVars, irqVars, regs, links, place, task, srio
<1>5. Lag' = Lag /\ Waited' = Waited /\ OutPC' = OutPC /\ Asked' = Asked
      /\ SentC2H' = SentC2H /\ SentDone' = SentDone
  BY <1>1, <1>3, <1>4 DEF Lag, Waited, OutPC, Asked, Past, Asking, InHw, SentC2H, SentDone,
    PcDoorbells, SwCalls
<1>6. Out' = Out /\ (AtOutdb' <=> AtOutdb)
  BY <1>1, <1>3, <1>4, <1>5 DEF Out, AtOutdb, PcDoorbells, SwCalls
<1>7. /\ call \notin {"info", "flip", "fhog", "template", "image", "result", "results", "request"}
      /\ This' = This /\ (Tracking' <=> Tracking) /\ JobDst' = JobDst
         /\ getOpBuf' = getOpBuf /\ (WdmaDone' <=> WdmaDone) /\ (InHw' <=> InHw)
  BY <1>1, <1>3, <1>4 DEF This, Frame, Tracking, InHw, JobDst, getOpBuf, rxBuf, WdmaDone,
    PcDoorbells, SwCalls
<1>8. txinfo' \in TxInfo /\ txinfo'.db = txinfo.db /\ txinfo'.sw = SwInfo
  BY <1>0, <1>1, <1>3 DEF RegInv, TypeInv, TxInfo, SwInfo, Infos, DspDoorbells
<1>9. ~(nFrame = 0 /\ pc < 5)
  BY <1>0, <1>1 DEF CountInv, SwCalls
<1>10. TypeInv'
  BY <1>0, <1>3, <1>8 DEF TypeInv
<1>11. HostPlaced'
  BY <1>0, <1>3 DEF HostPlaced, HostLines
<1>12. DspPlaced'
  BY <1>0, <1>1, <1>3, <1>4 DEF DspPlaced, Lines, InHw
<1>13. CountInv'
  BY <1>0, <1>3, <1>4, <1>5 DEF CountInv, InWrite, Written, Granted, HostPlaced, HostLines
<1>14. SlotInv'
  BY <1>0, <1>1, <1>3, <1>4, <1>5 DEF SlotInv, TakenC2H, TakenDone, AtOutdb, PcDoorbells, SwCalls
<1>15. TokenInv'
  BY <1>0, <1>3, <1>6 DEF TokenInv, NoSem, OnlySem, From
<1>16. OutdbInv'
  BY <1>0, <1>3, <1>4, <1>6 DEF OutdbInv, HasResp
<1>17. CsrInv'
  BY <1>0, <1>1, <1>3, <1>8, <1>9 DEF CsrInv, Busy, HasResp, SwCalls
<1>18. RegInv'
  BY <1>0, <1>1, <1>3, <1>4 DEF RegInv, SwDst, SwInfo
<1>19. DataInv'
  BY <1>0, <1>3, <1>4, <1>5, <1>6, <1>7 DEF DataInv
<1>20. ResultInv'
  BY <1>0, <1>3, <1>4, <1>5, <1>7 DEF ResultInv, Read
<1>21. ASSUME NEW m \in PcDoorbells PROVE MsgInv(m)'
  <2>1. MsgInv(m) BY DEF IInv
  <2> QED BY <1>3, <1>4, <1>5, <1>6, <2>1 DEF MsgInv, Pending, OnWay, InSlot, InPost, InSem,
    Granted, TakenC2H, TakenDone
<1> QED BY <1>10, <1>11, <1>12, <1>13, <1>14, <1>15, <1>16, <1>17, <1>18, <1>19, <1>20, <1>21
  DEF IInv

\* The transfer of the sequence information is started.
LEMMA DspStartSeqInfoStep ==
    ASSUME IInv, DspRegs, DspAt("csrWrite"), call = "seqInfo"
    PROVE  IInv'
<1>0. /\ TypeInv /\ HostPlaced /\ DspPlaced /\ CountInv /\ SlotInv /\ TokenInv /\ OutdbInv
      /\ CsrInv /\ RegInv /\ DataInv /\ ResultInv /\ FRAME_NUM \in Nat \ {0}
  BY LinkAssumption DEF IInv
<1>t. DspTable /\ (call # "abort" => Len(MainTskFxn) = Lines)
  BY <1>0, DspLines, DspLength
<1>1. call = "seqInfo" /\ dsp = 7 BY <1>t DEF DspTable
<1>2. ~DspAt("modeRead") /\ ~DspAt("modeWrite") /\ ~DspAt("msiFree") /\ ~DspAt("csrRead") /\
  ~DspAt("params") /\ ~DspAt("infoRead") /\ ~DspAt("infoWrite")
  BY <1>t DEF DspTable
<1>3. /\ WriteCsr(nCsrVal, TRUE)
      /\ DspNext
      /\ UNCHANGED <<HW_FHOG_MODE, pcVars, sem, irqVars, h2c, c2h, mode, txinfo, sw_dst, msi,
        toFpga, nTemp, nCsrVal, m_nRxInd, used, dsem, srio, mem, fpgaMem, tracked, hidden>>
  BY <1>2 DEF DspRegs
<1>4. call' = "info" /\ dsp' = 1 /\ UNCHANGED <<frame, again>>
  <2>1. call # "abort" /\ ~(dsp < Lines) BY <1>1 DEF Lines
  <2>2. ~(dsp < Len(MainTskFxn)) BY <1>t, <2>1
  <2>3. dsp' = 1 /\ Return BY <1>3, <2>2 DEF DspNext
  <2> QED BY <2>3 DEF Return, Call
<1> USE DEF pcVars, irqVars, regs, links, place, task, srio
<1>5. /\ Out = "none" /\ ~AtOutdb /\ ~AtOutdb' /\ ~OutPC
      /\ job = <<>> /\ toDsp = <<>> /\ toFpga = <<>> /\ inbound = <<>> /\ ~stat /\ NoSem
  <2>1. /\ Out = "none" /\ ~AtOutdb /\ ~AtOutdb' /\ ~OutPC
    BY <1>4 DEF Out, OutPC, Lag, AtOutdb, PcDoorbells
  <2>2. job = <<>> /\ toDsp = <<>> /\ inbound = <<>> /\ ~stat /\ NoSem BY <1>0, <2>1 DEF TokenInv
  <2>3. ~csr.sw BY <1>0, <1>1 DEF CsrInv, SwCalls
  <2>4. ~HasResp("sw") /\ ~HasResp("db") BY <1>0, <2>3 DEF CsrInv
  <2> QED BY <1>0, <2>1, <2>2, <2>4 DEF OutdbInv
<1>6. /\ csr' \in Csr /\ csr'.sw /\ (csr'.db <=> csr.db) /\ (csr'.err => hidden > 0)
         /\ (csr.db => hidden > 0)
      /\ toDsp' = toDsp /\ job' = Append(job, [fromFPGA |-> mode.sw, dst |-> sw_dst, info |->
         txinfo.sw])
  <2>1. ~csr.sw /\ (nCsrVal <=> csr.db) /\ (csr.err => hidden > 0) /\ csr \in Csr
    BY <1>0, <1>1 DEF CsrInv, SwCalls, TypeInv
  <2>2. csr.db => hidden > 0 BY <1>0, <1>5 DEF CsrInv, Busy
  <2>3. csr' \in Csr BY <1>3 DEF WriteCsr, Csr
  <2>4. csr'.sw /\ (csr'.db <=> csr.db) /\ (csr'.err => hidden > 0)
    BY <1>3, <2>1, <2>2 DEF WriteCsr
  <2>5. toDsp' = toDsp BY <1>3, <2>1 DEF WriteCsr
  <2>6. job' = Append(job, [fromFPGA |-> mode.sw, dst |-> sw_dst, info |-> txinfo.sw])
    BY <1>3, <2>1 DEF WriteCsr
  <2> QED BY <2>2, <2>3, <2>4, <2>5, <2>6
<1>7. /\ job' = <<job'[1]>> /\ job' # <<>> /\ (job'[1].fromFPGA <=> call = "features")
      /\ job'[1].dst = SwDst /\ job'[1].info = SwInfo /\ Out' = SwInfo
  <2>1. (mode.sw <=> call = "features") /\ sw_dst = SwDst /\ txinfo.sw = SwInfo
    BY <1>0, <1>1 DEF RegInv, SwCalls
  <2>2. job' = <<[fromFPGA |-> mode.sw, dst |-> sw_dst, info |-> txinfo.sw]>> BY <1>5, <1>6
  <2>3. Out' = SwInfo BY <1>4 DEF Out, OutPC, Lag, SwInfo, DspPlaced
  <2> QED BY <2>1, <2>2, <2>3
<1>8. Lag' = Lag /\ Waited' = Waited /\ Asked' = Asked /\ SentC2H' = SentC2H
      /\ SentDone' = SentDone /\ OutPC'
  BY <1>4 DEF Lag, Waited, OutPC, Asked, Past, Asking, InHw, SentC2H, SentDone, PcDoorbells,
    SwCalls, DspPlaced
<1>9. TypeInv'
  BY <1>0, <1>3, <1>6 DEF TypeInv
<1>10. HostPlaced'
  BY <1>0, <1>3 DEF HostPlaced, HostLines
<1>11. DspPlaced'
  BY <1>0, <1>4 DEF DspPlaced, Lines, InHw, Calls, PcDoorbells, SwCalls
<1>12. CountInv'
  BY <1>0, <1>3, <1>5, <1>7, <1>8 DEF CountInv, InWrite, Written, Granted, HostPlaced, HostLines
<1>13. SlotInv'
  BY <1>0, <1>3, <1>4, <1>8 DEF SlotInv, TakenC2H, TakenDone, AtOutdb, PcDoorbells, SwCalls
<1>14. TokenInv'
  BY <1>0, <1>1, <1>3, <1>4, <1>6 DEF TokenInv, Out, OutPC, Lag, From, NoSem, OnlySem, AtOutdb,
    Doorbell, DspDoorbells, SwInfo
<1>15. OutdbInv'
  BY <1>0, <1>3, <1>5 DEF OutdbInv
<1>16. CsrInv'
  <2>1. toFpga' = <<>> /\ toDsp' = <<>> /\ call' \notin SwCalls /\ ~(nFrame = 0 /\ pc < 5)
    BY <1>0, <1>3, <1>4, <1>5, <1>6 DEF SwCalls, CountInv
  <2>2. ~HasResp("db")' /\ ~HasResp("sw")' /\ ~Busy("db")' /\ Busy("sw")'
    BY <1>7, <2>1 DEF HasResp, Busy
  <2> QED BY <1>0, <1>3, <1>6, <2>1, <2>2 DEF CsrInv
<1>17. RegInv'
  BY <1>0, <1>3, <1>4 DEF RegInv
<1>18. DataInv'
  <2>1. JobDst' = SwDst BY <1>4 DEF JobDst, SwDst
  <2>2. (job'[1].fromFPGA <=> call' = "template") BY <1>4, <1>7
  <2>3. Tracking' => Tracking /\ This' = This /\ getOpBuf' = getOpBuf
    BY <1>4 DEF Tracking, InHw
  <2>4. ~fpgaMem.busy /\ dsem["FHOG"] = 0 BY <1>0 DEF DataInv
  <2>5. /\ pc > 0 /\ nFrame = 0 => src = SeqInfo(run)
        /\ nFrame \in 1 .. FRAME_NUM /\ pc >= 2 => src = Frame(run, nFrame - 1)
        /\ Tracking => mem[getOpBuf] = This
        /\ call = "features" => fpgaMem.features = This
    BY <1>0 DEF DataInv
  <2>6. call' = "template" => call = "features" /\ This' = This
    BY <1>4 DEF This
  <2> QED BY <1>3, <1>4, <1>7, <2>1, <2>3, <2>4, <2>5 DEF DataInv
<1>19. ResultInv'
  BY <1>0, <1>3, <1>4 DEF ResultInv, WdmaDone, Read, Lag, InHw, This, Frame, DspPlaced
<1>20. ASSUME NEW m \in PcDoorbells PROVE MsgInv(m)'
  <2>1. MsgInv(m) BY DEF IInv
  <2> QED BY <1>3, <1>5, <1>8, <2>1 DEF MsgInv, Pending, OnWay, InSlot, InPost, InSem, Granted,
    TakenC2H, TakenDone
<1> QED BY <1>9, <1>10, <1>11, <1>12, <1>13, <1>14, <1>15, <1>16, <1>17, <1>18, <1>19, <1>20
  DEF IInv

\* The transfer of a frame is started, into the buffer the tracker does not use.
LEMMA DspStartFrameStep ==
    ASSUME IInv, DspRegs, DspAt("csrWrite"), call = "frame"
    PROVE  IInv'
<1>0. /\ TypeInv /\ HostPlaced /\ DspPlaced /\ CountInv /\ SlotInv /\ TokenInv /\ OutdbInv
      /\ CsrInv /\ RegInv /\ DataInv /\ ResultInv /\ FRAME_NUM \in Nat \ {0}
  BY LinkAssumption DEF IInv
<1>t. DspTable /\ (call # "abort" => Len(MainTskFxn) = Lines)
  BY <1>0, DspLines, DspLength
<1>1. call = "frame" /\ dsp = 7 BY <1>t DEF DspTable
<1>2. ~DspAt("modeRead") /\ ~DspAt("modeWrite") /\ ~DspAt("msiFree") /\ ~DspAt("csrRead") /\
  ~DspAt("params") /\ ~DspAt("infoRead") /\ ~DspAt("infoWrite")
  BY <1>t DEF DspTable
<1>3. /\ WriteCsr(nCsrVal, TRUE)
      /\ DspNext
      /\ UNCHANGED <<HW_FHOG_MODE, pcVars, sem, irqVars, h2c, c2h, mode, txinfo, sw_dst, msi,
        toFpga, nTemp, nCsrVal, m_nRxInd, used, dsem, srio, mem, fpgaMem, tracked, hidden>>
  BY <1>2 DEF DspRegs
<1>4. dsp' = 1 /\ again' = FALSE
      /\ frame' = (IF ~HW_FHOG_MODE /\ frame = 0 THEN 1 ELSE frame)
      /\ call' = (IF ~HW_FHOG_MODE /\ frame > 0 THEN "image" ELSE "flip")
  <2>1. call # "abort" /\ ~(dsp < Lines) BY <1>1 DEF Lines
  <2>2. ~(dsp < Len(MainTskFxn)) BY <1>t, <2>1
  <2>3. dsp' = 1 /\ Return BY <1>3, <2>2 DEF DspNext
  <2> QED BY <1>0, <2>3 DEF Return, Call, NextFrame, Features, DspPlaced, InHw, PcDoorbells,
    SwCalls
<1> USE DEF pcVars, irqVars, regs, links, place, task, srio
<1>5. /\ Out = "none" /\ ~AtOutdb /\ ~AtOutdb' /\ ~OutPC
      /\ job = <<>> /\ toDsp = <<>> /\ toFpga = <<>> /\ inbound = <<>> /\ ~stat /\ NoSem
  <2>1. /\ Out = "none" /\ ~AtOutdb /\ ~AtOutdb' /\ ~OutPC
    BY <1>4 DEF Out, OutPC, Lag, AtOutdb, PcDoorbells
  <2>2. job = <<>> /\ toDsp = <<>> /\ inbound = <<>> /\ ~stat /\ NoSem BY <1>0, <2>1 DEF TokenInv
  <2>3. ~csr.sw BY <1>0, <1>1 DEF CsrInv, SwCalls
  <2>4. ~HasResp("sw") /\ ~HasResp("db") BY <1>0, <2>3 DEF CsrInv
  <2> QED BY <1>0, <2>1, <2>2, <2>4 DEF OutdbInv
<1>6. /\ csr' \in Csr /\ csr'.sw /\ (csr'.db <=> csr.db) /\ (csr'.err => hidden > 0)
         /\ (csr.db => hidden > 0)
      /\ toDsp' = toDsp /\ job' = Append(job, [fromFPGA |-> mode.sw, dst |-> sw_dst, info |->
         txinfo.sw])
  <2>1. ~csr.sw /\ (nCsrVal <=> csr.db) /\ (csr.err => hidden > 0) /\ csr \in Csr
    BY <1>0, <1>1 DEF CsrInv, SwCalls, TypeInv
  <2>2. csr.db => hidden > 0 BY <1>0, <1>5 DEF CsrInv, Busy
  <2>3. csr' \in Csr BY <1>3 DEF WriteCsr, Csr
  <2>4. csr'.sw /\ (csr'.db <=> csr.db) /\ (csr'.err => hidden > 0)
    BY <1>3, <2>1, <2>2 DEF WriteCsr
  <2>5. toDsp' = toDsp BY <1>3, <2>1 DEF WriteCsr
  <2>6. job' = Append(job, [fromFPGA |-> mode.sw, dst |-> sw_dst, info |-> txinfo.sw])
    BY <1>3, <2>1 DEF WriteCsr
  <2> QED BY <2>2, <2>3, <2>4, <2>5, <2>6
<1>7. /\ job' = <<job'[1]>> /\ job' # <<>> /\ (job'[1].fromFPGA <=> call = "features")
      /\ job'[1].dst = SwDst /\ job'[1].info = SwInfo /\ Out' = SwInfo
  <2>1. (mode.sw <=> call = "features") /\ sw_dst = SwDst /\ txinfo.sw = SwInfo
    BY <1>0, <1>1 DEF RegInv, SwCalls
  <2>2. job' = <<[fromFPGA |-> mode.sw, dst |-> sw_dst, info |-> txinfo.sw]>> BY <1>5, <1>6
  <2>3. Out' = SwInfo BY <1>0, <1>3, <1>4 DEF Out, OutPC, Lag, SwInfo, DspPlaced
  <2> QED BY <2>1, <2>2, <2>3
<1>8. Lag' = Lag /\ Waited' = Waited /\ Asked' = Asked /\ SentC2H' = SentC2H
      /\ SentDone' = SentDone /\ OutPC'
  BY <1>0, <1>3, <1>4 DEF Lag, Waited, OutPC, Asked, Past, Asking, InHw, SentC2H, SentDone,
    PcDoorbells, SwCalls, DspPlaced
<1>9. again' \in BOOLEAN /\ ~again'
  BY <1>4, Zenon
<1>10. TypeInv'
  BY <1>0, <1>3, <1>6 DEF TypeInv
<1>11. HostPlaced'
  BY <1>0, <1>3 DEF HostPlaced, HostLines
<1>12. DspPlaced'
  BY <1>0, <1>3, <1>4, <1>9 DEF DspPlaced, Lines, InHw, Calls, PcDoorbells, SwCalls
<1>13. CountInv'
  BY <1>0, <1>3, <1>5, <1>7, <1>8 DEF CountInv, InWrite, Written, Granted, HostPlaced, HostLines
<1>14. SlotInv'
  BY <1>0, <1>3, <1>4, <1>8 DEF SlotInv, TakenC2H, TakenDone, AtOutdb, PcDoorbells, SwCalls
<1>15. TokenInv'
  BY <1>0, <1>1, <1>3, <1>6, <1>8 DEF TokenInv, Out, OutPC, Lag, From, NoSem, OnlySem, AtOutdb,
    Doorbell, DspDoorbells, SwInfo
<1>16. OutdbInv'
  BY <1>0, <1>3, <1>5 DEF OutdbInv
<1>17. CsrInv'
  <2>1. toFpga' = <<>> /\ toDsp' = <<>> /\ call' \notin SwCalls /\ ~(nFrame = 0 /\ pc < 5)
    BY <1>0, <1>3, <1>4, <1>5, <1>6 DEF SwCalls, CountInv
  <2>2. ~HasResp("db")' /\ ~HasResp("sw")' /\ ~Busy("db")' /\ Busy("sw")'
    BY <1>7, <2>1 DEF HasResp, Busy
  <2> QED BY <1>0, <1>3, <1>6, <2>1, <2>2 DEF CsrInv
<1>18. RegInv'
  BY <1>0, <1>3, <1>4 DEF RegInv
<1>19. DataInv'
  <2>1. JobDst' = SwDst BY <1>3, <1>4 DEF JobDst, SwDst
  <2>2. (job'[1].fromFPGA <=> call' = "template") BY <1>4, <1>7
  <2>3. Tracking' => Tracking /\ This' = This /\ getOpBuf' = getOpBuf
    BY <1>3, <1>4 DEF Tracking, InHw, This, Frame, getOpBuf, rxBuf, DspPlaced
  <2>4. ~fpgaMem.busy /\ dsem["FHOG"] = 0 BY <1>0 DEF DataInv
  <2>5. /\ pc > 0 /\ nFrame = 0 => src = SeqInfo(run)
        /\ nFrame \in 1 .. FRAME_NUM /\ pc >= 2 => src = Frame(run, nFrame - 1)
        /\ Tracking => mem[getOpBuf] = This
        /\ call = "features" => fpgaMem.features = This
    BY <1>0 DEF DataInv
  <2>6. call' = "template" => call = "features" /\ This' = This
    BY <1>4 DEF This
  <2> QED BY <1>3, <1>4, <1>7, <2>1, <2>3, <2>4, <2>5 DEF DataInv
<1>20. ResultInv'
  BY <1>0, <1>3, <1>4 DEF ResultInv, WdmaDone, Read, Lag, InHw, This, Frame, DspPlaced
<1>21. ASSUME NEW m \in PcDoorbells PROVE MsgInv(m)'
  <2>1. MsgInv(m) BY DEF IInv
  <2> QED BY <1>3, <1>5, <1>8, <2>1 DEF MsgInv, Pending, OnWay, InSlot, InPost, InSem, Granted,
    TakenC2H, TakenDone
<1> QED BY <1>10, <1>11, <1>12, <1>13, <1>14, <1>15, <1>16, <1>17, <1>18, <1>19, <1>20, <1>21
  DEF IInv

\* The transfer of the features is started.
LEMMA DspStartFeaturesStep ==
    ASSUME IInv, DspRegs, DspAt("csrWrite"), call = "features"
    PROVE  IInv'
<1>0. /\ TypeInv /\ HostPlaced /\ DspPlaced /\ CountInv /\ SlotInv /\ TokenInv /\ OutdbInv
      /\ CsrInv /\ RegInv /\ DataInv /\ ResultInv /\ FRAME_NUM \in Nat \ {0}
  BY LinkAssumption DEF IInv
<1>t. DspTable /\ (call # "abort" => Len(MainTskFxn) = Lines)
  BY <1>0, DspLines, DspLength
<1>1. call = "features" /\ dsp = 7 BY <1>t DEF DspTable
<1>2. ~DspAt("modeRead") /\ ~DspAt("modeWrite") /\ ~DspAt("msiFree") /\ ~DspAt("csrRead") /\
  ~DspAt("params") /\ ~DspAt("infoRead") /\ ~DspAt("infoWrite")
  BY <1>t DEF DspTable
<1>3. /\ WriteCsr(nCsrVal, TRUE)
      /\ DspNext
      /\ UNCHANGED <<HW_FHOG_MODE, pcVars, sem, irqVars, h2c, c2h, mode, txinfo, sw_dst, msi,
        toFpga, nTemp, nCsrVal, m_nRxInd, used, dsem, srio, mem, fpgaMem, tracked, hidden>>
  BY <1>2 DEF DspRegs
<1>4. call' = "template" /\ dsp' = 1 /\ UNCHANGED <<frame, again>>
  <2>1. call # "abort" /\ ~(dsp < Lines) BY <1>1 DEF Lines
  <2>2. ~(dsp < Len(MainTskFxn)) BY <1>t, <2>1
  <2>3. dsp' = 1 /\ Return BY <1>3, <2>2 DEF DspNext
  <2> QED BY <2>3 DEF Return, Call
<1> USE DEF pcVars, irqVars, regs, links, place, task, srio
<1>5. /\ Out = "none" /\ ~AtOutdb /\ ~AtOutdb' /\ ~OutPC
      /\ job = <<>> /\ toDsp = <<>> /\ toFpga = <<>> /\ inbound = <<>> /\ ~stat /\ NoSem
  <2>1. /\ Out = "none" /\ ~AtOutdb /\ ~AtOutdb' /\ ~OutPC
    BY <1>4 DEF Out, OutPC, Lag, AtOutdb, PcDoorbells
  <2>2. job = <<>> /\ toDsp = <<>> /\ inbound = <<>> /\ ~stat /\ NoSem BY <1>0, <2>1 DEF TokenInv
  <2>3. ~csr.sw BY <1>0, <1>1 DEF CsrInv, SwCalls
  <2>4. ~HasResp("sw") /\ ~HasResp("db") BY <1>0, <2>3 DEF CsrInv, Busy
  <2> QED BY <1>0, <2>1, <2>2, <2>4 DEF OutdbInv
<1>6. /\ csr' \in Csr /\ csr'.sw /\ (csr'.db <=> csr.db) /\ (csr'.err => hidden > 0)
         /\ (csr.db => hidden > 0)
      /\ toDsp' = toDsp /\ job' = Append(job, [fromFPGA |-> mode.sw, dst |-> sw_dst, info |->
         txinfo.sw])
  <2>1. ~csr.sw /\ (nCsrVal <=> csr.db) /\ (csr.err => hidden > 0) /\ csr \in Csr
    BY <1>0, <1>1 DEF CsrInv, SwCalls, TypeInv
  <2>2. csr.db => hidden > 0 BY <1>0, <1>5 DEF CsrInv, Busy
  <2>3. csr' \in Csr BY <1>3 DEF WriteCsr, Csr
  <2>4. csr'.sw /\ (csr'.db <=> csr.db) /\ (csr'.err => hidden > 0)
    BY <1>3, <2>1, <2>2 DEF WriteCsr
  <2>5. toDsp' = toDsp BY <1>3, <2>1 DEF WriteCsr
  <2>6. job' = Append(job, [fromFPGA |-> mode.sw, dst |-> sw_dst, info |-> txinfo.sw])
    BY <1>3, <2>1 DEF WriteCsr
  <2> QED BY <2>2, <2>3, <2>4, <2>5, <2>6
<1>7. /\ job' = <<job'[1]>> /\ job' # <<>> /\ (job'[1].fromFPGA <=> call = "features")
      /\ job'[1].dst = SwDst /\ job'[1].info = SwInfo /\ Out' = SwInfo
  <2>1. (mode.sw <=> call = "features") /\ sw_dst = SwDst /\ txinfo.sw = SwInfo
    BY <1>0, <1>1 DEF RegInv, SwCalls
  <2>2. job' = <<[fromFPGA |-> mode.sw, dst |-> sw_dst, info |-> txinfo.sw]>> BY <1>5, <1>6
  <2>3. Out' = SwInfo BY <1>4 DEF Out, OutPC, Lag, SwInfo, DspPlaced
  <2> QED BY <2>1, <2>2, <2>3
<1>8. Lag' = Lag /\ Waited' = Waited /\ Asked' = Asked /\ SentC2H' = SentC2H
      /\ SentDone' = SentDone /\ ~OutPC'
  BY <1>4 DEF Lag, Waited, OutPC, Asked, Past, Asking, InHw, SentC2H, SentDone, PcDoorbells,
    SwCalls, DspPlaced
<1>9. TypeInv'
  BY <1>0, <1>3, <1>6 DEF TypeInv
<1>10. HostPlaced'
  BY <1>0, <1>3 DEF HostPlaced, HostLines
<1>11. DspPlaced'
  BY <1>0, <1>3, <1>4 DEF DspPlaced, Lines, InHw, Calls, PcDoorbells, SwCalls
<1>12. CountInv'
  BY <1>0, <1>3, <1>5, <1>8 DEF CountInv, InWrite, Written, Granted, HostPlaced, HostLines
<1>13. SlotInv'
  BY <1>0, <1>3, <1>4, <1>8 DEF SlotInv, TakenC2H, TakenDone, AtOutdb, PcDoorbells, SwCalls
<1>14. TokenInv'
  BY <1>0, <1>1, <1>3, <1>4, <1>6 DEF TokenInv, Out, OutPC, Lag, From, NoSem, OnlySem, AtOutdb,
    Doorbell, DspDoorbells, SwInfo
<1>15. OutdbInv'
  BY <1>0, <1>3, <1>5 DEF OutdbInv
<1>16. CsrInv'
  <2>1. toFpga' = <<>> /\ toDsp' = <<>> /\ call' \notin SwCalls /\ ~(nFrame = 0 /\ pc < 5)
    BY <1>0, <1>3, <1>4, <1>5, <1>6 DEF SwCalls, CountInv
  <2>2. ~HasResp("db")' /\ ~HasResp("sw")' /\ ~Busy("db")' /\ Busy("sw")'
    BY <1>7, <2>1 DEF HasResp, Busy
  <2> QED BY <1>0, <1>3, <1>6, <2>1, <2>2 DEF CsrInv
<1>17. RegInv'
  BY <1>0, <1>3, <1>4 DEF RegInv
<1>18. DataInv'
  <2>1. JobDst' = SwDst BY <1>4 DEF JobDst, SwDst
  <2>2. (job'[1].fromFPGA <=> call' = "template") BY <1>4, <1>7
  <2>3. Tracking' => Tracking /\ This' = This /\ getOpBuf' = getOpBuf
    BY <1>3, <1>4 DEF Tracking, InHw, This, Frame, getOpBuf, rxBuf, DspPlaced
  <2>4. ~fpgaMem.busy /\ dsem["FHOG"] = 0 BY <1>0 DEF DataInv
  <2>5. /\ pc > 0 /\ nFrame = 0 => src = SeqInfo(run)
        /\ nFrame \in 1 .. FRAME_NUM /\ pc >= 2 => src = Frame(run, nFrame - 1)
        /\ Tracking => mem[getOpBuf] = This
        /\ call = "features" => fpgaMem.features = This
    BY <1>0 DEF DataInv
  <2>6. call' = "template" => call = "features" /\ This' = This
    BY <1>3, <1>4 DEF This
  <2> QED BY <1>3, <1>4, <1>7, <2>1, <2>3, <2>4, <2>5, <2>6 DEF DataInv
<1>19. ResultInv'
  BY <1>0, <1>3, <1>4 DEF ResultInv, WdmaDone, Read, Lag, InHw, This, Frame, DspPlaced
<1>20. ASSUME NEW m \in PcDoorbells PROVE MsgInv(m)'
  <2>1. MsgInv(m) BY DEF IInv
  <2> QED BY <1>3, <1>5, <1>8, <2>1 DEF MsgInv, Pending, OnWay, InSlot, InPost, InSem, Granted,
    TakenC2H, TakenDone
<1> QED BY <1>9, <1>10, <1>11, <1>12, <1>13, <1>14, <1>15, <1>16, <1>17, <1>18, <1>19, <1>20
  DEF IInv

-----------------------------------------------------------------------------
(* MainTskFxn: messages to the host.                                       *)

\* The message is sent: its slot is free and no doorbell is under way.
LEMMA DspSendDBStep ==
    ASSUME IInv, DspSendDB, DspAt("sendDB")
    PROVE  IInv'
<1>0. /\ TypeInv /\ HostPlaced /\ DspPlaced /\ CountInv /\ SlotInv /\ TokenInv /\ OutdbInv
      /\ CsrInv /\ RegInv /\ DataInv /\ ResultInv /\ FRAME_NUM \in Nat \ {0}
  BY LinkAssumption DEF IInv
<1>t. DspTable /\ (call # "abort" => Len(MainTskFxn) = Lines)
  BY <1>0, DspLines, DspLength
<1>1. call \in PcDoorbells /\ dsp = 4 BY <1>t DEF DspTable
<1>2. ~DspAt("outdb")
  BY <1>t DEF DspTable
<1>3. /\ outdb' = FALSE /\ toFpga' = Append(toFpga, Doorbell("dsp", call))
      /\ DspNext
      /\ UNCHANGED <<HW_FHOG_MODE, pcVars, sem, irqVars, h2c, c2h, regs, msi, job, toDsp, nTemp,
        nCsrVal, m_nRxInd, used, dsem, inbound, stat, mem, fpgaMem, tracked, hidden>>
  BY <1>2 DEF DspSendDB
<1>4. dsp' = dsp + 1 /\ UNCHANGED <<call, frame, again>>
  <2>1. call # "abort" /\ dsp < Lines BY <1>1 DEF Lines, PcDoorbells
  <2>2. dsp < Len(MainTskFxn) BY <1>t, <2>1
  <2> QED BY <1>3, <2>2 DEF DspNext
<1> USE DEF pcVars, irqVars, regs, links, place, task, srio
<1>5. /\ Out = "none" /\ Out' = "none" /\ ~AtOutdb /\ AtOutdb' /\ ~OutPC /\ ~OutPC' /\ ~Lag
         /\ ~Lag'
      /\ Waited' = Waited /\ Asked = Waited /\ ~SentDone /\ (SentC2H <=> call = "PROCDONE")
      /\ Asked' = (IF call \in {"STARTREQ", "STARTH2C"} THEN Asked + 1 ELSE Asked)
      /\ (SentC2H' <=> call \in {"STARTC2H", "PROCDONE"}) /\ (SentDone' <=> call = "PROCDONE")
  BY <1>1, <1>3, <1>4 DEF Lag, Waited, OutPC, Asked, Past, Asking, InHw, SentC2H, SentDone, Out,
    AtOutdb, PcDoorbells, SwCalls
<1>6. job = <<>> /\ toDsp = <<>> /\ inbound = <<>> /\ ~stat /\ NoSem
  BY <1>0, <1>5 DEF TokenInv
<1>7. Asked = Granted
  BY <1>0, <1>5 DEF CountInv, Written, Granted, InWrite, HostPlaced
<1>8. Granted = 0 <=> call = "STARTREQ"
  BY <1>0, <1>1, <1>5, <1>7 DEF Waited, Past, InHw, DspPlaced, PcDoorbells
<1>9. /\ toFpga' # <<>>
      /\ \/ toFpga = <<>> /\ toFpga' = <<Doorbell("dsp", call)>>
         \/ /\ HasResp("db") \/ HasResp("sw")
            /\ toFpga' = <<toFpga[1], Doorbell("dsp", call)>>
  <2>1. CASE toFpga = <<>> BY <1>3, <2>1
  <2>2. CASE toFpga # <<>>
    <3>1. HasResp("db") \/ HasResp("sw") BY <1>0, <1>5, <2>2 DEF OutdbInv
    <3>2. toFpga = <<toFpga[1]>> BY <1>0, <1>5, <2>2 DEF OutdbInv
    <3>3. toFpga' = <<toFpga[1], Doorbell("dsp", call)>> BY <1>3, <3>2, AppendOne
    <3> QED BY <3>1, <3>3
  <2> QED BY <2>1, <2>2
<1>10. ~outdb' /\ outdb' \in BOOLEAN
  BY <1>3, Zenon
<1>11. (HasResp("db")' <=> HasResp("db")) /\ (HasResp("sw")' <=> HasResp("sw"))
  BY <1>9 DEF HasResp, Doorbell
<1>12. TypeInv'
  BY <1>0, <1>3, <1>10 DEF TypeInv
<1>13. HostPlaced'
  BY <1>0, <1>3 DEF HostPlaced, HostLines
<1>14. DspPlaced'
  BY <1>0, <1>1, <1>3, <1>4 DEF DspPlaced, Lines, InHw
<1>15. CountInv'
  BY <1>0, <1>1, <1>3, <1>5 DEF CountInv, InWrite, Written, Granted, HostPlaced, HostLines,
    PcDoorbells, SwCalls
<1>16. SlotInv'
  BY <1>0, <1>1, <1>3, <1>5 DEF SlotInv, TakenC2H, TakenDone
<1>17. TokenInv'
  BY <1>0, <1>3, <1>5 DEF TokenInv, NoSem
<1>18. OutdbInv'
  <2>1. toDsp' = <<>> /\ call' = call BY <1>3, <1>4, <1>6
  <2> QED BY <1>5, <1>9, <1>10, <1>11, <2>1 DEF OutdbInv
<1>19. CsrInv'
  BY <1>0, <1>1, <1>3, <1>4 DEF CsrInv, Busy, HasResp, SwCalls, PcDoorbells, Doorbell, Response
<1>20. RegInv'
  BY <1>0, <1>1, <1>3, <1>4 DEF RegInv, rxBuf, SwCalls, PcDoorbells
<1>21. DataInv'
  BY <1>0, <1>1, <1>3, <1>4 DEF DataInv, Tracking, JobDst, This, OutPC, Waited, Past, Out, Lag,
    InHw, rxBuf, getOpBuf, Frame, SeqInfo
<1>22. ResultInv'
  BY <1>0, <1>1, <1>3, <1>4 DEF ResultInv, WdmaDone, Read, Lag, InHw, This, Frame
<1>23. ASSUME NEW m \in PcDoorbells PROVE MsgInv(m)'
  <2>1. MsgInv(m) BY DEF IInv
  <2>2. ~OnWay(m) /\ (OnWay(m)' <=> call = m) BY <1>4, <1>5, <1>9 DEF OnWay
  <2>3. (InSlot(m)' <=> InSlot(m)) /\ (InPost(m)' <=> InPost(m)) /\ (InSem(m)' <=> InSem(m))
    BY <1>3 DEF InSlot, InPost, InSem
  <2>4. ~Pending(call) BY <1>5, <1>7 DEF Pending
  <2>5. /\ Granted' = Granted /\ Granted \in Nat /\ (TakenC2H' <=> TakenC2H)
           /\ (TakenDone' <=> TakenDone)
        /\ (TakenC2H => SentC2H) /\ (TakenDone => SentDone)
    BY <1>0, <1>3 DEF Granted, TakenC2H, TakenDone, SlotInv, HostPlaced
  <2>6. Pending(m)' <=> Pending(m) \/ m = call
    BY <1>5, <1>7, <1>8, <2>5 DEF Pending, PcDoorbells
  <2> QED BY <1>3, <2>1, <2>2, <2>3, <2>4, <2>6 DEF MsgInv
<1> QED BY <1>12, <1>13, <1>14, <1>15, <1>16, <1>17, <1>18, <1>19, <1>20, <1>21, <1>22, <1>23
  DEF IInv

\* STARTREQ has been seen: the DSP asks for the sequence information.
LEMMA DspOutdbSTARTREQStep ==
    ASSUME IInv, DspSendDB, DspAt("outdb"), call = "STARTREQ"
    PROVE  IInv'
<1>0. /\ TypeInv /\ HostPlaced /\ DspPlaced /\ CountInv /\ SlotInv /\ TokenInv /\ OutdbInv
      /\ CsrInv /\ RegInv /\ DataInv /\ ResultInv /\ FRAME_NUM \in Nat \ {0}
  BY LinkAssumption DEF IInv
<1>t. DspTable /\ (call # "abort" => Len(MainTskFxn) = Lines)
  BY <1>0, DspLines, DspLength
<1>1. call = "STARTREQ" /\ dsp = 5 BY <1>t DEF DspTable
<1>2. ~DspAt("sendDB")
  BY <1>t DEF DspTable
<1>3. /\ outdb /\ outdb' = FALSE /\ toFpga' = toFpga
      /\ DspNext
      /\ UNCHANGED <<HW_FHOG_MODE, pcVars, sem, irqVars, h2c, c2h, regs, msi, job, links, nTemp,
        nCsrVal, m_nRxInd, used, dsem, inbound, stat, mem, fpgaMem, tracked, hidden>>
  BY <1>2 DEF DspSendDB, links, place, task, srio
<1>4. call' = "seqInfo" /\ dsp' = 1 /\ UNCHANGED <<frame, again>>
  <2>1. call # "abort" /\ ~(dsp < Lines) BY <1>1 DEF Lines, SwCalls
  <2>2. ~(dsp < Len(MainTskFxn)) BY <1>t, <2>1
  <2>3. dsp' = 1 /\ Return BY <1>3, <2>2 DEF DspNext
  <2> QED BY <2>3 DEF Return, Call
<1> USE DEF pcVars, irqVars, regs, links, place, task, srio
<1>5. Lag' = Lag /\ Waited' = Waited /\ OutPC' = OutPC /\ Asked' = Asked
      /\ SentC2H' = SentC2H /\ SentDone' = SentDone
  BY <1>1, <1>4 DEF Lag, Waited, OutPC, Asked, Past, Asking, InHw, SentC2H, SentDone, PcDoorbells,
    SwCalls, DspPlaced
<1>6. toFpga = <<>> /\ toDsp = <<>> /\ Out = "none" /\ Out' = "none" /\ AtOutdb /\ ~AtOutdb'
  BY <1>0, <1>3, <1>4 DEF OutdbInv, AtOutdb, Out, OutPC, Lag, PcDoorbells, SwCalls
<1>7. ~outdb' /\ outdb' \in BOOLEAN
  BY <1>3, Zenon
<1>8. TypeInv'
  BY <1>0, <1>3, <1>7 DEF TypeInv
<1>9. HostPlaced'
  BY <1>0, <1>3 DEF HostPlaced, HostLines
<1>10. DspPlaced'
  BY <1>0, <1>4 DEF DspPlaced, Lines, InHw, Calls, PcDoorbells, SwCalls
<1>11. CountInv'
  BY <1>0, <1>3, <1>5 DEF CountInv, InWrite, Written, Granted, HostPlaced, HostLines
<1>12. SlotInv'
  BY <1>0, <1>3, <1>4, <1>5 DEF SlotInv, TakenC2H, TakenDone, AtOutdb, PcDoorbells, SwCalls
<1>13. TokenInv'
  BY <1>0, <1>3, <1>6 DEF TokenInv, NoSem
<1>14. OutdbInv'
  BY <1>3, <1>6 DEF OutdbInv
<1>15. CsrInv'
  BY <1>0, <1>3, <1>4, <1>6 DEF CsrInv, Busy, HasResp, SwCalls
<1>16. RegInv'
  BY <1>0, <1>3, <1>4 DEF RegInv
<1>17. DataInv'
  BY <1>0, <1>3, <1>4 DEF DataInv, Tracking, JobDst, This, OutPC, Waited, Past, Out, Lag, InHw,
    rxBuf, getOpBuf, Frame, SeqInfo
<1>18. ResultInv'
  BY <1>0, <1>3, <1>4 DEF ResultInv, WdmaDone, Read, Lag, InHw, This, Frame
<1>19. ASSUME NEW m \in PcDoorbells PROVE MsgInv(m)'
  <2>1. MsgInv(m) BY DEF IInv
  <2> QED BY <1>3, <1>5, <1>6, <2>1 DEF MsgInv, Pending, OnWay, InSlot, InPost, InSem, Granted,
    TakenC2H, TakenDone
<1> QED BY <1>8, <1>9, <1>10, <1>11, <1>12, <1>13, <1>14, <1>15, <1>16, <1>17, <1>18, <1>19
  DEF IInv

\* STARTH2C has been seen: the DSP asks for a frame.
LEMMA DspOutdbSTARTH2CStep ==
    ASSUME IInv, DspSendDB, DspAt("outdb"), call = "STARTH2C"
    PROVE  IInv'
<1>0. /\ TypeInv /\ HostPlaced /\ DspPlaced /\ CountInv /\ SlotInv /\ TokenInv /\ OutdbInv
      /\ CsrInv /\ RegInv /\ DataInv /\ ResultInv /\ FRAME_NUM \in Nat \ {0}
  BY LinkAssumption DEF IInv
<1>t. DspTable /\ (call # "abort" => Len(MainTskFxn) = Lines)
  BY <1>0, DspLines, DspLength
<1>1. call = "STARTH2C" /\ dsp = 5 BY <1>t DEF DspTable
<1>2. ~DspAt("sendDB")
  BY <1>t DEF DspTable
<1>3. /\ outdb /\ outdb' = FALSE /\ toFpga' = toFpga
      /\ DspNext
      /\ UNCHANGED <<HW_FHOG_MODE, pcVars, sem, irqVars, h2c, c2h, regs, msi, job, links, nTemp,
        nCsrVal, m_nRxInd, used, dsem, inbound, stat, mem, fpgaMem, tracked, hidden>>
  BY <1>2 DEF DspSendDB, links, place, task, srio
<1>4. call' = "frame" /\ dsp' = 1 /\ UNCHANGED <<frame, again>>
  <2>1. call # "abort" /\ ~(dsp < Lines) BY <1>1 DEF Lines, SwCalls
  <2>2. ~(dsp < Len(MainTskFxn)) BY <1>t, <2>1
  <2>3. dsp' = 1 /\ Return BY <1>3, <2>2 DEF DspNext
  <2> QED BY <2>3 DEF Return, Call
<1> USE DEF pcVars, irqVars, regs, links, place, task, srio
<1>5. Lag' = Lag /\ Waited' = Waited /\ OutPC' = OutPC /\ Asked' = Asked
      /\ SentC2H' = SentC2H /\ SentDone' = SentDone
  BY <1>1, <1>3, <1>4 DEF Lag, Waited, OutPC, Asked, Past, Asking, InHw, SentC2H, SentDone,
    PcDoorbells, SwCalls, DspPlaced
<1>6. toFpga = <<>> /\ toDsp = <<>> /\ Out = "none" /\ Out' = "none" /\ AtOutdb /\ ~AtOutdb'
  BY <1>0, <1>3, <1>4 DEF OutdbInv, AtOutdb, Out, OutPC, Lag, PcDoorbells, SwCalls
<1>7. ~outdb' /\ outdb' \in BOOLEAN
  BY <1>3, Zenon
<1>8. TypeInv'
  BY <1>0, <1>3, <1>7 DEF TypeInv
<1>9. HostPlaced'
  BY <1>0, <1>3 DEF HostPlaced, HostLines
<1>10. DspPlaced'
  BY <1>0, <1>3, <1>4 DEF DspPlaced, Lines, InHw, Calls, PcDoorbells, SwCalls
<1>11. CountInv'
  BY <1>0, <1>3, <1>5 DEF CountInv, InWrite, Written, Granted, HostPlaced, HostLines
<1>12. SlotInv'
  BY <1>0, <1>3, <1>4, <1>5 DEF SlotInv, TakenC2H, TakenDone, AtOutdb, PcDoorbells, SwCalls
<1>13. TokenInv'
  BY <1>0, <1>3, <1>6 DEF TokenInv, NoSem
<1>14. OutdbInv'
  BY <1>3, <1>6 DEF OutdbInv
<1>15. CsrInv'
  BY <1>0, <1>3, <1>4, <1>6 DEF CsrInv, Busy, HasResp, SwCalls
<1>16. RegInv'
  BY <1>0, <1>3, <1>4 DEF RegInv
<1>17. DataInv'
  BY <1>0, <1>3, <1>4 DEF DataInv, Tracking, JobDst, This, OutPC, Waited, Past, Out, Lag, InHw,
    rxBuf, getOpBuf, Frame, SeqInfo
<1>18. ResultInv'
  BY <1>0, <1>3, <1>4 DEF ResultInv, WdmaDone, Read, Lag, InHw, This, Frame
<1>19. ASSUME NEW m \in PcDoorbells PROVE MsgInv(m)'
  <2>1. MsgInv(m) BY DEF IInv
  <2> QED BY <1>3, <1>5, <1>6, <2>1 DEF MsgInv, Pending, OnWay, InSlot, InPost, InSem, Granted,
    TakenC2H, TakenDone
<1> QED BY <1>8, <1>9, <1>10, <1>11, <1>12, <1>13, <1>14, <1>15, <1>16, <1>17, <1>18, <1>19
  DEF IInv

\* STARTC2H has been seen: the results follow.
LEMMA DspOutdbSTARTC2HStep ==
    ASSUME IInv, DspSendDB, DspAt("outdb"), call = "STARTC2H"
    PROVE  IInv'
<1>0. /\ TypeInv /\ HostPlaced /\ DspPlaced /\ CountInv /\ SlotInv /\ TokenInv /\ OutdbInv
      /\ CsrInv /\ RegInv /\ DataInv /\ ResultInv /\ FRAME_NUM \in Nat \ {0}
  BY LinkAssumption DEF IInv
<1>t. DspTable /\ (call # "abort" => Len(MainTskFxn) = Lines)
  BY <1>0, DspLines, DspLength
<1>1. call = "STARTC2H" /\ dsp = 5 BY <1>t DEF DspTable
<1>2. ~DspAt("sendDB")
  BY <1>t DEF DspTable
<1>3. /\ outdb /\ outdb' = FALSE /\ toFpga' = toFpga
      /\ DspNext
      /\ UNCHANGED <<HW_FHOG_MODE, pcVars, sem, irqVars, h2c, c2h, regs, msi, job, links, nTemp,
        nCsrVal, m_nRxInd, used, dsem, inbound, stat, mem, fpgaMem, tracked, hidden>>
  BY <1>2 DEF DspSendDB, links, place, task, srio
<1>4. call' = "results" /\ dsp' = 1 /\ UNCHANGED <<frame, again>>
  <2>1. call # "abort" /\ ~(dsp < Lines) BY <1>1 DEF Lines, SwCalls
  <2>2. ~(dsp < Len(MainTskFxn)) BY <1>t, <2>1
  <2>3. dsp' = 1 /\ Return BY <1>3, <2>2 DEF DspNext
  <2> QED BY <2>3 DEF Return, Call
<1> USE DEF pcVars, irqVars, regs, links, place, task, srio
<1>5. Lag' = Lag /\ Waited' = Waited /\ OutPC' = OutPC /\ Asked' = Asked
      /\ SentC2H' = SentC2H /\ SentDone' = SentDone
  BY <1>1, <1>4 DEF Lag, Waited, OutPC, Asked, Past, Asking, InHw, SentC2H, SentDone, PcDoorbells,
    SwCalls, DspPlaced
<1>6. toFpga = <<>> /\ toDsp = <<>> /\ Out = "none" /\ Out' = "none" /\ AtOutdb /\ ~AtOutdb'
  BY <1>0, <1>3, <1>4 DEF OutdbInv, AtOutdb, Out, OutPC, Lag, PcDoorbells, SwCalls
<1>7. ~outdb' /\ outdb' \in BOOLEAN
  BY <1>3, Zenon
<1>8. TypeInv'
  BY <1>0, <1>3, <1>7 DEF TypeInv
<1>9. HostPlaced'
  BY <1>0, <1>3 DEF HostPlaced, HostLines
<1>10. DspPlaced'
  BY <1>0, <1>4 DEF DspPlaced, Lines, InHw, Calls, PcDoorbells, SwCalls
<1>11. CountInv'
  BY <1>0, <1>3, <1>5 DEF CountInv, InWrite, Written, Granted, HostPlaced, HostLines
<1>12. SlotInv'
  BY <1>0, <1>3, <1>4, <1>5 DEF SlotInv, TakenC2H, TakenDone, AtOutdb, PcDoorbells, SwCalls
<1>13. TokenInv'
  BY <1>0, <1>3, <1>6 DEF TokenInv, NoSem
<1>14. OutdbInv'
  BY <1>3, <1>6 DEF OutdbInv
<1>15. CsrInv'
  BY <1>0, <1>3, <1>4, <1>6 DEF CsrInv, Busy, HasResp, SwCalls
<1>16. RegInv'
  BY <1>0, <1>3, <1>4 DEF RegInv
<1>17. DataInv'
  BY <1>0, <1>3, <1>4 DEF DataInv, Tracking, JobDst, This, OutPC, Waited, Past, Out, Lag, InHw,
    rxBuf, getOpBuf, Frame, SeqInfo
<1>18. ResultInv'
  BY <1>0, <1>3, <1>4 DEF ResultInv, WdmaDone, Read, Lag, InHw, This, Frame
<1>19. ASSUME NEW m \in PcDoorbells PROVE MsgInv(m)'
  <2>1. MsgInv(m) BY DEF IInv
  <2> QED BY <1>3, <1>5, <1>6, <2>1 DEF MsgInv, Pending, OnWay, InSlot, InPost, InSem, Granted,
    TakenC2H, TakenDone
<1> QED BY <1>8, <1>9, <1>10, <1>11, <1>12, <1>13, <1>14, <1>15, <1>16, <1>17, <1>18, <1>19
  DEF IInv

\* PROCDONE has been seen: the DSP waits for a next run.
LEMMA DspOutdbPROCDONEStep ==
    ASSUME IInv, DspSendDB, DspAt("outdb"), call = "PROCDONE"
    PROVE  IInv'
<1>0. /\ TypeInv /\ HostPlaced /\ DspPlaced /\ CountInv /\ SlotInv /\ TokenInv /\ OutdbInv
      /\ CsrInv /\ RegInv /\ DataInv /\ ResultInv /\ FRAME_NUM \in Nat \ {0}
  BY LinkAssumption DEF IInv
<1>t. DspTable /\ (call # "abort" => Len(MainTskFxn) = Lines)
  BY <1>0, DspLines, DspLength
<1>1. call = "PROCDONE" /\ dsp = 5 BY <1>t DEF DspTable
<1>2. ~DspAt("sendDB")
  BY <1>t DEF DspTable
<1>3. /\ outdb /\ outdb' = FALSE /\ toFpga' = toFpga
      /\ DspNext
      /\ UNCHANGED <<HW_FHOG_MODE, pcVars, sem, irqVars, h2c, c2h, regs, msi, job, links, nTemp,
        nCsrVal, m_nRxInd, used, dsem, inbound, stat, mem, fpgaMem, tracked, hidden>>
  BY <1>2 DEF DspSendDB, links, place, task, srio
<1>4. call' = "request" /\ dsp' = 1 /\ UNCHANGED <<frame, again>>
  <2>1. call # "abort" /\ ~(dsp < Lines) BY <1>1 DEF Lines, SwCalls
  <2>2. ~(dsp < Len(MainTskFxn)) BY <1>t, <2>1
  <2>3. dsp' = 1 /\ Return BY <1>3, <2>2 DEF DspNext
  <2> QED BY <2>3 DEF Return, Call
<1> USE DEF pcVars, irqVars, regs, links, place, task, srio
<1>5. ~Lag' /\ ~Lag
  <2>1. Waited = FRAME_NUM + 1 /\ ~OutPC
    BY <1>0 DEF Waited, Past, OutPC, InHw, Lag, DspPlaced, PcDoorbells, SwCalls
  <2>2. nFrame # 0 BY <1>0, <2>1 DEF CountInv, Written
  <2> QED BY <1>3, <2>2 DEF Lag
<1>6. Lag' = Lag /\ Waited' = Waited /\ OutPC' = OutPC /\ Asked' = Asked
      /\ SentC2H' = SentC2H /\ SentDone' = SentDone
  BY <1>1, <1>4, <1>5 DEF Lag, Waited, OutPC, Asked, Past, Asking, InHw, SentC2H, SentDone,
    PcDoorbells, SwCalls, DspPlaced
<1>7. toFpga = <<>> /\ toDsp = <<>> /\ Out = "none" /\ Out' = "none" /\ AtOutdb /\ ~AtOutdb'
  BY <1>0, <1>3, <1>4, <1>6 DEF OutdbInv, AtOutdb, Out, OutPC, Lag, PcDoorbells, SwCalls
<1>8. ~outdb' /\ outdb' \in BOOLEAN
  BY <1>3, Zenon
<1>9. TypeInv'
  BY <1>0, <1>3, <1>8 DEF TypeInv
<1>10. HostPlaced'
  BY <1>0, <1>3 DEF HostPlaced, HostLines
<1>11. DspPlaced'
  BY <1>0, <1>4 DEF DspPlaced, Lines, InHw, Calls, PcDoorbells, SwCalls
<1>12. CountInv'
  BY <1>0, <1>3, <1>6 DEF CountInv, InWrite, Written, Granted, HostPlaced, HostLines
<1>13. SlotInv'
  BY <1>0, <1>3, <1>4, <1>6 DEF SlotInv, TakenC2H, TakenDone, AtOutdb, PcDoorbells, SwCalls
<1>14. TokenInv'
  BY <1>0, <1>3, <1>7 DEF TokenInv, NoSem
<1>15. OutdbInv'
  BY <1>3, <1>7 DEF OutdbInv
<1>16. CsrInv'
  BY <1>0, <1>3, <1>4 DEF CsrInv, Busy, HasResp, SwCalls
<1>17. RegInv'
  BY <1>0, <1>3, <1>4 DEF RegInv
<1>18. DataInv'
  BY <1>0, <1>3, <1>4, <1>7 DEF DataInv, Tracking, JobDst, This, Out, Lag, InHw, rxBuf, getOpBuf,
    Frame, SeqInfo
<1>19. ResultInv'
  BY <1>0, <1>3, <1>4, <1>6 DEF ResultInv, WdmaDone, Read, Lag, InHw, This, Frame
<1>20. ASSUME NEW m \in PcDoorbells PROVE MsgInv(m)'
  <2>1. MsgInv(m) BY DEF IInv
  <2> QED BY <1>3, <1>6, <1>7, <2>1 DEF MsgInv, Pending, OnWay, InSlot, InPost, InSem, Granted,
    TakenC2H, TakenDone
<1> QED BY <1>9, <1>10, <1>11, <1>12, <1>13, <1>14, <1>15, <1>16, <1>17, <1>18, <1>19, <1>20
  DEF IInv

-----------------------------------------------------------------------------
(* MainTskFxn: hardware, waits, buffers and tracker.                       *)

\* The block goes to the FPGA.
LEMMA DspWdmaBlockStep ==
    ASSUME IInv, DspHardware, DspAt("wdma"), call = "nwToFPGA"
    PROVE  IInv'
<1>0. /\ TypeInv /\ HostPlaced /\ DspPlaced /\ CountInv /\ SlotInv /\ TokenInv /\ OutdbInv
      /\ CsrInv /\ RegInv /\ DataInv /\ ResultInv /\ FRAME_NUM \in Nat \ {0}
  BY LinkAssumption DEF IInv
<1>t. DspTable /\ (call # "abort" => Len(MainTskFxn) = Lines)
  BY <1>0, DspLines, DspLength
<1>1. call = "nwToFPGA" /\ dsp = 3 BY <1>t DEF DspTable
<1>2. ~DspAt("startHwFhog")
  BY <1>t DEF DspTable
<1>3. /\ IF mode.nw THEN fpgaMem' = [fpgaMem EXCEPT !.block = mem[getOpBuf]] /\ c2h' = c2h
         ELSE c2h' = mem[getOpBuf] /\ fpgaMem' = fpgaMem
      /\ DspNext
      /\ UNCHANGED <<HW_FHOG_MODE, pcVars, sem, irqVars, h2c, regs, msi, job, links, nTemp,
        nCsrVal, m_nRxInd, used, dsem, srio, mem, tracked, hidden>>
  BY <1>2 DEF DspHardware
<1>4. call' = "fhog" /\ dsp' = 1 /\ UNCHANGED <<frame, again>>
  <2>1. call # "abort" /\ ~(dsp < Lines) BY <1>1 DEF Lines, PcDoorbells, SwCalls
  <2>2. ~(dsp < Len(MainTskFxn)) BY <1>t, <2>1
  <2>3. dsp' = 1 /\ Return BY <1>3, <2>2 DEF DspNext
  <2> QED BY <2>3 DEF Return, Call
<1> USE DEF pcVars, irqVars, regs, links, place, task, srio
<1>5. Lag' = Lag /\ Waited' = Waited /\ OutPC' = OutPC /\ Asked' = Asked
      /\ SentC2H' = SentC2H /\ SentDone' = SentDone
  BY <1>4 DEF Lag, Waited, OutPC, Asked, Past, Asking, InHw, SentC2H, SentDone, PcDoorbells,
    SwCalls, DspPlaced
<1>6. Out' = Out /\ ~AtOutdb /\ ~AtOutdb'
  BY <1>3, <1>4, <1>5 DEF Out, AtOutdb, PcDoorbells
<1>7. c2h' = c2h /\ fpgaMem' = [fpgaMem EXCEPT !.block = mem[getOpBuf]]
  BY <1>0, <1>1, <1>3 DEF RegInv
<1>8. TypeInv'
  BY <1>0, <1>3 DEF TypeInv
<1>9. HostPlaced'
  BY <1>0, <1>3 DEF HostPlaced, HostLines
<1>10. DspPlaced'
  BY <1>0, <1>3, <1>4 DEF DspPlaced, Lines, InHw, Calls, PcDoorbells, SwCalls
<1>11. CountInv'
  BY <1>0, <1>3, <1>5 DEF CountInv, InWrite, Written, Granted, HostPlaced, HostLines
<1>12. SlotInv'
  BY <1>0, <1>3, <1>4, <1>5 DEF SlotInv, TakenC2H, TakenDone, AtOutdb, PcDoorbells, SwCalls
<1>13. TokenInv'
  BY <1>0, <1>3, <1>6 DEF TokenInv, NoSem, OnlySem, From
<1>14. OutdbInv'
  BY <1>0, <1>3, <1>6 DEF OutdbInv, HasResp, Doorbell, Response
<1>15. CsrInv'
  BY <1>0, <1>3, <1>4 DEF CsrInv, Busy, HasResp, SwCalls
<1>16. RegInv'
  BY <1>0, <1>3, <1>4 DEF RegInv
<1>17. DataInv'
  BY <1>0, <1>3, <1>4, <1>7 DEF DataInv, Tracking, JobDst, This, OutPC, Waited, Past, Out, Lag,
    InHw, rxBuf, getOpBuf, Frame, SeqInfo
<1>18. ResultInv'
  BY <1>0, <1>3, <1>4, <1>7 DEF ResultInv, WdmaDone, Read, Lag, InHw, This, Frame
<1>19. ASSUME NEW m \in PcDoorbells PROVE MsgInv(m)'
  <2>1. MsgInv(m) BY DEF IInv
  <2> QED BY <1>3, <1>5, <1>6, <2>1 DEF MsgInv, Pending, OnWay, InSlot, InPost, InSem, Granted,
    TakenC2H, TakenDone
<1> QED BY <1>8, <1>9, <1>10, <1>11, <1>12, <1>13, <1>14, <1>15, <1>16, <1>17, <1>18, <1>19
  DEF IInv

\* The results go to the host, which has not read any of this run.
LEMMA DspWdmaResultsStep ==
    ASSUME IInv, DspHardware, DspAt("wdma"), call = "results"
    PROVE  IInv'
<1>0. /\ TypeInv /\ HostPlaced /\ DspPlaced /\ CountInv /\ SlotInv /\ TokenInv /\ OutdbInv
      /\ CsrInv /\ RegInv /\ DataInv /\ ResultInv /\ FRAME_NUM \in Nat \ {0}
  BY LinkAssumption DEF IInv
<1>t. DspTable /\ (call # "abort" => Len(MainTskFxn) = Lines)
  BY <1>0, DspLines, DspLength
<1>1. call = "results" /\ dsp = 1 BY <1>t DEF DspTable
<1>2. ~DspAt("startHwFhog")
  BY <1>t DEF DspTable
<1>3. /\ IF mode.nw THEN fpgaMem' = [fpgaMem EXCEPT !.block = tracked] /\ c2h' = c2h
         ELSE c2h' = tracked /\ fpgaMem' = fpgaMem
      /\ DspNext
      /\ UNCHANGED <<HW_FHOG_MODE, pcVars, sem, irqVars, h2c, regs, msi, job, links, nTemp,
        nCsrVal, m_nRxInd, used, dsem, srio, mem, tracked, hidden>>
  BY <1>2 DEF DspHardware
<1>4. dsp' = dsp + 1 /\ UNCHANGED <<call, frame, again>>
  <2>1. call # "abort" /\ dsp < Lines BY <1>1 DEF Lines
  <2>2. dsp < Len(MainTskFxn) BY <1>t, <2>1
  <2> QED BY <1>3, <2>2 DEF DspNext
<1> USE DEF pcVars, irqVars, regs, links, place, task, srio
<1>5. Lag' = Lag /\ Waited' = Waited /\ OutPC' = OutPC /\ Asked' = Asked
      /\ SentC2H' = SentC2H /\ SentDone' = SentDone
  BY <1>4 DEF Lag, Waited, OutPC, Asked, Past, Asking, InHw, SentC2H, SentDone, PcDoorbells,
    SwCalls, DspPlaced
<1>6. Out' = Out /\ ~AtOutdb /\ ~AtOutdb'
  BY <1>3, <1>4, <1>5 DEF Out, AtOutdb, PcDoorbells
<1>7. c2h' = tracked /\ fpgaMem' = fpgaMem
  BY <1>0, <1>1, <1>3 DEF RegInv
<1>8. TypeInv'
  BY <1>0, <1>3 DEF TypeInv
<1>9. HostPlaced'
  BY <1>0, <1>3 DEF HostPlaced, HostLines
<1>10. DspPlaced'
  BY <1>0, <1>1, <1>4 DEF DspPlaced, Lines, InHw
<1>11. CountInv'
  BY <1>0, <1>3, <1>5 DEF CountInv, InWrite, Written, Granted, HostPlaced, HostLines
<1>12. SlotInv'
  BY <1>0, <1>3, <1>4, <1>5 DEF SlotInv, TakenC2H, TakenDone, AtOutdb, PcDoorbells, SwCalls
<1>13. TokenInv'
  BY <1>0, <1>3, <1>6 DEF TokenInv, NoSem, OnlySem, From
<1>14. OutdbInv'
  BY <1>0, <1>3, <1>6 DEF OutdbInv, HasResp, Doorbell, Response
<1>15. CsrInv'
  BY <1>0, <1>3, <1>4 DEF CsrInv, Busy, HasResp, SwCalls
<1>16. RegInv'
  BY <1>0, <1>1, <1>3, <1>4 DEF RegInv, rxBuf, SwCalls, PcDoorbells
<1>17. DataInv'
  BY <1>0, <1>3, <1>4, <1>7 DEF DataInv, Tracking, JobDst, This, OutPC, Waited, Past, Out, Lag,
    InHw, rxBuf, getOpBuf, Frame, SeqInfo
<1>18. ResultInv'
  BY <1>0, <1>1, <1>3, <1>4, <1>7 DEF ResultInv, WdmaDone, Read, Lag, InHw, This, Frame
<1>19. ASSUME NEW m \in PcDoorbells PROVE MsgInv(m)'
  <2>1. MsgInv(m) BY DEF IInv
  <2> QED BY <1>3, <1>5, <1>6, <2>1 DEF MsgInv, Pending, OnWay, InSlot, InPost, InSem, Granted,
    TakenC2H, TakenDone
<1> QED BY <1>8, <1>9, <1>10, <1>11, <1>12, <1>13, <1>14, <1>15, <1>16, <1>17, <1>18, <1>19
  DEF IInv

\* The FHOG hardware is started.
LEMMA DspStartHwFhogStep ==
    ASSUME IInv, DspHardware, DspAt("startHwFhog")
    PROVE  IInv'
<1>0. /\ TypeInv /\ HostPlaced /\ DspPlaced /\ CountInv /\ SlotInv /\ TokenInv /\ OutdbInv
      /\ CsrInv /\ RegInv /\ DataInv /\ ResultInv /\ FRAME_NUM \in Nat \ {0}
  BY LinkAssumption DEF IInv
<1>t. DspTable /\ (call # "abort" => Len(MainTskFxn) = Lines)
  BY <1>0, DspLines, DspLength
<1>1. call = "fhog" /\ dsp = 1 BY <1>t DEF DspTable
<1>2. ~DspAt("wdma")
  BY <1>t DEF DspTable
<1>3. /\ fpgaMem' = [fpgaMem EXCEPT !.busy = TRUE] /\ c2h' = c2h
      /\ DspNext
      /\ UNCHANGED <<HW_FHOG_MODE, pcVars, sem, irqVars, h2c, regs, msi, job, links, nTemp,
        nCsrVal, m_nRxInd, used, dsem, srio, mem, tracked, hidden>>
  BY <1>2 DEF DspHardware
<1>4. dsp' = dsp + 1 /\ UNCHANGED <<call, frame, again>>
  <2>1. call # "abort" /\ dsp < Lines BY <1>1 DEF Lines
  <2>2. dsp < Len(MainTskFxn) BY <1>t, <2>1
  <2> QED BY <1>3, <2>2 DEF DspNext
<1> USE DEF pcVars, irqVars, regs, links, place, task, srio
<1>5. Lag' = Lag /\ Waited' = Waited /\ OutPC' = OutPC /\ Asked' = Asked
      /\ SentC2H' = SentC2H /\ SentDone' = SentDone
  BY <1>1, <1>4 DEF Lag, Waited, OutPC, Asked, Past, Asking, InHw, SentC2H, SentDone, PcDoorbells,
    SwCalls, DspPlaced
<1>6. Out' = Out /\ ~AtOutdb /\ ~AtOutdb'
  BY <1>1, <1>3, <1>4, <1>5 DEF Out, AtOutdb
<1>7. TypeInv'
  BY <1>0, <1>3 DEF TypeInv
<1>8. HostPlaced'
  BY <1>0, <1>3 DEF HostPlaced, HostLines
<1>9. DspPlaced'
  BY <1>0, <1>1, <1>3, <1>4 DEF DspPlaced, Lines, InHw
<1>10. CountInv'
  BY <1>0, <1>1, <1>3, <1>5 DEF CountInv, InWrite, Written, Granted, HostPlaced, HostLines
<1>11. SlotInv'
  BY <1>0, <1>1, <1>3, <1>4, <1>5 DEF SlotInv, TakenC2H, TakenDone, AtOutdb, PcDoorbells, SwCalls
<1>12. TokenInv'
  BY <1>0, <1>3, <1>6 DEF TokenInv, NoSem, OnlySem, From
<1>13. OutdbInv'
  BY <1>0, <1>3, <1>6 DEF OutdbInv, HasResp, Doorbell, Response
<1>14. CsrInv'
  BY <1>0, <1>1, <1>3, <1>4 DEF CsrInv, Busy, HasResp, SwCalls
<1>15. RegInv'
  BY <1>0, <1>1, <1>3, <1>4 DEF RegInv, rxBuf, SwCalls, PcDoorbells
<1>16. DataInv'
  BY <1>0, <1>1, <1>3, <1>4 DEF DataInv, Tracking, JobDst, This, OutPC, Waited, Past, Out, Lag,
    InHw, rxBuf, getOpBuf, Frame, SeqInfo
<1>17. ResultInv'
  BY <1>0, <1>1, <1>3, <1>4 DEF ResultInv, WdmaDone, Read, Lag, InHw, This, Frame
<1>18. ASSUME NEW m \in PcDoorbells PROVE MsgInv(m)'
  <2>1. MsgInv(m) BY DEF IInv
  <2> QED BY <1>3, <1>5, <1>6, <2>1 DEF MsgInv, Pending, OnWay, InSlot, InPost, InSem, Granted,
    TakenC2H, TakenDone
<1> QED BY <1>7, <1>8, <1>9, <1>10, <1>11, <1>12, <1>13, <1>14, <1>15, <1>16, <1>17, <1>18
  DEF IInv

\* The DSP has seen the request of this run.
LEMMA DspRequestStep ==
    ASSUME IInv, DspPend, DspAt("PC_STARTREQ")
    PROVE  IInv'
<1>0. /\ TypeInv /\ HostPlaced /\ DspPlaced /\ CountInv /\ SlotInv /\ TokenInv /\ OutdbInv
      /\ CsrInv /\ RegInv /\ DataInv /\ ResultInv /\ FRAME_NUM \in Nat \ {0}
  BY LinkAssumption DEF IInv
<1>t. DspTable /\ (call # "abort" => Len(MainTskFxn) = Lines)
  BY <1>0, DspLines, DspLength
<1>1. call = "request" /\ dsp = 1 BY <1>t DEF DspTable
<1>2. ~DspAt("SWFROMPC_DONE") /\ ~DspAt("SWFROMFPGA_DONE") /\ ~DspAt("FHOG")
  BY <1>t DEF DspTable
<1>3. /\ dsem["PC_STARTREQ"] > 0 /\ dsem' = [dsem EXCEPT !["PC_STARTREQ"] = @ - 1]
      /\ DspNext
      /\ UNCHANGED <<HW_FHOG_MODE, pcVars, sem, irqVars, h2c, c2h, regs, msi, job, links, nTemp,
        nCsrVal, m_nRxInd, used, srio, mem, fpgaMem, tracked, hidden>>
  BY <1>2, <1>0 DEF DspPend, place, task, srio, TypeInv, DspDoorbells
<1>4. call' = "STARTREQ" /\ dsp' = 1 /\ frame' = 0 /\ again' = again
  <2>1. call # "abort" /\ ~(dsp < Lines) BY <1>1 DEF Lines, PcDoorbells, SwCalls
  <2>2. ~(dsp < Len(MainTskFxn)) BY <1>t, <2>1
  <2>3. dsp' = 1 /\ Return BY <1>3, <2>2 DEF DspNext
  <2> QED BY <1>1, <2>3 DEF Return
<1> USE DEF pcVars, irqVars, regs, links, place, task, srio
<1>5. /\ dsem' \in [DspDoorbells \cup {"FHOG"} -> 0 .. 1] /\ dsem'["PC_STARTREQ"] = 0
      /\ \A x \in DspDoorbells \cup {"FHOG"} : x # "PC_STARTREQ" => dsem'[x] = dsem[x]
  BY <1>0, <1>3 DEF TypeInv, DspDoorbells
<1>6. /\ Out = "PC_STARTREQ" /\ job = <<>> /\ toDsp = <<>> /\ inbound = <<>> /\ ~stat
      /\ OnlySem("PC_STARTREQ") /\ Out' = "none" /\ (\A x \in DspDoorbells : dsem'[x] = 0)
  <2>1. \E x \in DspDoorbells : dsem[x] # 0 BY <1>3 DEF TypeInv, DspDoorbells
  <2>2. /\ job = <<>> /\ toDsp = <<>> /\ inbound = <<>> /\ ~stat /\ OnlySem(Out)
    BY <1>0, <2>1 DEF TokenInv, NoSem
  <2>3. Out = "PC_STARTREQ" BY <1>3, <2>2 DEF OnlySem, DspDoorbells
  <2>4. Out' = "none" BY <1>4 DEF Out, OutPC, Lag
  <2> QED BY <1>5, <2>2, <2>3, <2>4 DEF OnlySem
<1>7. Lag /\ pc = 5 /\ nFrame = 0 /\ ~Lag'
  BY <1>3, <1>6 DEF Out, Lag
<1>8. Waited' = Waited /\ OutPC' = OutPC /\ Asked' = Asked /\ ~SentC2H' /\ ~SentC2H
      /\ ~SentDone /\ ~SentDone'
  BY <1>4, <1>7 DEF Lag, Waited, OutPC, Asked, Past, Asking, InHw, SentC2H, SentDone, PcDoorbells,
    SwCalls
<1>9. ~AtOutdb /\ ~AtOutdb'
  BY <1>1, <1>4 DEF AtOutdb
<1>10. TypeInv'
  BY <1>0, <1>3 DEF TypeInv, Infos, PcDoorbells, DspDoorbells
<1>11. HostPlaced'
  BY <1>0, <1>3 DEF HostPlaced, HostLines
<1>12. DspPlaced'
  BY <1>0, <1>1, <1>4 DEF DspPlaced, Lines, InHw, Calls, PcDoorbells, SwCalls
<1>13. CountInv'
  BY <1>0, <1>3, <1>7, <1>8 DEF CountInv, InWrite, Written, Granted, HostPlaced, HostLines
<1>14. SlotInv'
  BY <1>0, <1>3, <1>4, <1>8 DEF SlotInv, TakenC2H, TakenDone, AtOutdb, PcDoorbells, SwCalls
<1>15. TokenInv'
  BY <1>3, <1>6 DEF TokenInv, NoSem
<1>16. OutdbInv'
  BY <1>0, <1>3, <1>9 DEF OutdbInv, HasResp, Doorbell, Response
<1>17. CsrInv'
  BY <1>0, <1>1, <1>3, <1>4 DEF CsrInv, Busy, HasResp, SwCalls
<1>18. RegInv'
  BY <1>0, <1>3, <1>4 DEF RegInv
<1>19. DataInv'
  BY <1>0, <1>3, <1>4, <1>6 DEF DataInv, Tracking, JobDst, This, Out, Lag, InHw, rxBuf, getOpBuf,
    Frame, SeqInfo
<1>20. ResultInv'
  BY <1>0, <1>3, <1>4, <1>7 DEF ResultInv, Read, Lag, InHw, This, Frame, DspPlaced
<1>21. ASSUME NEW m \in PcDoorbells PROVE MsgInv(m)'
  <2>1. MsgInv(m) BY DEF IInv
  <2> QED BY <1>3, <1>8, <1>9, <2>1 DEF MsgInv, Pending, OnWay, InSlot, InPost, InSem, Granted,
    TakenC2H, TakenDone
<1> QED BY <1>10, <1>11, <1>12, <1>13, <1>14, <1>15, <1>16, <1>17, <1>18, <1>19, <1>20, <1>21
  DEF IInv

\* A block of data has come.
LEMMA DspDataStep ==
    ASSUME IInv, DspPend, DspAt("SWFROMPC_DONE")
    PROVE  IInv'
<1>0. /\ TypeInv /\ HostPlaced /\ DspPlaced /\ CountInv /\ SlotInv /\ TokenInv /\ OutdbInv
      /\ CsrInv /\ RegInv /\ DataInv /\ ResultInv /\ FRAME_NUM \in Nat \ {0}
  BY LinkAssumption DEF IInv
<1>t. DspTable /\ (call # "abort" => Len(MainTskFxn) = Lines)
  BY <1>0, DspLines, DspLength
<1>1. call \in {"info", "flip"} /\ dsp = 1 BY <1>t DEF DspTable
<1>2. ~DspAt("PC_STARTREQ") /\ ~DspAt("SWFROMFPGA_DONE") /\ ~DspAt("FHOG")
  BY <1>t DEF DspTable
<1>3. /\ dsem["SWFROMPC_DONE"] > 0 /\ dsem' = [dsem EXCEPT !["SWFROMPC_DONE"] = @ - 1]
      /\ DspNext
      /\ UNCHANGED <<HW_FHOG_MODE, pcVars, sem, irqVars, h2c, c2h, regs, msi, job, links, nTemp,
        nCsrVal, m_nRxInd, used, srio, mem, fpgaMem, tracked, hidden>>
  BY <1>2, <1>0 DEF DspPend, place, task, srio, TypeInv, DspDoorbells
<1>4. dsp' = dsp + 1 /\ UNCHANGED <<call, frame, again>>
  <2>1. call # "abort" /\ dsp < Lines BY <1>1 DEF Lines
  <2>2. dsp < Len(MainTskFxn) BY <1>t, <2>1
  <2> QED BY <1>3, <2>2 DEF DspNext
<1> USE DEF pcVars, irqVars, regs, links, place, task, srio
<1>5. /\ dsem' \in [DspDoorbells \cup {"FHOG"} -> 0 .. 1] /\ dsem'["SWFROMPC_DONE"] = 0
      /\ \A x \in DspDoorbells \cup {"FHOG"} : x # "SWFROMPC_DONE" => dsem'[x] = dsem[x]
  BY <1>0, <1>3 DEF TypeInv, DspDoorbells
<1>6. /\ Out = "SWFROMPC_DONE" /\ job = <<>> /\ toDsp = <<>> /\ inbound = <<>> /\ ~stat
      /\ OnlySem("SWFROMPC_DONE") /\ Out' = "none" /\ (\A x \in DspDoorbells : dsem'[x] = 0)
  <2>1. \E x \in DspDoorbells : dsem[x] # 0 BY <1>3 DEF TypeInv, DspDoorbells
  <2>2. /\ job = <<>> /\ toDsp = <<>> /\ inbound = <<>> /\ ~stat /\ OnlySem(Out)
    BY <1>0, <2>1 DEF TokenInv, NoSem
  <2>3. Out = "SWFROMPC_DONE" BY <1>3, <2>2 DEF OnlySem, DspDoorbells
  <2>4. Out' = "none" BY <1>1, <1>4 DEF Out, OutPC, Lag
  <2> QED BY <1>5, <2>2, <2>3, <2>4 DEF OnlySem
<1>7. Lag' = Lag /\ Waited' = Waited + 1 /\ OutPC /\ ~OutPC' /\ Asked' = Asked
      /\ SentC2H' = SentC2H /\ SentDone' = SentDone
  BY <1>1, <1>4 DEF Lag, Waited, OutPC, Asked, Past, Asking, InHw, SentC2H, SentDone, PcDoorbells,
    SwCalls, DspPlaced
<1>8. ~AtOutdb /\ ~AtOutdb'
  BY <1>1, <1>4 DEF AtOutdb
<1>9. TypeInv'
  BY <1>0, <1>3 DEF TypeInv, Infos, PcDoorbells, DspDoorbells
<1>10. HostPlaced'
  BY <1>0, <1>3 DEF HostPlaced, HostLines
<1>11. DspPlaced'
  BY <1>0, <1>1, <1>4 DEF DspPlaced, Lines, InHw
<1>12. CountInv'
  BY <1>0, <1>1, <1>3, <1>6, <1>7 DEF CountInv, InWrite, Written, Granted, HostPlaced, HostLines
<1>13. SlotInv'
  BY <1>0, <1>1, <1>3, <1>4, <1>7 DEF SlotInv, TakenC2H, TakenDone, AtOutdb, PcDoorbells, SwCalls
<1>14. TokenInv'
  BY <1>3, <1>6 DEF TokenInv, NoSem
<1>15. OutdbInv'
  BY <1>0, <1>3, <1>8 DEF OutdbInv, HasResp, Doorbell, Response
<1>16. CsrInv'
  BY <1>0, <1>1, <1>3, <1>4 DEF CsrInv, Busy, HasResp, SwCalls
<1>17. RegInv'
  BY <1>0, <1>1, <1>3, <1>4 DEF RegInv, rxBuf, SwCalls, PcDoorbells
<1>18. DataInv'
  BY <1>0, <1>3, <1>4, <1>6 DEF DataInv, Tracking, JobDst, This, OutPC, Waited, Past, Out, Lag,
    InHw, rxBuf, getOpBuf, Frame, SeqInfo
<1>19. ResultInv'
  BY <1>0, <1>1, <1>3, <1>4 DEF ResultInv, WdmaDone, Read, Lag, InHw, This, Frame
<1>20. ASSUME NEW m \in PcDoorbells PROVE MsgInv(m)'
  <2>1. MsgInv(m) BY DEF IInv
  <2> QED BY <1>3, <1>7, <1>8, <2>1 DEF MsgInv, Pending, OnWay, InSlot, InPost, InSem, Granted,
    TakenC2H, TakenDone
<1> QED BY <1>9, <1>10, <1>11, <1>12, <1>13, <1>14, <1>15, <1>16, <1>17, <1>18, <1>19, <1>20
  DEF IInv

\* The features have come.
LEMMA DspFeaturesStep ==
    ASSUME IInv, DspPend, DspAt("SWFROMFPGA_DONE")
    PROVE  IInv'
<1>0. /\ TypeInv /\ HostPlaced /\ DspPlaced /\ CountInv /\ SlotInv /\ TokenInv /\ OutdbInv
      /\ CsrInv /\ RegInv /\ DataInv /\ ResultInv /\ FRAME_NUM \in Nat \ {0}
  BY LinkAssumption DEF IInv
<1>t. DspTable /\ (call # "abort" => Len(MainTskFxn) = Lines)
  BY <1>0, DspLines, DspLength
<1>1. call = "template" /\ dsp = 1 BY <1>t DEF DspTable
<1>2. ~DspAt("PC_STARTREQ") /\ ~DspAt("SWFROMPC_DONE") /\ ~DspAt("FHOG")
  BY <1>t DEF DspTable
<1>3. /\ dsem["SWFROMFPGA_DONE"] > 0 /\ dsem' = [dsem EXCEPT !["SWFROMFPGA_DONE"] = @ - 1]
      /\ DspNext
      /\ UNCHANGED <<HW_FHOG_MODE, pcVars, sem, irqVars, h2c, c2h, regs, msi, job, links, nTemp,
        nCsrVal, m_nRxInd, used, srio, mem, fpgaMem, tracked, hidden>>
  BY <1>2, <1>0 DEF DspPend, place, task, srio, TypeInv, DspDoorbells
<1>4. dsp' = dsp + 1 /\ UNCHANGED <<call, frame, again>>
  <2>1. call # "abort" /\ dsp < Lines BY <1>1 DEF Lines
  <2>2. dsp < Len(MainTskFxn) BY <1>t, <2>1
  <2> QED BY <1>3, <2>2 DEF DspNext
<1> USE DEF pcVars, irqVars, regs, links, place, task, srio
<1>5. /\ dsem' \in [DspDoorbells \cup {"FHOG"} -> 0 .. 1] /\ dsem'["SWFROMFPGA_DONE"] = 0
      /\ \A x \in DspDoorbells \cup {"FHOG"} : x # "SWFROMFPGA_DONE" => dsem'[x] = dsem[x]
  BY <1>0, <1>3 DEF TypeInv, DspDoorbells
<1>6. /\ Out = "SWFROMFPGA_DONE" /\ job = <<>> /\ toDsp = <<>> /\ inbound = <<>> /\ ~stat
      /\ OnlySem("SWFROMFPGA_DONE") /\ Out' = "none" /\ (\A x \in DspDoorbells : dsem'[x] = 0)
  <2>1. \E x \in DspDoorbells : dsem[x] # 0 BY <1>3 DEF TypeInv, DspDoorbells
  <2>2. /\ job = <<>> /\ toDsp = <<>> /\ inbound = <<>> /\ ~stat /\ OnlySem(Out)
    BY <1>0, <2>1 DEF TokenInv, NoSem
  <2>3. Out = "SWFROMFPGA_DONE" BY <1>3, <2>2 DEF OnlySem, DspDoorbells
  <2>4. Out' = "none" BY <1>1, <1>4 DEF Out, OutPC, Lag
  <2> QED BY <1>5, <2>2, <2>3, <2>4 DEF OnlySem
<1>7. Lag' = Lag /\ Waited' = Waited /\ OutPC' = OutPC /\ Asked' = Asked
      /\ SentC2H' = SentC2H /\ SentDone' = SentDone
  BY <1>1, <1>4 DEF Lag, Waited, OutPC, Asked, Past, Asking, InHw, SentC2H, SentDone, PcDoorbells,
    SwCalls, DspPlaced
<1>8. ~AtOutdb /\ ~AtOutdb'
  BY <1>1, <1>4 DEF AtOutdb
<1>9. TypeInv'
  BY <1>0, <1>3 DEF TypeInv, Infos, PcDoorbells, DspDoorbells
<1>10. HostPlaced'
  BY <1>0, <1>3 DEF HostPlaced, HostLines
<1>11. DspPlaced'
  BY <1>0, <1>1, <1>3, <1>4 DEF DspPlaced, Lines, InHw
<1>12. CountInv'
  BY <1>0, <1>1, <1>3, <1>7 DEF CountInv, InWrite, Written, Granted, HostPlaced, HostLines
<1>13. SlotInv'
  BY <1>0, <1>1, <1>3, <1>4, <1>7 DEF SlotInv, TakenC2H, TakenDone, AtOutdb, PcDoorbells, SwCalls
<1>14. TokenInv'
  BY <1>3, <1>6 DEF TokenInv, NoSem
<1>15. OutdbInv'
  BY <1>0, <1>3, <1>8 DEF OutdbInv, HasResp, Doorbell, Response
<1>16. CsrInv'
  BY <1>0, <1>1, <1>3, <1>4 DEF CsrInv, Busy, HasResp, SwCalls
<1>17. RegInv'
  BY <1>0, <1>1, <1>3, <1>4 DEF RegInv, rxBuf, SwCalls, PcDoorbells
<1>18. DataInv'
  BY <1>0, <1>3, <1>4, <1>6 DEF DataInv, Tracking, JobDst, This, Out, Lag, InHw, rxBuf, getOpBuf,
    Frame, SeqInfo
<1>19. ResultInv'
  BY <1>0, <1>1, <1>3, <1>4 DEF ResultInv, WdmaDone, Read, Lag, InHw, This, Frame
<1>20. ASSUME NEW m \in PcDoorbells PROVE MsgInv(m)'
  <2>1. MsgInv(m) BY DEF IInv
  <2> QED BY <1>3, <1>7, <1>8, <2>1 DEF MsgInv, Pending, OnWay, InSlot, InPost, InSem, Granted,
    TakenC2H, TakenDone
<1> QED BY <1>9, <1>10, <1>11, <1>12, <1>13, <1>14, <1>15, <1>16, <1>17, <1>18, <1>19, <1>20
  DEF IInv

\* The FHOG hardware is done.
LEMMA DspFhogStep ==
    ASSUME IInv, DspPend, DspAt("FHOG")
    PROVE  IInv'
<1>0. /\ TypeInv /\ HostPlaced /\ DspPlaced /\ CountInv /\ SlotInv /\ TokenInv /\ OutdbInv
      /\ CsrInv /\ RegInv /\ DataInv /\ ResultInv /\ FRAME_NUM \in Nat \ {0}
  BY LinkAssumption DEF IInv
<1>t. DspTable /\ (call # "abort" => Len(MainTskFxn) = Lines)
  BY <1>0, DspLines, DspLength
<1>1. call = "fhog" /\ dsp = 2 BY <1>t DEF DspTable
<1>2. ~DspAt("PC_STARTREQ") /\ ~DspAt("SWFROMPC_DONE") /\ ~DspAt("SWFROMFPGA_DONE")
  BY <1>t DEF DspTable
<1>3. /\ dsem["FHOG"] > 0 /\ dsem' = [dsem EXCEPT !["FHOG"] = @ - 1]
      /\ DspNext
      /\ UNCHANGED <<HW_FHOG_MODE, pcVars, sem, irqVars, h2c, c2h, regs, msi, job, links, nTemp,
        nCsrVal, m_nRxInd, used, srio, mem, fpgaMem, tracked, hidden>>
  BY <1>2, <1>0 DEF DspPend, place, task, srio, TypeInv, DspDoorbells
<1>4. call' = "features" /\ dsp' = 1 /\ UNCHANGED <<frame, again>>
  <2>1. call # "abort" /\ ~(dsp < Lines) BY <1>1 DEF Lines, PcDoorbells, SwCalls
  <2>2. ~(dsp < Len(MainTskFxn)) BY <1>t, <2>1
  <2>3. dsp' = 1 /\ Return BY <1>3, <2>2 DEF DspNext
  <2> QED BY <1>1, <2>3 DEF Return, Call
<1> USE DEF pcVars, irqVars, regs, links, place, task, srio
<1>5. /\ dsem' \in [DspDoorbells \cup {"FHOG"} -> 0 .. 1] /\ dsem'["FHOG"] = 0
      /\ \A x \in DspDoorbells \cup {"FHOG"} : x # "FHOG" => dsem'[x] = dsem[x]
  BY <1>0, <1>3 DEF TypeInv
<1>6. Lag' = Lag /\ Waited' = Waited /\ OutPC' = OutPC /\ Asked' = Asked
      /\ SentC2H' = SentC2H /\ SentDone' = SentDone
  BY <1>1, <1>4 DEF Lag, Waited, OutPC, Asked, Past, Asking, InHw, SentC2H, SentDone, PcDoorbells,
    SwCalls, DspPlaced
<1>7. Out' = Out /\ ~AtOutdb /\ ~AtOutdb'
  BY <1>1, <1>3, <1>4, <1>6 DEF Out, AtOutdb
<1>8. \A x \in DspDoorbells : dsem'[x] = dsem[x]
  BY <1>5 DEF DspDoorbells
<1>9. TypeInv'
  BY <1>0, <1>3 DEF TypeInv
<1>10. HostPlaced'
  BY <1>0, <1>3 DEF HostPlaced, HostLines
<1>11. DspPlaced'
  BY <1>0, <1>1, <1>3, <1>4 DEF DspPlaced, Lines, InHw, Calls, PcDoorbells, SwCalls
<1>12. CountInv'
  BY <1>0, <1>1, <1>3, <1>6 DEF CountInv, InWrite, Written, Granted, HostPlaced, HostLines
<1>13. SlotInv'
  BY <1>0, <1>3, <1>4, <1>6 DEF SlotInv, TakenC2H, TakenDone, AtOutdb, PcDoorbells, SwCalls
<1>14. TokenInv'
  BY <1>0, <1>3, <1>7, <1>8 DEF TokenInv, NoSem, OnlySem, From
<1>15. OutdbInv'
  BY <1>0, <1>3, <1>7 DEF OutdbInv, HasResp, Doorbell, Response
<1>16. CsrInv'
  BY <1>0, <1>1, <1>3, <1>4 DEF CsrInv, Busy, HasResp, SwCalls
<1>17. RegInv'
  BY <1>0, <1>3, <1>4 DEF RegInv
<1>18. DataInv'
  BY <1>0, <1>3, <1>4, <1>5 DEF DataInv, Tracking, JobDst, This, OutPC, Waited, Past, Out, Lag,
    InHw, rxBuf, getOpBuf, Frame, SeqInfo
<1>19. ResultInv'
  BY <1>0, <1>1, <1>3, <1>4 DEF ResultInv, WdmaDone, Read, Lag, InHw, This, Frame
<1>20. ASSUME NEW m \in PcDoorbells PROVE MsgInv(m)'
  <2>1. MsgInv(m) BY DEF IInv
  <2> QED BY <1>3, <1>6, <1>7, <2>1 DEF MsgInv, Pending, OnWay, InSlot, InPost, InSem, Granted,
    TakenC2H, TakenDone
<1> QED BY <1>9, <1>10, <1>11, <1>12, <1>13, <1>14, <1>15, <1>16, <1>17, <1>18, <1>19, <1>20
  DEF IInv

\* init: the tracker has no buffer yet and no transfer is under way.
LEMMA DspInitStep ==
    ASSUME IInv, DspBuffers, DspAt("init")
    PROVE  IInv'
<1>0. /\ TypeInv /\ HostPlaced /\ DspPlaced /\ CountInv /\ SlotInv /\ TokenInv /\ OutdbInv
      /\ CsrInv /\ RegInv /\ DataInv /\ ResultInv /\ FRAME_NUM \in Nat \ {0}
  BY LinkAssumption DEF IInv
<1>t. DspTable /\ (call # "abort" => Len(MainTskFxn) = Lines)
  BY <1>0, DspLines, DspLength
<1>1. call = "info" /\ dsp = 2 BY <1>t DEF DspTable
<1>2. ~DspAt("deinit") /\ ~DspAt("flipIndex")
  BY <1>t DEF DspTable
<1>3. /\ mem' = [mem EXCEPT !["rxBuf0"] = NoData, !["rxBuf1"] = NoData] /\ m_nRxInd' = m_nRxInd
      /\ DspNext
      /\ UNCHANGED <<HW_FHOG_MODE, pcVars, sem, irqVars, h2c, c2h, regs, msi, job, links, nTemp,
        nCsrVal, used, dsem, srio, fpgaMem, tracked, hidden>>
  BY <1>2 DEF DspBuffers
<1>4. dsp' = 1 /\ call' = "STARTH2C" /\ again' = FALSE /\ frame' = IF HW_FHOG_MODE THEN 1 ELSE 0
  <2>1. call # "abort" /\ ~(dsp < Lines) BY <1>1 DEF Lines, PcDoorbells, SwCalls
  <2>2. ~(dsp < Len(MainTskFxn)) BY <1>t, <2>1
  <2>3. dsp' = 1 /\ Return BY <1>3, <2>2 DEF DspNext
  <2> QED BY <1>0, <1>1, <2>3 DEF Return, Call, NextFrame, DspPlaced
<1> USE DEF pcVars, irqVars, regs, links, place, task, srio
<1>5. Lag' = Lag /\ Waited' = Waited /\ OutPC' = OutPC /\ Asked' = Asked
      /\ SentC2H' = SentC2H /\ SentDone' = SentDone
  BY <1>0, <1>1, <1>3, <1>4 DEF Lag, Waited, OutPC, Asked, Past, Asking, InHw, SentC2H, SentDone,
    PcDoorbells, SwCalls, DspPlaced
<1>6. Out' = Out /\ ~AtOutdb /\ ~AtOutdb'
  BY <1>1, <1>3, <1>4, <1>5 DEF Out, AtOutdb
<1>7. /\ DOMAIN mem' = {"seqInfo", "rxBuf0", "rxBuf1", "tmpl"}
      /\ mem'["seqInfo"] = mem["seqInfo"] /\ mem'["tmpl"] = mem["tmpl"]
  BY <1>0, <1>3 DEF TypeInv
<1>8. again' \in BOOLEAN /\ ~again'
  BY <1>4, Zenon
<1>9. job = <<>>
  BY <1>0, <1>1 DEF TokenInv, Out, OutPC
<1>10. TypeInv'
  BY <1>0, <1>3 DEF TypeInv
<1>11. HostPlaced'
  BY <1>0, <1>3 DEF HostPlaced, HostLines
<1>12. DspPlaced'
  <2>1. CASE HW_FHOG_MODE
    BY <1>0, <1>3, <1>4, <1>8 DEF DspPlaced, Lines, InHw, Calls, PcDoorbells, SwCalls
  <2>2. CASE ~(HW_FHOG_MODE)
    BY <1>0, <1>3, <1>4, <1>8 DEF DspPlaced, Lines, InHw, Calls, PcDoorbells, SwCalls
  <2> QED BY <2>1, <2>2
<1>13. CountInv'
  BY <1>0, <1>1, <1>3, <1>5 DEF CountInv, InWrite, Written, Granted, HostPlaced, HostLines
<1>14. SlotInv'
  BY <1>0, <1>3, <1>4, <1>5 DEF SlotInv, TakenC2H, TakenDone, AtOutdb, PcDoorbells, SwCalls
<1>15. TokenInv'
  BY <1>0, <1>3, <1>6 DEF TokenInv, NoSem, OnlySem, From
<1>16. OutdbInv'
  BY <1>0, <1>3, <1>6 DEF OutdbInv, HasResp, Doorbell, Response
<1>17. CsrInv'
  BY <1>0, <1>1, <1>3, <1>4 DEF CsrInv, Busy, HasResp, SwCalls
<1>18. RegInv'
  BY <1>0, <1>3, <1>4 DEF RegInv
<1>19. DataInv'
  <2>1. CASE HW_FHOG_MODE
    BY <1>0, <1>1, <1>3, <1>4, <1>9 DEF DataInv, Tracking, JobDst, This, OutPC, Waited, Past, Out,
      Lag, InHw, rxBuf, getOpBuf, Frame, SeqInfo
  <2>2. CASE ~(HW_FHOG_MODE)
    BY <1>0, <1>1, <1>3, <1>4, <1>9 DEF DataInv, Tracking, JobDst, This, OutPC, Waited, Past, Out,
      Lag, InHw, rxBuf, getOpBuf, Frame, SeqInfo
  <2> QED BY <2>1, <2>2
<1>20. ResultInv'
  <2>1. CASE HW_FHOG_MODE
    BY <1>0, <1>1, <1>3, <1>4, <2>1 DEF ResultInv, WdmaDone, Read, Lag, InHw, This, Frame,
      DspPlaced
  <2>2. CASE ~(HW_FHOG_MODE)
    BY <1>0, <1>1, <1>3, <1>4, <2>2 DEF ResultInv, WdmaDone, Read, Lag, InHw, This, Frame,
      DspPlaced
  <2> QED BY <2>1, <2>2
<1>21. ASSUME NEW m \in PcDoorbells PROVE MsgInv(m)'
  <2>1. MsgInv(m) BY DEF IInv
  <2> QED BY <1>3, <1>5, <1>6, <2>1 DEF MsgInv, Pending, OnWay, InSlot, InPost, InSem, Granted,
    TakenC2H, TakenDone
<1> QED BY <1>10, <1>11, <1>12, <1>13, <1>14, <1>15, <1>16, <1>17, <1>18, <1>19, <1>20, <1>21
  DEF IInv

\* deinit: no transfer is under way.
LEMMA DspDeinitStep ==
    ASSUME IInv, DspBuffers, DspAt("deinit")
    PROVE  IInv'
<1>0. /\ TypeInv /\ HostPlaced /\ DspPlaced /\ CountInv /\ SlotInv /\ TokenInv /\ OutdbInv
      /\ CsrInv /\ RegInv /\ DataInv /\ ResultInv /\ FRAME_NUM \in Nat \ {0}
  BY LinkAssumption DEF IInv
<1>t. DspTable /\ (call # "abort" => Len(MainTskFxn) = Lines)
  BY <1>0, DspLines, DspLength
<1>1. call = "results" /\ dsp = 2 BY <1>t DEF DspTable
<1>2. ~DspAt("init") /\ ~DspAt("flipIndex")
  BY <1>t DEF DspTable
<1>3. /\ mem' = [mem EXCEPT !["rxBuf0"] = NoData, !["rxBuf1"] = NoData] /\ m_nRxInd' = m_nRxInd
      /\ DspNext
      /\ UNCHANGED <<HW_FHOG_MODE, pcVars, sem, irqVars, h2c, c2h, regs, msi, job, links, nTemp,
        nCsrVal, used, dsem, srio, fpgaMem, tracked, hidden>>
  BY <1>2 DEF DspBuffers
<1>4. dsp' = 1 /\ call' = "PROCDONE" /\ UNCHANGED <<again, frame>>
  <2>1. call # "abort" /\ ~(dsp < Lines) BY <1>1 DEF Lines, PcDoorbells, SwCalls
  <2>2. ~(dsp < Len(MainTskFxn)) BY <1>t, <2>1
  <2>3. dsp' = 1 /\ Return BY <1>3, <2>2 DEF DspNext
  <2> QED BY <1>1, <2>3 DEF Return, Call
<1> USE DEF pcVars, irqVars, regs, links, place, task, srio
<1>5. Lag' = Lag /\ Waited' = Waited /\ OutPC' = OutPC /\ Asked' = Asked
      /\ SentC2H' = SentC2H /\ SentDone' = SentDone
  BY <1>1, <1>4 DEF Lag, Waited, OutPC, Asked, Past, Asking, InHw, SentC2H, SentDone, PcDoorbells,
    SwCalls, DspPlaced
<1>6. Out' = Out /\ ~AtOutdb /\ ~AtOutdb'
  BY <1>1, <1>3, <1>4, <1>5 DEF Out, AtOutdb
<1>7. /\ DOMAIN mem' = {"seqInfo", "rxBuf0", "rxBuf1", "tmpl"}
      /\ mem'["seqInfo"] = mem["seqInfo"] /\ mem'["tmpl"] = mem["tmpl"]
  BY <1>0, <1>3 DEF TypeInv
<1>8. TypeInv'
  BY <1>0, <1>3 DEF TypeInv
<1>9. HostPlaced'
  BY <1>0, <1>3 DEF HostPlaced, HostLines
<1>10. DspPlaced'
  BY <1>0, <1>1, <1>4 DEF DspPlaced, Lines, InHw, Calls, PcDoorbells, SwCalls
<1>11. CountInv'
  BY <1>0, <1>1, <1>3, <1>5 DEF CountInv, InWrite, Written, Granted, HostPlaced, HostLines
<1>12. SlotInv'
  BY <1>0, <1>3, <1>4, <1>5 DEF SlotInv, TakenC2H, TakenDone, AtOutdb, PcDoorbells, SwCalls
<1>13. TokenInv'
  BY <1>0, <1>3, <1>6 DEF TokenInv, NoSem, OnlySem, From
<1>14. OutdbInv'
  BY <1>0, <1>3, <1>6 DEF OutdbInv, HasResp, Doorbell, Response
<1>15. CsrInv'
  BY <1>0, <1>1, <1>3, <1>4 DEF CsrInv, Busy, HasResp, SwCalls
<1>16. RegInv'
  BY <1>0, <1>3, <1>4 DEF RegInv
<1>17. DataInv'
  BY <1>0, <1>1, <1>3, <1>4 DEF DataInv, Tracking, JobDst, This, OutPC, Waited, Past, Out, Lag,
    InHw, rxBuf, getOpBuf, Frame, SeqInfo
<1>18. ResultInv'
  BY <1>0, <1>1, <1>3, <1>4 DEF ResultInv, WdmaDone, Read, Lag, InHw, This, Frame
<1>19. ASSUME NEW m \in PcDoorbells PROVE MsgInv(m)'
  <2>1. MsgInv(m) BY DEF IInv
  <2> QED BY <1>3, <1>5, <1>6, <2>1 DEF MsgInv, Pending, OnWay, InSlot, InPost, InSem, Granted,
    TakenC2H, TakenDone
<1> QED BY <1>8, <1>9, <1>10, <1>11, <1>12, <1>13, <1>14, <1>15, <1>16, <1>17, <1>18, <1>19
  DEF IInv

\* The frame that has come is the one the tracker works on now.
LEMMA DspFlipIndexStep ==
    ASSUME IInv, DspBuffers, DspAt("flipIndex")
    PROVE  IInv'
<1>0. /\ TypeInv /\ HostPlaced /\ DspPlaced /\ CountInv /\ SlotInv /\ TokenInv /\ OutdbInv
      /\ CsrInv /\ RegInv /\ DataInv /\ ResultInv /\ FRAME_NUM \in Nat \ {0}
  BY LinkAssumption DEF IInv
<1>t. DspTable /\ (call # "abort" => Len(MainTskFxn) = Lines)
  BY <1>0, DspLines, DspLength
<1>1. call = "flip" /\ dsp = 2 BY <1>t DEF DspTable
<1>2. ~DspAt("init") /\ ~DspAt("deinit")
  BY <1>t DEF DspTable
<1>3. /\ m_nRxInd' = 1 - m_nRxInd /\ mem' = mem
      /\ DspNext
      /\ UNCHANGED <<HW_FHOG_MODE, pcVars, sem, irqVars, h2c, c2h, regs, msi, job, links, nTemp,
        nCsrVal, used, dsem, srio, fpgaMem, tracked, hidden>>
  BY <1>2 DEF DspBuffers
<1>4. dsp' = 1 /\ UNCHANGED <<again, frame>>
      /\ call' = IF HW_FHOG_MODE THEN "nwToFPGA" ELSE IF frame < FRAME_NUM THEN "STARTH2C" ELSE
         "image"
  <2>1. call # "abort" /\ ~(dsp < Lines) BY <1>1 DEF Lines, PcDoorbells, SwCalls
  <2>2. ~(dsp < Len(MainTskFxn)) BY <1>t, <2>1
  <2>3. dsp' = 1 /\ Return BY <1>3, <2>2 DEF DspNext
  <2> QED BY <1>1, <2>3 DEF Return, Call, AfterFlip, Features, PcDoorbells, SwCalls
<1> USE DEF pcVars, irqVars, regs, links, place, task, srio
<1>5. Lag' = Lag /\ Waited' = Waited /\ OutPC' = OutPC /\ Asked' = Asked
      /\ SentC2H' = SentC2H /\ SentDone' = SentDone
  BY <1>1, <1>3, <1>4 DEF Lag, Waited, OutPC, Asked, Past, Asking, InHw, SentC2H, SentDone,
    PcDoorbells, SwCalls, DspPlaced
<1>6. Out' = Out /\ ~AtOutdb /\ ~AtOutdb'
  BY <1>1, <1>3, <1>4, <1>5 DEF Out, AtOutdb
<1>7. m_nRxInd' \in 0 .. 1 /\ getOpBuf' = rxBuf(m_nRxInd) /\ This' = This
  BY <1>0, <1>3, <1>4 DEF getOpBuf, TypeInv, This, Frame
<1>8. job = <<>>
  BY <1>0, <1>1 DEF TokenInv, Out, OutPC
<1>9. TypeInv'
  BY <1>0, <1>3 DEF TypeInv
<1>10. HostPlaced'
  BY <1>0, <1>3 DEF HostPlaced, HostLines
<1>11. DspPlaced'
  BY <1>0, <1>1, <1>3, <1>4 DEF DspPlaced, Lines, InHw, Calls, PcDoorbells, SwCalls
<1>12. CountInv'
  BY <1>0, <1>1, <1>3, <1>5 DEF CountInv, InWrite, Written, Granted, HostPlaced, HostLines
<1>13. SlotInv'
  BY <1>0, <1>3, <1>4, <1>5 DEF SlotInv, TakenC2H, TakenDone, AtOutdb, PcDoorbells, SwCalls
<1>14. TokenInv'
  BY <1>0, <1>3, <1>6 DEF TokenInv, NoSem, OnlySem, From
<1>15. OutdbInv'
  BY <1>0, <1>3, <1>6 DEF OutdbInv, HasResp, Doorbell, Response
<1>16. CsrInv'
  BY <1>0, <1>1, <1>3, <1>4 DEF CsrInv, Busy, HasResp, SwCalls
<1>17. RegInv'
  BY <1>0, <1>3, <1>4 DEF RegInv
<1>18. DataInv'
  <2>1. mem[rxBuf(m_nRxInd)] = This /\ ~fpgaMem.busy /\ dsem["FHOG"] = 0 BY <1>0, <1>1 DEF DataInv
  <2>2. ~OutPC' BY <1>1, <1>5 DEF OutPC
  <2>3. call' \in {"nwToFPGA", "STARTH2C", "image"} /\ job' = <<>> BY <1>3, <1>4, <1>8
  <2>4. /\ pc > 0 /\ nFrame = 0 => src = SeqInfo(run)
        /\ nFrame \in 1 .. FRAME_NUM /\ pc >= 2 => src = Frame(run, nFrame - 1)
    BY <1>0 DEF DataInv
  <2> QED BY <1>3, <1>7, <2>1, <2>2, <2>3, <2>4 DEF DataInv
<1>19. ResultInv'
  BY <1>0, <1>1, <1>3, <1>4 DEF ResultInv, WdmaDone, Read, Lag, InHw, This, Frame
<1>20. ASSUME NEW m \in PcDoorbells PROVE MsgInv(m)'
  <2>1. MsgInv(m) BY DEF IInv
  <2> QED BY <1>3, <1>5, <1>6, <2>1 DEF MsgInv, Pending, OnWay, InSlot, InPost, InSem, Granted,
    TakenC2H, TakenDone
<1> QED BY <1>9, <1>10, <1>11, <1>12, <1>13, <1>14, <1>15, <1>16, <1>17, <1>18, <1>19, <1>20
  DEF IInv

\* The tracker uses the features of this frame.
LEMMA DspUseStep ==
    ASSUME IInv, DspTrack, DspAt("use")
    PROVE  IInv'
<1>0. /\ TypeInv /\ HostPlaced /\ DspPlaced /\ CountInv /\ SlotInv /\ TokenInv /\ OutdbInv
      /\ CsrInv /\ RegInv /\ DataInv /\ ResultInv /\ FRAME_NUM \in Nat \ {0}
  BY LinkAssumption DEF IInv
<1>t. DspTable /\ (call # "abort" => Len(MainTskFxn) = Lines)
  BY <1>0, DspLines, DspLength
<1>1. (call = "template" /\ dsp = 2) \/ (call = "image" /\ dsp = 1)
  BY <1>t DEF DspTable
<1>2. ~DspAt("result")
  BY <1>t DEF DspTable
<1>3. /\ used' = used \cup {mem[IF call = "image" THEN getOpBuf ELSE "tmpl"]}
      /\ tracked' = tracked
      /\ DspNext
      /\ UNCHANGED <<HW_FHOG_MODE, pcVars, sem, irqVars, h2c, c2h, regs, msi, job, links, nTemp,
        nCsrVal, m_nRxInd, dsem, srio, mem, fpgaMem, hidden>>
  BY <1>2 DEF DspTrack
<1>4. dsp' = 1 /\ frame' = frame
      /\ \/ (frame = 1 \/ again) /\ call' = "result" /\ again' = again
         \/ frame # 1 /\ ~again /\ again' = TRUE /\ call' = IF HW_FHOG_MODE THEN "nwToFPGA" ELSE
            "image"
  <2>1. call # "abort" /\ ~(dsp < Lines) BY <1>1 DEF Lines, PcDoorbells, SwCalls
  <2>2. ~(dsp < Len(MainTskFxn)) BY <1>t, <2>1
  <2>3. dsp' = 1 /\ Return BY <1>3, <2>2 DEF DspNext
  <2> QED BY <1>1, <2>3 DEF Return, Call, tracker, Features, PcDoorbells, SwCalls
<1> USE DEF pcVars, irqVars, regs, links, place, task, srio
<1>5. Lag' = Lag /\ Waited' = Waited /\ OutPC' = OutPC /\ Asked' = Asked
      /\ SentC2H' = SentC2H /\ SentDone' = SentDone
  BY <1>0, <1>1, <1>3, <1>4 DEF Lag, Waited, OutPC, Asked, Past, Asking, InHw, SentC2H, SentDone,
    PcDoorbells, SwCalls, DspPlaced
<1>6. Out' = Out /\ ~AtOutdb /\ ~AtOutdb'
  BY <1>1, <1>3, <1>4, <1>5 DEF Out, AtOutdb
<1>7. again' \in BOOLEAN
  BY <1>0, <1>4 DEF DspPlaced
<1>8. job = <<>> \/ call = "image"
  BY <1>0, <1>1 DEF TokenInv, Out, OutPC
<1>9. used' = {This} /\ This' = This /\ getOpBuf' = getOpBuf
  BY <1>0, <1>1, <1>3, <1>4, <1>8 DEF DataInv, ResultInv, Tracking, This, Frame, getOpBuf, InHw
<1>10. TypeInv'
  BY <1>0, <1>3 DEF TypeInv
<1>11. HostPlaced'
  BY <1>0, <1>3 DEF HostPlaced, HostLines
<1>12. DspPlaced'
  BY <1>0, <1>1, <1>3, <1>4, <1>7 DEF DspPlaced, Lines, InHw, Calls, PcDoorbells, SwCalls
<1>13. CountInv'
  BY <1>0, <1>1, <1>3, <1>5 DEF CountInv, InWrite, Written, Granted, HostPlaced, HostLines
<1>14. SlotInv'
  BY <1>0, <1>3, <1>4, <1>5 DEF SlotInv, TakenC2H, TakenDone, AtOutdb, PcDoorbells, SwCalls
<1>15. TokenInv'
  BY <1>0, <1>3, <1>6 DEF TokenInv, NoSem, OnlySem, From
<1>16. OutdbInv'
  BY <1>0, <1>3, <1>6 DEF OutdbInv, HasResp, Doorbell, Response
<1>17. CsrInv'
  BY <1>0, <1>1, <1>3, <1>4 DEF CsrInv, Busy, HasResp, SwCalls
<1>18. RegInv'
  BY <1>0, <1>3, <1>4 DEF RegInv
<1>19. DataInv'
  BY <1>0, <1>1, <1>3, <1>4, <1>6, <1>8 DEF DataInv, Tracking, JobDst, This, OutPC, Waited, Past,
    Out, Lag, InHw, rxBuf, getOpBuf, Frame, SeqInfo
<1>20. ResultInv'
  BY <1>0, <1>1, <1>3, <1>4, <1>9 DEF ResultInv, WdmaDone, Read, Lag
<1>21. ASSUME NEW m \in PcDoorbells PROVE MsgInv(m)'
  <2>1. MsgInv(m) BY DEF IInv
  <2> QED BY <1>3, <1>5, <1>6, <2>1 DEF MsgInv, Pending, OnWay, InSlot, InPost, InSem, Granted,
    TakenC2H, TakenDone
<1> QED BY <1>10, <1>11, <1>12, <1>13, <1>14, <1>15, <1>16, <1>17, <1>18, <1>19, <1>20, <1>21
  DEF IInv

\* The tracker is done with this frame.
LEMMA DspResultStep ==
    ASSUME IInv, DspTrack, DspAt("result")
    PROVE  IInv'
<1>0. /\ TypeInv /\ HostPlaced /\ DspPlaced /\ CountInv /\ SlotInv /\ TokenInv /\ OutdbInv
      /\ CsrInv /\ RegInv /\ DataInv /\ ResultInv /\ FRAME_NUM \in Nat \ {0}
  BY LinkAssumption DEF IInv
<1>t. DspTable /\ (call # "abort" => Len(MainTskFxn) = Lines)
  BY <1>0, DspLines, DspLength
<1>1. call = "result" /\ dsp = 1 BY <1>t DEF DspTable
<1>2. ~DspAt("use")
  BY <1>t DEF DspTable
<1>3. /\ tracked' = Append(tracked, used) /\ used' = {}
      /\ DspNext
      /\ UNCHANGED <<HW_FHOG_MODE, pcVars, sem, irqVars, h2c, c2h, regs, msi, job, links, nTemp,
        nCsrVal, m_nRxInd, dsem, srio, mem, fpgaMem, hidden>>
  BY <1>2 DEF DspTrack
<1>4. dsp' = 1 /\ frame' = frame + 1 /\ again' = FALSE
      /\ call' = IF frame = FRAME_NUM THEN "nwToPC" ELSE IF HW_FHOG_MODE THEN "STARTH2C" ELSE
         "flip"
  <2>1. call # "abort" /\ ~(dsp < Lines) BY <1>1 DEF Lines, PcDoorbells, SwCalls
  <2>2. ~(dsp < Len(MainTskFxn)) BY <1>t, <2>1
  <2>3. dsp' = 1 /\ Return BY <1>3, <2>2 DEF DspNext
  <2> QED BY <1>1, <2>3 DEF Return, NextFrame
<1> USE DEF pcVars, irqVars, regs, links, place, task, srio
<1>5. Lag' = Lag /\ Waited' = Waited /\ OutPC' = OutPC /\ Asked' = Asked
      /\ SentC2H' = SentC2H /\ SentDone' = SentDone
  BY <1>0, <1>1, <1>3, <1>4 DEF Lag, Waited, OutPC, Asked, Past, Asking, InHw, SentC2H, SentDone,
    PcDoorbells, SwCalls, DspPlaced
<1>6. Out' = Out /\ ~AtOutdb /\ ~AtOutdb'
  BY <1>1, <1>3, <1>4, <1>5 DEF Out, AtOutdb
<1>7. again' \in BOOLEAN /\ ~again'
  BY <1>4, Zenon
<1>8. used = {This}
  BY <1>0, <1>1 DEF ResultInv
<1>9. tracked' \in Seq(SUBSET [run : Int, part : Int]) /\ Len(tracked') = Len(tracked) + 1
  BY <1>0, <1>3, <1>8 DEF TypeInv, This, Frame, DspPlaced, InHw
<1>10. TypeInv'
  BY <1>0, <1>3, <1>9 DEF TypeInv
<1>11. HostPlaced'
  BY <1>0, <1>3 DEF HostPlaced, HostLines
<1>12. DspPlaced'
  BY <1>0, <1>1, <1>3, <1>4, <1>7 DEF DspPlaced, Lines, InHw, Calls, PcDoorbells, SwCalls
<1>13. CountInv'
  BY <1>0, <1>1, <1>3, <1>5 DEF CountInv, InWrite, Written, Granted, HostPlaced, HostLines
<1>14. SlotInv'
  BY <1>0, <1>3, <1>4, <1>5 DEF SlotInv, TakenC2H, TakenDone, AtOutdb, PcDoorbells, SwCalls
<1>15. TokenInv'
  BY <1>0, <1>3, <1>6 DEF TokenInv, NoSem, OnlySem, From
<1>16. OutdbInv'
  BY <1>0, <1>3, <1>6 DEF OutdbInv, HasResp, Doorbell, Response
<1>17. CsrInv'
  BY <1>0, <1>1, <1>3, <1>4 DEF CsrInv, Busy, HasResp, SwCalls
<1>18. RegInv'
  BY <1>0, <1>3, <1>4 DEF RegInv
<1>19. DataInv'
  BY <1>0, <1>1, <1>3, <1>4, <1>6 DEF DataInv, Tracking, JobDst, This, OutPC, Waited, Past, Out,
    Lag, InHw, rxBuf, getOpBuf, Frame, SeqInfo
<1>20. ResultInv'
  BY <1>0, <1>1, <1>3, <1>4 DEF ResultInv, WdmaDone, Read, Lag, InHw, This, Frame, DspPlaced
<1>21. ASSUME NEW m \in PcDoorbells PROVE MsgInv(m)'
  <2>1. MsgInv(m) BY DEF IInv
  <2> QED BY <1>3, <1>5, <1>6, <2>1 DEF MsgInv, Pending, OnWay, InSlot, InPost, InSem, Granted,
    TakenC2H, TakenDone
<1> QED BY <1>10, <1>11, <1>12, <1>13, <1>14, <1>15, <1>16, <1>17, <1>18, <1>19, <1>20, <1>21
  DEF IInv

-----------------------------------------------------------------------------
(* Every action, and the invariant.                                        *)

LEMMA HostRegsStep == ASSUME IInv, HostRegs PROVE IInv'
<1>1. HostAt("infoRead") \/ HostAt("infoWrite") \/ HostAt("csrRead") \/ HostAt("csrWrite")
  BY DEF HostRegs
<1> QED BY <1>1, HostInfoReadStep, HostInfoWriteStep, HostCsrReadStep, HostCsrWriteStep

LEMMA HostStreamStep == ASSUME IInv, HostStream PROVE IInv'
<1>1. HostAt("load") \/ HostAt("write") \/ HostAt("written") \/ HostAt("startC2H")
  BY DEF HostStream
<1> QED BY <1>1, HostLoadStep, HostWriteStep, HostWrittenStep, HostStartC2HStep

LEMMA HostWaitStep == ASSUME IInv, HostWait PROVE IInv'
<1>1. HostAt("STARTREQ") \/ HostAt("STARTH2C") \/ HostAt("STARTC2H") \/ HostAt("PROCDONE")
  BY DEF HostWait, PcDoorbells
<1> QED BY <1>1, HostWaitSTARTREQ, HostWaitSTARTH2C, HostWaitSTARTC2H, HostWaitPROCDONE

LEMMA HostDeInitStep == ASSUME IInv, HostDeInit PROVE IInv'
<1>1. HostAt("unmap") \/ HostAt("cancel") BY DEF HostDeInit
<1> QED BY <1>1, HostUnmapStep, HostCancelStep

LEMMA DspRegsStep == ASSUME IInv, DspRegs PROVE IInv'
<1>1. \/ DspAt("modeRead") \/ DspAt("modeWrite") \/ DspAt("msiFree") \/ DspAt("csrRead")
      \/ DspAt("params") \/ DspAt("infoRead") \/ DspAt("infoWrite") \/ DspAt("csrWrite")
  BY DEF DspRegs
<1>2. CASE DspAt("modeWrite") BY <1>2, DspModeWriteStep, DspModeWriteEndStep
<1>3. CASE DspAt("csrRead") BY <1>3, DspCsrReadStep, DspAbortStep
<1>4. CASE DspAt("csrWrite")
  <2>1. call \in SwCalls BY <1>4, DspLines DEF IInv, DspTable
  <2> QED BY <1>4, <2>1, DspStartSeqInfoStep, DspStartFrameStep, DspStartFeaturesStep DEF SwCalls
<1> QED BY <1>1, <1>2, <1>3, <1>4, DspModeReadStep, DspMsiFreeStep, DspParamsStep,
           DspInfoReadStep, DspInfoWriteStep

LEMMA DspSendDBActionStep == ASSUME IInv, DspSendDB PROVE IInv'
<1>1. DspAt("sendDB") \/ DspAt("outdb") BY DEF DspSendDB
<1>2. CASE DspAt("outdb")
  <2>1. call \in PcDoorbells BY <1>2, DspLines DEF IInv, DspTable
  <2> QED BY <1>2, <2>1, DspOutdbSTARTREQStep, DspOutdbSTARTH2CStep, DspOutdbSTARTC2HStep,
             DspOutdbPROCDONEStep DEF PcDoorbells
<1> QED BY <1>1, <1>2, DspSendDBStep

LEMMA DspHardwareStep == ASSUME IInv, DspHardware PROVE IInv'
<1>1. DspAt("wdma") \/ DspAt("startHwFhog") BY DEF DspHardware
<1>2. CASE DspAt("wdma")
  <2>1. call = "nwToFPGA" \/ call = "results" BY <1>2, DspLines DEF IInv, DspTable
  <2> QED BY <1>2, <2>1, DspWdmaBlockStep, DspWdmaResultsStep
<1> QED BY <1>1, <1>2, DspStartHwFhogStep

LEMMA DspPendStep == ASSUME IInv, DspPend PROVE IInv'
<1>1. DOMAIN dsem = DspDoorbells \cup {"FHOG"} BY DEF IInv, TypeInv
<1>2. \/ DspAt("PC_STARTREQ") \/ DspAt("SWFROMPC_DONE")
      \/ DspAt("SWFROMFPGA_DONE") \/ DspAt("FHOG")
  BY <1>1 DEF DspPend, DspDoorbells
<1> QED BY <1>2, DspRequestStep, DspDataStep, DspFeaturesStep, DspFhogStep

LEMMA DspBuffersStep == ASSUME IInv, DspBuffers PROVE IInv'
<1>1. DspAt("init") \/ DspAt("deinit") \/ DspAt("flipIndex") BY DEF DspBuffers
<1> QED BY <1>1, DspInitStep, DspDeinitStep, DspFlipIndexStep

LEMMA DspTrackStep == ASSUME IInv, DspTrack PROVE IInv'
<1>1. DspAt("use") \/ DspAt("result") BY DEF DspTrack
<1> QED BY <1>1, DspUseStep, DspResultStep

LEMMA DspReceivesStep == ASSUME IInv, DspReceives PROVE IInv'
<1>1. toDsp # <<>> /\ Head(toDsp).type \in {"response", "doorbell"} BY DEF DspReceives
<1>2. TokenInv /\ OutdbInv BY DEF IInv
<1>3. toDsp = <<toDsp[1]>>
  <2>1. CASE AtOutdb BY <1>1, <1>2, <2>1 DEF OutdbInv
  <2>2. CASE ~AtOutdb BY <1>1, <1>2, <2>2 DEF TokenInv
  <2> QED BY <2>1, <2>2
<1>4. Head(toDsp) = toDsp[1] BY <1>3, One
<1> QED BY <1>1, <1>4, DspReceivesResponseStep, DspReceivesDoorbellStep

LEMMA FpgaReceivesStep ==
    ASSUME IInv, NEW hide \in BOOLEAN, FpgaReceives(hide)
    PROVE  IInv'
<1>1. toFpga # <<>> /\ Head(toFpga).type \in {"response", "doorbell"} BY DEF FpgaReceives
<1>2. OutdbInv BY DEF IInv
<1>3. toFpga = <<toFpga[1]>> \/ toFpga = <<toFpga[1], Doorbell("dsp", call)>>
  <2>1. CASE AtOutdb BY <1>1, <1>2, <2>1 DEF OutdbInv
  <2>2. CASE ~AtOutdb BY <1>1, <1>2, <2>2 DEF OutdbInv
  <2> QED BY <2>1, <2>2
<1>4. Head(toFpga) = toFpga[1] BY <1>3, One, Two
<1> QED BY <1>1, <1>4, FpgaReceivesResponseStep, FpgaReceivesDoorbellStep

\* Every step of the two programs, the two threads and the bridge keeps the invariant.
LEMMA NextStep == IInv /\ [Next]_vars => IInv'
<1> SUFFICES ASSUME IInv, [Next]_vars PROVE IInv' OBVIOUS
<1>1. CASE Main
  BY <1>1, HostInitStep, HostRegsStep, HostStreamStep, HostWaitStep, HostDeInitStep DEF Main
<1>2. CASE Irq BY <1>2, IrqReadStep, IrqInfoStep, IrqPostStep DEF Irq
<1>3. CASE Task
  BY <1>3, DspRegsStep, DspSendDBActionStep, DspHardwareStep, DspPendStep, DspBuffersStep,
     DspTrackStep DEF Task
<1>4. CASE SrioHandler BY <1>4, SrioHandlerStep
<1>5. CASE Bridge BY <1>5, SwTransferStep, FpgaReceivesStep, HwFhogDoneStep DEF Bridge
<1>6. CASE DspReceives BY <1>6, DspReceivesStep
<1>7. CASE UNCHANGED vars BY <1>7, StutterStep
<1> QED BY <1>1, <1>2, <1>3, <1>4, <1>5, <1>6, <1>7 DEF Next

\* Host, DSP and bridge stay in step in every behaviour.
THEOREM Invariant == Spec => []IInv
<1> QED BY InitIInv, NextStep, PTL DEF Spec

-----------------------------------------------------------------------------
(* What follows from the invariant.                                        *)

\* A transfer that has been waited for has brought the data of this run and frame.
LEMMA WaitedFor == IInv => WaitedForThisTransfer
<1> SUFFICES ASSUME IInv PROVE WaitedForThisTransfer OBVIOUS
<1>1. DspTable /\ DspPlaced /\ TokenInv /\ DataInv /\ ResultInv BY DspLines DEF IInv
<1>2. call # "request" => run # 0 /\ ~Lag BY <1>1 DEF ResultInv, Lag
<1>3. ASSUME DspAt("init") PROVE mem["seqInfo"] = SeqInfo(run)
  <2>1. call = "info" /\ dsp = 2 BY <1>1, <1>3 DEF DspTable
  <2>2. Out = "none" BY <2>1 DEF Out, OutPC, Lag
  <2> QED BY <1>1, <2>1, <2>2 DEF TokenInv, DataInv
<1>4. ASSUME DspAt("flipIndex") PROVE mem[rxBuf(m_nRxInd)] = Frame(run, Len(tracked))
  <2>1. call = "flip" /\ dsp = 2 BY <1>1, <1>4 DEF DspTable
  <2>2. Len(tracked) = frame - 1 BY <1>1, <1>2, <2>1 DEF ResultInv, DspPlaced
  <2> QED BY <1>1, <2>1, <2>2 DEF DataInv, This
<1>5. ASSUME DspAt("use"), call = "template" PROVE mem["tmpl"] = Frame(run, Len(tracked))
  <2>1. dsp = 2 BY <1>1, <1>5 DEF DspTable
  <2>2. Out = "none" BY <1>5, <2>1 DEF Out, OutPC, Lag
  <2>3. Len(tracked) = frame - 1 BY <1>1, <1>2, <1>5 DEF ResultInv, DspPlaced, InHw
  <2> QED BY <1>1, <1>5, <2>2, <2>3 DEF TokenInv, DataInv, This
<1> QED BY <1>3, <1>4, <1>5 DEF WaitedForThisTransfer

\* When the host has taken PROCDONE no message and no transfer is left.
LEMMA NothingLeft ==
    ASSUME IInv, TakenDone
    PROVE  Out = "none" /\ job = <<>> /\ \A m \in PcDoorbells : ~Pending(m)
<1>1. /\ SlotInv /\ DspPlaced /\ TokenInv /\ nFrame = FRAME_NUM + 1 /\ FRAME_NUM \in Nat \ {0}
      /\ (pc = 0 \/ pc >= 4)
  BY LinkAssumption DEF IInv, TakenDone
<1>2. call \in {"PROCDONE", "request"} /\ ~Lag BY <1>1 DEF SlotInv, SentDone, Lag
<1>3. Out = "none" BY <1>2 DEF Out, OutPC
<1>4. job = <<>> BY <1>1, <1>3 DEF TokenInv
<1>5. Asked = FRAME_NUM + 1
  <2>1. frame = FRAME_NUM + 1 BY <1>2, <1>1 DEF DspPlaced
  <2> QED BY <1>2, <2>1 DEF Asked, Asking, OutPC, Waited, Past, InHw
<1>6. Granted = FRAME_NUM + 1 /\ TakenC2H
  <2>1. pc \in Int BY DEF IInv, HostPlaced, HostLines
  <2> QED BY <1>1, <2>1 DEF Granted, TakenC2H
<1> QED BY <1>1, <1>3, <1>4, <1>5, <1>6 DEF Pending

\* Nobody writes into a buffer in use or freed, nor reads what is unmapped.
LEMMA NoUse == IInv => NoUseAfterFree
<1> SUFFICES ASSUME IInv PROVE NoUseAfterFree OBVIOUS
<1>1. DspTable /\ TypeInv /\ HostPlaced /\ SlotInv /\ TokenInv /\ DataInv BY DspLines DEF IInv
<1>2. ASSUME NEW i \in DOMAIN job PROVE job[i].dst # getOpBuf /\ ~DspAt("deinit")
  <2>1. job # <<>> BY <1>2
  <2>2. job = <<job[1]>> /\ job[1].dst = JobDst BY <1>1, <2>1 DEF DataInv
  <2>3. i = 1 BY <1>2, <2>2
  <2>4. JobDst # getOpBuf BY <1>1 DEF JobDst, getOpBuf, rxBuf, TypeInv
  <2>5. Out # "none" BY <1>1, <2>1 DEF TokenInv
  <2>6. ~DspAt("deinit") BY <1>1, <2>5 DEF DspTable, Out, OutPC, Lag
  <2> QED BY <2>2, <2>3, <2>4, <2>6
<1>3. ASSUME irq = "info" PROVE mapped
  <2>1. InSlot(msi.info) /\ msi.info \in PcDoorbells BY <1>1, <1>3 DEF InSlot, TypeInv
  <2>2. Pending(msi.info) BY <2>1 DEF IInv, MsgInv
  <2>3. ~TakenDone BY <2>1, <2>2, NothingLeft
  <2>4. pc # 0 BY <1>1, <1>3 DEF SlotInv
  <2> QED BY <1>1, <2>3, <2>4 DEF SlotInv, TakenDone, HostPlaced, HostLines
<1> QED BY <1>2, <1>3 DEF NoUseAfterFree

\* One doorbell at a time, and no error of the bridge.
LEMMA NoCollision == IInv => NothingCollides
<1> SUFFICES ASSUME IInv PROVE NothingCollides OBVIOUS
<1>1. DspTable /\ SlotInv /\ TokenInv /\ CsrInv BY DspLines DEF IInv
<1>2. Len(inbound) <= 1
  <2>1. inbound = <<>> \/ inbound = <<Out>> BY <1>1 DEF TokenInv
  <2>2. CASE inbound = <<>> BY <2>2
  <2>3. CASE inbound = <<Out>>
    <3>1. \A x : Len(<<x>>) = 1 OBVIOUS
    <3> QED BY <2>3, <3>1
  <2> QED BY <2>1, <2>2, <2>3
<1>3. ASSUME DspAt("outdb") PROVE ~stat
  <2>1. Out = "none" BY <1>1, <1>3 DEF DspTable, Out, OutPC, Lag, PcDoorbells
  <2> QED BY <1>1, <2>1 DEF TokenInv
<1>4. ~msi.err /\ (hidden = 0 => ~csr.err) BY <1>1 DEF SlotInv, CsrInv
<1> QED BY <1>2, <1>3, <1>4 DEF NothingCollides

\* A run that has returned leaves nothing to the next one.
LEMMA Handover == IInv => CleanHandover
<1> SUFFICES ASSUME IInv, pc = 0, hidden = 0
    PROVE  /\ irq = "none" /\ ~mapped /\ ~event /\ ~msi.busy /\ ~h2c /\ c2h = <<>>
           /\ job = <<>> /\ ~csr.db /\ ~csr.sw /\ ~fpgaMem.busy /\ inbound = <<>>
           /\ \A i \in DOMAIN sem : sem[i] = 0
           /\ \A i \in DOMAIN dsem : dsem[i] = 0
  BY DEF CleanHandover
<1>1. /\ TypeInv /\ HostPlaced /\ DspPlaced /\ CountInv /\ SlotInv /\ TokenInv /\ OutdbInv
      /\ CsrInv /\ DataInv /\ ResultInv
  BY DEF IInv
<1>2. TakenDone /\ nFrame = FRAME_NUM + 1 BY <1>1 DEF TakenDone, HostPlaced
<1>3. Out = "none" /\ job = <<>> /\ \A m \in PcDoorbells : ~Pending(m) BY <1>2, NothingLeft
<1>4. call \in {"PROCDONE", "request"} BY <1>1, <1>2 DEF SlotInv, SentDone
<1>5. irq = "none" /\ ~mapped BY <1>1 DEF SlotInv
<1>6. \A m \in PcDoorbells : ~InSlot(m) /\ ~InSem(m) BY <1>3 DEF IInv, MsgInv
<1>7. ~event /\ ~msi.busy BY <1>1, <1>5, <1>6 DEF TypeInv, InSlot, SlotInv
<1>8. ~h2c /\ c2h = <<>>
  <2>1. nFrame # 0 /\ ~(nFrame \in 1 .. FRAME_NUM) /\ Read BY <1>2, LinkAssumption DEF Read
  <2> QED BY <1>1, <2>1 DEF CountInv, InWrite, ResultInv
<1>9. inbound = <<>> /\ NoSem /\ (toDsp = <<>> \/ AtOutdb) BY <1>1, <1>3 DEF TokenInv
<1>10. ~csr.db /\ ~csr.sw
  <2>1. ~HasResp("db") /\ ~HasResp("sw") BY <1>1, <1>2, <1>4, LinkAssumption DEF CsrInv
  <2>2. toDsp = <<>> \/ toDsp[1].from = "dsp"
    BY <1>1, <1>9 DEF OutdbInv, HasResp, Doorbell, Response
  <2>3. ~Busy("db") /\ ~Busy("sw") BY <1>3, <2>1, <2>2 DEF Busy
  <2> QED BY <1>1, <2>3 DEF CsrInv
<1>11. ~fpgaMem.busy /\ dsem["FHOG"] = 0 BY <1>1, <1>4 DEF DataInv
<1>12. \A i \in DOMAIN sem : sem[i] = 0 BY <1>1, <1>6 DEF InSem, TypeInv
<1>13. \A i \in DOMAIN dsem : dsem[i] = 0 BY <1>1, <1>9, <1>11 DEF NoSem, TypeInv
<1> QED BY <1>3, <1>5, <1>7, <1>8, <1>9, <1>10, <1>11, <1>12, <1>13

\* When the DSP is past a wait the transfer that has ended is the one it asked for.
THEOREM Waits == Spec => []WaitedForThisTransfer
<1> QED BY Invariant, WaitedFor, PTL

\* No transfer into a buffer in use or freed; no register read after munmap.
THEOREM NoUseAfter == Spec => []NoUseAfterFree
<1> QED BY Invariant, NoUse, PTL

\* SrioHandler, the MSI slot and the engines of the bridge have one thing at a time.
THEOREM NoCollisions == Spec => []NothingCollides
<1> QED BY Invariant, NoCollision, PTL

\* Unless a pulse was hidden, a run of kcf_dsp that has returned leaves nothing behind.
THEOREM CleanHandovers == Spec => []CleanHandover
<1> QED BY Invariant, Handover, PTL

-----------------------------------------------------------------------------
(* The refinement: each step of the two programs is a step of the session  *)
(* or leaves it alone.                                                     *)

LEMMA RequestRefined == IInv /\ HostInit => Session!Request
<1> SUFFICES ASSUME IInv, HostInit PROVE Session!Request OBVIOUS
<1>1. pc = 0 /\ run < SEQUENCES /\ run' = run + 1 /\ tracked' = <<>> /\ results' = <<>>
  BY DEF HostInit
<1>2. ResultInv /\ DspPlaced /\ HostPlaced BY DEF IInv
<1>3. Session!Finished
  <2>1. CASE run = 0 BY <2>1 DEF Session!Finished
  <2>2. CASE run # 0
    <3>1. Read BY <1>1, <1>2 DEF Read, HostPlaced
    <3>2. WdmaDone /\ results = tracked BY <1>2, <3>1 DEF ResultInv
    <3>3. frame = FRAME_NUM + 1 /\ ~Lag BY <1>2, <3>2 DEF WdmaDone, DspPlaced, Lag
    <3>4. Len(tracked) = FRAME_NUM BY <1>2, <2>2, <3>3, LinkAssumption DEF ResultInv
    <3> QED BY <3>2, <3>4 DEF Session!Finished
  <2> QED BY <2>1, <2>2
<1> QED BY <1>1, <1>3 DEF Session!Request

LEMMA TrackRefined ==
    ASSUME IInv, DspTrack, DspAt("result")
    PROVE  Session!Track
<1>1. DspTable /\ ResultInv /\ DspPlaced BY DspLines DEF IInv
<1>2. call = "result" BY <1>1 DEF DspTable
<1>3. ~DspAt("use") BY <1>1, <1>2 DEF DspTable
<1>4. tracked' = Append(tracked, used) /\ UNCHANGED <<run, results>>
  BY <1>3 DEF DspTrack, pcVars
<1>5. frame \in 1 .. FRAME_NUM /\ run # 0 /\ run \in 0 .. SEQUENCES /\ ~Lag
  BY <1>1, <1>2 DEF DspPlaced, ResultInv, Lag, IInv, TypeInv
<1>6. used = {This} /\ Len(tracked) = frame - 1 BY <1>1, <1>2, <1>5 DEF ResultInv
<1>7. This = Session!Frame(run, Len(tracked)) BY <1>6 DEF This, Frame, Session!Frame
<1> QED BY <1>4, <1>5, <1>6, <1>7, LinkAssumption DEF Session!Track

LEMMA ReturnRefined ==
    ASSUME IInv, HostStream, HostAt("startC2H")
    PROVE  Session!Return
<1>1. HostTable /\ ResultInv /\ DspPlaced /\ HostPlaced /\ run \in 0 .. SEQUENCES
  BY HostProgram, LinkAssumption DEF IInv, TypeInv
<1>2. nFrame = FRAME_NUM + 1 /\ pc = 2 BY <1>1 DEF HostTable
<1>3. ~HostAt("load") /\ ~HostAt("write") /\ ~HostAt("written")
  BY <1>1, <1>2, LinkAssumption DEF HostTable
<1>4. c2h # <<>> /\ results' = c2h /\ UNCHANGED <<run, tracked>> BY <1>3 DEF HostStream
<1>5. ~Read /\ run # 0 BY <1>1, <1>2 DEF Read, ResultInv
<1>6. WdmaDone /\ c2h = tracked /\ results = <<>> BY <1>1, <1>4, <1>5 DEF ResultInv
<1>7. frame = FRAME_NUM + 1 /\ ~Lag BY <1>1, <1>6 DEF WdmaDone, DspPlaced, Lag
<1>8. Len(tracked) = FRAME_NUM BY <1>1, <1>5, <1>7, LinkAssumption DEF ResultInv
<1> QED BY <1>1, <1>4, <1>5, <1>6, <1>8 DEF Session!Return

LEMMA StepRefined == IInv /\ [Next]_vars => [Session!Next]_<<run, tracked, results>>
<1> SUFFICES ASSUME IInv, [Next]_vars PROVE [Session!Next]_<<run, tracked, results>> OBVIOUS
<1> USE DEF pcVars, task
<1>1. CASE HostInit BY <1>1, RequestRefined DEF Session!Next
<1>2. CASE HostRegs BY <1>2 DEF HostRegs
<1>3. CASE HostStream
  <2>1. CASE HostAt("startC2H") BY <1>3, <2>1, ReturnRefined DEF Session!Next
  <2>2. CASE ~HostAt("startC2H") BY <1>3, <2>2 DEF HostStream
  <2> QED BY <2>1, <2>2
<1>4. CASE HostWait BY <1>4 DEF HostWait
<1>5. CASE HostDeInit BY <1>5 DEF HostDeInit
<1>6. CASE Irq BY <1>6 DEF Irq, IrqRead, IrqInfo, IrqPost
<1>7. CASE DspTrack
  <2>1. CASE DspAt("result") BY <1>7, <2>1, TrackRefined DEF Session!Next
  <2>2. CASE ~DspAt("result") BY <1>7, <2>2 DEF DspTrack
  <2> QED BY <2>1, <2>2
<1>8. CASE DspRegs \/ DspSendDB \/ DspHardware \/ DspPend \/ DspBuffers
  BY <1>8 DEF DspRegs, DspSendDB, DspHardware, DspPend, DspBuffers
<1>9. CASE SrioHandler BY <1>9 DEF SrioHandler
<1>10. CASE Bridge BY <1>10 DEF Bridge, SwTransfer, FpgaReceives, HwFhogDoneHandler
<1>11. CASE DspReceives BY <1>11 DEF DspReceives
<1>12. CASE UNCHANGED vars BY <1>12 DEF vars
<1> QED BY <1>1, <1>2, <1>3, <1>4, <1>5, <1>6, <1>7, <1>8, <1>9, <1>10, <1>11, <1>12
        DEF Next, Main, Task

\* Host and DSP keep the contract of the session: each frame is tracked once and
\* in order, and the host gets all the results before it asks for a new sequence.
THEOREM Implements == Spec => ImplementsSession
<1>1. Init => Session!Init BY DEF Init, Session!Init
<1> QED BY <1>1, StepRefined, Invariant, PTL DEF Spec, ImplementsSession, Session!Spec
=============================================================================
