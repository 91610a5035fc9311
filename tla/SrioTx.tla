-------------------------------- MODULE SrioTx --------------------------------
(***************************************************************************)
(* The transmit half of the SRIO-PCIe bridge in the FPGA                   *)
(* (Logic/ip_repo/srio_pcie_bridge_1.0): the control registers of          *)
(* srio_pcie_bridge.v, the arbiter and packetiser srio_tx_manager.v and    *)
(* the two engines sw_tx_engine.v (SWRITE packets) and db_tx_engine.v      *)
(* (doorbells) that share the request stream to the SRIO core.             *)
(*                                                                         *)
(* One step is one rising edge of aclk: the host's register access of      *)
(* that cycle together with one conjunct per `always' block.  Wires are    *)
(* operators over the current state, with the inputs of the cycle as       *)
(* parameters.  Addresses, sizes and beats count double words (8 bytes);   *)
(* a full packet or burst has B of them (32 in the code), and an address   *)
(* is aligned when it is a multiple of B.  As in the code, SW_SIZE and     *)
(* the sizes derived from it are one less than the number of beats.        *)
(***************************************************************************)
EXTENDS Integers, Sequences

CONSTANTS B,            \* double words in a full packet (32)
          Values        \* records of the values hosts write to SW_SIZE, SW_DST,
                        \* SW_SRC and either half of DB_TXINFO; a behaviour
                        \* keeps to one record

ASSUME TxAssumption ==
    /\ B \in Nat \ {0}
    /\ \A v \in Values :
          /\ DOMAIN v = {"size", "dst", "src", "info"}
          /\ \A f \in DOMAIN v : v[f] \subseteq Nat /\ 0 \in v[f]    \* the reset value

VARIABLES
    values,             \* the member of Values the hosts keep to
    SRIO_CSR,           \* [db, sw: start/busy bits 0 and 1; err: error bits set]
    regs,               \* SW_SIZE, SW_DST, SW_SRC, the halves of DB_TXINFO, SRIO_MODE[1]
    db_start_q, sw_start_q, sw_err,      \* edge detectors and unaligned pulses
    cstate,             \* the arbiter
    normal_db_req, db_info_normal_q, db_part_start,
    sw_req, sw_mode_q, db_info_sw_q, sw_db_req, sw_part_start,
    sw_full_pack_cnt, sw_last_pack_size, sw_part_addr,
    ar,                 \* ar_busy, ar_full_burst_cnt, ar_last_burst_len, axi_araddr
    db_ireq,            \* db_tx_engine: the doorbell driven, or NoDoorbell
    iresp_tready, iresp,                 \* ... its response channel
    engine, beat_cnt, total_beat_cnt,    \* sw_tx_engine
    bursts, rbeat,      \* AXI read bursts accepted and not consumed; beats consumed of the first
    job, sent, normal,  \* history: the transfer started, dwords sent of it, the doorbell started
    lost                \* history: busy bits whose clearing pulse was lost

host == <<values, SRIO_CSR, regs, job, normal, lost>>
arbiter == <<db_start_q, sw_start_q, sw_err, cstate>>
requests == <<normal_db_req, db_info_normal_q, db_part_start, sw_req, sw_mode_q,
              db_info_sw_q, sw_db_req, sw_part_start>>
packets == <<sw_full_pack_cnt, sw_last_pack_size, sw_part_addr, ar>>
engines == <<db_ireq, iresp_tready, iresp, engine, beat_cnt, total_beat_cnt, sent>>
axi == <<bursts, rbeat>>
vars == <<host, arbiter, requests, packets, engines, axi>>

NoDoorbell == -1
NoJob == [size |-> 0, dst |-> 0, src |-> 0, mode |-> FALSE, info |-> 0]

Init ==
    /\ values \in Values
    /\ SRIO_CSR = [db |-> FALSE, sw |-> FALSE, err |-> {}]
    /\ regs = [size |-> 0, dst |-> 0, src |-> 0, infoSw |-> 0, infoDb |-> 0,
               mode |-> FALSE]
    /\ db_start_q = FALSE /\ sw_start_q = FALSE /\ sw_err = {} /\ cstate = "IDLE"
    /\ normal_db_req = FALSE /\ db_info_normal_q = 0 /\ db_part_start = FALSE
    /\ sw_req = FALSE /\ sw_mode_q = FALSE /\ db_info_sw_q = 0
    /\ sw_db_req = FALSE /\ sw_part_start = FALSE
    /\ sw_full_pack_cnt = 0 /\ sw_last_pack_size = 0 /\ sw_part_addr = 0
    /\ ar = [busy |-> FALSE, full |-> 0, last |-> 0, addr |-> 0]
    /\ db_ireq = NoDoorbell /\ iresp_tready = FALSE /\ iresp = "none"
    /\ engine = "IDLE" /\ beat_cnt = 0 /\ total_beat_cnt = 0
    /\ bursts = <<>> /\ rbeat = 0
    /\ job = NoJob /\ sent = 0 /\ normal = 0 /\ lost = {}

-----------------------------------------------------------------------------
(* Wires.                                                                  *)

aligned(a) == a % B = 0

db_start_en == SRIO_CSR.db /\ ~db_start_q
sw_start_en == SRIO_CSR.sw /\ ~sw_start_q

\* db_tx_engine: db_done
db_part_done == iresp = "valid" /\ iresp_tready

\* m_axi_rvalid or s_axis_h2c_tvalid, whichever sw_mode selects.  The memory
\* has data only for bursts it accepted; the host's stream may always have.
data_tvalid(valid) == valid /\ (sw_mode_q => bursts # <<>>)

ireq_tvalid_sw(valid) ==
    \/ engine = "HEAD"
    \/ engine = "DATA" /\ data_tvalid(valid)

sw_handshake(ready, valid) == ireq_tvalid_sw(valid) /\ ready
db_handshake(ready) == db_ireq # NoDoorbell /\ ready
data_handshake(ready, valid) == engine = "DATA" /\ sw_handshake(ready, valid)

\* sw_tx_engine: sw_done, the handshake of a packet's last beat
sw_part_done(ready, valid) ==
    data_handshake(ready, valid) /\ beat_cnt = total_beat_cnt

\* Mutant: the end of any packet taken for the end of the transfer.
sw_last_pack_doneAnyPacket(ready, valid) == sw_req /\ sw_part_done(ready, valid)

sw_last_pack_done(ready, valid) ==
    sw_req /\ sw_full_pack_cnt = 0 /\ sw_part_done(ready, valid)

nstate(ready, valid) ==
    CASE cstate = "IDLE" /\ sw_db_req                       -> "SWDB"
      [] cstate = "IDLE" /\ ~sw_db_req /\ normal_db_req     -> "NORMALDB"
      [] cstate = "IDLE" /\ ~sw_db_req /\ ~normal_db_req /\ sw_req -> "SW"
      [] cstate \in {"SWDB", "NORMALDB"} /\ db_part_done    -> "IDLE"
      [] cstate = "SW" /\ sw_part_done(ready, valid)        -> "IDLE"
      [] OTHER                                              -> cstate

db_done == cstate = "NORMALDB" /\ db_part_done
sw_done == cstate = "SWDB" /\ db_part_done

ar_handshake(arready) == ar.busy /\ arready
ar_last_req_done(arready) == ar_handshake(arready) /\ ar.full = 0

\* Mutant: the last burst asks for a full packet.
axi_arlenFull == B - 1

axi_arlen == IF ar.full > 0 THEN B - 1 ELSE ar.last

-----------------------------------------------------------------------------
(* The register file.  A cycle with a register write takes the write       *)
(* branch of the one always block and ignores the pulses of that cycle.    *)

PulsesLost ==
    lost' = lost \cup (IF db_done THEN {"db"} ELSE {})
                 \cup (IF sw_done THEN {"sw"} ELSE {})

\* No write in this cycle: done pulses clear busy bits, error pulses set error bits.
NoWrite ==
    /\ SRIO_CSR' = [db  |-> SRIO_CSR.db /\ ~db_done,
                    sw  |-> SRIO_CSR.sw /\ ~sw_done,
                    err |-> SRIO_CSR.err \cup sw_err]
    /\ UNCHANGED <<regs, job, normal, lost>>

\* A write to SRIO_CSR[1:0]: start what is not busy, report what is.
WriteStart(db, sw) ==
    /\ db \/ sw
    /\ SRIO_CSR' = [db  |-> SRIO_CSR.db \/ db,
                    sw  |-> SRIO_CSR.sw \/ sw,
                    err |-> SRIO_CSR.err
                              \cup (IF SRIO_CSR.db /\ db THEN {16} ELSE {})
                              \cup (IF SRIO_CSR.sw /\ sw THEN {17} ELSE {})]
    /\ job' = IF sw /\ ~SRIO_CSR.sw
              THEN [size |-> regs.size, dst |-> regs.dst, src |-> regs.src,
                    mode |-> regs.mode, info |-> regs.infoSw]
              ELSE job
    /\ normal' = IF db /\ ~SRIO_CSR.db THEN regs.infoDb ELSE normal
    /\ PulsesLost
    /\ UNCHANGED regs

\* A write to SRIO_CSR[23:16] clears the error bits written as one.
ClearErrors(bits) ==
    /\ SRIO_CSR' = [SRIO_CSR EXCEPT !.err = @ \ bits]
    /\ PulsesLost
    /\ UNCHANGED <<regs, job, normal>>

\* A write that changes one of the parameter registers.
WriteReg(r, value) ==
    /\ value # regs[r]
    /\ regs' = [regs EXCEPT ![r] = value]
    /\ PulsesLost
    /\ UNCHANGED <<SRIO_CSR, job, normal>>

\* A write that changes none of them: of the same value, or to a register of
\* the MSI part or to no register at all.
WriteElsewhere ==
    /\ PulsesLost
    /\ UNCHANGED <<SRIO_CSR, regs, job, normal>>

Host ==
    /\ UNCHANGED values
    /\ \/ NoWrite
       \/ WriteElsewhere
       \/ \E db, sw \in BOOLEAN : WriteStart(db, sw)
       \/ SRIO_CSR.err # {} /\ ClearErrors(SRIO_CSR.err)
       \/ \E n \in values.size : WriteReg("size", n)
       \/ \E a \in values.dst : WriteReg("dst", a)
       \/ \E a \in values.src : WriteReg("src", a)
       \/ \E m \in BOOLEAN : WriteReg("mode", m)
       \/ \E i \in values.info : WriteReg("infoSw", i) \/ WriteReg("infoDb", i)

-----------------------------------------------------------------------------
(* srio_tx_manager.v.                                                      *)

StartEdges ==
    /\ db_start_q' = SRIO_CSR.db
    /\ sw_start_q' = SRIO_CSR.sw
    /\ sw_err' = IF ~sw_start_en THEN {}
                 ELSE (IF aligned(regs.src) THEN {} ELSE {20})
                         \cup (IF aligned(regs.dst) THEN {} ELSE {21})

Arbiter(ready, valid) ==
    /\ cstate' = nstate(ready, valid)
    /\ db_part_start' = (cstate = "IDLE" /\ cstate' \in {"NORMALDB", "SWDB"})
    /\ sw_part_start' = (cstate = "IDLE" /\ cstate' = "SW")

\* Mutant: the request is withdrawn when it is taken, not when it is answered.
NormalDoorbellEarly ==
    IF db_start_en
    THEN normal_db_req' = TRUE /\ db_info_normal_q' = regs.infoDb
    ELSE /\ normal_db_req' = (normal_db_req /\ cstate # "NORMALDB")
         /\ UNCHANGED db_info_normal_q

\* Mutant: the request is never withdrawn.
NormalDoorbellKept ==
    IF db_start_en
    THEN normal_db_req' = TRUE /\ db_info_normal_q' = regs.infoDb
    ELSE UNCHANGED <<normal_db_req, db_info_normal_q>>

NormalDoorbell ==
    IF db_start_en
    THEN normal_db_req' = TRUE /\ db_info_normal_q' = regs.infoDb
    ELSE /\ normal_db_req' = (normal_db_req /\ ~db_done)
         /\ UNCHANGED db_info_normal_q

\* sw_req and the parameters locked with it.
SwLock(ready, valid) ==
    IF sw_start_en /\ aligned(regs.src) /\ aligned(regs.dst)
    THEN sw_req' = TRUE /\ sw_mode_q' = regs.mode /\ db_info_sw_q' = regs.infoSw
    ELSE /\ sw_req' = (sw_req /\ ~sw_last_pack_done(ready, valid))
         /\ UNCHANGED <<sw_mode_q, db_info_sw_q>>

SwDoorbell(ready, valid) ==
    sw_db_req' = (sw_last_pack_done(ready, valid) \/ (sw_db_req /\ ~sw_done))

\* sw_full_pack_cnt, sw_last_pack_size and sw_part_addr.
Packets(ready, valid) ==
    IF sw_start_en
    THEN /\ sw_full_pack_cnt' = regs.size \div B
         /\ sw_last_pack_size' = regs.size % B
         /\ sw_part_addr' = regs.dst
    ELSE /\ IF sw_full_pack_cnt > 0 /\ sw_part_done(ready, valid)
            THEN /\ sw_full_pack_cnt' = sw_full_pack_cnt - 1
                 /\ sw_part_addr' = sw_part_addr + B
            ELSE UNCHANGED <<sw_full_pack_cnt, sw_part_addr>>
         /\ UNCHANGED sw_last_pack_size

\* ar_busy, the burst counters and axi_araddr.
ReadRequests(arready) ==
    ar' = IF sw_start_en /\ regs.mode
          THEN [busy |-> TRUE, full |-> regs.size \div B, last |-> regs.size % B,
                addr |-> regs.src]
          ELSE [busy |-> ar.busy /\ ~ar_last_req_done(arready),
                full |-> IF ar.full > 0 /\ ar_handshake(arready)
                         THEN ar.full - 1 ELSE ar.full,
                last |-> ar.last,
                addr |-> IF ar_handshake(arready) /\ ~ar_last_req_done(arready)
                         THEN ar.addr + B ELSE ar.addr]

-----------------------------------------------------------------------------
\* Mutant: the doorbell takes the register's present value, not the locked one.
DbEngineUnlocked(ready, resp) ==
    /\ db_ireq' = IF db_part_start
                  THEN IF cstate = "SWDB" THEN regs.infoSw ELSE regs.infoDb
                  ELSE IF db_handshake(ready) THEN NoDoorbell ELSE db_ireq
    /\ iresp_tready' = IF ~iresp_tready /\ iresp = "valid" THEN TRUE
                       ELSE iresp_tready /\ ~db_handshake(ready)
    /\ iresp' = IF db_handshake(ready) THEN "owed"
                ELSE IF iresp = "owed" /\ resp THEN "valid"
                ELSE IF db_part_done THEN "none"
                ELSE iresp

(* db_tx_engine.v and the SRIO core's side of it: one response for every   *)
(* doorbell, some time after the request was accepted.                     *)

DbEngine(ready, resp) ==
    /\ db_ireq' = IF db_part_start
                  THEN IF cstate = "SWDB" THEN db_info_sw_q ELSE db_info_normal_q
                  ELSE IF db_handshake(ready) THEN NoDoorbell ELSE db_ireq
    /\ iresp_tready' = IF ~iresp_tready /\ iresp = "valid" THEN TRUE
                       ELSE iresp_tready /\ ~db_handshake(ready)
    /\ iresp' = IF db_handshake(ready) THEN "owed"
                ELSE IF iresp = "owed" /\ resp THEN "valid"
                ELSE IF db_part_done THEN "none"
                ELSE iresp

(* sw_tx_engine.v, and the history of the double words it has sent.        *)

sw_part_size == IF sw_full_pack_cnt > 0 THEN B - 1 ELSE sw_last_pack_size

\* Mutant: the beat counter is not reset between packets.
SwEngineKeepsBeat(ready, valid) ==
    /\ engine' = CASE engine = "IDLE" /\ sw_part_start              -> "HEAD"
                   [] engine = "HEAD" /\ sw_handshake(ready, valid) -> "DATA"
                   [] engine = "DATA" /\ sw_part_done(ready, valid) -> "IDLE"
                   [] OTHER                                         -> engine
    /\ total_beat_cnt' = IF sw_part_start THEN sw_part_size ELSE total_beat_cnt
    /\ beat_cnt' = IF data_handshake(ready, valid) /\ beat_cnt < total_beat_cnt
                   THEN beat_cnt + 1 ELSE beat_cnt
    /\ sent' = IF sw_start_en THEN 0
               ELSE IF data_handshake(ready, valid) THEN sent + 1 ELSE sent

SwEngine(ready, valid) ==
    /\ engine' = CASE engine = "IDLE" /\ sw_part_start              -> "HEAD"
                   [] engine = "HEAD" /\ sw_handshake(ready, valid) -> "DATA"
                   [] engine = "DATA" /\ sw_part_done(ready, valid) -> "IDLE"
                   [] OTHER                                         -> engine
    /\ total_beat_cnt' = IF sw_part_start THEN sw_part_size ELSE total_beat_cnt
    /\ beat_cnt' = IF data_handshake(ready, valid) /\ beat_cnt < total_beat_cnt
                   THEN beat_cnt + 1
                   ELSE IF engine' = "IDLE" THEN 0 ELSE beat_cnt
    /\ sent' = IF sw_start_en THEN 0
               ELSE IF data_handshake(ready, valid) THEN sent + 1 ELSE sent

(* The memory behind the AXI read channels: accepts bursts, returns their  *)
(* beats in order.                                                         *)
ReadMemory(ready, valid, arready) ==
    LET asked == IF ar_handshake(arready)
                 THEN Append(bursts, [addr |-> ar.addr, len |-> axi_arlen])
                 ELSE bursts
        taken == sw_mode_q /\ data_handshake(ready, valid)
    IN  IF taken /\ rbeat = Head(bursts).len
        THEN bursts' = Tail(asked) /\ rbeat' = 0
        ELSE bursts' = asked /\ rbeat' = IF taken THEN rbeat + 1 ELSE rbeat

Datapath(ready, valid, arready, resp) ==
    /\ StartEdges
    /\ Arbiter(ready, valid)
    /\ NormalDoorbell
    /\ SwLock(ready, valid)
    /\ SwDoorbell(ready, valid)
    /\ Packets(ready, valid)
    /\ ReadRequests(arready)
    /\ DbEngine(ready, resp)
    /\ SwEngine(ready, valid)
    /\ ReadMemory(ready, valid, arready)

(* The inputs of a cycle.  One that no block looks at in the cycle is low.  *)
When(used) == IF used THEN BOOLEAN ELSE {FALSE}

Next ==
    /\ Host
    /\ \E ready \in When(engine # "IDLE" \/ db_ireq # NoDoorbell),
          valid \in When(engine = "DATA"),
          arready \in When(ar.busy),
          resp \in When(iresp = "owed") :
          Datapath(ready, valid, arready, resp)

Spec == Init /\ [][Next]_vars

(* The clock runs; the SRIO core does not refuse a packet or withhold a    *)
(* response for ever, the source of the data (the host's stream or the     *)
(* memory) supplies it, and the memory accepts read bursts.  Nothing is    *)
(* assumed of the hosts, which may go on writing registers: some register  *)
(* can always be written, so that the second conjunct is WF_vars(Next).    *)
FairSpec ==
    /\ Spec
    /\ []<><<TRUE>>_vars
    /\ WF_db_ireq(db_ireq # NoDoorbell /\ db_ireq' = NoDoorbell)
    /\ WF_<<engine, sent>>(engine # "IDLE" /\ SwEngine(TRUE, TRUE))
    /\ WF_ar(ar.busy /\ ReadRequests(TRUE))
    /\ WF_iresp(iresp = "owed" /\ iresp' = "valid")

-----------------------------------------------------------------------------
(* Properties.                                                             *)

Jobs == [size: values.size, dst: values.dst, src: values.src, mode: BOOLEAN,
         info: values.info]

\* Every register holds a value of its kind; the packet and burst counters,
\* decremented from two different handshakes, never go below zero and a packet
\* never has more than B beats (srio_tx_manager.v:380-398, sw_tx_engine.v:121-158).
TypeOK ==
    /\ values \in Values
    /\ SRIO_CSR \in [db: BOOLEAN, sw: BOOLEAN, err: SUBSET {16, 17, 20, 21}]
    /\ regs \in [size: values.size, dst: values.dst, src: values.src,
                 infoSw: values.info, infoDb: values.info, mode: BOOLEAN]
    /\ {db_start_q, sw_start_q, normal_db_req, db_part_start, sw_req, sw_mode_q,
        sw_db_req, sw_part_start, iresp_tready} \subseteq BOOLEAN
    /\ sw_err \subseteq {20, 21}
    /\ cstate \in {"IDLE", "SWDB", "NORMALDB", "SW"}
    /\ {db_info_normal_q, db_info_sw_q, normal} \subseteq values.info
    /\ {sw_full_pack_cnt, sw_part_addr, sent, rbeat} \subseteq Nat
    /\ {sw_last_pack_size, beat_cnt, total_beat_cnt} \subseteq 0 .. B - 1
    /\ ar \in [busy: BOOLEAN, full: Nat, last: 0 .. B - 1, addr: Nat]
    /\ db_ireq \in values.info \cup {NoDoorbell}
    /\ iresp \in {"none", "owed", "valid"}
    /\ engine \in {"IDLE", "HEAD", "DATA"}
    /\ bursts \in Seq([addr: Nat, len: 0 .. B - 1])
    /\ job \in Jobs
    /\ lost \subseteq {"db", "sw"}

\* While a packet is on the stream, its beats go on where the ones before
\* stopped: the beat about to be sent lands in the double word of the
\* destination that follows the last one sent, of the transfer as its registers
\* were when it was started, in packets that never cross a multiple of B,
\* however the registers are rewritten meanwhile; and the doorbell engine, whose
\* output is ORed onto the same stream, is silent (srio_tx_manager.v:151-153,
\* 339-425, sw_tx_engine.v:131-158).
PacketsInOrder ==
    engine # "IDLE" =>
        /\ db_ireq = NoDoorbell
        /\ sw_part_addr + beat_cnt = job.dst + sent
        /\ sw_part_addr % B = 0
        /\ sent <= job.size

\* A transfer's own doorbell is raised only when every double word of it has
\* been accepted, so the DSP it interrupts finds the data complete
\* (srio_tx_manager.v:331-337, 363-378).
\* And the doorbell on the stream is the one its requester asked for: the value
\* the register half held when the start bit was written, the other half and
\* later writes notwithstanding (srio_tx_manager.v:489, 301-317, 339-361).
DoorbellsRight ==
    /\ sw_db_req => sent = job.size + 1
    /\ db_ireq # NoDoorbell => db_ireq = IF cstate = "SWDB" THEN job.info ELSE normal

\* The data comes from the source chosen when the transfer was started.  In
\* memory mode the beats offered are the ones of the transfer, in order, and
\* none is left over when it ends: what the AR side asked for and what the
\* packet side consumes are counted by separate registers and must agree
\* (srio_tx_manager.v:215-287, 339-361).
ReadsMatchJob ==
    /\ sw_req => sw_mode_q = job.mode
    /\ engine = "DATA" /\ sw_mode_q /\ bursts # <<>> =>
          Head(bursts).addr + rbeat = job.src + sent
    /\ sw_db_req => bursts = <<>> /\ ~ar.busy

\* A busy bit is set only while its operation is pending, unless a register
\* write hid the pulse that clears it or the transfer was refused for its
\* alignment (srio_pcie_bridge.v:453-461, srio_tx_manager.v:301-361).
BusyMeansWork ==
    /\ SRIO_CSR.db => db_start_en \/ normal_db_req \/ "db" \in lost
    /\ SRIO_CSR.sw => \/ sw_start_en \/ sw_req \/ sw_db_req
                      \/ "sw" \in lost
                      \/ ~aligned(job.src) \/ ~aligned(job.dst)

\* What is started ends, in spite of the traffic of the other kind: a doorbell
\* is sent between the packets of a transfer, and a transfer goes on although
\* doorbells, which have priority, may be requested again and again
\* (srio_tx_manager.v:183-193).
EveryStartEnds ==
    /\ normal_db_req ~> db_done
    /\ sw_req ~> sw_done

\* What the register file says of the start bits, "hold until db_done" and
\* "hold until sw_done" (srio_pcie_bridge.v:187-188).  It is violated: the
\* pulse is one cycle long and a register write in that cycle hides it.
HeldUntilDone ==
    /\ SRIO_CSR.db => db_start_en \/ normal_db_req
    /\ SRIO_CSR.sw => sw_start_en \/ sw_req \/ sw_db_req
=============================================================================
