--------------------------------- MODULE SrioRx ---------------------------------
(***************************************************************************)
(* The receive half of the FPGA bridge, one step per clock cycle:          *)
(* srio_rx_manager.v with nw_rx_engine.v and db_rx_engine.v, and the part  *)
(* of srio_pcie_bridge.v that turns doorbells into messages.               *)
(*                                                                         *)
(* The SRIO core offers packets on one stream: doorbells, of one beat, and *)
(* NWRITE packets, of a header and one beat for each double word.  Both    *)
(* engines look at every beat and either may accept it.  A doorbell is     *)
(* answered and becomes a message in MSI slot 0; an NWRITE packet goes to  *)
(* the memory or to the host's stream, as SRIO_MODE says at its header.    *)
(*                                                                         *)
(* Addresses count double words.  A doorbell's info is its number.         *)
(***************************************************************************)
EXTENDS Integers, Sequences

CONSTANTS Packets,      \* how many packets the SRIO core offers
          Sizes,        \* double words in an NWRITE packet (1 .. 32)
          Addrs,        \* destinations of NWRITE packets
          Page          \* double words in a page that a packet may not leave (512)

ASSUME RxAssumption ==
    /\ Packets \in Nat /\ Page \in Nat \ {0}
    /\ Sizes \subseteq Nat \ {0} /\ Addrs \subseteq Nat

VARIABLES
    left, pkt, beat,            \* the core: packets to come, the one on the stream, its beat
    treq,                       \* ... the beat's tvalid and its bits 55:48
    cstate, waiting, nw_err,    \* nw_rx_engine: treq_tready_waiting_valid, error pulses
    aw,                         \* ... its write address, or NoBurst
    tready_db, db_irq, tresp,   \* db_rx_engine: treq_tready, doorbell signalled, answered
    mode, csr_err,              \* SRIO_MODE[2], [0]; SRIO_CSR[19:18]
    msi, rdata,                 \* MSI_CSR[0], MSI_CSR[16], MSI_INFO[0]; the answer to a read of it
    bursts, wbeat,              \* memory: bursts accepted and not full, beats of the first
    fate, answered              \* history: what became of each doorbell; responses sent

core == <<left, pkt, beat, treq>>
engines == <<cstate, waiting, nw_err, aw, tready_db, db_irq, tresp>>
host == <<mode, csr_err, msi, rdata, fate>>
vars == <<core, engines, host, bursts, wbeat, answered>>

None == 0
NoBurst == [valid |-> FALSE, addr |-> 0, len |-> 0]
Doorbell == [type |-> "DB", addr |-> 0, n |-> 0, odd |-> FALSE]
\* n double words; odd: not a whole number of double words, or not at one.
NWrites == [type : {"NW"}, addr : Addrs, n : Sizes, odd : BOOLEAN]

Init ==
    /\ left = Packets /\ pkt = Doorbell /\ beat = 0 /\ treq = [valid |-> FALSE, type |-> "DB"]
    /\ cstate = "IDLE" /\ waiting = FALSE /\ nw_err = {} /\ aw = NoBurst
    /\ tready_db = FALSE /\ db_irq = None /\ tresp = None
    /\ mode = [nw |-> FALSE, nomsi |-> FALSE] /\ csr_err = {}
    /\ msi = [busy |-> FALSE, err |-> FALSE, info |-> None] /\ rdata = None
    /\ bursts = <<>> /\ wbeat = 0
    /\ fate = <<>> /\ answered = <<>>

-----------------------------------------------------------------------------
(* Wires.                                                                  *)

nw_busy == cstate # "IDLE"

\* Mutant: a doorbell is looked for in the data of a packet, too.
doorbell_validAlways == treq.valid /\ treq.type = "DB"

\* Each engine knows its packets by bits 55:48 of the beat, which are the
\* packet type in a header and anything in a data beat.
doorbell_valid == treq.valid /\ treq.type = "DB" /\ ~nw_busy
nwrite_valid == treq.valid /\ treq.type = "NW" /\ ~nw_busy

\* Mutant: a refused packet is not drained.
treq_tready_nwNoDrain(wready, c2h_tready) ==
    \/ cstate = "IDLE" /\ waiting
    \/ cstate = "NW2MM" /\ wready
    \/ cstate = "NW2S" /\ c2h_tready

treq_tready_nw(wready, c2h_tready) ==
    \/ cstate = "IDLE" /\ waiting
    \/ cstate = "ERR"
    \/ cstate = "NW2MM" /\ wready
    \/ cstate = "NW2S" /\ c2h_tready

handshake_treq_db == doorbell_valid /\ tready_db
handshake_treq_nw == nwrite_valid /\ waiting
treq_packet_end(nwready) == treq.valid /\ nwready /\ beat = pkt.n

\* Mutant: the last double word is left out.
is_cross_boundaryShort == pkt.addr \div Page # (pkt.addr + pkt.n - 2) \div Page

is_cross_boundary == pkt.addr \div Page # (pkt.addr + pkt.n - 1) \div Page
is_align8bytes == ~pkt.odd

nstate(nwready) ==
    CASE cstate = "IDLE" /\ handshake_treq_nw ->
             IF ~mode.nw THEN "NW2S"
             ELSE IF is_cross_boundary \/ ~is_align8bytes THEN "ERR" ELSE "NW2MM"
      [] cstate # "IDLE" /\ treq_packet_end(nwready) -> "IDLE"
      [] OTHER -> cstate

handshake_w(wready) == cstate = "NW2MM" /\ treq.valid /\ wready

-----------------------------------------------------------------------------
(* The SRIO core's stream: what is offered stays until it is accepted.     *)

Offer ==
    \/ treq' = [treq EXCEPT !.valid = FALSE] /\ UNCHANGED <<left, pkt>>
    \/ /\ beat' > 0 /\ treq' \in [valid : {TRUE}, type : {"DB", "NW"}]
       /\ UNCHANGED <<left, pkt>>
    \/ /\ beat' = 0 /\ left > 0 /\ left' = left - 1
       /\ pkt' \in NWrites \cup {Doorbell}
       /\ treq' = [valid |-> TRUE, type |-> pkt'.type]

Stream(nwready) ==
    IF ~treq.valid THEN beat' = beat /\ Offer
    ELSE IF tready_db \/ nwready
         THEN beat' = (IF beat = pkt.n THEN 0 ELSE beat + 1) /\ Offer
         ELSE UNCHANGED core

-----------------------------------------------------------------------------
(* nw_rx_engine.v.                                                         *)

NwEngine(nwready, awready) ==
    /\ cstate' = nstate(nwready)
    /\ waiting' = (~waiting /\ nwrite_valid)
    /\ nw_err' = IF cstate = "IDLE" /\ cstate' = "ERR"
                 THEN (IF is_cross_boundary THEN {18} ELSE {})
                        \cup (IF is_align8bytes THEN {} ELSE {19})
                 ELSE {}
    /\ aw' = IF cstate = "IDLE" /\ cstate' = "NW2MM"
             THEN [valid |-> TRUE, addr |-> pkt.addr, len |-> pkt.n - 1]
             ELSE IF aw.valid /\ awready THEN NoBurst ELSE aw

\* Mutant: a doorbell is accepted while a response waits.
doorbell_nackNever(tresp_tready) == FALSE

(* db_rx_engine.v.  The response carries the doorbell's transaction id.    *)

doorbell_nack(tresp_tready) == tresp # None /\ ~tresp_tready

DbEngine(tresp_tready) ==
    /\ tready_db' = IF doorbell_valid
                    THEN ~tready_db /\ ~doorbell_nack(tresp_tready)
                    ELSE tready_db
    /\ db_irq' = IF handshake_treq_db THEN Len(fate) + 1 ELSE None
    /\ tresp' = IF handshake_treq_db THEN Len(fate) + 1
                ELSE IF tresp_tready THEN None ELSE tresp
    /\ answered' = IF tresp # None /\ tresp_tready THEN Append(answered, tresp)
                   ELSE answered

(* The memory: its interconnect routes data by the address, so it takes    *)
(* data only for a burst whose address it has taken.                       *)
Memory(wready, awready) ==
    LET asked == IF aw.valid /\ awready
                 THEN Append(bursts, [addr |-> aw.addr, len |-> aw.len])
                 ELSE bursts
    IN  IF handshake_w(wready) /\ wbeat = Head(bursts).len
        THEN bursts' = Tail(asked) /\ wbeat' = 0
        ELSE /\ bursts' = asked
             /\ wbeat' = IF handshake_w(wready) THEN wbeat + 1 ELSE wbeat

-----------------------------------------------------------------------------
(* The register file.                                                      *)

\* A read of MSI_INFO[0]: the answer is taken from the register one cycle and
\* handed over, which frees the slot, in a later one.  Hosts read it because
\* of the interrupt.
ReadMsiInfo(start, end) ==
    /\ start => rdata = None /\ msi.busy
    /\ end => rdata # None
    /\ rdata' = IF start THEN msi.info ELSE IF end THEN None ELSE rdata

\* What becomes of the doorbell signalled in this cycle, as f, and of the one
\* a read ending in this cycle frees from the slot.
Fate(f, freed) ==
    LET known == IF db_irq = None THEN fate ELSE Append(fate, f)
    IN  fate' = IF freed
                THEN [known EXCEPT ![msi.info] = IF rdata = msi.info THEN "read" ELSE "cleared"]
                ELSE known

\* Mutant: a message replaces the one in the slot.
NoWriteOverwrite(end) ==
    /\ csr_err' = csr_err \cup nw_err
    /\ mode' = mode
    /\ IF db_irq # None /\ ~mode.nomsi
       THEN msi' = [msi EXCEPT !.busy = TRUE, !.info = db_irq] /\ Fate("slot", FALSE)
       ELSE /\ msi' = [msi EXCEPT !.busy = @ /\ ~end]
            /\ Fate("nomsi", end /\ msi.busy)

\* Without a register write: error bits, db to msi, slot freed by a read.
NoWrite(end) ==
    /\ csr_err' = csr_err \cup nw_err
    /\ mode' = mode
    /\ IF db_irq # None /\ ~mode.nomsi
       THEN IF msi.busy
            THEN msi' = [msi EXCEPT !.err = TRUE] /\ Fate("refused", FALSE)
            ELSE msi' = [msi EXCEPT !.busy = TRUE, !.info = db_irq] /\ Fate("slot", FALSE)
       ELSE /\ msi' = [msi EXCEPT !.busy = @ /\ ~end]
            /\ Fate("nomsi", end /\ msi.busy)

\* With one, all these pulses pass unseen.
Write ==
    /\ Fate("hidden", FALSE)
    /\ \/ UNCHANGED <<mode, csr_err, msi>>
       \/ mode' \in [nw : BOOLEAN, nomsi : BOOLEAN] /\ UNCHANGED <<csr_err, msi>>
       \/ csr_err' = {} /\ UNCHANGED <<mode, msi>>
       \/ msi' = [msi EXCEPT !.err = FALSE] /\ UNCHANGED <<mode, csr_err>>

Hosts == \E start, end \in BOOLEAN :
            ReadMsiInfo(start, end) /\ (NoWrite(end) \/ Write)

-----------------------------------------------------------------------------
Cycle(wready, c2h_tready, awready, tresp_tready) ==
    LET nwready == treq_tready_nw(wready, c2h_tready) IN
    /\ Stream(nwready)
    /\ NwEngine(nwready, awready)
    /\ DbEngine(tresp_tready)
    /\ Memory(wready, awready)
    /\ Hosts

\* An input that no block looks at in the cycle is low.
When(used) == IF used THEN BOOLEAN ELSE {FALSE}

Next ==
    \E wready \in When(cstate = "NW2MM" /\ bursts # <<>>),
       c2h_tready \in When(cstate = "NW2S"),
       awready \in When(aw.valid),
       tresp_tready \in When(tresp # None) :
       Cycle(wready, c2h_tready, awready, tresp_tready)

Spec == Init /\ [][Next]_vars

\* The clock runs, the core goes on with a packet it has begun and takes the
\* responses, memory and stream take what they are offered.  Nothing is
\* assumed of the hosts.
FairSpec ==
    /\ Spec
    /\ WF_vars(Next /\ (~treq.valid => treq'.valid))
    /\ WF_vars(Cycle(bursts # <<>>, TRUE, TRUE, TRUE))

-----------------------------------------------------------------------------
Requests == NWrites \cup {Doorbell}
Fates == {"slot", "read", "refused", "nomsi", "hidden", "cleared"}

\* Every register has a value of its kind.
TypeOK ==
    /\ left \in 0 .. Packets /\ pkt \in Requests /\ beat \in 0 .. pkt.n
    /\ treq \in [valid : BOOLEAN, type : {"DB", "NW"}]
    /\ cstate \in {"IDLE", "ERR", "NW2MM", "NW2S"} /\ waiting \in BOOLEAN
    /\ nw_err \subseteq {18, 19} /\ csr_err \subseteq {18, 19}
    /\ aw \in [valid : BOOLEAN, addr : Addrs \cup {0}, len : Nat]
    /\ tready_db \in BOOLEAN /\ {db_irq, tresp, rdata} \subseteq 0 .. Packets
    /\ mode \in [nw : BOOLEAN, nomsi : BOOLEAN]
    /\ msi \in [busy : BOOLEAN, err : BOOLEAN, info : 0 .. Packets]
    /\ wbeat \in Nat /\ Len(bursts) <= 1
    /\ \A i \in DOMAIN fate : fate[i] \in Fates

\* The engines and the stream agree where packets begin and end, whatever the
\* data beats look like: no header is taken for data, no data for a header,
\* and a beat is accepted by one engine, the one it is for
\* (db_rx_engine.v:90, nw_rx_engine.v:133-138, 231-259).
EnginesFollowStream ==
    /\ nw_busy <=> beat > 0
    /\ tready_db => doorbell_valid /\ pkt.type = "DB"
    /\ waiting => nwrite_valid /\ pkt.type = "NW"

\* The data of an NWRITE packet goes to the packet's own double words, in
\* order, and its address is neither lost nor kept for the next packet; of a
\* packet that leaves its page or is not aligned nothing is written
\* (nw_rx_engine.v:166-172, 291-309).
BeatsInPlace ==
    /\ cstate = "NW2MM" =>
           /\ aw.valid <=> bursts = <<>>
           /\ ~pkt.odd /\ pkt.addr \div Page = (pkt.addr + pkt.n - 1) \div Page
           /\ bursts # <<>> => /\ Head(bursts).addr + wbeat = pkt.addr + beat - 1
                               /\ Head(bursts).len - wbeat = pkt.n - beat
    /\ cstate # "NW2MM" => ~aw.valid /\ bursts = <<>>

\* Every doorbell accepted is answered once, in order: a response that the
\* core has not taken is never replaced by the next (db_rx_engine.v:100-117).
EachDoorbellAnswered ==
    LET owed == IF tresp = None THEN <<>> ELSE <<tresp>>
        seen == Len(fate) + (IF db_irq = None THEN 0 ELSE 1)
    IN  answered \o owed = [i \in 1 .. seen |-> i]

\* A message accepted for the host stays in the slot until the host has read
\* this message, though reading takes two cycles and doorbells come meanwhile
\* (srio_pcie_bridge.v:475-489, 511-559).
MessageKeptUntilRead ==
    \A i \in DOMAIN fate :
        /\ fate[i] = "slot" => msi.busy /\ msi.info = i
        /\ fate[i] # "cleared"

\* The stream is never blocked for good: every packet is taken, and every
\* doorbell answered.
EveryPacketTaken ==
    <>(left = 0 /\ ~treq.valid /\ beat = 0 /\ tresp = None)
=================================================================================
