------------------------------- MODULE Emif2Axil -------------------------------
(***************************************************************************)
(* How the DSP reaches the registers of the FPGA: readReg and writeReg of  *)
(* Emif2Axil.h, the converter emif2axil.v one step per cycle of eclk, and  *)
(* (external) the interconnect and the registers behind it.                *)
(*                                                                         *)
(* A write is posted: the DSP goes on when the store has left it.  A read  *)
(* is a store to the read window, which asks for it, then a wait until the *)
(* GPIO pin says that an answer is there, then a load that takes it.  In   *)
(* the converter, requests wait in one FIFO and the data of writes in      *)
(* another.  The data of the next write may be presented before the        *)
(* request it belongs to is looked at.                                     *)
(***************************************************************************)
EXTENDS Integers, Sequences

CONSTANTS Regs, Values,
          DEPTH,        \* words in each FIFO (16 in the project's .xci files)
          BURST,        \* most writes the DSP posts between two reads (9 in its code)
          ACCESSES      \* bound: accesses the DSP makes

\* The drivers read a register at least after every nine writes (MODE and CSR,
\* Srio2PcieLLD.h:115-117, then the seven of setupHwFhog, HwFhogLLD.h:77-83),
\* so that a read's request still finds room.
ASSUME EmifAssumption ==
    /\ Regs # {} /\ 0 \in Values /\ ACCESSES \in Nat
    /\ BURST \in Nat /\ DEPTH \in Nat /\ BURST < DEPTH

VARIABLES
    pc, op, burst, made,            \* DSP: where it is, its access, writes since a read, accesses
    bus,                            \* EMIF: the access the pins carry or are about to, or Nothing
    addr_fifo, wr_data_fifo, rd_data_fifo, addr_fifo_rd_en,
    cstate, handshake_wr,           \* converter: state; parts of the write accepted so far
    aw, w, ar, rready,              \* ... its AXI outputs, Nothing when not valid
    aw_slot, w_slot, ar_slot,       \* interconnect: what it accepted, Nothing
    served, rdata,                  \* ... the held write was made; the answer to the held read
    regs,                           \* the registers
    posted                          \* history: writes of the program that were not made yet

dsp == <<pc, op, burst, made>>
fifos == <<addr_fifo, wr_data_fifo, rd_data_fifo, addr_fifo_rd_en>>
axil == <<cstate, handshake_wr, aw, w, ar, rready>>
slots == <<aw_slot, w_slot, ar_slot, served, rdata>>
vars == <<dsp, bus, fifos, axil, slots, regs, posted>>

Nothing == [kind |-> "nothing"]
Writes == [kind : {"write"}, addr : Regs, data : Values]
Reads == [kind : {"read"}, addr : Regs]
Load == [kind |-> "load"]
Held(T) == [kind : {"held"}, item : T]
Hold(x) == [kind |-> "held", item |-> x]

Init ==
    /\ pc = "run" /\ op = Nothing /\ burst = 0 /\ made = 0 /\ bus = Nothing
    /\ addr_fifo = <<>> /\ wr_data_fifo = <<>> /\ rd_data_fifo = <<>> /\ addr_fifo_rd_en = FALSE
    /\ cstate = "IDLE" /\ handshake_wr = {} /\ rready = FALSE
    /\ aw = Nothing /\ w = Nothing /\ ar = Nothing
    /\ aw_slot = Nothing /\ w_slot = Nothing /\ ar_slot = Nothing
    /\ served = FALSE /\ rdata = Nothing
    /\ regs = [r \in Regs |-> 0] /\ posted = <<>>

-----------------------------------------------------------------------------
(* GPIO pins the DSP polls.                                                *)

full == Len(addr_fifo) = DEPTH
rd_fifo_empty == rd_data_fifo = <<>>

(* The DSP.                                                                *)

\* writeReg: wait until the request FIFO is not full, then store.
writeReg(a, v) ==
    /\ pc = "run" /\ made < ACCESSES /\ burst < BURST /\ ~full
    /\ op' = [kind |-> "write", addr |-> a, data |-> v]
    /\ pc' = "store" /\ burst' = burst + 1 /\ made' = made + 1
    /\ posted' = Append(posted, op')
    /\ UNCHANGED <<bus, fifos, axil, slots, regs>>

\* readReg as far as its store to the read window.
readReg(a) ==
    /\ pc = "run" /\ made < ACCESSES /\ ~full
    /\ op' = [kind |-> "read", addr |-> a]
    /\ pc' = "store" /\ burst' = 0 /\ made' = made + 1
    /\ UNCHANGED <<bus, fifos, axil, slots, regs, posted>>

\* The store leaves the DSP when the one before it has reached the pins.
Store ==
    /\ pc = "store" /\ bus = Nothing
    /\ bus' = op
    /\ pc' = (IF op.kind = "read" THEN "await" ELSE "run")
    /\ UNCHANGED <<op, burst, made, fifos, axil, slots, regs, posted>>

\* The poll of the pin, and the load, which follows the stores.
Await ==
    /\ pc = "await" /\ bus = Nothing /\ ~rd_fifo_empty
    /\ bus' = Load /\ pc' = "load"
    /\ UNCHANGED <<op, burst, made, fifos, axil, slots, regs, posted>>

-----------------------------------------------------------------------------
(* The converter's wires.                                                  *)

addr_fifo_valid == addr_fifo # <<>>
wr_data_fifo_valid == wr_data_fifo # <<>>
addr_fifo_wr_en(pins) == pins.kind \in {"write", "read"}

\* Mutant: the data of a store to the read window are kept, too.
wr_data_fifo_wr_enAll(pins) == addr_fifo_wr_en(pins)

wr_data_fifo_wr_en(pins) == pins.kind = "write"
rd_fifo_rd_en(pins) == pins.kind = "load"

\* Mutant: the converter goes on when the address was accepted.
wr_doneAddress == "aw" \in handshake_wr

wr_done == handshake_wr = {"aw", "w"}

handshake_aw(awready) == aw # Nothing /\ awready
handshake_w(wready) == w # Nothing /\ wready
handshake_ar(arready) == ar # Nothing /\ arready
handshake_r == rdata # Nothing /\ rready

nstate(arready) ==
    CASE cstate = "IDLE" /\ addr_fifo_valid ->
             IF Head(addr_fifo).kind = "read" THEN "READ" ELSE "WRITE"
      [] cstate = "WRITE" /\ wr_done -> "IDLE"
      [] cstate = "READ" /\ handshake_ar(arready) -> "WAITRD"
      [] cstate = "WAITRD" /\ handshake_r -> "IDLE"
      [] OTHER -> cstate

Enters(s, arready) == cstate = "IDLE" /\ nstate(arready) = s

-----------------------------------------------------------------------------
(* The converter's registers.                                              *)

\* Mutant: what is accepted before the request was looked at is not recorded.
WriteChannelsForget(awready, wready, arready) ==
    /\ handshake_wr' =
           IF wr_done \/ cstate # "WRITE" THEN {}
           ELSE handshake_wr \cup {p \in {"aw"} : handshake_aw(awready)}
                             \cup {p \in {"w"} : handshake_w(wready)}
    /\ aw' = IF Enters("WRITE", arready) THEN Hold(Head(addr_fifo).addr)
             ELSE IF handshake_aw(awready) THEN Nothing ELSE aw
    /\ w' = IF handshake_w(wready) THEN Nothing
            ELSE IF /\ Enters("WRITE", arready) \/ cstate = "WRITE"
                    /\ wr_data_fifo_valid
                 THEN Hold(Head(wr_data_fifo)) ELSE w

WriteChannels(awready, wready, arready) ==
    /\ handshake_wr' =
           IF wr_done THEN {}
           ELSE handshake_wr \cup {p \in {"aw"} : handshake_aw(awready)}
                             \cup {p \in {"w"} : handshake_w(wready)}
    /\ aw' = IF Enters("WRITE", arready) THEN Hold(Head(addr_fifo).addr)
             ELSE IF handshake_aw(awready) THEN Nothing ELSE aw
    /\ w' = IF handshake_w(wready) THEN Nothing
            ELSE IF /\ Enters("WRITE", arready) \/ cstate = "WRITE"
                    /\ wr_data_fifo_valid
                 THEN Hold(Head(wr_data_fifo)) ELSE w

ReadChannels(arready) ==
    /\ ar' = IF Enters("READ", arready) THEN Hold(Head(addr_fifo).addr)
             ELSE IF handshake_ar(arready) THEN Nothing ELSE ar
    /\ rready' = IF cstate = "READ" /\ handshake_ar(arready) /\ Len(rd_data_fifo) < DEPTH THEN TRUE
                 ELSE IF handshake_r THEN FALSE ELSE rready

\* A FIFO after a cycle in which it was asked to pop and to push x.  The
\* first word of each can be seen before it is popped; a push into a full
\* FIFO and a pop of an empty one do nothing.
After(fifo, pop, push, x) ==
    (IF pop /\ fifo # <<>> THEN Tail(fifo) ELSE fifo)
        \o (IF push /\ Len(fifo) < DEPTH THEN <<x>> ELSE <<>>)

Fifos(pins, wready) ==
    /\ addr_fifo_rd_en' = (cstate = "IDLE" /\ addr_fifo_valid)
    /\ addr_fifo' = After(addr_fifo, addr_fifo_rd_en, addr_fifo_wr_en(pins), pins)
    /\ wr_data_fifo' = After(wr_data_fifo, handshake_w(wready), wr_data_fifo_wr_en(pins),
                             IF pins.kind = "write" THEN pins.data ELSE 0)
    /\ rd_data_fifo' = After(rd_data_fifo, rd_fifo_rd_en(pins), handshake_r, rdata)

-----------------------------------------------------------------------------
(* The interconnect: each channel holds one item and is free again a cycle *)
(* after the write, or the answer, was made.  Writes that are held whole   *)
(* are made before a read that is held.                                    *)

Interconnect(awready, wready, arready) ==
    /\ awready => aw_slot = Nothing
    /\ wready => w_slot = Nothing
    /\ arready => ar_slot = Nothing
    /\ aw_slot' = IF served THEN Nothing ELSE IF handshake_aw(awready) THEN aw ELSE aw_slot
    /\ w_slot' = IF served THEN Nothing ELSE IF handshake_w(wready) THEN w ELSE w_slot
    /\ ar_slot' = IF handshake_r THEN Nothing ELSE IF handshake_ar(arready) THEN ar ELSE ar_slot
    /\ rdata' = IF handshake_r THEN Nothing ELSE rdata
    /\ served' = FALSE

MakeWrite ==
    /\ aw_slot # Nothing /\ w_slot # Nothing /\ ~served
    /\ regs' = [regs EXCEPT ![aw_slot.item] = w_slot.item]
    /\ served' = TRUE
    /\ posted' = Tail(posted)
    /\ UNCHANGED <<dsp, bus, fifos, axil, aw_slot, w_slot, ar_slot, rdata>>

MakeRead ==
    /\ ar_slot # Nothing /\ rdata = Nothing
    /\ served \/ aw_slot = Nothing \/ w_slot = Nothing
    /\ rdata' = Hold(regs[ar_slot.item])
    /\ UNCHANGED <<dsp, bus, fifos, axil, aw_slot, w_slot, ar_slot, served, regs, posted>>

-----------------------------------------------------------------------------
\* A cycle of eclk in which the pins carry an access, or Nothing.  The load
\* ends readReg.
Cycle(pins, awready, wready, arready) ==
    /\ bus' = (IF pins = bus THEN Nothing ELSE bus)
    /\ pc' = (IF pins = Load THEN "run" ELSE pc)
    /\ cstate' = nstate(arready)
    /\ WriteChannels(awready, wready, arready)
    /\ ReadChannels(arready)
    /\ Fifos(pins, wready)
    /\ Interconnect(awready, wready, arready)
    /\ UNCHANGED <<op, burst, made, regs, posted>>

Dsp ==
    \/ \E a \in Regs : readReg(a) \/ \E v \in Values : writeReg(a, v)
    \/ Store
    \/ Await

Clock ==
    \E pins \in {Nothing, bus}, awready, wready, arready \in BOOLEAN :
        Cycle(pins, awready, wready, arready)

Next == Dsp \/ Clock \/ MakeWrite \/ MakeRead

Spec == Init /\ [][Next]_vars

\* The DSP goes on with what it has begun, the pins carry an access some
\* time, and the interconnect accepts what is offered and makes it.
FairSpec ==
    /\ Spec
    /\ WF_vars(Store) /\ WF_vars(Await)
    /\ WF_vars(MakeWrite) /\ WF_vars(MakeRead)
    /\ WF_vars(Clock)
    /\ WF_vars(bus # Nothing /\ \E awready, wready, arready \in BOOLEAN :
                                    Cycle(bus, awready, wready, arready))
    /\ WF_vars(aw # Nothing /\ \E pins \in {Nothing, bus}, wready, arready \in BOOLEAN :
                                   Cycle(pins, TRUE, wready, arready))
    /\ WF_vars(w # Nothing /\ \E pins \in {Nothing, bus}, awready, arready \in BOOLEAN :
                                  Cycle(pins, awready, TRUE, arready))
    /\ WF_vars(ar # Nothing /\ \E pins \in {Nothing, bus}, awready, wready \in BOOLEAN :
                                   Cycle(pins, awready, wready, TRUE))

-----------------------------------------------------------------------------
(* Properties.                                                             *)

\* Types.  At most one answer is ever on its way (readReg waits for it), so
\* the read FIFO holds one word at most.
TypeOK ==
    /\ pc \in {"run", "store", "await", "load"}
    /\ op \in Writes \cup Reads \cup {Nothing} /\ bus \in Writes \cup Reads \cup {Load, Nothing}
    /\ burst \in 0..BURST /\ made \in 0..ACCESSES
    /\ addr_fifo \in Seq(Writes \cup Reads) /\ Len(addr_fifo) <= DEPTH
    /\ wr_data_fifo \in Seq(Values) /\ Len(wr_data_fifo) <= DEPTH
    /\ rd_data_fifo \in Seq(Held(Values)) /\ Len(rd_data_fifo) <= 1
    /\ addr_fifo_rd_en \in BOOLEAN /\ rready \in BOOLEAN /\ served \in BOOLEAN
    /\ cstate \in {"IDLE", "WRITE", "READ", "WAITRD"} /\ handshake_wr \subseteq {"aw", "w"}
    /\ {aw, ar, aw_slot, ar_slot} \subseteq Held(Regs) \cup {Nothing}
    /\ {w, w_slot, rdata} \subseteq Held(Values) \cup {Nothing}
    /\ regs \in [Regs -> Values] /\ posted \in Seq(Writes)

\* Addresses and data travel through FIFOs and channels of their own, and
\* data of a later write may overtake its address.  Still each write that is
\* about to be made is the oldest one the program posted, with the data it
\* posted: nothing is lost, repeated, swapped or paired wrongly
\* (emif2axil.v:113-136, 236-283).
WritesKeepTheirData ==
    aw_slot # Nothing /\ w_slot # Nothing /\ ~served =>
        /\ posted # <<>>
        /\ Head(posted).addr = aw_slot.item
        /\ Head(posted).data = w_slot.item

\* What the program last wrote to a, or found there.
LastWritten(a) ==
    LET written == {i \in DOMAIN posted : posted[i].addr = a}
        last == CHOOSE i \in written : \A j \in written : j <= i
    IN IF written = {} THEN regs[a] ELSE posted[last].data

\* When readReg loads, the read FIFO holds the answer to this read and no
\* other, and the answer takes every earlier write of the program into
\* account although writes are posted (Emif2Axil.h:36-46).
ReadGetsItsOwnAnswer ==
    pc = "load" => rd_data_fifo = <<Hold(LastWritten(op.addr))>>

\* Every posted write is made and every readReg returns.  A part of a write
\* accepted in the cycle in which the record of the last write is cleared
\* would be forgotten and the converter would wait for it for ever
\* (emif2axil.v:214-232).
EveryAccessEnds ==
    /\ posted # <<>> ~> posted = <<>>
    /\ pc = "await" ~> pc = "run"
================================================================================
