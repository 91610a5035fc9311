---------------------------- MODULE Emif2Axil_proof ----------------------------
(***************************************************************************)
(* Proofs about the converter of Emif2Axil: whatever the depth of its      *)
(* FIFOs and the interleaving of the DSP, the converter and the            *)
(* interconnect, each posted write is made in order with its own data, and *)
(* a read finds its own answer.                                            *)
(***************************************************************************)
EXTENDS Emif2Axil, SequenceTheorems, TLAPS

-----------------------------------------------------------------------------
(* The invariant.                                                          *)

One(P) == IF P THEN 1 ELSE 0

\* Of the posted writes, oldest first: those whose address left the request
\* FIFO, and those whose data left the data FIFO; the youngest are on the
\* pins and with the DSP.
Taken == One(aw_slot # Nothing /\ ~served) + One(aw # Nothing)
Given == One(w_slot # Nothing /\ ~served)
OnBus == One(bus.kind = "write")
InOp == One(pc = "store" /\ op.kind = "write")

\* The request of a read waits in the FIFO: it is the last one there.
ReadWaits ==
    /\ pc = "await" /\ bus = Nothing /\ rd_data_fifo = <<>>
    /\ cstate \in {"IDLE", "WRITE"}

Popped == One(addr_fifo_rd_en)
Queued == Len(addr_fifo) - Popped - One(ReadWaits)

Typing ==
    /\ pc \in {"run", "store", "await", "load"}
    /\ op \in Writes \cup Reads \cup {Nothing} /\ bus \in Writes \cup Reads \cup {Load, Nothing}
    /\ burst \in 0..BURST /\ made \in 0..ACCESSES
    /\ addr_fifo \in Seq(Writes \cup Reads)
    /\ wr_data_fifo \in Seq(Values)
    /\ rd_data_fifo \in Seq(Held(Values))
    /\ addr_fifo_rd_en \in BOOLEAN /\ rready \in BOOLEAN /\ served \in BOOLEAN
    /\ cstate \in {"IDLE", "WRITE", "READ", "WAITRD"} /\ handshake_wr \subseteq {"aw", "w"}
    /\ {aw, ar, aw_slot, ar_slot} \subseteq Held(Regs) \cup {Nothing}
    /\ {w, w_slot, rdata} \subseteq Held(Values) \cup {Nothing}
    /\ regs \in [Regs -> Values] /\ posted \in Seq(Writes)

\* What the DSP is doing, and what the pins carry.
DspInv ==
    /\ pc = "store" => op.kind \in {"write", "read"}
    /\ pc \in {"await", "load"} => op.kind = "read"
    /\ bus.kind = "read" => pc = "await" /\ bus = op
    /\ bus.kind = "write" => pc \in {"run", "store"}
    /\ bus.kind = "load" <=> pc = "load"

\* The channels of a write, and the record of which of them were accepted.
HandshakeInv ==
    /\ served => aw_slot # Nothing /\ w_slot # Nothing
    /\ ("aw" \in handshake_wr <=> "w" \in handshake_wr)
           => (aw_slot # Nothing <=> w_slot # Nothing)
    /\ "aw" \in handshake_wr => aw_slot # Nothing /\ cstate = "WRITE"
    /\ "w" \in handshake_wr => w_slot # Nothing
    /\ "aw" \in handshake_wr /\ "w" \notin handshake_wr => w_slot = Nothing
    /\ "w" \in handshake_wr /\ "aw" \notin handshake_wr => aw_slot = Nothing
    /\ aw # Nothing <=> cstate = "WRITE" /\ "aw" \notin handshake_wr
    /\ w # Nothing => wr_data_fifo # <<>> /\ w = Hold(Head(wr_data_fifo))
    /\ addr_fifo_rd_en => cstate \in {"WRITE", "READ"} /\ addr_fifo # <<>>

\* The addresses of the posted writes, in order.
AddressInv ==
    /\ Queued >= 0
    /\ Taken + Queued + OnBus + InOp = Len(posted)
    /\ \A i \in 1 .. Queued : addr_fifo[Popped + i] = posted[Taken + i]
    /\ ReadWaits => addr_fifo[Len(addr_fifo)] = op
    /\ bus.kind = "write" => bus = posted[Len(posted) - InOp]
    /\ pc = "store" /\ op.kind = "write" => op = posted[Len(posted)]
    /\ aw_slot # Nothing /\ ~served => aw_slot.item = posted[1].addr
    /\ aw # Nothing => aw.item = posted[Taken].addr

\* The data of the posted writes, in order.
DataInv ==
    /\ Given + Len(wr_data_fifo) + OnBus + InOp = Len(posted)
    /\ \A i \in 1 .. Len(wr_data_fifo) : wr_data_fifo[i] = posted[Given + i].data
    /\ w_slot # Nothing /\ ~served => w_slot.item = posted[1].data

\* A read goes on alone: by then every write before it was accepted.
ReadInv ==
    /\ cstate \in {"READ", "WAITRD"} => pc = "await" /\ bus = Nothing /\ rd_data_fifo = <<>>
    /\ cstate = "READ" => Len(addr_fifo) = Popped
    /\ cstate = "WAITRD" => addr_fifo = <<>>
    /\ ar = (IF cstate = "READ" THEN Hold(op.addr) ELSE Nothing)
    /\ ar_slot = (IF cstate = "WAITRD" THEN Hold(op.addr) ELSE Nothing)
    /\ rready = (cstate = "WAITRD")
    /\ rdata # Nothing => cstate = "WAITRD" /\ posted = <<>> /\ rdata = Hold(regs[op.addr])
    /\ rd_data_fifo # <<>> =>
           /\ pc = "load" \/ (pc = "await" /\ bus = Nothing)
           /\ cstate = "IDLE" /\ addr_fifo = <<>> /\ posted = <<>>
           /\ rd_data_fifo = <<Hold(regs[op.addr])>>
    /\ pc = "load" => rd_data_fifo # <<>>

\* No FIFO overflows: writes are counted, and a read empties both FIFOs.
\* pending: the writes in them, or more.
RoomInv ==
    /\ Len(addr_fifo) + OnBus + InOp <=
           (IF pc = "run" \/ InOp = 1 THEN burst
            ELSE BURST + One(pc = "await" /\ bus = Nothing))
    /\ Len(wr_data_fifo) + OnBus + InOp <=
           (IF pc = "run" \/ InOp = 1 THEN burst ELSE BURST)

IInv ==
    /\ Typing /\ DspInv /\ HandshakeInv /\ AddressInv
    /\ DataInv /\ ReadInv /\ RoomInv

USE EmifAssumption DEF EmifAssumption

-----------------------------------------------------------------------------
(* Records, FIFOs and the next state.                                      *)

\* An item held, Nothing, a load and the requests can be told apart.
LEMMA KindFacts ==
    /\ \A x : Hold(x) # Nothing /\ Hold(x).item = x
    /\ Nothing.kind = "nothing" /\ Load.kind = "load"
    /\ \A x \in Writes : x.kind = "write" /\ x.addr \in Regs /\ x.data \in Values
    /\ \A x \in Reads : x.kind = "read" /\ x.addr \in Regs
    /\ \A T, x : x \in Held(T) => x.item \in T /\ x = Hold(x.item) /\ x # Nothing
    /\ \A T, x : x \in T => Hold(x) \in Held(T)
BY DEF Hold, Nothing, Load, Writes, Reads, Held

\* A FIFO after a cycle in which it lost its first e words and got n words x,
\* e and n at most 1.
Moved(fifo, e, n, x) ==
    (IF e = 1 THEN Tail(fifo) ELSE fifo) \o (IF n = 1 THEN <<x>> ELSE <<>>)

LEMMA MovedFacts ==
    ASSUME NEW S, NEW fifo \in Seq(S), NEW e \in Int, NEW n \in Int, NEW x,
           e \in 0 .. 1, n \in 0 .. 1, e = 1 => fifo # <<>>, n = 1 => x \in S
    PROVE  /\ Moved(fifo, e, n, x) \in Seq(S)
           /\ Len(Moved(fifo, e, n, x)) = Len(fifo) - e + n
           /\ \A i \in 1 .. Len(fifo) - e : Moved(fifo, e, n, x)[i] = fifo[e + i]
           /\ n = 1 => Moved(fifo, e, n, x)[Len(Moved(fifo, e, n, x))] = x
<1> DEFINE t == IF e = 1 THEN Tail(fifo) ELSE fifo
           p == IF n = 1 THEN <<x>> ELSE <<>>
           r == t \o p
<1>0. r = Moved(fifo, e, n, x)
  BY DEF Moved
<1>1. /\ t \in Seq(S) /\ Len(t) = Len(fifo) - e /\ Len(t) \in Nat
      /\ \A i \in 1 .. Len(fifo) - e : t[i] = fifo[e + i]
  <2>1. CASE e = 1
    <3>1. /\ Tail(fifo) \in Seq(S) /\ Len(Tail(fifo)) = Len(fifo) - 1
          /\ \A i \in 1 .. Len(Tail(fifo)) : Tail(fifo)[i] = fifo[i + 1]
          /\ Len(fifo) \in Nat
      BY <2>1, HeadTailProperties, LenProperties
    <3>2. Len(Tail(fifo)) \in Nat
      BY <3>1, LenProperties
    <3>3. \A i \in 1 .. Len(fifo) - 1 : Tail(fifo)[i] = fifo[1 + i]
      BY <3>1
    <3> QED BY <2>1, <3>1, <3>2, <3>3
  <2>2. CASE e = 0
    BY <2>2, LenProperties
  <2> QED BY <2>1, <2>2
<1>2. /\ p \in Seq(S) /\ Len(p) = n
      /\ n = 1 => p[1] = x
      /\ n = 0 => p = <<>>
  <2>1. CASE n = 1
    <3>1. x \in S /\ p = <<x>>
      BY <2>1
    <3>2. <<x>> \in Seq(S) /\ Len(<<x>>) = 1 /\ <<x>>[1] = x
      BY <3>1
    <3> QED BY <2>1, <3>1, <3>2
  <2>2. CASE n = 0
    BY <2>2, EmptySeq
  <2> QED BY <2>1, <2>2
<1> HIDE DEF t, p
<1>4. /\ r \in Seq(S) /\ Len(r) = Len(t) + Len(p)
      /\ \A i \in 1 .. Len(t) + Len(p) : r[i] = IF i <= Len(t) THEN t[i] ELSE p[i - Len(t)]
      /\ n = 0 => r = t
  <2>1. t \in Seq(S)
    BY <1>1
  <2>2. p \in Seq(S)
    BY <1>2
  <2>3. n = 0 => t \o p = t
    BY <2>1, <1>2, ConcatEmptySeq
  <2>4. /\ t \o p \in Seq(S) /\ Len(t \o p) = Len(t) + Len(p)
        /\ \A i \in 1 .. Len(t) + Len(p) :
              (t \o p)[i] = IF i <= Len(t) THEN t[i] ELSE p[i - Len(t)]
    BY <2>1, <2>2, ConcatProperties
  <2> QED BY <2>3, <2>4
<1> HIDE DEF r
<1>5. \A i \in 1 .. Len(fifo) - e : r[i] = fifo[e + i]
  <2>1. \A i \in 1 .. Len(t) : i \in 1 .. Len(t) + Len(p) /\ i <= Len(t)
    <3>1. Len(t) \in Nat /\ Len(p) \in Nat
      BY <1>1, <1>2
    <3> QED BY <3>1
  <2>2. \A i \in 1 .. Len(t) : r[i] = t[i]
    BY <2>1, <1>4
  <2> QED BY <2>2, <1>1
<1>6. n = 1 => r[Len(r)] = x
  <2> SUFFICES ASSUME n = 1 PROVE r[Len(r)] = x
    OBVIOUS
  <2>1. /\ Len(r) = Len(t) + 1 /\ Len(r) \in 1 .. Len(t) + Len(p) /\ ~(Len(r) <= Len(t))
        /\ Len(r) - Len(t) = 1
    BY <1>1, <1>2, <1>4
  <2>2. r[Len(r)] = p[Len(r) - Len(t)]
    BY <2>1, <1>4
  <2> QED BY <2>1, <2>2, <1>2
<1> QED BY <1>0, <1>1, <1>2, <1>4, <1>5, <1>6

\* The converter's next state, one case per line of emif2axil.v.
LEMMA NextState ==
    ASSUME cstate \in {"IDLE", "WRITE", "READ", "WAITRD"}, NEW arready \in BOOLEAN
    PROVE  /\ cstate = "IDLE" /\ addr_fifo = <<>> => nstate(arready) = "IDLE"
           /\ cstate = "IDLE" /\ addr_fifo # <<>> =>
                  nstate(arready) = (IF Head(addr_fifo).kind = "read" THEN "READ" ELSE "WRITE")
           /\ cstate = "WRITE" => nstate(arready) = (IF wr_done THEN "IDLE" ELSE "WRITE")
           /\ cstate = "READ" =>
                  nstate(arready) = (IF handshake_ar(arready) THEN "WAITRD" ELSE "READ")
           /\ cstate = "WAITRD" => nstate(arready) = (IF handshake_r THEN "IDLE" ELSE "WAITRD")
BY DEF nstate, addr_fifo_valid

\* The counts of the invariant are numbers.
LEMMA Counts ==
    ASSUME Typing
    PROVE  /\ Taken \in 0 .. 2 /\ Given \in 0 .. 1 /\ OnBus \in 0 .. 1 /\ InOp \in 0 .. 1
           /\ Popped \in 0 .. 1 /\ Queued \in Int
           /\ Len(addr_fifo) \in Nat /\ Len(wr_data_fifo) \in Nat /\ Len(posted) \in Nat
BY DEF Typing, Taken, Given, OnBus, InOp, Popped, Queued, One

-----------------------------------------------------------------------------
(* The steps, one lemma each.                                              *)

LEMMA InitIInv == Init => IInv
<1> SUFFICES ASSUME Init PROVE IInv
  OBVIOUS
<1> USE DEF Init
<1>1. Typing
  <2>1. regs \in [Regs -> Values]
    OBVIOUS
  <2>2. /\ addr_fifo \in Seq(Writes \cup Reads) /\ wr_data_fifo \in Seq(Values)
        /\ rd_data_fifo \in Seq(Held(Values)) /\ posted \in Seq(Writes)
    BY EmptySeq
  <2>3. burst \in 0 .. BURST /\ made \in 0 .. ACCESSES
    OBVIOUS
  <2>4. /\ {aw, ar, aw_slot, ar_slot} \subseteq Held(Regs) \cup {Nothing}
        /\ {w, w_slot, rdata} \subseteq Held(Values) \cup {Nothing}
    OBVIOUS
  <2> QED BY <2>1, <2>2, <2>3, <2>4 DEF Typing
<1>2. Len(addr_fifo) = 0 /\ Len(wr_data_fifo) = 0 /\ Len(posted) = 0
  BY EmptySeq
<1>3. Taken = 0 /\ Given = 0 /\ OnBus = 0 /\ InOp = 0 /\ Popped = 0 /\ Queued = 0
  BY <1>2, KindFacts DEF Taken, Given, OnBus, InOp, Popped, Queued, One, ReadWaits
<1>4. DspInv /\ HandshakeInv
  BY KindFacts DEF DspInv, HandshakeInv
<1>5. AddressInv /\ DataInv
  BY <1>2, <1>3, KindFacts DEF AddressInv, DataInv, ReadWaits
<1>6. ReadInv
  BY DEF ReadInv
<1>7. RoomInv
  BY <1>2, <1>3 DEF RoomInv
<1> QED BY <1>1, <1>4, <1>5, <1>6, <1>7 DEF IInv

\* readReg asks only when its writes left room for the request.
LEMMA readRegStep ==
    ASSUME IInv, NEW a \in Regs, readReg(a)
    PROVE  IInv'
<1> USE DEF readReg
<1>a. Typing /\ Typing'
  <2>1. Typing
    BY DEF IInv
  <2>2. op' \in Reads /\ made' \in 0 .. ACCESSES /\ burst' \in 0 .. BURST
    BY <2>1 DEF Reads, Typing
  <2> QED BY <2>1, <2>2 DEF Typing, fifos, axil, slots
<1>b. /\ pc = "run" /\ pc' = "store" /\ op'.kind = "read" /\ burst' = 0
      /\ UNCHANGED <<bus, addr_fifo, wr_data_fifo, rd_data_fifo, addr_fifo_rd_en, cstate,
                     handshake_wr, aw, w, ar, rready, aw_slot, w_slot, ar_slot, served, rdata,
                     regs, posted>>
  BY DEF fifos, axil, slots
<1>c. /\ Taken' = Taken /\ Given' = Given /\ OnBus' = OnBus /\ InOp = 0 /\ InOp' = 0
      /\ Popped' = Popped /\ Queued' = Queued /\ ~ReadWaits /\ ~ReadWaits'
  BY <1>b DEF Taken, Given, OnBus, InOp, Popped, Queued, One, ReadWaits
<1>d. /\ rd_data_fifo = <<>> /\ cstate \notin {"READ", "WAITRD"}
      /\ bus.kind # "load" /\ bus.kind # "read"
  BY <1>b DEF IInv, ReadInv, DspInv
<1>1. DspInv'
  BY <1>b, <1>d DEF IInv, DspInv
<1>2. HandshakeInv'
  BY <1>b DEF IInv, HandshakeInv
<1>3. AddressInv'
  BY <1>b, <1>c DEF IInv, AddressInv
<1>4. DataInv'
  BY <1>b, <1>c DEF IInv, DataInv
<1>5. ReadInv'
  BY <1>b, <1>c, <1>d DEF IInv, ReadInv
<1>6. RoomInv'
  <2>1. burst <= BURST /\ burst \in Nat
    BY <1>a DEF Typing
  <2> QED BY <1>a, <1>b, <1>c, <2>1, Counts DEF IInv, RoomInv, One
<1> QED BY <1>a, <1>1, <1>2, <1>3, <1>4, <1>5, <1>6 DEF IInv

\* A write joins the youngest end of the posted ones.
LEMMA writeRegStep ==
    ASSUME IInv, NEW a \in Regs, NEW v \in Values, writeReg(a, v)
    PROVE  IInv'
<1> USE DEF writeReg
<1>0. Typing
  BY DEF IInv
<1>b. /\ pc = "run" /\ pc' = "store" /\ op' \in Writes /\ op'.kind = "write"
      /\ burst' = burst + 1 /\ burst < BURST
      /\ posted' = Append(posted, op')
      /\ UNCHANGED <<bus, addr_fifo, wr_data_fifo, rd_data_fifo, addr_fifo_rd_en, cstate,
                     handshake_wr, aw, w, ar, rready, aw_slot, w_slot, ar_slot, served, rdata,
                     regs>>
  BY DEF fifos, axil, slots, Writes
<1>e. /\ posted' \in Seq(Writes) /\ Len(posted') = Len(posted) + 1 /\ Len(posted) \in Nat
      /\ \A i \in 1 .. Len(posted) : posted'[i] = posted[i]
      /\ posted'[Len(posted')] = op'
  <2>1. posted \in Seq(Writes) /\ op' \in Writes
    BY <1>0, <1>b DEF Typing
  <2> QED BY <2>1, <1>b, AppendProperties, LenProperties
<1>a. Typing'
  <2>2. made' \in 0 .. ACCESSES /\ burst' \in 0 .. BURST
    BY <1>0 DEF Typing
  <2> QED BY <1>0, <1>b, <1>e, <2>2 DEF Typing
<1>c. /\ Taken' = Taken /\ Given' = Given /\ OnBus' = OnBus /\ InOp = 0 /\ InOp' = 1
      /\ Popped' = Popped /\ Queued' = Queued /\ ~ReadWaits /\ ~ReadWaits'
  BY <1>b DEF Taken, Given, OnBus, InOp, Popped, Queued, One, ReadWaits
<1>d. /\ rd_data_fifo = <<>> /\ cstate \notin {"READ", "WAITRD"} /\ rdata = Nothing
      /\ bus.kind # "load" /\ bus.kind # "read"
  BY <1>b DEF IInv, ReadInv, DspInv
<1>f. /\ Taken + Queued + OnBus = Len(posted) /\ Given + Len(wr_data_fifo) + OnBus = Len(posted)
      /\ Queued >= 0
  <2>1. /\ Taken + Queued + OnBus + InOp = Len(posted)
        /\ Given + Len(wr_data_fifo) + OnBus + InOp = Len(posted)
        /\ Queued >= 0
    BY DEF IInv, AddressInv, DataInv
  <2>2. /\ Taken + Queued + OnBus \in Int
        /\ Given + Len(wr_data_fifo) + OnBus \in Int
    BY <1>0, Counts
  <2> QED BY <2>1, <2>2, <1>c
<1>1. DspInv'
  BY <1>b, <1>d DEF IInv, DspInv
<1>2. HandshakeInv'
  BY <1>b DEF IInv, HandshakeInv
<1>3. AddressInv'
  <2>1. \A i \in 1 .. Queued : addr_fifo[Popped + i] = posted'[Taken + i]
    <3>1. \A i \in 1 .. Queued : Taken + i \in 1 .. Len(posted)
      <4>1. PICK k \in Int, q \in Int, n \in Int :
                k = Taken /\ q = Queued /\ n = Len(posted) /\ k >= 0 /\ k + q <= n
        BY <1>0, <1>f, Counts
      <4>2. \A i \in 1 .. q : k + i \in 1 .. n
        BY <4>1
      <4> QED BY <4>1, <4>2
    <3> QED BY <3>1, <1>e DEF IInv, AddressInv
  <2>2. bus.kind = "write" => bus = posted'[Len(posted') - 1]
    <3>1. OnBus = 1 => Len(posted) >= 1
      BY <1>0, <1>f, Counts
    <3> QED BY <3>1, <1>b, <1>c, <1>e DEF IInv, AddressInv, OnBus, One
  <2>3. aw_slot # Nothing /\ ~served => aw_slot.item = posted'[1].addr
    <3>1. aw_slot # Nothing /\ ~served => Taken >= 1
      BY DEF Taken, One
    <3>2. aw_slot # Nothing /\ ~served => Len(posted) >= 1
      BY <3>1, <1>0, <1>f, Counts
    <3> QED BY <3>2, <1>e DEF IInv, AddressInv
  <2>4. aw # Nothing => aw.item = posted'[Taken].addr
    <3>1. aw # Nothing => Taken >= 1
      BY DEF Taken, One
    <3>2. aw # Nothing => Taken \in 1 .. Len(posted)
      BY <3>1, <1>0, <1>f, Counts
    <3> QED BY <3>2, <1>e DEF IInv, AddressInv
  <2>5. Taken' + Queued' + OnBus' + InOp' = Len(posted')
    BY <1>0, <1>c, <1>e, <1>f, Counts
  <2> QED BY <2>1, <2>2, <2>3, <2>4, <2>5, <1>b, <1>c, <1>e, <1>f DEF AddressInv
<1>4. DataInv'
  <2>1. \A i \in 1 .. Len(wr_data_fifo) : wr_data_fifo[i] = posted'[Given + i].data
    <3>1. \A i \in 1 .. Len(wr_data_fifo) : Given + i \in 1 .. Len(posted)
      <4>1. PICK k \in Int, q \in Int, n \in Int :
                k = Given /\ q = Len(wr_data_fifo) /\ n = Len(posted) /\ k >= 0 /\ k + q <= n
        BY <1>0, <1>f, Counts
      <4>2. \A i \in 1 .. q : k + i \in 1 .. n
        BY <4>1
      <4> QED BY <4>1, <4>2
    <3> QED BY <3>1, <1>e DEF IInv, DataInv
  <2>2. w_slot # Nothing /\ ~served => w_slot.item = posted'[1].data
    <3>1. w_slot # Nothing /\ ~served => Given = 1
      BY DEF Given, One
    <3>2. w_slot # Nothing /\ ~served => Len(posted) >= 1
      BY <3>1, <1>0, <1>f, Counts
    <3> QED BY <3>2, <1>e DEF IInv, DataInv
  <2>3. Given' + Len(wr_data_fifo') + OnBus' + InOp' = Len(posted')
    BY <1>0, <1>b, <1>c, <1>e, <1>f, Counts
  <2> QED BY <2>1, <2>2, <2>3, <1>b, <1>c DEF DataInv
<1>5. ReadInv'
  BY <1>b, <1>c, <1>d DEF IInv, ReadInv
<1>6. RoomInv'
  <2>1. burst < BURST /\ burst \in Nat
    BY <1>0, <1>b DEF Typing
  <2> QED BY <1>0, <1>b, <1>c, <2>1, Counts DEF IInv, RoomInv, One
<1> QED BY <1>a, <1>1, <1>2, <1>3, <1>4, <1>5, <1>6 DEF IInv

\* The access the DSP has begun goes to the pins, the youngest one there.
LEMMA StoreStep ==
    ASSUME IInv, Store
    PROVE  IInv'
<1> USE DEF Store
<1>0. Typing
  BY DEF IInv
<1>b. /\ pc = "store" /\ pc' = (IF op.kind = "read" THEN "await" ELSE "run")
      /\ bus = Nothing /\ bus' = op
      /\ UNCHANGED <<op, burst, made, addr_fifo, wr_data_fifo, rd_data_fifo, addr_fifo_rd_en,
                     cstate, handshake_wr, aw, w, ar, rready, aw_slot, w_slot, ar_slot, served,
                     rdata, regs, posted>>
  BY DEF fifos, axil, slots
<1>o. op.kind \in {"write", "read"} /\ op # Nothing
  BY <1>0, <1>b, KindFacts DEF IInv, DspInv
<1>a. Typing'
  <2>1. bus' \in Writes \cup Reads \cup {Load, Nothing} /\ pc' \in {"run", "store", "await", "load"}
    BY <1>0, <1>b DEF Typing
  <2> QED BY <1>0, <1>b, <2>1 DEF Typing
<1>c. /\ Taken' = Taken /\ Given' = Given /\ OnBus = 0 /\ InOp' = 0
      /\ OnBus' = InOp /\ InOp = One(op.kind = "write")
      /\ Popped' = Popped /\ Queued' = Queued /\ ~ReadWaits /\ ~ReadWaits'
  BY <1>b, <1>o, KindFacts DEF Taken, Given, OnBus, InOp, Popped, Queued, One, ReadWaits
<1>d. /\ rd_data_fifo = <<>> /\ cstate \notin {"READ", "WAITRD"} /\ rdata = Nothing
  BY <1>b DEF IInv, ReadInv
<1>1. DspInv'
  BY <1>b, <1>o DEF IInv, DspInv
<1>2. HandshakeInv'
  BY <1>b DEF IInv, HandshakeInv
<1>3. AddressInv'
  <2>1. Taken' + Queued' + OnBus' + InOp' = Len(posted')
    BY <1>0, <1>b, <1>c, Counts DEF IInv, AddressInv
  <2>2. bus'.kind = "write" => bus' = posted'[Len(posted')]
    BY <1>b DEF IInv, AddressInv
  <2>3. Len(posted) - 0 = Len(posted)
    BY <1>0, Counts
  <2> QED BY <2>1, <2>2, <2>3, <1>b, <1>c DEF IInv, AddressInv
<1>4. DataInv'
  <2>1. Given' + Len(wr_data_fifo') + OnBus' + InOp' = Len(posted')
    BY <1>0, <1>b, <1>c, Counts DEF IInv, DataInv
  <2> QED BY <2>1, <1>b, <1>c DEF IInv, DataInv
<1>5. ReadInv'
  BY <1>b, <1>c, <1>d, <1>o DEF IInv, ReadInv
<1>6. RoomInv'
  BY <1>0, <1>b, <1>c, <1>o, Counts DEF IInv, RoomInv, One
<1> QED BY <1>a, <1>1, <1>2, <1>3, <1>4, <1>5, <1>6 DEF IInv

\* The load goes to the pins when the answer is there.
LEMMA AwaitStep ==
    ASSUME IInv, Await
    PROVE  IInv'
<1> USE DEF Await, rd_fifo_empty
<1>0. Typing
  BY DEF IInv
<1>b. /\ pc = "await" /\ pc' = "load"
      /\ bus = Nothing /\ bus' = Load /\ rd_data_fifo # <<>>
      /\ UNCHANGED <<op, burst, made, addr_fifo, wr_data_fifo, rd_data_fifo, addr_fifo_rd_en,
                     cstate, handshake_wr, aw, w, ar, rready, aw_slot, w_slot, ar_slot, served,
                     rdata, regs, posted>>
  BY DEF fifos, axil, slots
<1>a. Typing'
  BY <1>0, <1>b DEF Typing
<1>c. /\ Taken' = Taken /\ Given' = Given /\ OnBus = 0 /\ OnBus' = 0 /\ InOp = 0 /\ InOp' = 0
      /\ Popped' = Popped /\ Queued' = Queued /\ ~ReadWaits /\ ~ReadWaits'
  BY <1>b, KindFacts DEF Taken, Given, OnBus, InOp, Popped, Queued, One, ReadWaits
<1>d. /\ cstate = "IDLE" /\ addr_fifo = <<>> /\ posted = <<>> /\ Len(addr_fifo) = 0
  BY <1>b, EmptySeq DEF IInv, ReadInv
<1>1. DspInv'
  BY <1>b, KindFacts DEF IInv, DspInv
<1>2. HandshakeInv'
  BY <1>b DEF IInv, HandshakeInv
<1>3. AddressInv'
  BY <1>b, <1>c, KindFacts DEF IInv, AddressInv
<1>4. DataInv'
  BY <1>b, <1>c DEF IInv, DataInv
<1>5. ReadInv'
  BY <1>b, <1>c, <1>d DEF IInv, ReadInv
<1>6. RoomInv'
  BY <1>0, <1>b, <1>c, <1>d, Counts DEF IInv, RoomInv, One
<1> QED BY <1>a, <1>1, <1>2, <1>3, <1>4, <1>5, <1>6 DEF IInv

\* The write whose address and data are held is the oldest one posted, so
\* that the rest stays in place when it is made.
LEMMA MakeWriteStep ==
    ASSUME IInv, MakeWrite
    PROVE  IInv'
<1> USE DEF MakeWrite
<1>0. Typing
  BY DEF IInv
<1>b. /\ aw_slot # Nothing /\ w_slot # Nothing /\ ~served /\ served' = TRUE
      /\ regs' = [regs EXCEPT ![aw_slot.item] = w_slot.item]
      /\ posted' = Tail(posted)
      /\ UNCHANGED <<pc, op, burst, made, bus, addr_fifo, wr_data_fifo, rd_data_fifo,
                     addr_fifo_rd_en, cstate, handshake_wr, aw, w, ar, rready, aw_slot, w_slot,
                     ar_slot, rdata>>
  BY DEF dsp, fifos, axil
<1>c. /\ Taken >= 1 /\ Taken' = Taken - 1 /\ Given = 1 /\ Given' = 0
      /\ OnBus' = OnBus /\ InOp' = InOp
      /\ Popped' = Popped /\ Queued' = Queued /\ ReadWaits' = ReadWaits
  BY <1>b DEF Taken, Given, OnBus, InOp, Popped, Queued, One, ReadWaits
<1>p. /\ posted # <<>> /\ Len(posted) >= 1
  <2>1. Len(posted) >= 1
    BY <1>0, <1>c, Counts DEF IInv, DataInv
  <2> QED BY <2>1, EmptySeq
<1>e. /\ posted' \in Seq(Writes) /\ Len(posted') = Len(posted) - 1 /\ Len(posted) \in Nat
      /\ \A i \in 1 .. Len(posted) - 1 : posted'[i] = posted[i + 1]
  <2>1. posted \in Seq(Writes)
    BY <1>0 DEF Typing
  <2> QED BY <2>1, <1>b, <1>p, HeadTailProperties, LenProperties
<1>a. Typing'
  <2>1. aw_slot.item \in Regs /\ w_slot.item \in Values
    BY <1>0, <1>b, KindFacts DEF Typing
  <2>2. regs' \in [Regs -> Values]
    BY <1>0, <1>b, <2>1 DEF Typing
  <2> QED BY <1>0, <1>b, <1>e, <2>2 DEF Typing
<1>f. /\ Taken + Queued + OnBus + InOp = Len(posted)
      /\ Given + Len(wr_data_fifo) + OnBus + InOp = Len(posted)
      /\ Queued >= 0
  BY DEF IInv, AddressInv, DataInv
<1>d. /\ rd_data_fifo = <<>> /\ rdata = Nothing
  BY <1>p DEF IInv, ReadInv
<1>1. DspInv'
  BY <1>b DEF IInv, DspInv
<1>2. HandshakeInv'
  BY <1>b DEF IInv, HandshakeInv
<1>3. AddressInv'
  <2>1. \A i \in 1 .. Queued : addr_fifo[Popped + i] = posted'[(Taken - 1) + i]
    <3>1. \A i \in 1 .. Queued : (Taken - 1) + i \in 1 .. Len(posted) - 1
                                 /\ ((Taken - 1) + i) + 1 = Taken + i
      <4>1. PICK k \in Int, q \in Int, n \in Int :
                k = Taken /\ q = Queued /\ n = Len(posted) /\ k >= 1 /\ k + q <= n
        BY <1>0, <1>c, <1>f, Counts
      <4>2. \A i \in 1 .. q : (k - 1) + i \in 1 .. n - 1 /\ ((k - 1) + i) + 1 = k + i
        BY <4>1
      <4> QED BY <4>1, <4>2
    <3>2. \A i \in 1 .. Queued : posted'[(Taken - 1) + i] = posted[Taken + i]
      BY <3>1, <1>e
    <3> QED BY <3>2 DEF IInv, AddressInv
  <2>2. bus.kind = "write" => bus = posted'[Len(posted') - InOp]
    <3>1. OnBus = 1 => Len(posted') - InOp \in 1 .. Len(posted) - 1
                       /\ (Len(posted') - InOp) + 1 = Len(posted) - InOp
      BY <1>0, <1>c, <1>e, <1>f, Counts
    <3> QED BY <3>1, <1>e DEF IInv, AddressInv, OnBus, One
  <2>3. pc = "store" /\ op.kind = "write" => op = posted'[Len(posted')]
    <3>1. InOp = 1 => Len(posted') \in 1 .. Len(posted) - 1
                      /\ Len(posted') + 1 = Len(posted)
      BY <1>0, <1>c, <1>e, <1>f, Counts
    <3> QED BY <3>1, <1>e DEF IInv, AddressInv, InOp, One
  <2>4. aw # Nothing => aw.item = posted'[Taken'].addr
    <3>1. aw # Nothing => Taken' \in 1 .. Len(posted) - 1 /\ Taken' + 1 = Taken
      <4>1. aw # Nothing => Taken = 2
        BY <1>b DEF Taken, One
      <4> QED BY <4>1, <1>0, <1>c, <1>e, <1>f, Counts
    <3> QED BY <3>1, <1>e DEF IInv, AddressInv
  <2>5. Taken' + Queued' + OnBus' + InOp' = Len(posted')
    <3>1. (Taken - 1) + Queued + OnBus + InOp = Len(posted) - 1
      BY <1>0, <1>f, Counts
    <3> QED BY <3>1, <1>c, <1>e
  <2> QED BY <2>1, <2>2, <2>3, <2>4, <2>5, <1>b, <1>c, <1>e, <1>f DEF IInv, AddressInv
<1>4. DataInv'
  <2>1. \A i \in 1 .. Len(wr_data_fifo) : wr_data_fifo[i] = posted'[0 + i].data
    <3>1. \A i \in 1 .. Len(wr_data_fifo) : i \in 1 .. Len(posted) - 1 /\ i + 1 = Given + i
                                            /\ 0 + i = i
      BY <1>0, <1>c, <1>e, <1>f, Counts
    <3>2. \A i \in 1 .. Len(wr_data_fifo) : posted'[0 + i] = posted[Given + i]
      BY <3>1, <1>e
    <3> QED BY <3>2 DEF IInv, DataInv
  <2>3. Given' + Len(wr_data_fifo') + OnBus' + InOp' = Len(posted')
    BY <1>0, <1>b, <1>c, <1>e, <1>f, Counts
  <2> QED BY <2>1, <2>3, <1>b, <1>c DEF DataInv
<1>5. ReadInv'
  BY <1>b, <1>c, <1>d DEF IInv, ReadInv
<1>6. RoomInv'
  BY <1>0, <1>b, <1>c, Counts DEF IInv, RoomInv
<1> QED BY <1>a, <1>1, <1>2, <1>3, <1>4, <1>5, <1>6 DEF IInv

\* A read is answered when no write waits any more.
LEMMA MakeReadStep ==
    ASSUME IInv, MakeRead
    PROVE  IInv'
<1> USE DEF MakeRead
<1>0. Typing
  BY DEF IInv
<1>b. /\ ar_slot # Nothing /\ rdata = Nothing
      /\ served \/ aw_slot = Nothing \/ w_slot = Nothing
      /\ rdata' = Hold(regs[ar_slot.item])
      /\ UNCHANGED <<pc, op, burst, made, bus, addr_fifo, wr_data_fifo, rd_data_fifo,
                     addr_fifo_rd_en, cstate, handshake_wr, aw, w, ar, rready, aw_slot, w_slot,
                     ar_slot, served, regs, posted>>
  BY DEF dsp, fifos, axil
<1>c. /\ Taken' = Taken /\ Given' = Given /\ OnBus' = OnBus /\ InOp' = InOp
      /\ Popped' = Popped /\ Queued' = Queued /\ ReadWaits' = ReadWaits
  BY <1>b DEF Taken, Given, OnBus, InOp, Popped, Queued, One, ReadWaits
<1>d. /\ cstate = "WAITRD" /\ ar_slot = Hold(op.addr) /\ addr_fifo = <<>>
      /\ pc = "await" /\ bus = Nothing /\ ar_slot.item = op.addr
  BY <1>b, KindFacts DEF IInv, ReadInv
<1>a. Typing'
  <2>1. ar_slot.item \in Regs
    BY <1>0, <1>b, KindFacts DEF Typing
  <2>2. rdata' \in Held(Values)
    BY <1>0, <1>b, <2>1, KindFacts DEF Typing
  <2> QED BY <1>0, <1>b, <2>2 DEF Typing
<1>p. posted = <<>>
  <2>1. OnBus = 0 /\ InOp = 0
    BY <1>d, KindFacts DEF OnBus, InOp, One
  <2>2. aw = Nothing
    BY <1>d DEF IInv, HandshakeInv
  <2>4. Len(addr_fifo) = 0
    BY <1>d, EmptySeq
  <2>5. Queued <= 0 /\ Queued >= 0
    BY <2>4, <1>0, Counts DEF IInv, AddressInv, Queued, One, Popped
  <2>7. Taken = 0
    BY <1>b, <1>d, <2>2 DEF IInv, HandshakeInv, Taken, One
  <2>8. Len(posted) = 0
    BY <2>1, <2>5, <2>7, <1>0, Counts DEF IInv, AddressInv
  <2> QED BY <2>8, <1>0, EmptySeq DEF Typing
<1>1. DspInv'
  BY <1>b DEF IInv, DspInv
<1>2. HandshakeInv'
  BY <1>b DEF IInv, HandshakeInv
<1>3. AddressInv'
  BY <1>b, <1>c DEF IInv, AddressInv
<1>4. DataInv'
  BY <1>b, <1>c DEF IInv, DataInv
<1>5. ReadInv'
  BY <1>b, <1>c, <1>d, <1>p DEF IInv, ReadInv
<1>6. RoomInv'
  BY <1>b, <1>c DEF IInv, RoomInv
<1> QED BY <1>a, <1>1, <1>2, <1>3, <1>4, <1>5, <1>6 DEF IInv

\* Nothing changes.
LEMMA StutterStep ==
    ASSUME IInv, UNCHANGED vars
    PROVE  IInv'
<1> USE DEF vars, dsp, fifos, axil, slots
<1>c. /\ Taken' = Taken /\ Given' = Given /\ OnBus' = OnBus /\ InOp' = InOp
      /\ Popped' = Popped /\ Queued' = Queued /\ ReadWaits' = ReadWaits
  BY DEF Taken, Given, OnBus, InOp, Popped, Queued, One, ReadWaits
<1>1. Typing' /\ DspInv' /\ HandshakeInv'
  BY DEF IInv, Typing, DspInv, HandshakeInv
<1>2. AddressInv' /\ DataInv'
  BY <1>c DEF IInv, AddressInv, DataInv
<1>3. ReadInv' /\ RoomInv'
  BY <1>c DEF IInv, ReadInv, RoomInv
<1> QED BY <1>1, <1>2, <1>3 DEF IInv

-----------------------------------------------------------------------------
(* A cycle of the clock.                                                   *)

\* What a cycle does to the FIFOs: no push finds its FIFO full.
LEMMA CycleFifos ==
    ASSUME IInv, NEW pins \in {Nothing, bus},
           NEW awready \in BOOLEAN, NEW wready \in BOOLEAN, NEW arready \in BOOLEAN,
           Cycle(pins, awready, wready, arready)
    PROVE  /\ addr_fifo' \in Seq(Writes \cup Reads)
           /\ Len(addr_fifo') = Len(addr_fifo) - Popped + One(pins.kind \in {"write", "read"})
           /\ \A i \in 1 .. Len(addr_fifo) - Popped : addr_fifo'[i] = addr_fifo[Popped + i]
           /\ pins.kind \in {"write", "read"} => addr_fifo'[Len(addr_fifo')] = pins
           /\ wr_data_fifo' \in Seq(Values)
           /\ Len(wr_data_fifo') =
                  Len(wr_data_fifo) - One(handshake_w(wready)) + One(pins.kind = "write")
           /\ \A i \in 1 .. Len(wr_data_fifo) - One(handshake_w(wready)) :
                  wr_data_fifo'[i] = wr_data_fifo[One(handshake_w(wready)) + i]
           /\ pins.kind = "write" => wr_data_fifo'[Len(wr_data_fifo')] = pins.data
           /\ rd_data_fifo' \in Seq(Held(Values))
           /\ rd_data_fifo' = (IF pins = Load THEN <<>>
                               ELSE IF handshake_r THEN <<rdata>> ELSE rd_data_fifo)
<1>0. /\ Typing /\ Fifos(pins, wready)
  BY DEF IInv, Cycle
<1>1. /\ pins.kind \in {"write", "read"} => pins \in Writes \cup Reads /\ pins = bus
      /\ pins.kind = "write" => pins.data \in Values
  BY <1>0, KindFacts DEF Typing
<1>2. pins.kind = "write" => OnBus = 1
  BY <1>1 DEF OnBus, One
<1>3. pins.kind = "read" => bus # Nothing /\ pc = "await" /\ OnBus = 0 /\ InOp = 0
  BY <1>1, KindFacts DEF IInv, DspInv, OnBus, InOp, One
<1>4. pins.kind \in {"write", "read"} => Len(addr_fifo) < DEPTH
  <2>1. burst <= BURST /\ burst \in Nat
    BY <1>0 DEF Typing
  <2>2. Len(addr_fifo) + OnBus + InOp <= BURST \/ (pc = "await" /\ bus = Nothing)
    BY <2>1, <1>0, Counts DEF IInv, RoomInv, One
  <2>3. pins.kind \in {"write", "read"} => bus # Nothing
    BY <1>1, KindFacts
  <2> QED BY <2>2, <2>3, <1>0, Counts
<1>5. pins.kind = "write" => Len(wr_data_fifo) < DEPTH
  <2>1. burst <= BURST /\ burst \in Nat
    BY <1>0 DEF Typing
  <2>2. Len(wr_data_fifo) + OnBus + InOp <= BURST
    BY <2>1, <1>0, Counts DEF IInv, RoomInv
  <2> QED BY <2>2, <1>0, Counts
<1>6. /\ addr_fifo' \in Seq(Writes \cup Reads)
      /\ Len(addr_fifo') = Len(addr_fifo) - Popped + One(pins.kind \in {"write", "read"})
      /\ \A i \in 1 .. Len(addr_fifo) - Popped : addr_fifo'[i] = addr_fifo[Popped + i]
      /\ pins.kind \in {"write", "read"} => addr_fifo'[Len(addr_fifo')] = pins
  <2> DEFINE n == One(pins.kind \in {"write", "read"})
  <2>1. addr_fifo \in Seq(Writes \cup Reads)
    BY <1>0 DEF Typing
  <2>2. /\ n \in {0, 1} /\ Popped \in {0, 1}
        /\ Popped = 1 => addr_fifo # <<>>
        /\ n = 1 => pins \in Writes \cup Reads
    BY <1>1 DEF One, Popped, IInv, HandshakeInv
  <2>3. addr_fifo' = (IF Popped = 1 THEN Tail(addr_fifo) ELSE addr_fifo)
                         \o (IF n = 1 THEN <<pins>> ELSE <<>>)
    <3>1. addr_fifo' = After(addr_fifo, addr_fifo_rd_en, addr_fifo_wr_en(pins), pins)
      BY <1>0 DEF Fifos
    <3>2. (IF addr_fifo_rd_en /\ addr_fifo # <<>> THEN Tail(addr_fifo) ELSE addr_fifo)
              = (IF Popped = 1 THEN Tail(addr_fifo) ELSE addr_fifo)
      BY <2>2 DEF Popped, One
    <3>3. (IF addr_fifo_wr_en(pins) /\ Len(addr_fifo) < DEPTH THEN <<pins>> ELSE <<>>)
              = (IF n = 1 THEN <<pins>> ELSE <<>>)
      BY <1>4 DEF addr_fifo_wr_en, One
    <3> QED BY <3>1, <3>2, <3>3 DEF After
  <2> HIDE DEF n
  <2>4. /\ addr_fifo' \in Seq(Writes \cup Reads)
        /\ Len(addr_fifo') = Len(addr_fifo) - Popped + n
        /\ \A i \in 1 .. Len(addr_fifo) - Popped : addr_fifo'[i] = addr_fifo[Popped + i]
        /\ n = 1 => addr_fifo'[Len(addr_fifo')] = pins
    <3> PICK d \in Nat : d = Popped /\ d \in 0 .. 1
      BY <2>2
    <3> PICK m \in Nat : m = n /\ m \in 0 .. 1
      BY <2>2
    <3> PICK f \in Seq(Writes \cup Reads) : f = addr_fifo
      BY <2>1
    <3>4. /\ d = 1 => f # <<>>
          /\ m = 1 => pins \in Writes \cup Reads
      BY <2>2
    <3>5. Moved(f, d, m, pins) \in Seq(Writes \cup Reads)
      BY <3>4, MovedFacts
    <3>6. Len(Moved(f, d, m, pins)) = Len(f) - d + m
      BY <3>4, MovedFacts
    <3>7. \A i \in 1 .. Len(f) - d : Moved(f, d, m, pins)[i] = f[d + i]
      BY <3>4, MovedFacts
    <3>8. m = 1 => Moved(f, d, m, pins)[Len(Moved(f, d, m, pins))] = pins
      BY <3>4, MovedFacts
    <3>9. addr_fifo' = Moved(f, d, m, pins)
      BY <2>3 DEF Moved
    <3> QED BY <3>5, <3>6, <3>7, <3>8, <3>9
  <2> QED BY <2>4 DEF n, One
<1>7. /\ wr_data_fifo' \in Seq(Values)
      /\ Len(wr_data_fifo') =
             Len(wr_data_fifo) - One(handshake_w(wready)) + One(pins.kind = "write")
      /\ \A i \in 1 .. Len(wr_data_fifo) - One(handshake_w(wready)) :
             wr_data_fifo'[i] = wr_data_fifo[One(handshake_w(wready)) + i]
      /\ pins.kind = "write" => wr_data_fifo'[Len(wr_data_fifo')] = pins.data
  <2> DEFINE n == One(pins.kind = "write")
             e == One(handshake_w(wready))
             x == pins.data
  <2>1. wr_data_fifo \in Seq(Values)
    BY <1>0 DEF Typing
  <2>2. /\ n \in {0, 1} /\ e \in {0, 1}
        /\ e = 1 => wr_data_fifo # <<>>
        /\ n = 1 => x \in Values
    BY <1>1 DEF One, IInv, HandshakeInv, handshake_w
  <2>3. wr_data_fifo' = (IF e = 1 THEN Tail(wr_data_fifo) ELSE wr_data_fifo)
                            \o (IF n = 1 THEN <<x>> ELSE <<>>)
    <3>1. wr_data_fifo' = After(wr_data_fifo, handshake_w(wready), wr_data_fifo_wr_en(pins),
                                IF pins.kind = "write" THEN pins.data ELSE 0)
      BY <1>0 DEF Fifos
    <3>2. (IF handshake_w(wready) /\ wr_data_fifo # <<>> THEN Tail(wr_data_fifo)
                                                          ELSE wr_data_fifo)
              = (IF e = 1 THEN Tail(wr_data_fifo) ELSE wr_data_fifo)
      BY <2>2 DEF One
    <3>3. (IF wr_data_fifo_wr_en(pins) /\ Len(wr_data_fifo) < DEPTH
               THEN <<IF pins.kind = "write" THEN pins.data ELSE 0>> ELSE <<>>)
              = (IF n = 1 THEN <<x>> ELSE <<>>)
      BY <1>5 DEF wr_data_fifo_wr_en, One
    <3> QED BY <3>1, <3>2, <3>3 DEF After
  <2> HIDE DEF n, e, x
  <2>4. /\ wr_data_fifo' \in Seq(Values)
        /\ Len(wr_data_fifo') = Len(wr_data_fifo) - e + n
        /\ \A i \in 1 .. Len(wr_data_fifo) - e : wr_data_fifo'[i] = wr_data_fifo[e + i]
        /\ n = 1 => wr_data_fifo'[Len(wr_data_fifo')] = x
    <3> PICK d \in Nat : d = e /\ d \in 0 .. 1
      BY <2>2
    <3> PICK m \in Nat : m = n /\ m \in 0 .. 1
      BY <2>2
    <3> PICK f \in Seq(Values) : f = wr_data_fifo
      BY <2>1
    <3>4. /\ d = 1 => f # <<>>
          /\ m = 1 => x \in Values
      BY <2>2
    <3>5. Moved(f, d, m, x) \in Seq(Values)
      BY <3>4, MovedFacts
    <3>6. Len(Moved(f, d, m, x)) = Len(f) - d + m
      BY <3>4, MovedFacts
    <3>7. \A i \in 1 .. Len(f) - d : Moved(f, d, m, x)[i] = f[d + i]
      BY <3>4, MovedFacts
    <3>8. m = 1 => Moved(f, d, m, x)[Len(Moved(f, d, m, x))] = x
      BY <3>4, MovedFacts
    <3>9. wr_data_fifo' = Moved(f, d, m, x)
      BY <2>3 DEF Moved
    <3> QED BY <3>5, <3>6, <3>7, <3>8, <3>9
  <2> QED BY <2>4 DEF n, e, x, One
<1>8. /\ rd_data_fifo' \in Seq(Held(Values))
      /\ rd_data_fifo' = (IF pins = Load THEN <<>>
                          ELSE IF handshake_r THEN <<rdata>> ELSE rd_data_fifo)
  <2>1. /\ rd_data_fifo' = After(rd_data_fifo, rd_fifo_rd_en(pins), handshake_r, rdata)
        /\ rd_data_fifo \in Seq(Held(Values))
    BY <1>0 DEF Fifos, Typing
  <2>2. pins.kind = "load" <=> pins = Load
    BY <1>0, KindFacts DEF Typing
  <2>3. CASE pins = Load
    <3>1. pc = "load" /\ rd_data_fifo # <<>>
      BY <2>3, KindFacts DEF IInv, DspInv, ReadInv
    <3>2. rd_data_fifo = <<Hold(regs[op.addr])>> /\ ~handshake_r
      BY <3>1, KindFacts DEF IInv, ReadInv, handshake_r
    <3>3. Tail(rd_data_fifo) = <<>>
      BY <3>2
    <3>4. rd_data_fifo' = <<>> \o <<>>
      BY <2>1, <2>2, <2>3, <3>1, <3>2, <3>3 DEF After, rd_fifo_rd_en
    <3> QED BY <3>4, <2>3, EmptySeq, ConcatEmptySeq
  <2>4. CASE pins # Load /\ ~handshake_r
    <3>1. rd_data_fifo' = rd_data_fifo \o <<>>
      BY <2>1, <2>2, <2>4 DEF After, rd_fifo_rd_en
    <3> QED BY <3>1, <2>1, <2>4, ConcatEmptySeq
  <2>5. CASE pins # Load /\ handshake_r
    <3>1. rd_data_fifo = <<>> /\ rdata \in Held(Values)
      BY <1>0, <2>5 DEF IInv, ReadInv, handshake_r, Typing
    <3>2. rd_data_fifo' = <<>> \o <<rdata>>
      BY <2>1, <3>1, <2>5, EmptySeq DEF After
    <3>3. <<rdata>> \in Seq(Held(Values))
      BY <3>1
    <3>4. rd_data_fifo' = <<rdata>>
      BY <3>2, <3>3, ConcatEmptySeq
    <3> QED BY <3>3, <3>4, <2>5
  <2> QED BY <2>3, <2>4, <2>5
<1> QED BY <1>6, <1>7, <1>8

\* The channels in a cycle: what is accepted goes into an empty slot, and
\* never in the cycle that clears the record of what was accepted.
LEMMA CycleChannels ==
    ASSUME IInv, NEW pins \in {Nothing, bus},
           NEW awready \in BOOLEAN, NEW wready \in BOOLEAN, NEW arready \in BOOLEAN,
           Cycle(pins, awready, wready, arready)
    PROVE  /\ handshake_aw(awready) => aw # Nothing /\ aw_slot = Nothing /\ ~served /\ aw_slot' = aw
                                       /\ cstate = "WRITE" /\ aw' = Nothing
           /\ handshake_w(wready) => w # Nothing /\ w_slot = Nothing /\ ~served /\ w_slot' = w
                                     /\ w' = Nothing
           /\ ~handshake_aw(awready) => aw_slot' = (IF served THEN Nothing ELSE aw_slot)
           /\ ~handshake_w(wready) => w_slot' = (IF served THEN Nothing ELSE w_slot)
           /\ ~served'
           /\ wr_done => ~handshake_aw(awready) /\ ~handshake_w(wready)
           /\ handshake_wr' = (IF wr_done THEN {}
                               ELSE handshake_wr \cup {p \in {"aw"} : handshake_aw(awready)}
                                                 \cup {p \in {"w"} : handshake_w(wready)})
<1>1. /\ WriteChannels(awready, wready, arready) /\ Interconnect(awready, wready, arready)
      /\ HandshakeInv
  BY DEF Cycle, IInv
<1>2. handshake_aw(awready) => /\ aw # Nothing /\ aw_slot = Nothing /\ cstate = "WRITE"
                               /\ ~served
  BY <1>1 DEF HandshakeInv, handshake_aw, Interconnect
<1>3. handshake_w(wready) => w # Nothing /\ w_slot = Nothing /\ ~served
  BY <1>1 DEF HandshakeInv, handshake_w, Interconnect
<1>4. wr_done => ~handshake_aw(awready) /\ ~handshake_w(wready)
  BY <1>1, <1>2, <1>3 DEF HandshakeInv, wr_done
<1>5. /\ handshake_aw(awready) => aw_slot' = aw /\ aw' = Nothing
      /\ handshake_w(wready) => w_slot' = w /\ w' = Nothing
  BY <1>1, <1>2, <1>3 DEF Interconnect, WriteChannels, Enters
<1>6. /\ ~handshake_aw(awready) => aw_slot' = (IF served THEN Nothing ELSE aw_slot)
      /\ ~handshake_w(wready) => w_slot' = (IF served THEN Nothing ELSE w_slot)
      /\ ~served'
  BY <1>1 DEF Interconnect
<1>7. handshake_wr' = (IF wr_done THEN {}
                       ELSE handshake_wr \cup {p \in {"aw"} : handshake_aw(awready)}
                                         \cup {p \in {"w"} : handshake_w(wready)})
  BY <1>1 DEF WriteChannels
<1> QED BY <1>2, <1>3, <1>4, <1>5, <1>6, <1>7

\* A cycle and the DSP: the pins carry what was on the bus, or nothing.
LEMMA CyclePins ==
    ASSUME IInv, NEW pins \in {Nothing, bus},
           NEW awready \in BOOLEAN, NEW wready \in BOOLEAN, NEW arready \in BOOLEAN,
           Cycle(pins, awready, wready, arready)
    PROVE  /\ UNCHANGED <<op, burst, made, regs, posted>>
           /\ bus' = (IF pins = bus THEN Nothing ELSE bus)
           /\ pc' = (IF pins = Load THEN "run" ELSE pc)
           /\ cstate' = nstate(arready)
           /\ pins = Load <=> pins.kind = "load"
           /\ pins = Load => pc = "load"
           /\ pins # bus => pins = Nothing /\ pins.kind = "nothing"
           /\ OnBus' = OnBus - One(pins.kind = "write")
           /\ InOp' = InOp
           /\ pins.kind = "write" => pins = bus /\ OnBus = 1 /\ pc \in {"run", "store"}
           /\ pins.kind = "read" => pins = bus /\ pins = op /\ pc = "await"
<1>1. /\ UNCHANGED <<op, burst, made, regs, posted>>
      /\ bus' = (IF pins = bus THEN Nothing ELSE bus)
      /\ pc' = (IF pins = Load THEN "run" ELSE pc)
      /\ cstate' = nstate(arready)
  BY DEF Cycle
<1>2. /\ pins = Load <=> pins.kind = "load"
      /\ pins # bus => pins = Nothing /\ pins.kind = "nothing"
  BY KindFacts DEF IInv, Typing
<1>3. /\ pins = Load => pc = "load"
      /\ pins.kind = "write" => pins = bus /\ pc \in {"run", "store"}
      /\ pins.kind = "read" => pins = bus /\ pins = op /\ pc = "await"
  BY <1>2, KindFacts DEF IInv, DspInv
<1>4. InOp' = InOp
  BY <1>1, <1>3 DEF InOp, One
<1>5. /\ OnBus' = OnBus - One(pins.kind = "write")
      /\ pins.kind = "write" => OnBus = 1
  BY <1>1, <1>2, <1>3, KindFacts DEF OnBus, One
<1> QED BY <1>1, <1>2, <1>3, <1>4, <1>5

LEMMA CycleTyping ==
    ASSUME IInv, NEW pins \in {Nothing, bus},
           NEW awready \in BOOLEAN, NEW wready \in BOOLEAN, NEW arready \in BOOLEAN,
           Cycle(pins, awready, wready, arready)
    PROVE  Typing'
<1>0. Typing /\ HandshakeInv /\ ReadInv
  BY DEF IInv
<1>1. /\ addr_fifo' \in Seq(Writes \cup Reads) /\ wr_data_fifo' \in Seq(Values)
      /\ rd_data_fifo' \in Seq(Held(Values))
  BY CycleFifos
<1>2. /\ UNCHANGED <<op, burst, made, regs, posted>>
      /\ bus' \in {Nothing, bus} /\ pc' \in {"run", pc} /\ cstate' = nstate(arready)
  BY CyclePins
<1>3. cstate' \in {"IDLE", "WRITE", "READ", "WAITRD"}
  BY <1>0, <1>2, NextState DEF Typing
<1>4. handshake_wr' \subseteq {"aw", "w"}
  <2>1. handshake_wr \subseteq {"aw", "w"}
    BY <1>0 DEF Typing
  <2>2. handshake_wr' \subseteq handshake_wr \cup {"aw", "w"}
    BY CycleChannels
  <2> QED BY <2>1, <2>2
<1>5. /\ addr_fifo_rd_en' \in BOOLEAN /\ rready' \in BOOLEAN /\ served' \in BOOLEAN
  BY <1>0 DEF Cycle, Fifos, ReadChannels, Interconnect, Typing
<1>6. addr_fifo # <<>> => Hold(Head(addr_fifo).addr) \in Held(Regs)
  <2>1. addr_fifo # <<>> => Head(addr_fifo) \in Writes \cup Reads
    BY <1>0, HeadTailProperties DEF Typing
  <2> QED BY <2>1, KindFacts
<1>7. wr_data_fifo # <<>> => Hold(Head(wr_data_fifo)) \in Held(Values)
  <2>1. wr_data_fifo # <<>> => Head(wr_data_fifo) \in Values
    BY <1>0, HeadTailProperties DEF Typing
  <2> QED BY <2>1, KindFacts
<1>8. \A r \in BOOLEAN : /\ Enters("WRITE", r) => addr_fifo # <<>>
                         /\ Enters("READ", r) => addr_fifo # <<>>
  BY <1>0, NextState DEF Typing, Enters
<1>9. /\ aw \in Held(Regs) \cup {Nothing} /\ ar \in Held(Regs) \cup {Nothing}
      /\ aw_slot \in Held(Regs) \cup {Nothing} /\ ar_slot \in Held(Regs) \cup {Nothing}
      /\ w \in Held(Values) \cup {Nothing} /\ w_slot \in Held(Values) \cup {Nothing}
      /\ rdata \in Held(Values) \cup {Nothing}
  BY <1>0 DEF Typing
<1>10. aw' \in Held(Regs) \cup {Nothing} /\ w' \in Held(Values) \cup {Nothing}
  BY <1>6, <1>7, <1>8, <1>9 DEF Cycle, WriteChannels, wr_data_fifo_valid
<1>11. ar' \in Held(Regs) \cup {Nothing}
  BY <1>6, <1>8, <1>9 DEF Cycle, ReadChannels
<1>12. /\ aw_slot' \in Held(Regs) \cup {Nothing} /\ ar_slot' \in Held(Regs) \cup {Nothing}
       /\ w_slot' \in Held(Values) \cup {Nothing} /\ rdata' \in Held(Values) \cup {Nothing}
  BY <1>9 DEF Cycle, Interconnect
<1>13. bus' \in Writes \cup Reads \cup {Load, Nothing} /\ pc' \in {"run", "store", "await", "load"}
  BY <1>0, <1>2 DEF Typing
<1>14. /\ op' \in Writes \cup Reads \cup {Nothing} /\ burst' \in 0 .. BURST
       /\ made' \in 0 .. ACCESSES /\ regs' \in [Regs -> Values] /\ posted' \in Seq(Writes)
  BY <1>0, <1>2 DEF Typing
<1> QED BY <1>1, <1>3, <1>4, <1>5, <1>10, <1>11, <1>12, <1>13, <1>14 DEF Typing

LEMMA CycleDsp ==
    ASSUME IInv, NEW pins \in {Nothing, bus},
           NEW awready \in BOOLEAN, NEW wready \in BOOLEAN, NEW arready \in BOOLEAN,
           Cycle(pins, awready, wready, arready)
    PROVE  DspInv'
<1>1. DspInv
  BY DEF IInv
<1>2. pins = Load => bus = Load
  BY CyclePins, KindFacts
<1> QED BY <1>1, <1>2, CyclePins, KindFacts DEF DspInv

\* No part of a write that is accepted is forgotten.
LEMMA CycleHandshake ==
    ASSUME IInv, NEW pins \in {Nothing, bus},
           NEW awready \in BOOLEAN, NEW wready \in BOOLEAN, NEW arready \in BOOLEAN,
           Cycle(pins, awready, wready, arready)
    PROVE  HandshakeInv'
<1>0. Typing /\ HandshakeInv /\ cstate' = nstate(arready)
  BY CyclePins DEF IInv
<1>c. WriteChannels(awready, wready, arready) /\ Fifos(pins, wready)
  BY DEF Cycle
<1>1. ~served'
  BY CycleChannels
<1>2. /\ "aw" \in handshake_wr' <=> ~wr_done /\ ("aw" \in handshake_wr \/ handshake_aw(awready))
      /\ "w" \in handshake_wr' <=> ~wr_done /\ ("w" \in handshake_wr \/ handshake_w(wready))
  BY CycleChannels
<1>3. wr_done <=> "aw" \in handshake_wr /\ "w" \in handshake_wr
  BY <1>0 DEF Typing, wr_done
<1>4. /\ handshake_aw(awready) => "aw" \notin handshake_wr
      /\ handshake_w(wready) => ("w" \notin handshake_wr)
  BY <1>0, CycleChannels DEF HandshakeInv
<1>5. ("aw" \in handshake_wr' <=> "w" \in handshake_wr')
          => (aw_slot' # Nothing <=> w_slot' # Nothing)
  BY <1>0, <1>2, <1>3, CycleChannels DEF HandshakeInv
<1>6. "aw" \in handshake_wr' => aw_slot' # Nothing
  BY <1>0, <1>2, <1>3, CycleChannels DEF HandshakeInv
<1>7. "aw" \in handshake_wr' => cstate' = "WRITE"
  BY <1>0, <1>2, CycleChannels, NextState DEF HandshakeInv, Typing
<1>8. "w" \in handshake_wr' => w_slot' # Nothing
  BY <1>0, <1>2, <1>3, CycleChannels DEF HandshakeInv
<1>9. "aw" \in handshake_wr' /\ "w" \notin handshake_wr' => w_slot' = Nothing
  BY <1>0, <1>2, <1>3, CycleChannels DEF HandshakeInv
<1>10. "w" \in handshake_wr' /\ "aw" \notin handshake_wr' => aw_slot' = Nothing
  BY <1>0, <1>2, <1>3, CycleChannels DEF HandshakeInv
<1>11. aw' # Nothing <=> cstate' = "WRITE" /\ "aw" \notin handshake_wr'
  <2>1. CASE Enters("WRITE", arready)
    <3>1. cstate = "IDLE" /\ cstate' = "WRITE" /\ aw' # Nothing
      BY <1>0, <1>c, <2>1, KindFacts DEF Enters, WriteChannels
    <3>2. "aw" \notin handshake_wr /\ ~handshake_aw(awready)
      BY <3>1, <1>0, CycleChannels DEF HandshakeInv
    <3> QED BY <3>1, <3>2, <1>2
  <2>2. CASE ~Enters("WRITE", arready)
    <3>1. aw' = (IF handshake_aw(awready) THEN Nothing ELSE aw)
      BY <1>c, <2>2 DEF WriteChannels
    <3>2. cstate' = "WRITE" <=> cstate = "WRITE" /\ ~wr_done
      BY <1>0, <2>2, NextState DEF Enters, Typing
    <3> QED BY <3>1, <3>2, <1>0, <1>2, <1>3, CycleChannels DEF HandshakeInv
  <2> QED BY <2>1, <2>2
<1>12. w' # Nothing => wr_data_fifo' # <<>> /\ w' = Hold(Head(wr_data_fifo'))
  <2> SUFFICES ASSUME w' # Nothing
               PROVE  wr_data_fifo' # <<>> /\ w' = Hold(Head(wr_data_fifo'))
    OBVIOUS
  <2>1. ~handshake_w(wready)
    BY CycleChannels
  <2>2. w' = Hold(Head(wr_data_fifo)) /\ wr_data_fifo # <<>>
    BY <1>0, <1>c, <2>1 DEF WriteChannels, HandshakeInv, wr_data_fifo_valid
  <2>3. wr_data_fifo \in Seq(Values) /\ wr_data_fifo' \in Seq(Values)
    BY <1>0, CycleFifos DEF Typing
  <2>4. /\ Len(wr_data_fifo') = Len(wr_data_fifo) + One(pins.kind = "write")
        /\ \A i \in 1 .. Len(wr_data_fifo) : wr_data_fifo'[i] = wr_data_fifo[i]
    <3>1. One(handshake_w(wready)) = 0
      BY <2>1 DEF One
    <3>2. Len(wr_data_fifo) \in Nat /\ One(pins.kind = "write") \in 0 .. 1
      BY <2>3, LenProperties DEF One
    <3>3. Len(wr_data_fifo') = Len(wr_data_fifo) - 0 + One(pins.kind = "write")
      BY <3>1, CycleFifos
    <3>4. \A i \in 1 .. Len(wr_data_fifo) - 0 : wr_data_fifo'[i] = wr_data_fifo[0 + i]
      BY <3>1, CycleFifos
    <3> QED BY <3>2, <3>3, <3>4
  <2>5. Len(wr_data_fifo) \in Nat \ {0}
    BY <2>2, <2>3, EmptySeq
  <2>6. wr_data_fifo'[1] = wr_data_fifo[1] /\ Len(wr_data_fifo') # 0
    BY <2>4, <2>5 DEF One
  <2>7. wr_data_fifo' # <<>>
    BY <2>6, <2>3, EmptySeq
  <2> QED BY <2>2, <2>3, <2>6, <2>7
<1>13. addr_fifo_rd_en' => cstate' \in {"WRITE", "READ"} /\ addr_fifo' # <<>>
  <2> SUFFICES ASSUME addr_fifo_rd_en'
               PROVE  cstate' \in {"WRITE", "READ"} /\ addr_fifo' # <<>>
    OBVIOUS
  <2>1. cstate = "IDLE" /\ addr_fifo # <<>>
    BY <1>c DEF Fifos, addr_fifo_valid
  <2>2. cstate' \in {"WRITE", "READ"}
    BY <1>0, <2>1, NextState
  <2>3. Popped = 0
    BY <1>0, <2>1 DEF HandshakeInv, Popped, One
  <2>4. addr_fifo \in Seq(Writes \cup Reads) /\ addr_fifo' \in Seq(Writes \cup Reads)
    BY <1>0, CycleFifos DEF Typing
  <2>5. Len(addr_fifo) \in Nat \ {0}
    BY <2>1, <2>4, EmptySeq
  <2>6. Len(addr_fifo') = Len(addr_fifo) - 0 + One(pins.kind \in {"write", "read"})
    BY <2>3, CycleFifos
  <2>7. Len(addr_fifo') # 0
    BY <2>5, <2>6 DEF One
  <2> QED BY <2>2, <2>4, <2>7, EmptySeq
<1> QED BY <1>1, <1>5, <1>6, <1>7, <1>8, <1>9, <1>10, <1>11, <1>12, <1>13 DEF HandshakeInv

\* What the converter finds at the head of the request FIFO: the oldest write
\* not taken yet, or the read when no write is left.
LEMMA HeadFacts ==
    ASSUME IInv, cstate = "IDLE", addr_fifo # <<>>
    PROVE  /\ Popped = 0
           /\ Head(addr_fifo).kind = "read" =>
                  ReadWaits /\ Queued = 0 /\ Len(addr_fifo) = 1 /\ Head(addr_fifo) = op
           /\ Head(addr_fifo).kind # "read" =>
                  /\ Queued >= 1 /\ Head(addr_fifo) = posted[Taken + 1]
                  /\ Taken + 1 \in 1 .. Len(posted)
<1>0. Typing /\ AddressInv
  BY DEF IInv
<1>1. Popped = 0
  BY DEF IInv, HandshakeInv, Popped, One
<1>2. /\ Head(addr_fifo) = addr_fifo[1] /\ Len(addr_fifo) \in Nat \ {0}
  BY <1>0, EmptySeq DEF Typing
<1>3. CASE Queued >= 1
  <2>1. addr_fifo[0 + 1] = posted[Taken + 1]
    BY <1>0, <1>1, <1>3, Counts DEF AddressInv
  <2>2. Taken + 1 \in 1 .. Len(posted)
    BY <1>0, <1>3, Counts DEF AddressInv
  <2>3. posted[Taken + 1] \in Writes
    BY <1>0, <2>2 DEF Typing
  <2> QED BY <1>1, <1>2, <1>3, <2>1, <2>2, <2>3, KindFacts
<1>4. CASE ~(Queued >= 1)
  <2>1. Queued = 0
    BY <1>0, <1>4, Counts DEF AddressInv
  <2>2. Len(addr_fifo) - 0 - One(ReadWaits) = 0
    BY <1>1, <2>1 DEF Queued
  <2>3. ReadWaits /\ Len(addr_fifo) = 1
    BY <1>2, <2>2 DEF One
  <2>4. addr_fifo[1] = op /\ op.kind = "read"
    BY <1>0, <2>3 DEF AddressInv, ReadWaits, IInv, DspInv
  <2> QED BY <1>1, <1>2, <2>1, <2>3, <2>4
<1> QED BY <1>3, <1>4

\* How far the writes and the read have come after a cycle.
LEMMA CycleMoves ==
    ASSUME IInv, NEW pins \in {Nothing, bus},
           NEW awready \in BOOLEAN, NEW wready \in BOOLEAN, NEW arready \in BOOLEAN,
           Cycle(pins, awready, wready, arready)
    PROVE  /\ Given' = Given + One(handshake_w(wready))
           /\ Taken' = Taken + One(Enters("WRITE", arready))
           /\ Popped' = One(Enters("WRITE", arready)) + One(Enters("READ", arready))
           /\ ReadWaits' <=> pins.kind = "read" \/ (ReadWaits /\ ~Enters("READ", arready))
           /\ pins.kind = "read" => ~ReadWaits /\ ~Enters("READ", arready)
           /\ pins.kind = "write" => ~ReadWaits /\ ~Enters("READ", arready)
           /\ Queued' = Queued + One(pins.kind = "write") - One(Enters("WRITE", arready))
<1>0. Typing /\ HandshakeInv /\ ReadInv /\ DspInv
  BY DEF IInv
<1>w. WriteChannels(awready, wready, arready) /\ Fifos(pins, wready)
  BY DEF Cycle
<1>1. Given' = Given + One(handshake_w(wready))
  <2>1. CASE handshake_w(wready)
    <3>1. Given = 0 /\ Given' = 1
      BY <2>1, CycleChannels DEF Given, One
    <3> QED BY <2>1, <3>1 DEF One
  <2>2. CASE ~handshake_w(wready)
    <3>1. Given' = Given
      BY <2>2, CycleChannels DEF Given, One
    <3> QED BY <2>2, <3>1, <1>0, Counts DEF One
  <2> QED BY <2>1, <2>2
<1>2. /\ Enters("WRITE", arready) => cstate = "IDLE" /\ addr_fifo # <<>> /\ cstate' = "WRITE"
                                     /\ Head(addr_fifo).kind # "read"
      /\ Enters("READ", arready) => cstate = "IDLE" /\ addr_fifo # <<>> /\ cstate' = "READ"
                                    /\ Head(addr_fifo).kind = "read"
      /\ cstate = "IDLE" /\ addr_fifo # <<>> =>
             Enters("WRITE", arready) \/ Enters("READ", arready)
      /\ ~(Enters("WRITE", arready) /\ Enters("READ", arready))
  BY <1>0, NextState, CyclePins DEF Enters, Typing
<1>3. Taken' = Taken + One(Enters("WRITE", arready))
  <2>1. CASE Enters("WRITE", arready)
    <3>1. aw = Nothing /\ ~handshake_aw(awready)
      BY <2>1, <1>0, <1>2, CycleChannels DEF HandshakeInv
    <3>2. aw' # Nothing
      BY <2>1, <1>w, KindFacts DEF WriteChannels
    <3>3. (aw_slot' # Nothing /\ ~served') <=> (aw_slot # Nothing /\ ~served)
      BY <3>1, CycleChannels
    <3> QED BY <2>1, <3>1, <3>2, <3>3 DEF Taken, One
  <2>2. CASE ~Enters("WRITE", arready) /\ handshake_aw(awready)
    <3>1. aw' = Nothing /\ aw # Nothing /\ aw_slot = Nothing /\ aw_slot' # Nothing /\ ~served'
      BY <2>2, CycleChannels
    <3> QED BY <2>2, <3>1 DEF Taken, One
  <2>3. CASE ~Enters("WRITE", arready) /\ ~handshake_aw(awready)
    <3>1. aw' = aw
      BY <2>3, <1>w DEF WriteChannels
    <3>2. (aw_slot' # Nothing /\ ~served') <=> (aw_slot # Nothing /\ ~served)
      BY <2>3, CycleChannels
    <3> QED BY <2>3, <3>1, <3>2 DEF Taken, One
  <2> QED BY <2>1, <2>2, <2>3
<1>4. Popped' = One(Enters("WRITE", arready)) + One(Enters("READ", arready))
  <2>1. addr_fifo_rd_en' <=> Enters("WRITE", arready) \/ Enters("READ", arready)
    BY <1>w, <1>2 DEF Fifos, addr_fifo_valid
  <2> QED BY <1>2, <2>1 DEF Popped, One
<1>5. Enters("READ", arready) => ReadWaits
  BY <1>2, HeadFacts
<1>6. ~ReadWaits /\ cstate' = nstate(arready) /\ pins.kind = "read" =>
          cstate \in {"IDLE", "WRITE"} /\ cstate' \in {"IDLE", "WRITE"}
  <2> SUFFICES ASSUME ~ReadWaits, pins.kind = "read"
               PROVE  cstate \in {"IDLE", "WRITE"} /\ cstate' \in {"IDLE", "WRITE"}
    OBVIOUS
  <2>1. cstate \in {"IDLE", "WRITE"}
    BY <1>0, CyclePins, KindFacts DEF ReadInv, Typing
  <2> QED BY <2>1, <1>0, <1>2, <1>5, NextState, CyclePins DEF Typing, Enters
<1> DEFINE Kept == /\ ReadWaits' <=> pins.kind = "read" \/ (ReadWaits /\ ~Enters("READ", arready))
                   /\ pins.kind = "read" => ~ReadWaits /\ ~Enters("READ", arready)
                   /\ pins.kind = "write" => ~ReadWaits /\ ~Enters("READ", arready)
<1>7. ASSUME pins.kind = "read" PROVE Kept
  <2>1. bus # Nothing /\ pins = bus /\ pc = "await" /\ pins # Load
    BY <1>7, CyclePins, KindFacts
  <2>2. ~ReadWaits /\ ~Enters("READ", arready)
    BY <2>1, <1>5 DEF ReadWaits
  <2>3. rd_data_fifo = <<>> /\ rdata = Nothing
    BY <2>1, <1>0 DEF ReadInv
  <2>4. rd_data_fifo' = <<>> /\ pc' = "await" /\ bus' = Nothing
    BY <2>1, <2>3, CycleFifos, CyclePins DEF handshake_r
  <2>5. ReadWaits'
    BY <2>4, <1>6, <1>7, <2>2, CyclePins DEF ReadWaits
  <2> QED BY <1>7, <2>2, <2>5
<1>8. ASSUME pins.kind \in {"write", "load"} PROVE Kept
  <2>1. pc # "await" /\ pc' # "await"
    BY <1>8, CyclePins
  <2> QED BY <1>8, <2>1, <1>5 DEF ReadWaits
<1>9. ASSUME pins.kind \notin {"read", "write", "load"} PROVE Kept
  <2>1. pins = Nothing /\ pins # Load
    BY <1>9, <1>0, KindFacts, CyclePins DEF Typing
  <2>2. pc' = pc /\ bus' = bus /\ cstate' = nstate(arready)
    BY <2>1, CyclePins
  <2>3. rd_data_fifo' = (IF handshake_r THEN <<rdata>> ELSE rd_data_fifo)
    BY <2>1, CycleFifos
  <2>4. ReadWaits => ~handshake_r
    BY <1>0 DEF ReadWaits, ReadInv, handshake_r
  <2>5. ReadWaits => (ReadWaits' <=> ~Enters("READ", arready))
    <3> SUFFICES ASSUME ReadWaits PROVE ReadWaits' <=> ~Enters("READ", arready)
      OBVIOUS
    <3>1. ReadWaits' <=> cstate' \in {"IDLE", "WRITE"}
      BY <2>2, <2>3, <2>4 DEF ReadWaits
    <3>2. cstate \in {"IDLE", "WRITE"}
      BY DEF ReadWaits
    <3>3. cstate' \in {"IDLE", "WRITE"} <=> ~Enters("READ", arready)
      BY <2>2, <3>2, <1>2, NextState DEF Enters
    <3> QED BY <3>1, <3>3
  <2>6. ~ReadWaits => ~ReadWaits'
    <3> SUFFICES ASSUME ~ReadWaits, ReadWaits' PROVE FALSE
      OBVIOUS
    <3>1. pc = "await" /\ bus = Nothing /\ ~handshake_r /\ rd_data_fifo = <<>>
      <4>1. pc = "await" /\ bus = Nothing /\ rd_data_fifo' = <<>>
        BY <2>2 DEF ReadWaits
      <4>2. <<rdata>> # <<>>
        OBVIOUS
      <4> QED BY <4>1, <4>2, <2>3
    <3>2. cstate \in {"READ", "WAITRD"}
      BY <3>1, <1>0 DEF ReadWaits, Typing
    <3>3. cstate' \in {"READ", "WAITRD"}
      BY <3>1, <3>2, <2>2, NextState
    <3> QED BY <3>3 DEF ReadWaits
  <2> QED BY <1>9, <2>5, <2>6, <1>5
<1>10. /\ ReadWaits' <=> pins.kind = "read" \/ (ReadWaits /\ ~Enters("READ", arready))
       /\ pins.kind = "read" => ~ReadWaits /\ ~Enters("READ", arready)
       /\ pins.kind = "write" => ~ReadWaits /\ ~Enters("READ", arready)
  BY <1>7, <1>8, <1>9
<1>11. Queued' = Queued + One(pins.kind = "write") - One(Enters("WRITE", arready))
  <2>1. One(ReadWaits') = One(ReadWaits) + One(pins.kind = "read") - One(Enters("READ", arready))
    BY <1>5, <1>10 DEF One
  <2>2. One(pins.kind \in {"write", "read"}) = One(pins.kind = "write") + One(pins.kind = "read")
    BY DEF One
  <2>3. Len(addr_fifo') = Len(addr_fifo) - Popped + (One(pins.kind = "write") + One(pins.kind = "read"))
    BY <2>2, CycleFifos
  <2>4. Queued' = Len(addr_fifo') - Popped' - One(ReadWaits')
    BY DEF Queued, One
  <2>a. PICK wr \in Int : wr = One(pins.kind = "write")
    BY <1>0 DEF One, Popped, Typing
  <2>b. PICK rd \in Int : rd = One(pins.kind = "read")
    BY <1>0 DEF One, Popped, Typing
  <2>c. PICK ew \in Int : ew = One(Enters("WRITE", arready))
    BY <1>0 DEF One, Popped, Typing
  <2>d. PICK er \in Int : er = One(Enters("READ", arready))
    BY <1>0 DEF One, Popped, Typing
  <2>e. PICK rw \in Int : rw = One(ReadWaits)
    BY <1>0 DEF One, Popped, Typing
  <2>f. PICK pop \in Int : pop = Popped
    BY <1>0 DEF One, Popped, Typing
  <2>g. PICK len \in Int : len = Len(addr_fifo)
    BY <1>0 DEF One, Popped, Typing
  <2>5. Len(addr_fifo') = len - pop + (wr + rd) /\ Popped' = ew + er /\ One(ReadWaits') = rw + rd - er
    BY <1>4, <2>1, <2>3, <2>a, <2>b, <2>c, <2>d, <2>e, <2>f, <2>g
  <2>6. Queued' = (len - pop + (wr + rd)) - (ew + er) - (rw + rd - er)
    BY <2>4, <2>5
  <2>7. Queued' = (len - pop - rw) + wr - ew
    <3>1. (len - pop + (wr + rd)) - (ew + er) - (rw + rd - er) = (len - pop - rw) + wr - ew
      OBVIOUS
    <3> QED BY <2>6, <3>1
  <2> QED BY <2>7, <2>a, <2>c, <2>e, <2>f, <2>g DEF Queued
<1> QED BY <1>1, <1>3, <1>4, <1>10, <1>11

LEMMA CycleAddress ==
    ASSUME IInv, NEW pins \in {Nothing, bus},
           NEW awready \in BOOLEAN, NEW wready \in BOOLEAN, NEW arready \in BOOLEAN,
           Cycle(pins, awready, wready, arready)
    PROVE  AddressInv'
<1>0. Typing /\ AddressInv /\ HandshakeInv
  BY DEF IInv
<1>t. Typing'
  BY CycleTyping
<1>w. WriteChannels(awready, wready, arready)
  BY DEF Cycle
<1>e. PICK ew \in Int : ew = One(Enters("WRITE", arready))
  BY DEF One
<1>p. PICK wr \in Int : wr = One(pins.kind = "write")
  BY DEF One
<1>1. /\ Enters("WRITE", arready) => ew = 1
      /\ ~Enters("WRITE", arready) => ew = 0
      /\ pins.kind = "write" => wr = 1
      /\ pins.kind # "write" => wr = 0
  BY <1>e, <1>p DEF One
<1>2. /\ Taken' = Taken + ew /\ Queued' = Queued + wr - ew
      /\ OnBus' = OnBus - wr /\ InOp' = InOp /\ posted' = posted /\ op' = op
  BY <1>e, <1>p, CycleMoves, CyclePins
<1>3. /\ Taken \in Int /\ Queued \in Int /\ OnBus \in Int /\ InOp \in Int /\ Popped \in Int
      /\ Len(posted) \in Int /\ Len(addr_fifo) \in Int
  BY <1>0, Counts
<1>4. Enters("WRITE", arready) =>
          /\ Queued >= 1 /\ Head(addr_fifo) = posted[Taken + 1] /\ Popped = 0
          /\ cstate = "IDLE"
  <2>1. Enters("WRITE", arready) => /\ cstate = "IDLE" /\ addr_fifo # <<>>
                                    /\ Head(addr_fifo).kind # "read"
    BY <1>0, NextState DEF Typing, Enters
  <2> QED BY <2>1, HeadFacts
<1>5. Enters("READ", arready) => ReadWaits /\ Queued = 0 /\ ~Enters("WRITE", arready) /\ wr = 0
  <2>1. Enters("READ", arready) => /\ cstate = "IDLE" /\ addr_fifo # <<>>
                                   /\ Head(addr_fifo).kind = "read"
                                   /\ ~Enters("WRITE", arready)
    BY <1>0, NextState DEF Typing, Enters
  <2>2. Enters("READ", arready) => pins.kind # "write"
    BY CycleMoves
  <2> QED BY <2>1, <2>2, <1>1, HeadFacts
<1>6. Queued' >= 0 /\ Taken' + Queued' + OnBus' + InOp' = Len(posted')
  <2>1. Queued >= 0 /\ Taken + Queued + OnBus + InOp = Len(posted)
    BY <1>0 DEF AddressInv
  <2>2. Queued + wr - ew >= 0
    BY <1>1, <1>3, <1>4, <2>1
  <2>3. (Taken + ew) + (Queued + wr - ew) + (OnBus - wr) + InOp = Len(posted)
    BY <1>3, <2>1
  <2> QED BY <1>2, <2>2, <2>3
<1>7. \A i \in 1 .. Queued' : addr_fifo'[Popped' + i] = posted'[Taken' + i]
  <2> SUFFICES ASSUME NEW i \in 1 .. Queued'
               PROVE  addr_fifo'[Popped' + i] = posted[(Taken + ew) + i]
    BY <1>2
  <2>1. i \in Int /\ 1 <= i /\ i <= Queued + wr - ew
    BY <1>2, <1>3
  <2>2. ~Enters("READ", arready)
    BY <2>1, <1>1, <1>5
  <2>3. Popped' = ew + 0
    BY <2>2, <1>e, CycleMoves DEF One
  <2>4. PICK j \in Int : j = ew + i
    OBVIOUS
  <2>5. Popped' + i = j /\ (Taken + ew) + i = Taken + j /\ 1 <= j /\ j <= Queued + wr
    BY <2>1, <2>3, <2>4, <1>1, <1>3
  <2>6. Len(addr_fifo) = Popped + Queued + One(ReadWaits)
    <3>1. One(ReadWaits) \in Int
      BY DEF One
    <3> QED BY <1>3, <3>1 DEF Queued
  <2>7. CASE j <= Queued
    <3>1. j \in 1 .. Len(addr_fifo) - Popped
      <4>1. One(ReadWaits) \in 0 .. 1
        BY DEF One
      <4> QED BY <2>5, <2>6, <2>7, <4>1, <1>3
    <3>2. addr_fifo'[j] = addr_fifo[Popped + j]
      BY <3>1, CycleFifos
    <3>3. j \in 1 .. Queued
      BY <2>5, <2>7, <1>3
    <3>4. addr_fifo[Popped + j] = posted[Taken + j]
      BY <3>3, <1>0 DEF AddressInv
    <3> QED BY <2>5, <3>2, <3>4
  <2>8. CASE ~(j <= Queued)
    <3>1. j = Queued + 1 /\ pins.kind = "write"
      BY <2>5, <2>8, <1>1, <1>3
    <3>2. ~ReadWaits
      BY <3>1, CycleMoves
    <3>3. Len(addr_fifo') = Len(addr_fifo) - Popped + 1
      <4>1. One(pins.kind \in {"write", "read"}) = 1
        BY <3>1 DEF One
      <4> QED BY <4>1, CycleFifos
    <3>4. Len(addr_fifo') = j
      <4>1. Len(addr_fifo) = Popped + Queued + 0
        BY <2>6, <3>2 DEF One
      <4> QED BY <3>1, <3>3, <4>1, <1>3
    <3>5. addr_fifo'[j] = bus
      BY <3>1, <3>4, CycleFifos, CyclePins
    <3>6. OnBus = 1 /\ bus.kind = "write"
      BY <3>1, CyclePins
    <3>7. bus = posted[Len(posted) - InOp]
      BY <3>6, <1>0 DEF AddressInv
    <3>8. Len(posted) - InOp = Taken + j
      BY <3>1, <3>6, <1>0, <1>3 DEF AddressInv
    <3> QED BY <2>5, <3>5, <3>7, <3>8
  <2> QED BY <2>7, <2>8
<1>8. ReadWaits' => addr_fifo'[Len(addr_fifo')] = op'
  <2>1. CASE pins.kind = "read"
    BY <2>1, <1>2, CycleFifos, CyclePins
  <2>2. ASSUME pins.kind # "read", ReadWaits'
        PROVE  addr_fifo'[Len(addr_fifo')] = op
    <3>1. ReadWaits /\ pins.kind # "write"
      BY <2>2, CycleMoves
    <3>2. One(pins.kind \in {"write", "read"}) = 0
      BY <2>2, <3>1 DEF One
    <3>3. Len(addr_fifo') = Len(addr_fifo) - Popped + 0
      BY <3>2, CycleFifos
    <3>4. Len(addr_fifo) - Popped - 1 >= 0
      <4>1. Queued = Len(addr_fifo) - Popped - 1
        BY <3>1 DEF Queued, One
      <4> QED BY <4>1, <1>0 DEF AddressInv
    <3>5. PICK j \in Int : j = Len(addr_fifo) - Popped
      <4>1. Len(addr_fifo) - Popped \in Int
        BY <1>3
      <4> QED BY <4>1
    <3>6. j \in 1 .. Len(addr_fifo) - Popped /\ Popped + j = Len(addr_fifo) /\ Len(addr_fifo') = j
      BY <3>3, <3>4, <3>5, <1>3
    <3>7. addr_fifo'[j] = addr_fifo[Popped + j]
      BY <3>6, CycleFifos
    <3>8. addr_fifo[Len(addr_fifo)] = op
      BY <3>1, <1>0 DEF AddressInv
    <3> QED BY <3>6, <3>7, <3>8
  <2> QED BY <2>1, <2>2, <1>2
<1>9. bus'.kind = "write" => bus' = posted'[Len(posted') - InOp']
  <2>1. bus'.kind = "write" => bus' = bus
    BY CyclePins, KindFacts
  <2> QED BY <2>1, <1>0, <1>2 DEF AddressInv
<1>10. pc' = "store" /\ op'.kind = "write" => op' = posted'[Len(posted')]
  <2>1. pc' = "store" => pc = "store"
    BY CyclePins
  <2> QED BY <2>1, <1>0, <1>2 DEF AddressInv
<1>11. aw_slot' # Nothing /\ ~served' => aw_slot'.item = posted'[1].addr
  <2>1. CASE handshake_aw(awready)
    <3>1. aw # Nothing /\ aw_slot = Nothing /\ aw_slot' = aw
      BY <2>1, CycleChannels
    <3>2. Taken = 1
      BY <3>1 DEF Taken, One
    <3> QED BY <3>1, <3>2, <1>0, <1>2 DEF AddressInv
  <2>2. CASE ~handshake_aw(awready)
    <3>1. aw_slot' # Nothing => aw_slot' = aw_slot /\ ~served
      BY <2>2, CycleChannels
    <3> QED BY <3>1, <1>0, <1>2 DEF AddressInv
  <2> QED BY <2>1, <2>2
<1>12. aw' # Nothing => aw'.item = posted'[Taken'].addr
  <2>1. CASE Enters("WRITE", arready)
    <3>1. aw' = Hold(Head(addr_fifo).addr)
      BY <2>1, <1>w DEF WriteChannels
    <3>2. Taken' = Taken + 1
      BY <2>1, <1>1, <1>2
    <3> QED BY <3>1, <3>2, <2>1, <1>2, <1>4, KindFacts
  <2>2. CASE ~Enters("WRITE", arready)
    <3>1. aw' # Nothing => aw' = aw
      BY <2>2, <1>w DEF WriteChannels
    <3>2. Taken' = Taken
      BY <2>2, <1>1, <1>2, <1>3
    <3> QED BY <3>1, <3>2, <1>0, <1>2 DEF AddressInv
  <2> QED BY <2>1, <2>2
<1> QED BY <1>6, <1>7, <1>8, <1>9, <1>10, <1>11, <1>12 DEF AddressInv

LEMMA CycleData ==
    ASSUME IInv, NEW pins \in {Nothing, bus},
           NEW awready \in BOOLEAN, NEW wready \in BOOLEAN, NEW arready \in BOOLEAN,
           Cycle(pins, awready, wready, arready)
    PROVE  DataInv'
<1>0. Typing /\ DataInv /\ HandshakeInv /\ AddressInv
  BY DEF IInv
<1>e. PICK d \in Int : d = One(handshake_w(wready))
  BY DEF One
<1>p. PICK wr \in Int : wr = One(pins.kind = "write")
  BY DEF One
<1>1. /\ handshake_w(wready) => d = 1
      /\ ~handshake_w(wready) => d = 0
      /\ pins.kind = "write" => wr = 1
      /\ pins.kind # "write" => wr = 0
  BY <1>e, <1>p DEF One
<1>2. /\ Given' = Given + d
      /\ OnBus' = OnBus - wr /\ InOp' = InOp /\ posted' = posted
      /\ Len(wr_data_fifo') = Len(wr_data_fifo) - d + wr
      /\ \A i \in 1 .. Len(wr_data_fifo) - d : wr_data_fifo'[i] = wr_data_fifo[d + i]
  <2>1. Given' = Given + d
    BY <1>e, CycleMoves
  <2>2. OnBus' = OnBus - wr /\ InOp' = InOp /\ posted' = posted
    BY <1>p, CyclePins
  <2>3. Len(wr_data_fifo') = Len(wr_data_fifo) - d + wr
    BY <1>e, <1>p, CycleFifos
  <2>4. \A i \in 1 .. Len(wr_data_fifo) - d : wr_data_fifo'[i] = wr_data_fifo[d + i]
    BY <1>e, CycleFifos
  <2> QED BY <2>1, <2>2, <2>3, <2>4
<1>3. /\ Given \in Int /\ OnBus \in Int /\ InOp \in Int
      /\ Len(posted) \in Int /\ Len(wr_data_fifo) \in Int
  BY <1>0, Counts
<1>4. Given + Len(wr_data_fifo) + OnBus + InOp = Len(posted)
  BY <1>0 DEF DataInv
<1>5. Given' + Len(wr_data_fifo') + OnBus' + InOp' = Len(posted')
  <2>1. (Given + d) + (Len(wr_data_fifo) - d + wr) + (OnBus - wr) + InOp = Len(posted)
    BY <1>3, <1>4
  <2> QED BY <2>1, <1>2
<1>6. \A i \in 1 .. Len(wr_data_fifo') : wr_data_fifo'[i] = posted'[Given' + i].data
  <2> SUFFICES ASSUME NEW i \in 1 .. Len(wr_data_fifo')
               PROVE  wr_data_fifo'[i] = posted[(Given + d) + i].data
    BY <1>2
  <2>1. i \in Int /\ 1 <= i /\ i <= Len(wr_data_fifo) - d + wr
    BY <1>2, <1>3
  <2>2. CASE i <= Len(wr_data_fifo) - d
    <3>1. i \in 1 .. Len(wr_data_fifo) - d
      BY <2>1, <2>2, <1>3
    <3>2. d + i \in 1 .. Len(wr_data_fifo) /\ Given + (d + i) = (Given + d) + i
      BY <3>1, <1>1, <1>3
    <3>3. wr_data_fifo[d + i] = posted[Given + (d + i)].data
      BY <3>2, <1>0 DEF DataInv
    <3> QED BY <3>1, <3>2, <3>3, <1>2
  <2>3. CASE ~(i <= Len(wr_data_fifo) - d)
    <3>1. pins.kind = "write" /\ i = Len(wr_data_fifo') /\ i = Len(wr_data_fifo) - d + 1
      BY <2>1, <2>3, <1>1, <1>2, <1>3
    <3>2. wr_data_fifo'[i] = bus.data /\ OnBus = 1 /\ bus.kind = "write"
      BY <3>1, CycleFifos, CyclePins
    <3>3. bus = posted[Len(posted) - InOp]
      BY <3>2, <1>0 DEF AddressInv
    <3>4. Len(posted) - InOp = (Given + d) + i
      BY <3>1, <3>2, <1>3, <1>4
    <3> QED BY <3>2, <3>3, <3>4
  <2> QED BY <2>2, <2>3
<1>7. w_slot' # Nothing /\ ~served' => w_slot'.item = posted'[1].data
  <2>1. CASE handshake_w(wready)
    <3>1. w # Nothing /\ w_slot = Nothing /\ w_slot' = w
      BY <2>1, CycleChannels
    <3>2. wr_data_fifo # <<>> /\ w = Hold(Head(wr_data_fifo)) /\ Given = 0
      BY <3>1, <1>0 DEF HandshakeInv, Given, One
    <3>3. Len(wr_data_fifo) \in Nat \ {0}
      BY <3>2, <1>0, EmptySeq DEF Typing
    <3>4. 1 \in 1 .. Len(wr_data_fifo) /\ 0 + 1 = 1
      BY <3>3
    <3>5. wr_data_fifo[1] = posted[0 + 1].data
      BY <3>2, <3>4, <1>0 DEF DataInv
    <3>6. w_slot'.item = wr_data_fifo[1]
      BY <3>1, <3>2, KindFacts
    <3> QED BY <3>4, <3>5, <3>6, <1>2
  <2>2. CASE ~handshake_w(wready)
    <3>1. w_slot' # Nothing => w_slot' = w_slot /\ ~served
      BY <2>2, CycleChannels
    <3> QED BY <3>1, <1>0, <1>2 DEF DataInv
  <2> QED BY <2>1, <2>2
<1> QED BY <1>5, <1>6, <1>7 DEF DataInv

LEMMA CycleRead ==
    ASSUME IInv, NEW pins \in {Nothing, bus},
           NEW awready \in BOOLEAN, NEW wready \in BOOLEAN, NEW arready \in BOOLEAN,
           Cycle(pins, awready, wready, arready)
    PROVE  ReadInv'
<1>0. Typing /\ ReadInv /\ HandshakeInv
  BY DEF IInv
<1>w. ReadChannels(arready) /\ Interconnect(awready, wready, arready) /\ cstate' = nstate(arready)
  BY DEF Cycle
<1>u. op' = op /\ regs' = regs /\ posted' = posted
  BY CyclePins
<1>r. handshake_r => cstate = "WAITRD" /\ rdata = Hold(regs[op.addr]) /\ posted = <<>>
  BY <1>0 DEF ReadInv, handshake_r
<1>a. handshake_ar(arready) => cstate = "READ"
  BY <1>0 DEF ReadInv, handshake_ar
<1>s. ASSUME bus \in {Nothing, Load}
      PROVE  /\ Len(addr_fifo') = Len(addr_fifo) - Popped
             /\ Len(addr_fifo) = Popped => addr_fifo' = <<>>
  <2>1. pins.kind \notin {"write", "read"}
    BY <1>s, KindFacts
  <2>2. One(pins.kind \in {"write", "read"}) = 0
    BY <2>1 DEF One
  <2>3. Len(addr_fifo) \in Int /\ Popped \in Int /\ addr_fifo' \in Seq(Writes \cup Reads)
    BY <1>0, Counts, CycleFifos
  <2>4. Len(addr_fifo') = Len(addr_fifo) - Popped + 0
    BY <2>2, CycleFifos
  <2> QED BY <2>3, <2>4, EmptySeq
<1>n. bus = Nothing => pins = Nothing /\ pins # Load /\ bus' = Nothing /\ pc' = pc
  BY CyclePins, KindFacts
<1>1. CASE cstate = "READ"
  <2>1. pc = "await" /\ bus = Nothing /\ rd_data_fifo = <<>> /\ Len(addr_fifo) = Popped
    BY <1>0, <1>1 DEF ReadInv
  <2>2. addr_fifo' = <<>> /\ Len(addr_fifo') = 0
    BY <2>1, <1>s, EmptySeq
  <2>3. Popped' = 0
    <3>1. ~Enters("WRITE", arready) /\ ~Enters("READ", arready)
      BY <1>1 DEF Enters
    <3> QED BY <3>1, CycleMoves DEF One
  <2>4. rd_data_fifo' = <<>> /\ ~handshake_r
    BY <2>1, <1>n, <1>r, <1>1, CycleFifos
  <2>5. CASE handshake_ar(arready)
    <3>1. cstate' = "WAITRD"
      BY <1>0, <1>1, <1>w, <2>5, NextState DEF Typing
    <3>2. ar' = Nothing /\ ar_slot' = Hold(op.addr)
      BY <1>0, <1>1, <1>w, <2>4, <2>5 DEF ReadChannels, Interconnect, Enters, ReadInv
    <3>3. rready' = TRUE
      BY <1>1, <1>w, <2>1, <2>5, EmptySeq DEF ReadChannels
    <3>4. rdata' = Nothing
      BY <1>0, <1>1, <1>w DEF Interconnect, ReadInv
    <3> QED BY <3>1, <3>2, <3>3, <3>4, <2>1, <2>2, <2>4, <1>n, <1>u DEF ReadInv
  <2>6. CASE ~handshake_ar(arready)
    <3>1. cstate' = "READ"
      BY <1>0, <1>1, <1>w, <2>6, NextState DEF Typing
    <3>2. ar' = Hold(op.addr) /\ ar_slot' = Nothing
      BY <1>0, <1>1, <1>w, <2>4, <2>6 DEF ReadChannels, Interconnect, Enters, ReadInv
    <3>3. rready' = FALSE
      BY <1>0, <1>1, <1>w, <2>6, <2>4 DEF ReadChannels, ReadInv
    <3>4. rdata' = Nothing
      BY <1>0, <1>1, <1>w DEF Interconnect, ReadInv
    <3> QED BY <3>1, <3>2, <3>3, <3>4, <2>1, <2>2, <2>3, <2>4, <1>n, <1>u DEF ReadInv
  <2> QED BY <2>5, <2>6
<1>2. CASE cstate = "WAITRD"
  <2>1. pc = "await" /\ bus = Nothing /\ rd_data_fifo = <<>> /\ addr_fifo = <<>>
    BY <1>0, <1>2 DEF ReadInv
  <2>2. addr_fifo' = <<>>
    <3>1. Popped = 0 /\ Len(addr_fifo) = 0
      BY <1>0, <1>2, <2>1, EmptySeq DEF HandshakeInv, Popped, One
    <3> QED BY <3>1, <2>1, <1>s
  <2>3. ~handshake_ar(arready) /\ ar' = Nothing
    BY <1>0, <1>2, <1>a, <1>w DEF ReadChannels, Enters, ReadInv
  <2>4. CASE handshake_r
    <3>1. cstate' = "IDLE"
      BY <1>0, <1>2, <1>w, <2>4, NextState DEF Typing
    <3>2. ar_slot' = Nothing /\ rdata' = Nothing
      BY <1>w, <2>4 DEF Interconnect
    <3>3. rready' = FALSE
      BY <1>2, <1>w, <2>4 DEF ReadChannels
    <3>4. rd_data_fifo' = <<Hold(regs[op.addr])>>
      BY <2>1, <2>4, <1>n, <1>r, CycleFifos
    <3> QED BY <3>1, <3>2, <3>3, <3>4, <2>1, <2>2, <2>3, <1>n, <1>r, <1>u, <2>4 DEF ReadInv
  <2>5. CASE ~handshake_r
    <3>1. cstate' = "WAITRD"
      BY <1>0, <1>2, <1>w, <2>5, NextState DEF Typing
    <3>2. ar_slot' = ar_slot /\ rdata' = rdata
      BY <1>w, <2>3, <2>5 DEF Interconnect
    <3>3. rready' = rready
      BY <1>2, <1>w, <2>5 DEF ReadChannels
    <3>4. rd_data_fifo' = <<>>
      BY <2>1, <2>5, <1>n, CycleFifos
    <3> QED BY <3>1, <3>2, <3>3, <3>4, <2>1, <2>2, <2>3, <1>0, <1>2, <1>n, <1>u DEF ReadInv
  <2> QED BY <2>4, <2>5
<1>3. CASE cstate \in {"IDLE", "WRITE"}
  <2>1. ~handshake_r /\ ~handshake_ar(arready)
    BY <1>3, <1>a, <1>r
  <2>2. ar_slot' = Nothing /\ rdata' = Nothing /\ rready' = FALSE
    BY <1>0, <1>3, <1>w, <2>1 DEF Interconnect, ReadChannels, ReadInv
  <2>3. CASE Enters("READ", arready)
    <3>1. /\ cstate = "IDLE" /\ cstate' = "READ" /\ addr_fifo # <<>>
          /\ Head(addr_fifo).kind = "read"
      BY <1>0, <1>w, <2>3, NextState DEF Typing, Enters
    <3>2. ReadWaits /\ Popped = 0 /\ Len(addr_fifo) = 1 /\ Head(addr_fifo) = op
      BY <3>1, HeadFacts
    <3>3. pc = "await" /\ bus = Nothing /\ rd_data_fifo = <<>>
      BY <3>2 DEF ReadWaits
    <3>4. rd_data_fifo' = <<>>
      BY <3>3, <2>1, <1>n, CycleFifos
    <3>5. Len(addr_fifo') = 1
      BY <3>2, <3>3, <1>s
    <3>6. Popped' = 1
      <4>1. ~Enters("WRITE", arready)
        BY <3>1, <1>w DEF Enters
      <4> QED BY <4>1, <2>3, CycleMoves DEF One
    <3>7. ar' = Hold(op.addr)
      BY <1>w, <2>3, <3>2 DEF ReadChannels
    <3> QED BY <3>1, <3>3, <3>4, <3>5, <3>6, <3>7, <2>2, <1>n, <1>u DEF ReadInv
  <2>4. CASE ~Enters("READ", arready)
    <3>1. cstate' \in {"IDLE", "WRITE"} /\ (cstate = "IDLE" /\ addr_fifo = <<>> => cstate' = "IDLE")
      BY <1>0, <1>3, <1>w, <2>4, NextState DEF Typing, Enters
    <3>2. ar' = Nothing
      BY <1>0, <1>3, <1>w, <2>4 DEF ReadChannels, ReadInv, handshake_ar
    <3>3. CASE rd_data_fifo = <<>>
      <4>1. rd_data_fifo' = <<>> /\ pc # "load"
        BY <1>0, <2>1, <3>3, CycleFifos DEF ReadInv
      <4>2. pc' # "load"
        BY <4>1, CyclePins
      <4> QED BY <4>1, <4>2, <3>1, <3>2, <2>2 DEF ReadInv
    <3>4. CASE rd_data_fifo # <<>>
      <4>1. /\ pc = "load" \/ (pc = "await" /\ bus = Nothing)
            /\ cstate = "IDLE" /\ addr_fifo = <<>> /\ posted = <<>>
            /\ rd_data_fifo = <<Hold(regs[op.addr])>>
        BY <1>0, <3>4 DEF ReadInv
      <4>2. bus \in {Nothing, Load} /\ (pc = "load" => bus = Load)
        BY <1>0, <4>1, KindFacts DEF IInv, DspInv, Typing
      <4>3. addr_fifo' = <<>>
        <5>1. Popped = 0 /\ Len(addr_fifo) = 0
          BY <1>0, <4>1, EmptySeq DEF HandshakeInv, Popped, One
        <5> QED BY <5>1, <4>2, <1>s
      <4>4. CASE pins = Load
        <5>1. rd_data_fifo' = <<>> /\ pc' = "run"
          BY <4>4, CycleFifos, CyclePins
        <5> QED BY <5>1, <3>1, <3>2, <2>2 DEF ReadInv
      <4>5. CASE pins # Load
        <5>1. rd_data_fifo' = rd_data_fifo /\ pc' = pc
          BY <4>5, <2>1, CycleFifos, CyclePins
        <5>2. bus' = bus
          BY <4>2, <4>5, CyclePins
        <5> QED BY <5>1, <5>2, <4>1, <4>3, <3>1, <3>2, <2>2, <1>u DEF ReadInv
      <4> QED BY <4>4, <4>5
    <3> QED BY <3>3, <3>4
  <2> QED BY <2>3, <2>4
<1> QED BY <1>1, <1>2, <1>3, <1>0 DEF Typing

LEMMA CycleRoom ==
    ASSUME IInv, NEW pins \in {Nothing, bus},
           NEW awready \in BOOLEAN, NEW wready \in BOOLEAN, NEW arready \in BOOLEAN,
           Cycle(pins, awready, wready, arready)
    PROVE  RoomInv'
<1>0. Typing /\ RoomInv /\ DataInv /\ ReadInv
  BY DEF IInv
<1>e. PICK d \in Int : d = One(handshake_w(wready))
  BY DEF One
<1>p. PICK wr \in Int : wr = One(pins.kind = "write")
  BY DEF One
<1>q. PICK rq \in Int : rq = One(pins.kind \in {"write", "read"})
  BY DEF One
<1>1. /\ d \in {0, 1} /\ wr \in {0, 1} /\ rq \in {0, 1}
      /\ pins.kind = "write" => wr = 1 /\ rq = 1
      /\ pins.kind = "read" => wr = 0 /\ rq = 1
      /\ pins.kind \notin {"write", "read"} => wr = 0 /\ rq = 0
  BY <1>e, <1>p, <1>q DEF One
<1>2. /\ OnBus' = OnBus - wr /\ InOp' = InOp /\ burst' = burst
      /\ Len(wr_data_fifo') = Len(wr_data_fifo) - d + wr
      /\ Len(addr_fifo') = Len(addr_fifo) - Popped + rq
  BY <1>e, <1>p, <1>q, CyclePins, CycleFifos
<1>3. /\ OnBus \in Int /\ InOp \in Int /\ Popped \in Int /\ Popped >= 0
      /\ Len(addr_fifo) \in Int /\ Len(wr_data_fifo) \in Int
      /\ burst \in Int /\ burst >= 0
  BY <1>0, Counts DEF Typing
<1>4. CASE pins = Load
  <2>1. pc = "load" /\ pc' = "run" /\ bus = Load
    BY <1>4, CyclePins, KindFacts
  <2>2. addr_fifo = <<>> /\ posted = <<>>
    BY <2>1, <1>0 DEF ReadInv
  <2>3. Len(addr_fifo) = 0 /\ Len(posted) = 0
    BY <2>2, EmptySeq
  <2>4. OnBus = 0 /\ InOp = 0 /\ Len(wr_data_fifo) = 0
    BY <2>3, <1>0, Counts DEF DataInv
  <2>5. wr = 0 /\ rq = 0
    BY <1>1, <1>4, CyclePins
  <2>6. Len(addr_fifo') + OnBus' + InOp' <= burst
    BY <2>3, <2>4, <2>5, <1>2, <1>3
  <2>7. Len(wr_data_fifo') + OnBus' + InOp' <= burst
    BY <2>4, <2>5, <1>1, <1>2, <1>3
  <2> QED BY <2>1, <2>6, <2>7, <1>2 DEF RoomInv
<1>5. CASE pins # Load
  <2>1. pc' = pc
    BY <1>5, CyclePins
  <2>2. Len(wr_data_fifo') + OnBus' + InOp' <= Len(wr_data_fifo) + OnBus + InOp
    BY <1>1, <1>2, <1>3
  <2>3. Len(wr_data_fifo') + OnBus' + InOp' <=
            (IF pc' = "run" \/ InOp' = 1 THEN burst' ELSE BURST)
    <3>1. Len(wr_data_fifo') + OnBus' + InOp' \in Int
      BY <1>2, <1>3
    <3>2. Len(wr_data_fifo) + OnBus + InOp <= (IF pc = "run" \/ InOp = 1 THEN burst ELSE BURST)
      BY <1>0 DEF RoomInv
    <3> QED BY <2>1, <2>2, <3>1, <3>2, <1>2, <1>3
  <2>4. CASE pins.kind = "read"
    <3>1. bus # Nothing /\ pc = "await" /\ bus' = Nothing /\ OnBus = 0 /\ InOp = 0
      BY <2>4, CyclePins, KindFacts DEF OnBus, InOp, One
    <3>2. Len(addr_fifo) + OnBus + InOp <= BURST + 0
      BY <3>1, <1>0 DEF RoomInv, One
    <3>3. Len(addr_fifo') + OnBus' + InOp' <= BURST + 1
      BY <3>2, <2>4, <1>1, <1>2, <1>3
    <3> QED BY <3>1, <3>3, <2>1, <2>3, <1>2 DEF RoomInv, One
  <2>5. CASE pins.kind # "read"
    <3>1. Len(addr_fifo') + OnBus' + InOp' <= Len(addr_fifo) + OnBus + InOp
      BY <2>5, <1>1, <1>2, <1>3
    <3>2. (pc' = "await" /\ bus' = Nothing) <=> (pc = "await" /\ bus = Nothing)
      BY <2>1, <2>5, <1>5, CyclePins, KindFacts DEF IInv, DspInv, Typing
    <3>3. One(pc' = "await" /\ bus' = Nothing) = One(pc = "await" /\ bus = Nothing)
      BY <3>2 DEF One
    <3>4. Len(addr_fifo) + OnBus + InOp <=
              (IF pc = "run" \/ InOp = 1 THEN burst
               ELSE BURST + One(pc = "await" /\ bus = Nothing))
      BY <1>0 DEF RoomInv
    <3>5. One(pc = "await" /\ bus = Nothing) \in Int
      BY DEF One
    <3>6. PICK o \in Int : o = One(pc = "await" /\ bus = Nothing)
      BY <3>5
    <3>7. Len(addr_fifo) + OnBus + InOp <= (IF pc = "run" \/ InOp = 1 THEN burst ELSE BURST + o)
      BY <3>4, <3>6
    <3>8. Len(addr_fifo') + OnBus' + InOp' <=
              (IF pc' = "run" \/ InOp' = 1 THEN burst' ELSE BURST + o)
      BY <2>1, <3>1, <3>7, <1>2, <1>3
    <3> QED BY <2>1, <2>3, <3>3, <3>6, <3>8, <1>2 DEF RoomInv
  <2> QED BY <2>4, <2>5
<1> QED BY <1>4, <1>5

-----------------------------------------------------------------------------
(* The theorems.                                                           *)

LEMMA NextIInv == IInv /\ [Next]_vars => IInv'
<1> SUFFICES ASSUME IInv, [Next]_vars PROVE IInv'
  OBVIOUS
<1>1. CASE Dsp
  <2>1. CASE \E a \in Regs : readReg(a) \/ \E v \in Values : writeReg(a, v)
    BY <2>1, readRegStep, writeRegStep
  <2> QED BY <1>1, <2>1, StoreStep, AwaitStep DEF Dsp
<1>2. CASE Clock
  <2>1. PICK pins \in {Nothing, bus}, awready \in BOOLEAN, wready \in BOOLEAN, arready \in BOOLEAN :
            Cycle(pins, awready, wready, arready)
    BY <1>2 DEF Clock
  <2>2. Typing' /\ DspInv'
    BY <2>1, CycleTyping, CycleDsp
  <2>3. HandshakeInv' /\ AddressInv'
    BY <2>1, CycleHandshake, CycleAddress
  <2>4. DataInv' /\ ReadInv'
    BY <2>1, CycleData, CycleRead
  <2>5. RoomInv'
    BY <2>1, CycleRoom
  <2> QED BY <2>2, <2>3, <2>4, <2>5 DEF IInv
<1>3. CASE MakeWrite
  BY <1>3, MakeWriteStep
<1>4. CASE MakeRead
  BY <1>4, MakeReadStep
<1>5. CASE UNCHANGED vars
  BY <1>5, StutterStep
<1> QED BY <1>1, <1>2, <1>3, <1>4, <1>5 DEF Next

\* The invariant holds in every reachable state, whatever the depth of the
\* FIFOs, however the DSP, the clock and the interconnect take turns, as long
\* as the DSP posts fewer writes between two reads than a FIFO holds.
THEOREM Invariant == Spec => []IInv
<1> QED BY InitIInv, NextIInv, PTL DEF Spec

\* A push never finds its FIFO full, and at most one answer is on its way:
\* the types of TypeOK (emif2axil.v:86-172).
THEOREM TypeCorrect == Spec => []TypeOK
<1>1. IInv => TypeOK
  <2> SUFFICES ASSUME IInv PROVE TypeOK
    OBVIOUS
  <2>0. Typing
    BY DEF IInv
  <2>1. Len(rd_data_fifo) <= 1
    <3>1. CASE rd_data_fifo # <<>>
      <4>1. rd_data_fifo = <<Hold(regs[op.addr])>>
        BY <3>1 DEF IInv, ReadInv
      <4> QED BY <4>1
    <3>2. CASE rd_data_fifo = <<>>
      <4>1. Len(rd_data_fifo) = 0
        BY <3>2
      <4> QED BY <4>1
    <3> QED BY <3>1, <3>2
  <2>2. /\ OnBus \in 0 .. 1 /\ InOp \in 0 .. 1 /\ burst \in 0 .. BURST
        /\ Len(addr_fifo) \in Nat /\ Len(wr_data_fifo) \in Nat
    BY <2>0, Counts DEF Typing
  <2>3. Len(addr_fifo) <= DEPTH /\ Len(wr_data_fifo) <= DEPTH
    BY <2>2 DEF IInv, RoomInv, One
  <2> QED BY <2>0, <2>1, <2>3 DEF Typing, TypeOK
<1> QED BY <1>1, Invariant, PTL

\* The write that the interconnect is about to make is the oldest one the
\* program posted, with its own data: addresses and data travel apart and
\* are never lost, repeated or paired wrongly (emif2axil.v:113-136, 236-283).
THEOREM WritesKeep == Spec => []WritesKeepTheirData
<1>1. IInv => WritesKeepTheirData
  <2> SUFFICES ASSUME IInv, aw_slot # Nothing, w_slot # Nothing, ~served
               PROVE  /\ posted # <<>>
                      /\ Head(posted).addr = aw_slot.item
                      /\ Head(posted).data = w_slot.item
    BY DEF WritesKeepTheirData
  <2>0. Typing
    BY DEF IInv
  <2>1. Given = 1
    BY DEF Given, One
  <2>2. Len(posted) >= 1
    BY <2>0, <2>1, Counts DEF IInv, DataInv
  <2>3. posted # <<>> /\ Head(posted) = posted[1]
    BY <2>0, <2>2, EmptySeq DEF Typing
  <2> QED BY <2>3 DEF IInv, AddressInv, DataInv
<1> QED BY <1>1, Invariant, PTL

\* When readReg loads, the read FIFO holds the answer to this very read, and
\* every write that the program made before it has taken effect
\* (Emif2Axil.h:36-46).
THEOREM ReadsAnswered == Spec => []ReadGetsItsOwnAnswer
<1>1. IInv => ReadGetsItsOwnAnswer
  <2> SUFFICES ASSUME IInv, pc = "load"
               PROVE  rd_data_fifo = <<Hold(LastWritten(op.addr))>>
    BY DEF ReadGetsItsOwnAnswer
  <2>1. posted = <<>> /\ rd_data_fifo = <<Hold(regs[op.addr])>>
    BY DEF IInv, ReadInv
  <2>2. DOMAIN posted = {}
    BY <2>1
  <2>3. LastWritten(op.addr) = regs[op.addr]
    BY <2>2 DEF LastWritten
  <2> QED BY <2>1, <2>3
<1> QED BY <1>1, Invariant, PTL

================================================================================
