------------------------------ MODULE SrioRx_proof ------------------------------
(* Proofs about SrioRx, for any number of packets and any page size.       *)
EXTENDS SrioRx, SequenceTheorems, TLAPS

USE RxAssumption DEF RxAssumption

(***************************************************************************)
(* The inductive invariant.                                                *)
(***************************************************************************)
Bursts == [addr : Nat, len : Nat]

Typing ==
    /\ left \in Nat /\ pkt \in Requests /\ beat \in 0 .. pkt.n
    /\ treq \in [valid : BOOLEAN, type : {"DB", "NW"}]
    /\ cstate \in {"IDLE", "ERR", "NW2MM", "NW2S"} /\ waiting \in BOOLEAN
    /\ nw_err \subseteq {18, 19} /\ csr_err \subseteq {18, 19}
    /\ aw \in [valid : BOOLEAN, addr : Addrs \cup {0}, len : Nat]
    /\ tready_db \in BOOLEAN /\ db_irq \in Nat /\ tresp \in Nat /\ rdata \in Nat
    /\ mode \in [nw : BOOLEAN, nomsi : BOOLEAN]
    /\ msi \in [busy : BOOLEAN, err : BOOLEAN, info : Nat]
    /\ wbeat \in Nat /\ bursts \in Seq(Bursts)
    /\ fate \in Seq(Fates) /\ answered \in Seq(Nat)

\* A header says what its packet is; a doorbell is accepted only while no
\* doorbell is being signalled and no response waits.
StreamInv ==
    /\ treq.valid /\ beat = 0 => treq.type = pkt.type
    /\ EnginesFollowStream
    /\ tready_db => db_irq = None /\ tresp = None

\* A burst is open only while its packet's data is on the stream, and the
\* address still waits only before the first double word.
BurstInv ==
    /\ BeatsInPlace
    /\ Len(bursts) <= 1
    /\ bursts = <<>> => wbeat = 0
    /\ aw.valid => beat = 1 /\ aw.addr = pkt.addr /\ aw.len = pkt.n - 1

Seen == Len(fate) + (IF db_irq = None THEN 0 ELSE 1)
Owed == IF tresp = None THEN 0 ELSE 1
Coming == IF treq.valid /\ pkt.type = "DB" THEN 1 ELSE 0

\* Doorbells are numbered in the order they are accepted.
DoorbellInv ==
    /\ db_irq # None => db_irq = Len(fate) + 1
    /\ tresp # None => tresp = Len(answered) + 1
    /\ Len(answered) + Owed = Seen
    /\ \A i \in 1 .. Len(answered) : answered[i] = i
    /\ left + Seen + Coming <= Packets

\* The answer to a read under way is the message in the slot.
SlotInv ==
    /\ MessageKeptUntilRead
    /\ msi.info <= Len(fate)
    /\ msi.busy => msi.info # None
    /\ rdata # None => msi.busy /\ rdata = msi.info

IInv == Typing /\ StreamInv /\ BurstInv /\ DoorbellInv /\ SlotInv

-----------------------------------------------------------------------------
LEMMA RequestFacts ==
  ASSUME NEW p \in Requests
  PROVE  /\ p.type \in {"NW", "DB"} /\ p.addr \in Nat /\ p.n \in Nat /\ p.odd \in BOOLEAN
         /\ p.type = "DB" => p.n = 0
         /\ p.type = "NW" => p.n > 0 /\ p.addr \in Addrs
<1>1. CASE p \in NWrites
  <2>1. p.type = "NW" /\ p.addr \in Addrs /\ p.n \in Sizes /\ p.odd \in BOOLEAN
    BY <1>1 DEF NWrites
  <2>2. p.n \in Nat \ {0}
    BY <2>1
  <2>3. p.addr \in Nat
    BY <2>1
  <2>4. QED
    BY <2>1, <2>2, <2>3
<1>2. CASE p = Doorbell
  BY <1>2 DEF Doorbell
<1>3. QED
  BY <1>1, <1>2 DEF Requests

LEMMA InitIInv == Init => IInv
<1> SUFFICES ASSUME Init PROVE IInv
  OBVIOUS
<1> USE DEF Init, None, NoBurst
<1>1. Typing
  <2>1. pkt \in Requests /\ beat \in 0 .. pkt.n
    BY DEF Requests, Doorbell
  <2>2. bursts \in Seq(Bursts) /\ fate \in Seq(Fates) /\ answered \in Seq(Nat)
    BY EmptySeq
  <2>3. QED
    BY <2>1, <2>2 DEF Typing
<1>2. StreamInv
  BY DEF StreamInv, EnginesFollowStream, nw_busy, Doorbell
<1>3. BurstInv
  BY EmptySeq DEF BurstInv, BeatsInPlace
<1>4. DoorbellInv
  BY EmptySeq DEF DoorbellInv, Seen, Owed, Coming
<1>5. SlotInv
  BY EmptySeq DEF SlotInv, MessageKeptUntilRead
<1>6. QED
  BY <1>1, <1>2, <1>3, <1>4, <1>5 DEF IInv

(* A clock cycle with the inputs of Next.                                  *)
Step(wready, c2h_tready, awready, tresp_tready) ==
    /\ wready \in BOOLEAN /\ c2h_tready \in BOOLEAN
    /\ awready \in BOOLEAN /\ tresp_tready \in BOOLEAN
    /\ wready => cstate = "NW2MM" /\ bursts # <<>>
    /\ Cycle(wready, c2h_tready, awready, tresp_tready)

LEMMA NextIsStep ==
  ASSUME Next
  PROVE  \E w, c, a, t \in BOOLEAN : Step(w, c, a, t)
  BY DEF Next, Step, When

(* What the core does in a cycle: it holds a beat nobody takes, or goes on *)
(* to the next place of the packet or to a new packet.                     *)
LEMMA StreamMoves ==
  ASSUME Typing, NEW nwready \in BOOLEAN, Stream(nwready)
  PROVE  /\ left' \in Nat /\ pkt' \in Requests /\ beat' \in 0 .. pkt'.n
         /\ treq' \in [valid : BOOLEAN, type : {"DB", "NW"}]
         /\ IF treq.valid /\ ~tready_db /\ ~nwready
            THEN UNCHANGED core
            ELSE /\ beat' = IF ~treq.valid THEN beat
                            ELSE IF beat = pkt.n THEN 0 ELSE beat + 1
                 /\ \/ left' = left /\ pkt' = pkt /\ (beat' = 0 => ~treq'.valid)
                    \/ /\ left = left' + 1 /\ beat' = 0
                       /\ treq'.valid /\ treq'.type = pkt'.type
<1> USE DEF Typing, Stream, core
<1>1. pkt.n \in Nat
  BY RequestFacts
<1>2. CASE treq.valid /\ ~tready_db /\ ~nwready
  BY <1>1, <1>2
<1>3. CASE ~treq.valid \/ tready_db \/ nwready
  <2>1. Offer /\ beat' \in 0 .. pkt.n
    BY <1>1, <1>3
  <2>2. CASE treq' = [treq EXCEPT !.valid = FALSE] /\ UNCHANGED <<left, pkt>>
    BY <1>1, <1>3, <2>1, <2>2
  <2>3. CASE beat' > 0 /\ treq' \in [valid : {TRUE}, type : {"DB", "NW"}] /\ UNCHANGED <<left, pkt>>
    <3>1. treq' \in [valid : BOOLEAN, type : {"DB", "NW"}]
      BY <2>3
    <3>2. beat' # 0
      BY <2>1, <2>3, <1>1
    <3>3. QED
      BY <1>1, <1>3, <2>1, <2>3, <3>1, <3>2
  <2>4. CASE /\ beat' = 0 /\ left > 0 /\ left' = left - 1
             /\ pkt' \in NWrites \cup {Doorbell}
             /\ treq' = [valid |-> TRUE, type |-> pkt'.type]
    <3>1. pkt' \in Requests
      BY <2>4 DEF Requests
    <3>2. pkt'.type \in {"DB", "NW"} /\ pkt'.n \in Nat
      BY <3>1, RequestFacts
    <3>3. QED
      BY <1>1, <1>3, <2>1, <2>4, <3>1, <3>2
  <2>5. QED
    BY <2>1, <2>2, <2>3, <2>4 DEF Offer
<1>4. QED
  BY <1>2, <1>3

(* A beat is taken by one engine: the doorbell engine takes doorbells, the *)
(* other one headers and data of NWRITE packets.                           *)
LEMMA OneTaker ==
  ASSUME IInv, NEW w \in BOOLEAN, NEW c \in BOOLEAN
  PROVE  LET nwready == treq_tready_nw(w, c) IN
         /\ tready_db => /\ ~nwready /\ cstate = "IDLE" /\ treq.valid
                         /\ treq.type = "DB" /\ pkt.type = "DB" /\ beat = 0 /\ pkt.n = 0
         /\ nwready /\ treq.valid => pkt.type = "NW" /\ pkt.n > 0
         /\ cstate = "IDLE" <=> beat = 0
         /\ cstate = "IDLE" /\ treq.valid => (nwready <=> handshake_treq_nw)
<1>1. pkt.n \in Nat /\ beat \in Nat /\ pkt.type \in {"NW", "DB"}
      /\ (pkt.type = "DB" => pkt.n = 0) /\ (pkt.type = "NW" => pkt.n > 0)
  BY RequestFacts DEF IInv, Typing
<1>2. beat > 0 => pkt.type = "NW"
  BY <1>1 DEF IInv, Typing
<1>3. QED
  BY <1>1, <1>2 DEF IInv, Typing, StreamInv, EnginesFollowStream, nw_busy,
     doorbell_valid, nwrite_valid, treq_tready_nw, handshake_treq_nw

(* What the state machine of nw_rx_engine does in a cycle.                 *)
LEMMA NwMoves ==
  ASSUME IInv, NEW w \in BOOLEAN, NEW c \in BOOLEAN,
         cstate' = nstate(treq_tready_nw(w, c)), Stream(treq_tready_nw(w, c))
  PROVE  /\ cstate' \in {"IDLE", "ERR", "NW2MM", "NW2S"}
         /\ cstate' = "IDLE" <=> beat' = 0
         /\ cstate = "IDLE" /\ cstate' # "IDLE" => beat' = 1 /\ pkt' = pkt
         /\ cstate = "IDLE" /\ cstate' = "NW2MM" => ~is_cross_boundary /\ is_align8bytes
         /\ cstate # "IDLE" => cstate' \in {cstate, "IDLE"}
<1> DEFINE nwready == treq_tready_nw(w, c)
<1>1. pkt.n \in Nat /\ beat \in 0 .. pkt.n
  BY RequestFacts DEF IInv, Typing
<1>2. nwready \in BOOLEAN
  BY DEF treq_tready_nw, IInv, Typing
<1>3. CASE ~treq.valid
  <2>1. cstate' = cstate /\ beat' = beat
    BY <1>2, <1>3, StreamMoves DEF nstate, handshake_treq_nw, nwrite_valid, treq_packet_end, IInv
  <2>2. QED
    BY <2>1, OneTaker DEF IInv, Typing
<1>4. CASE treq.valid /\ ~tready_db /\ ~nwready
  <2>1. UNCHANGED core
    BY <1>2, <1>4, StreamMoves DEF IInv
  <2>2. cstate' = cstate
    BY <1>4, OneTaker DEF nstate, treq_packet_end
  <2>3. QED
    BY <2>1, <2>2, OneTaker DEF IInv, Typing, core
<1>5. CASE treq.valid /\ tready_db
  <2>1. cstate = "IDLE" /\ ~nwready /\ beat = 0 /\ pkt.n = 0
    BY <1>5, OneTaker
  <2>2. beat' = 0
    BY <1>2, <1>5, <2>1, StreamMoves DEF IInv
  <2>3. cstate' = "IDLE"
    BY <1>5, <2>1, OneTaker DEF nstate
  <2>4. QED
    BY <2>1, <2>2, <2>3
<1>6. CASE treq.valid /\ nwready /\ ~tready_db
  <2>1. beat' = IF beat = pkt.n THEN 0 ELSE beat + 1
    BY <1>2, <1>6, StreamMoves DEF IInv
  <2>2. pkt.n > 0
    BY <1>6, OneTaker
  <2>3. CASE cstate = "IDLE"
    <3>1. handshake_treq_nw /\ beat = 0
      BY <1>6, <2>3, OneTaker
    <3>2. beat' = 1
      BY <1>1, <2>1, <2>2, <3>1
    <3>3. pkt' = pkt
      <4>1. pkt' = pkt \/ beat' = 0
        BY <1>2, <1>6, StreamMoves DEF IInv
      <4>2. QED
        BY <3>2, <4>1
    <3>4. QED
      BY <2>3, <3>1, <3>2, <3>3 DEF nstate
  <2>4. CASE cstate # "IDLE"
    <3>1. treq_packet_end(nwready) <=> beat = pkt.n
      BY <1>6 DEF treq_packet_end
    <3>2. beat # pkt.n => beat' > 0
      BY <1>1, <2>1
    <3>3. QED
      BY <1>1, <2>1, <2>2, <2>4, <3>1, <3>2 DEF nstate, IInv, Typing
  <2>5. QED
    BY <2>3, <2>4
<1>7. QED
  BY <1>2, <1>3, <1>4, <1>5, <1>6 DEF IInv, Typing

LEMMA StreamInvStep ==
  ASSUME IInv, NEW w, NEW c, NEW a, NEW t, Step(w, c, a, t)
  PROVE  StreamInv'
<1> DEFINE nwready == treq_tready_nw(w, c)
<1> USE DEF Step, Cycle
<1>1. nwready \in BOOLEAN /\ Stream(nwready)
  BY DEF treq_tready_nw, IInv, Typing
<1>2. /\ IF treq.valid /\ ~tready_db /\ ~nwready
         THEN UNCHANGED core
         ELSE \/ left' = left /\ pkt' = pkt /\ (beat' = 0 => ~treq'.valid)
              \/ treq'.type = pkt'.type
      /\ beat' \in Int
  <2>1. pkt'.n \in Int
    BY <1>1, StreamMoves, RequestFacts DEF IInv
  <2>2. QED
    BY <1>1, <2>1, StreamMoves DEF IInv
<1>3. treq'.valid /\ beat' = 0 => treq'.type = pkt'.type
  BY <1>2 DEF core, IInv, StreamInv
<1>4. nw_busy' <=> beat' > 0
  <2>1. cstate' = "IDLE" <=> beat' = 0
    BY <1>1, NwMoves DEF NwEngine
  <2>2. pkt'.n \in Int /\ beat' \in 0 .. pkt'.n
    BY <1>1, StreamMoves, RequestFacts DEF IInv
  <2>3. QED
    BY <2>1, <2>2 DEF nw_busy
<1>5. tready_db' => /\ doorbell_valid /\ ~tready_db /\ ~doorbell_nack(t)
  BY DEF DbEngine, IInv, Typing, StreamInv, EnginesFollowStream
<1>6. waiting' => nwrite_valid /\ ~waiting
  BY DEF NwEngine
<1>7. ASSUME tready_db' \/ waiting' PROVE UNCHANGED <<core, cstate>> /\ treq.type = pkt.type
  <2>1. treq.valid /\ cstate = "IDLE" /\ beat = 0
    BY <1>5, <1>6, <1>7, OneTaker DEF doorbell_valid, nwrite_valid, nw_busy
  <2>2. ~tready_db
    BY <1>5, <1>6, <1>7, OneTaker DEF nwrite_valid
  <2>3. ~nwready
    BY <1>5, <1>6, <1>7, <2>1, OneTaker DEF handshake_treq_nw, doorbell_valid, nwrite_valid
  <2>4. UNCHANGED core
    BY <1>2, <2>1, <2>2, <2>3
  <2>5. cstate' = "IDLE"
    BY <1>1, <2>1, <2>4, NwMoves DEF core, NwEngine
  <2>6. QED
    BY <2>1, <2>4, <2>5 DEF IInv, StreamInv
<1>8. EnginesFollowStream'
  <2>1. tready_db' => doorbell_valid' /\ pkt'.type = "DB"
    BY <1>5, <1>7 DEF doorbell_valid, nw_busy, core
  <2>2. waiting' => nwrite_valid' /\ pkt'.type = "NW"
    BY <1>6, <1>7 DEF nwrite_valid, nw_busy, core
  <2>3. QED
    BY <1>4, <2>1, <2>2 DEF EnginesFollowStream
<1>9. tready_db' => db_irq' = None /\ tresp' = None
  BY <1>5 DEF DbEngine, handshake_treq_db, doorbell_nack
<1>10. QED
  BY <1>3, <1>8, <1>9 DEF StreamInv

(* Data goes to the burst of its own packet: the burst is one address and  *)
(* as many beats as the packet has double words.                           *)
LEMMA BurstInvStep ==
  ASSUME IInv, NEW w, NEW c, NEW a, NEW t, Step(w, c, a, t)
  PROVE  BurstInv'
<1> DEFINE nwready == treq_tready_nw(w, c)
<1>1. /\ w \in BOOLEAN /\ c \in BOOLEAN /\ nwready \in BOOLEAN
      /\ Stream(nwready) /\ NwEngine(nwready, a) /\ Memory(w, a)
  BY DEF treq_tready_nw, IInv, Typing, Step, Cycle
<1>2. /\ pkt.n \in Nat /\ pkt.addr \in Nat /\ pkt.odd \in BOOLEAN /\ beat \in 0 .. pkt.n
      /\ aw.valid \in BOOLEAN /\ wbeat \in Nat
  BY RequestFacts DEF IInv, Typing
<1>2a. bursts \in Seq(Bursts)
  BY DEF IInv, Typing
<1>3. w => cstate = "NW2MM" /\ bursts # <<>>
  BY DEF Step
<1>4. CASE cstate # "NW2MM" /\ cstate' # "NW2MM"
  <2>1. ~aw.valid /\ bursts = <<>> /\ wbeat = 0
    BY <1>4 DEF IInv, BurstInv, BeatsInPlace
  <2>2. aw' = aw /\ bursts' = bursts /\ wbeat' = wbeat
    BY <1>1, <1>4, <2>1 DEF NwEngine, Memory, handshake_w
  <2>3. QED
    BY <1>4, <2>1, <2>2, EmptySeq DEF BurstInv, BeatsInPlace
<1>5. CASE cstate # "NW2MM" /\ cstate' = "NW2MM"
  <2>1. ~aw.valid /\ bursts = <<>> /\ wbeat = 0
    BY <1>5 DEF IInv, BurstInv, BeatsInPlace
  <2>2. cstate = "IDLE"
    BY <1>1, <1>5, NwMoves DEF NwEngine
  <2>3. beat' = 1 /\ pkt' = pkt /\ ~is_cross_boundary /\ is_align8bytes
    BY <1>1, <1>5, <2>2, NwMoves DEF NwEngine
  <2>4. aw' = [valid |-> TRUE, addr |-> pkt.addr, len |-> pkt.n - 1]
    BY <1>1, <1>5, <2>2 DEF NwEngine
  <2>5. bursts' = <<>> /\ wbeat' = 0
    BY <1>1, <1>5, <2>1 DEF Memory, handshake_w
  <2>6. QED
    BY <1>2, <1>5, <2>3, <2>4, <2>5, EmptySeq DEF BurstInv, BeatsInPlace, is_cross_boundary, is_align8bytes
<1>6. CASE cstate = "NW2MM"
  <2>0. /\ aw.valid <=> bursts = <<>>
        /\ ~pkt.odd /\ pkt.addr \div Page = (pkt.addr + pkt.n - 1) \div Page
        /\ bursts # <<>> => /\ Head(bursts).addr + wbeat = pkt.addr + beat - 1
                            /\ Head(bursts).len - wbeat = pkt.n - beat
        /\ Len(bursts) <= 1
        /\ bursts = <<>> => wbeat = 0
        /\ aw.valid => beat = 1 /\ aw.addr = pkt.addr /\ aw.len = pkt.n - 1
    BY <1>6 DEF IInv, BurstInv, BeatsInPlace
  <2>1. nwready <=> w
    BY <1>6, <1>3 DEF treq_tready_nw, Step
  <2>2. ~tready_db /\ beat > 0 /\ pkt.type = "NW"
    <3>1. beat > 0 /\ beat # 0
      BY <1>2, <1>6 DEF IInv, StreamInv, EnginesFollowStream, nw_busy
    <3>2. QED
      BY <1>1, <1>2, <1>6, <3>1, OneTaker, RequestFacts DEF IInv, Typing
  <2>3. CASE ~handshake_w(w)
    <3>1. ~treq.valid \/ ~nwready
      BY <1>6, <2>1, <2>3 DEF handshake_w
    <3>2. cstate' = cstate
      BY <1>1, <1>6, <3>1 DEF NwEngine, nstate, treq_packet_end
    <3>3. beat' = beat /\ (pkt' = pkt \/ beat' = 0)
      BY <1>1, <2>2, <3>1, StreamMoves DEF IInv, core
    <3>4. pkt' = pkt
      BY <1>2, <2>2, <3>3
    <3>5. CASE aw.valid /\ a
      <4>1. bursts = <<>> /\ aw' = NoBurst
        BY <1>1, <1>6, <2>0, <3>2, <3>5 DEF NwEngine
      <4>2. bursts' = <<[addr |-> aw.addr, len |-> aw.len]>> /\ wbeat' = 0
        BY <1>1, <2>0, <2>3, <3>5, <4>1 DEF Memory
      <4>3. bursts' # <<>> /\ Len(bursts') = 1 /\ Head(bursts') = [addr |-> aw.addr, len |-> aw.len]
        BY <4>2
      <4>4. QED
        BY <1>2, <1>6, <2>0, <3>2, <3>3, <3>4, <3>5, <4>1, <4>2, <4>3 DEF BurstInv, BeatsInPlace, NoBurst
    <3>6. CASE ~(aw.valid /\ a)
      <4>1. aw' = aw /\ bursts' = bursts /\ wbeat' = wbeat
        BY <1>1, <1>6, <2>3, <3>2, <3>6 DEF NwEngine, Memory
      <4>2. QED
        BY <1>2, <1>6, <2>0, <3>2, <3>3, <3>4, <4>1 DEF BurstInv, BeatsInPlace
    <3>7. QED
      BY <3>5, <3>6
  <2>4. CASE handshake_w(w)
    <3>1. treq.valid /\ w /\ bursts # <<>> /\ ~aw.valid
      BY <1>3, <2>0, <2>4 DEF handshake_w
    <3>2. beat' = IF beat = pkt.n THEN 0 ELSE beat + 1
      BY <1>1, <2>1, <3>1, StreamMoves DEF IInv
    <3>3. aw' = aw
      BY <1>1, <1>6, <3>1 DEF NwEngine
    <3>4. CASE beat = pkt.n
      <4>1. cstate' = "IDLE"
        BY <1>1, <1>6, <2>1, <3>1, <3>4 DEF NwEngine, nstate, treq_packet_end
      <4>2. wbeat = Head(bursts).len
        <5>1. Head(bursts) \in Bursts
          BY <1>2a, <3>1, HeadTailProperties
        <5>2. Head(bursts).len \in Nat
          BY <5>1 DEF Bursts
        <5>3. QED
          BY <1>2, <2>0, <3>1, <3>4, <5>2
      <4>3. bursts' = Tail(bursts) /\ wbeat' = 0
        BY <1>1, <2>4, <3>1, <4>2 DEF Memory
      <4>4. bursts' = <<>>
        <5>1. Tail(bursts) \in Seq(Bursts) /\ Len(Tail(bursts)) = Len(bursts) - 1 /\ Len(bursts) \in Nat
          BY <1>2a, <3>1, HeadTailProperties, LenProperties
        <5>2. Len(Tail(bursts)) = 0
          BY <1>2, <2>0, <3>1, <5>1, EmptySeq
        <5>3. QED
          BY <4>3, <5>1, <5>2, EmptySeq
      <4>5. QED
        <5>1. ~aw'.valid /\ cstate' # "NW2MM" /\ bursts' = <<>> /\ wbeat' = 0 /\ Len(bursts') = 0
          BY <3>1, <3>3, <4>1, <4>3, <4>4, EmptySeq
        <5>2. BeatsInPlace'
          BY <5>1 DEF BeatsInPlace
        <5>3. QED
          BY <5>1, <5>2 DEF BurstInv
    <3>5. CASE beat # pkt.n
      <4>1. cstate' = cstate
        BY <1>1, <1>6, <3>5 DEF NwEngine, nstate, treq_packet_end
      <4>2. beat' = beat + 1 /\ beat' # 0
        BY <1>2, <3>2, <3>5
      <4>3. pkt' = pkt
        BY <1>1, <2>1, <3>1, <4>2, StreamMoves DEF IInv
      <4>4. Head(bursts).addr \in Nat /\ Head(bursts).len \in Nat
        <5>1. Head(bursts) \in Bursts
          BY <1>2a, <3>1, HeadTailProperties
        <5>2. QED
          BY <5>1 DEF Bursts
      <4>5. bursts' = bursts /\ wbeat' = wbeat + 1
        BY <1>1, <1>2, <2>0, <2>4, <3>1, <3>5, <4>4 DEF Memory
      <4>6. QED
        <5>1. /\ Head(bursts').addr + wbeat' = pkt'.addr + beat' - 1
              /\ Head(bursts').len - wbeat' = pkt'.n - beat'
          <6>1. /\ Head(bursts).addr + wbeat = pkt.addr + beat - 1
                /\ Head(bursts).len - wbeat = pkt.n - beat
            BY <2>0, <3>1
          <6>2. beat \in Nat
            BY <1>2
          <6>3. /\ Head(bursts).addr + (wbeat + 1) = pkt.addr + (beat + 1) - 1
                /\ Head(bursts).len - (wbeat + 1) = pkt.n - (beat + 1)
            <7>1. \A x, l, v, p, n, u \in Int :
                     x + v = p + u - 1 /\ l - v = n - u
                       => x + (v + 1) = p + (u + 1) - 1 /\ l - (v + 1) = n - (u + 1)
              OBVIOUS
            <7>2. QED
              BY <1>2, <4>4, <6>1, <6>2, <7>1
          <6>4. QED
            BY <4>2, <4>3, <4>5, <6>3
        <5>2. ~aw'.valid /\ bursts' # <<>> /\ Len(bursts') <= 1 /\ cstate' = "NW2MM"
          BY <1>6, <2>0, <3>1, <3>3, <4>1, <4>5
        <5>3. ~pkt'.odd /\ pkt'.addr \div Page = (pkt'.addr + pkt'.n - 1) \div Page
          BY <2>0, <4>3
        <5>4. QED
          BY <5>1, <5>2, <5>3 DEF BurstInv, BeatsInPlace
    <3>6. QED
      BY <3>4, <3>5
  <2>5. QED
    BY <2>3, <2>4
<1>7. QED
  BY <1>4, <1>5, <1>6

(* Every doorbell taken from the stream is signalled and answered under    *)
(* the next number.                                                        *)
LEMMA DoorbellInvStep ==
  ASSUME IInv, NEW w, NEW c, NEW a, NEW t, Step(w, c, a, t)
  PROVE  DoorbellInv' /\ fate' \in Seq(Fates) /\ answered' \in Seq(Nat)
<1> DEFINE nwready == treq_tready_nw(w, c)
<1>1. /\ w \in BOOLEAN /\ c \in BOOLEAN /\ nwready \in BOOLEAN
      /\ Stream(nwready) /\ DbEngine(t) /\ Hosts
  BY DEF treq_tready_nw, IInv, Typing, Step, Cycle
<1>0. fate \in Seq(Fates) /\ answered \in Seq(Nat)
  BY DEF IInv, Typing
<1>2. /\ db_irq \in Nat /\ tresp \in Nat
      /\ left \in Nat /\ left' \in Nat /\ Len(fate) \in Nat /\ Len(answered) \in Nat
  BY <1>0, <1>1, StreamMoves, LenProperties DEF IInv, Typing
<1>3. /\ fate' \in Seq(Fates)
      /\ Len(fate') = IF db_irq = None THEN Len(fate) ELSE Len(fate) + 1
  <2>1. PICK f \in Fates, freed \in BOOLEAN : Fate(f, freed) /\ (freed => msi.busy)
    BY <1>1 DEF Hosts, NoWrite, Write, ReadMsiInfo, Fates, IInv, SlotInv, Typing
  <2> DEFINE known == IF db_irq = None THEN fate ELSE Append(fate, f)
  <2>2. known \in Seq(Fates) /\ Len(known) = IF db_irq = None THEN Len(fate) ELSE Len(fate) + 1
    BY <1>0, <1>2, AppendProperties
  <2>3. CASE ~freed
    BY <2>1, <2>2, <2>3 DEF Fate
  <2>4. CASE freed
    <3>1. msi.info \in 1 .. Len(known)
      BY <1>0, <1>2, <2>1, <2>2, <2>4 DEF IInv, SlotInv, Typing, None
    <3>2. PICK e \in Fates : fate' = [known EXCEPT ![msi.info] = e]
      BY <2>1, <2>4 DEF Fate, Fates
    <3> HIDE DEF known
    <3>3. QED
      BY <2>2, <3>1, <3>2, ExceptSeq
  <2>5. QED
    BY <2>1, <2>3, <2>4
<1>4. /\ answered' \in Seq(Nat)
      /\ IF tresp # None /\ t
         THEN /\ Len(answered') = Len(answered) + 1
              /\ answered'[Len(answered) + 1] = tresp
         ELSE Len(answered') = Len(answered)
      /\ \A i \in 1 .. Len(answered) : answered'[i] = answered[i]
  BY <1>1, <1>0, <1>2, AppendProperties DEF DbEngine
<1>5. handshake_treq_db => /\ db_irq = None /\ tresp = None /\ treq.valid /\ pkt.type = "DB"
                           /\ beat' = 0
  <2> SUFFICES ASSUME handshake_treq_db
               PROVE  db_irq = None /\ tresp = None /\ treq.valid /\ pkt.type = "DB" /\ beat' = 0
    OBVIOUS
  <2>1. tready_db
    BY DEF handshake_treq_db
  <2>2. db_irq = None /\ tresp = None
    BY <2>1 DEF IInv, StreamInv
  <2>3. treq.valid /\ pkt.type = "DB" /\ beat = 0 /\ pkt.n = 0
    BY <1>1, <2>1, OneTaker
  <2>4. QED
    BY <1>1, <2>1, <2>2, <2>3, StreamMoves DEF IInv
<1> DEFINE taken == IF handshake_treq_db THEN 1 ELSE 0
<1>5a. /\ taken \in Nat /\ Coming \in Nat /\ Coming' \in Nat
       /\ Coming <= 1 /\ Coming' <= 1 /\ taken <= 1
       /\ taken = 1 => Coming = 1
  BY <1>5 DEF Coming
<1>6. left' + Coming' + taken <= left + Coming
  <2>1. CASE treq.valid /\ ~tready_db /\ ~nwready
    <3>1. UNCHANGED core
      BY <1>1, <2>1, StreamMoves DEF IInv
    <3>2. Coming' = Coming /\ left' = left /\ taken = 0
      BY <2>1, <3>1 DEF core, Coming, handshake_treq_db
    <3>3. QED
      BY <1>2, <1>5a, <3>2
  <2>2. CASE ~(treq.valid /\ ~tready_db /\ ~nwready)
    <3>1. \/ left' = left /\ pkt' = pkt /\ (beat' = 0 => ~treq'.valid)
          \/ left = left' + 1
      BY <1>1, <2>2, StreamMoves DEF IInv
    <3>2. CASE left' = left /\ pkt' = pkt /\ (beat' = 0 => ~treq'.valid)
      <4>1. CASE beat' = 0
        BY <1>2, <1>5, <3>2, <4>1 DEF Coming
      <4>2. CASE beat' # 0
        <5>1. pkt'.type # "DB"
          <6>1. pkt' \in Requests /\ beat' \in 0 .. pkt'.n
            BY <1>1, StreamMoves DEF IInv
          <6>2. QED
            BY <4>2, <6>1, RequestFacts
        <5>2. QED
          BY <1>2, <1>5, <3>2, <4>2, <5>1 DEF Coming
      <4>3. QED
        BY <4>1, <4>2
    <3>3. CASE left = left' + 1
      <4> HIDE DEF taken
      <4>1. \A l, m, k, x, y \in Nat :
               l = m + 1 /\ x <= 1 /\ y <= 1 /\ k <= 1 /\ (k = 1 => x = 1) => m + y + k <= l + x
        OBVIOUS
      <4>2. QED
        BY <1>2, <1>5a, <3>3, <4>1
    <3>4. QED
      BY <3>1, <3>2, <3>3
  <2>3. QED
    BY <2>1, <2>2
<1>7. Seen' = Seen + taken /\ Seen \in Nat
  <2>1. CASE handshake_treq_db
    BY <1>1, <1>2, <1>3, <1>5, <2>1 DEF Seen, DbEngine, None
  <2>2. CASE ~handshake_treq_db
    BY <1>1, <1>2, <1>3, <2>2 DEF Seen, DbEngine, None
  <2>3. QED
    BY <2>1, <2>2
<1>8. db_irq' # None => db_irq' = Len(fate') + 1
  BY <1>1, <1>3, <1>5 DEF DbEngine
<1>9. Len(answered') + Owed' = Seen'
  <2>1. Len(answered) + Owed = Seen
    BY DEF IInv, DoorbellInv
  <2>2. CASE handshake_treq_db
    <3>1. Owed = 0 /\ Owed' = 1 /\ Len(answered') = Len(answered)
      BY <1>1, <1>2, <1>4, <1>5, <2>2 DEF Owed, DbEngine, None
    <3>2. QED
      BY <1>2, <1>7, <2>1, <2>2, <3>1
  <2>3. CASE ~handshake_treq_db
    <3>1. Len(answered') + Owed' = Len(answered) + Owed
      <4>1. tresp' = IF t THEN None ELSE tresp
        BY <1>1, <2>3 DEF DbEngine
      <4>2. Len(answered') = IF tresp # None /\ t THEN Len(answered) + 1 ELSE Len(answered)
        BY <1>4
      <4>3. CASE tresp = None
        BY <1>2, <4>1, <4>2, <4>3 DEF Owed
      <4>4. CASE tresp # None /\ t
        BY <1>2, <4>1, <4>2, <4>4 DEF Owed
      <4>5. CASE tresp # None /\ ~t
        BY <1>2, <4>1, <4>2, <4>5 DEF Owed
      <4>6. QED
        BY <4>3, <4>4, <4>5
    <3>2. QED
      BY <1>2, <1>7, <2>1, <2>3, <3>1
  <2>4. QED
    BY <2>2, <2>3
<1>10. tresp' # None => tresp' = Len(answered') + 1
  BY <1>1, <1>2, <1>4, <1>5 DEF IInv, DoorbellInv, Owed, Seen, DbEngine, None
<1>11. \A i \in 1 .. Len(answered') : answered'[i] = i
  BY <1>2, <1>4 DEF IInv, DoorbellInv
<1>12. left' + Seen' + Coming' <= Packets
  <2>1. left + Seen + Coming <= Packets
    BY DEF IInv, DoorbellInv
  <2> HIDE DEF taken
  <2>2. PICK l \in Nat, m \in Nat, x \in Nat, y \in Nat, k \in Nat :
           l = left /\ m = left' /\ x = Coming /\ y = Coming' /\ k = taken
    BY <1>2, <1>5a
  <2>3. PICK d \in Nat, e \in Nat : d = Seen /\ e = Seen'
    BY <1>5a, <1>7
  <2>4. m + y + k <= l + x /\ e = d + k /\ l + d + x <= Packets
    BY <1>6, <1>7, <2>1, <2>2, <2>3
  <2>5. m + e + y <= Packets
    BY <2>4
  <2>6. QED
    BY <2>2, <2>3, <2>5
<1>13. QED
  BY <1>3, <1>4, <1>8, <1>9, <1>10, <1>11, <1>12 DEF DoorbellInv

(* The slot is freed only by the end of a read, which hands over what the  *)
(* slot holds.                                                             *)
LEMMA SlotInvStep ==
  ASSUME IInv, NEW w, NEW c, NEW a, NEW t, Step(w, c, a, t)
  PROVE  SlotInv'
<1>1. /\ fate \in Seq(Fates) /\ fate' \in Seq(Fates) /\ DbEngine(t) /\ Hosts
      /\ DoorbellInv'
  BY DoorbellInvStep DEF IInv, Typing, Step, Cycle
<1>2. /\ msi.busy \in BOOLEAN /\ msi.info \in Nat /\ rdata \in Nat /\ db_irq \in Nat /\ Len(fate) \in Nat
      /\ DOMAIN fate = 1 .. Len(fate) /\ DOMAIN fate' = 1 .. Len(fate')
  BY <1>1, LenProperties DEF IInv, Typing
<1>3. /\ \A i \in 1 .. Len(fate) : /\ fate[i] = "slot" => msi.busy /\ msi.info = i
                                  /\ fate[i] # "cleared"
      /\ msi.info <= Len(fate) /\ (msi.busy => msi.info # None)
      /\ rdata # None => msi.busy /\ rdata = msi.info
      /\ db_irq # None => db_irq = Len(fate) + 1
  BY <1>2 DEF IInv, SlotInv, MessageKeptUntilRead, DoorbellInv
<1>4. PICK start \in BOOLEAN, end \in BOOLEAN : ReadMsiInfo(start, end) /\ (NoWrite(end) \/ Write)
  BY <1>1 DEF Hosts
<1> DEFINE known(f) == IF db_irq = None THEN fate ELSE Append(fate, f)
<1>5. ASSUME NEW f \in Fates
      PROVE  /\ known(f) \in Seq(Fates)
             /\ Len(known(f)) \in Nat /\ Len(fate) <= Len(known(f))
             /\ Len(known(f)) = IF db_irq = None THEN Len(fate) ELSE Len(fate) + 1
             /\ \A i \in 1 .. Len(known(f)) :
                    \/ i \in 1 .. Len(fate) /\ known(f)[i] = fate[i]
                    \/ db_irq # None /\ i = Len(fate) + 1 /\ known(f)[i] = f
  <2>1. CASE db_irq = None
    BY <1>1, <1>2, <2>1
  <2>2. CASE db_irq # None
    <3>1. /\ Append(fate, f) \in Seq(Fates) /\ Len(Append(fate, f)) = Len(fate) + 1
          /\ \A i \in 1 .. Len(fate) : Append(fate, f)[i] = fate[i]
          /\ Append(fate, f)[Len(fate) + 1] = f
      BY <1>1, AppendProperties
    <3>2. \A i \in 1 .. Len(fate) + 1 : i \in 1 .. Len(fate) \/ i = Len(fate) + 1
      BY <1>2
    <3>3. QED
      BY <1>2, <2>2, <3>1, <3>2
  <2>3. QED
    BY <2>1, <2>2
<1>6. "slot" \in Fates /\ "refused" \in Fates /\ "nomsi" \in Fates /\ "hidden" \in Fates
      /\ "read" \in Fates
  BY DEF Fates
<1> HIDE DEF known
<1>6a. ASSUME NEW f \in Fates, f # "slot", f # "cleared", fate' = known(f),
              msi'.busy = msi.busy, msi'.info = msi.info
       PROVE  \A i \in 1 .. Len(fate') : /\ fate'[i] = "slot" => msi'.busy /\ msi'.info = i
                                         /\ fate'[i] # "cleared"
  <2> SUFFICES ASSUME NEW i \in 1 .. Len(known(f))
               PROVE  /\ known(f)[i] = "slot" => msi.busy /\ msi.info = i
                      /\ known(f)[i] # "cleared"
    BY <1>6a
  <2>1. CASE i \in 1 .. Len(fate) /\ known(f)[i] = fate[i]
    BY <1>3, <2>1
  <2>2. CASE known(f)[i] = f
    BY <1>6a, <2>2
  <2>3. QED
    BY <1>5, <2>1, <2>2
<1>7. CASE Write
  <2>1. fate' = known("hidden") /\ msi'.busy = msi.busy /\ msi'.info = msi.info
    <3>1. fate' = known("hidden")
      BY <1>7 DEF Write, Fate, known
    <3>2. msi'.busy = msi.busy /\ msi'.info = msi.info
      BY <1>7 DEF Write, IInv, Typing
    <3>3. QED
      BY <3>1, <3>2
  <2>2. rdata' # None => msi'.busy /\ rdata' = msi'.info
    BY <1>2, <1>3, <1>4, <2>1 DEF ReadMsiInfo
  <2>3. \A i \in 1 .. Len(fate') : /\ fate'[i] = "slot" => msi'.busy /\ msi'.info = i
                                  /\ fate'[i] # "cleared"
    BY <1>6, <1>6a, <2>1
  <2>4. QED
    <3>1. MessageKeptUntilRead'
      BY <1>2, <2>3 DEF MessageKeptUntilRead
    <3>2. msi'.info <= Len(fate') /\ (msi'.busy => msi'.info # None)
      BY <1>2, <1>3, <1>5, <1>6, <2>1
    <3>3. QED
      BY <2>2, <3>1, <3>2 DEF SlotInv
<1>8. CASE NoWrite(end) /\ db_irq # None /\ ~mode.nomsi /\ msi.busy
  <2>1. fate' = known("refused") /\ msi'.busy = msi.busy /\ msi'.info = msi.info
    <3>1. fate' = known("refused")
      BY <1>8 DEF NoWrite, Fate, known
    <3>2. msi'.busy = msi.busy /\ msi'.info = msi.info
      <4>1. msi' = [msi EXCEPT !.err = TRUE]
        BY <1>8 DEF NoWrite
      <4>2. QED
        BY <4>1 DEF IInv, Typing
    <3>3. QED
      BY <3>1, <3>2
  <2>2. rdata' # None => msi'.busy /\ rdata' = msi'.info
    BY <1>2, <1>3, <1>4, <2>1 DEF ReadMsiInfo
  <2>3. \A i \in 1 .. Len(fate') : /\ fate'[i] = "slot" => msi'.busy /\ msi'.info = i
                                  /\ fate'[i] # "cleared"
    BY <1>6, <1>6a, <2>1
  <2>4. QED
    <3>1. MessageKeptUntilRead'
      BY <1>2, <2>3 DEF MessageKeptUntilRead
    <3>2. msi'.info <= Len(fate') /\ (msi'.busy => msi'.info # None)
      BY <1>2, <1>3, <1>5, <1>6, <2>1
    <3>3. QED
      BY <2>2, <3>1, <3>2 DEF SlotInv
<1>9. CASE NoWrite(end) /\ db_irq # None /\ ~mode.nomsi /\ ~msi.busy
  <2>1. fate' = known("slot") /\ msi'.busy /\ msi'.info = db_irq
    <3>1. fate' = known("slot")
      BY <1>9 DEF NoWrite, Fate, known
    <3>2. msi'.busy /\ msi'.info = db_irq
      <4>1. msi' = [msi EXCEPT !.busy = TRUE, !.info = db_irq]
        BY <1>9 DEF NoWrite
      <4>2. QED
        BY <4>1 DEF IInv, Typing
    <3>3. QED
      BY <3>1, <3>2
  <2>2. rdata' = None
    BY <1>3, <1>4, <1>9 DEF ReadMsiInfo
  <2>3. \A i \in 1 .. Len(fate') : /\ fate'[i] = "slot" => msi'.busy /\ msi'.info = i
                                  /\ fate'[i] # "cleared"
    <3>1. \A i \in 1 .. Len(fate) : fate[i] # "slot" /\ fate[i] # "cleared"
      BY <1>3, <1>9
    <3>2. \A i \in 1 .. Len(fate') :
             \/ fate'[i] # "slot" /\ fate'[i] # "cleared"
             \/ i = db_irq /\ fate'[i] = "slot"
      <4>1. \A i \in 1 .. Len(known("slot")) :
               \/ i \in 1 .. Len(fate) /\ known("slot")[i] = fate[i]
               \/ i = Len(fate) + 1 /\ known("slot")[i] = "slot"
        BY <1>5, <1>6
      <4>2. db_irq = Len(fate) + 1
        BY <1>3, <1>9
      <4>3. \A i \in 1 .. Len(known("slot")) :
               \/ known("slot")[i] # "slot" /\ known("slot")[i] # "cleared"
               \/ i = db_irq /\ known("slot")[i] = "slot"
        BY <3>1, <4>1, <4>2
      <4>4. fate' = known("slot")
        BY <2>1
      <4>5. QED
        BY <4>3, <4>4
    <3>3. QED
      BY <2>1, <3>2
  <2>4. QED
    <3>1. MessageKeptUntilRead'
      BY <1>2, <2>3 DEF MessageKeptUntilRead
    <3>2. msi'.info <= Len(fate') /\ msi'.info # None
      BY <1>2, <1>3, <1>5, <1>6, <1>9, <2>1
    <3>3. QED
      BY <2>2, <3>1, <3>2 DEF SlotInv
<1>10. CASE NoWrite(end) /\ ~(db_irq # None /\ ~mode.nomsi) /\ ~(end /\ msi.busy)
  <2>1. fate' = known("nomsi") /\ msi'.busy = msi.busy /\ msi'.info = msi.info
    <3>1. fate' = known("nomsi")
      BY <1>10 DEF NoWrite, Fate, known
    <3>2. msi'.busy = msi.busy /\ msi'.info = msi.info
      BY <1>10 DEF NoWrite, IInv, Typing
    <3>3. QED
      BY <3>1, <3>2
  <2>2. rdata' # None => msi'.busy /\ rdata' = msi'.info
    BY <1>2, <1>3, <1>4, <2>1 DEF ReadMsiInfo
  <2>3. \A i \in 1 .. Len(fate') : /\ fate'[i] = "slot" => msi'.busy /\ msi'.info = i
                                  /\ fate'[i] # "cleared"
    BY <1>6, <1>6a, <2>1
  <2>4. QED
    <3>1. MessageKeptUntilRead'
      BY <1>2, <2>3 DEF MessageKeptUntilRead
    <3>2. msi'.info <= Len(fate') /\ (msi'.busy => msi'.info # None)
      BY <1>2, <1>3, <1>5, <1>6, <2>1
    <3>3. QED
      BY <2>2, <3>1, <3>2 DEF SlotInv
<1>11. CASE NoWrite(end) /\ ~(db_irq # None /\ ~mode.nomsi) /\ end /\ msi.busy
  <2>0. rdata # None /\ rdata = msi.info /\ msi.info \in 1 .. Len(fate) /\ rdata' = None
    BY <1>2, <1>3, <1>4, <1>11 DEF ReadMsiInfo, None
  <2>1. fate' = [known("nomsi") EXCEPT ![msi.info] = "read"] /\ msi'.info = msi.info
    BY <1>11, <2>0 DEF NoWrite, Fate, IInv, Typing, known
  <2>2. msi.info \in 1 .. Len(known("nomsi"))
    BY <1>2, <1>5, <1>6, <2>0
  <2>3. /\ Len(fate') = Len(known("nomsi"))
        /\ \A i \in 1 .. Len(known("nomsi")) :
               fate'[i] = IF i = msi.info THEN "read" ELSE known("nomsi")[i]
    BY <1>5, <1>6, <2>1, <2>2, ExceptSeq
  <2>4. \A i \in 1 .. Len(fate') : fate'[i] # "slot" /\ fate'[i] # "cleared"
    <3>1. \A i \in 1 .. Len(fate) : i # msi.info => fate[i] # "slot" /\ fate[i] # "cleared"
      BY <1>3
    <3>2. \A i \in 1 .. Len(known("nomsi")) : i # msi.info =>
             known("nomsi")[i] # "slot" /\ known("nomsi")[i] # "cleared"
      BY <1>5, <1>6, <3>1
    <3>3. QED
      BY <2>3, <3>2
  <2>5. QED
    <3>1. MessageKeptUntilRead'
      BY <1>2, <2>4 DEF MessageKeptUntilRead
    <3>2. msi'.info <= Len(fate') /\ msi'.info # None /\ rdata' = None
      BY <1>2, <1>3, <1>5, <1>6, <2>0, <2>1, <2>3
    <3>3. QED
      BY <3>1, <3>2 DEF SlotInv
<1>12. QED
  BY <1>2, <1>4, <1>7, <1>8, <1>9, <1>10, <1>11

LEMMA TypingStep ==
  ASSUME IInv, NEW w, NEW c, NEW a, NEW t, Step(w, c, a, t)
  PROVE  Typing'
<1> DEFINE nwready == treq_tready_nw(w, c)
<1>1. /\ w \in BOOLEAN /\ c \in BOOLEAN /\ a \in BOOLEAN /\ t \in BOOLEAN /\ nwready \in BOOLEAN
      /\ Stream(nwready) /\ NwEngine(nwready, a) /\ DbEngine(t) /\ Memory(w, a) /\ Hosts
  BY DEF treq_tready_nw, IInv, Typing, Step, Cycle
<1>2. /\ left' \in Nat /\ pkt' \in Requests /\ beat' \in 0 .. pkt'.n
      /\ treq' \in [valid : BOOLEAN, type : {"DB", "NW"}]
  BY <1>1, StreamMoves DEF IInv
<1>3. cstate' \in {"IDLE", "ERR", "NW2MM", "NW2S"}
  BY <1>1, NwMoves DEF NwEngine
<1>4. waiting' \in BOOLEAN /\ nw_err' \subseteq {18, 19}
  BY <1>1 DEF NwEngine
<1>5. aw' \in [valid : BOOLEAN, addr : Addrs \cup {0}, len : Nat]
  <2>1. CASE cstate = "IDLE" /\ cstate' = "NW2MM"
    <3>1. aw' = [valid |-> TRUE, addr |-> pkt.addr, len |-> pkt.n - 1]
      BY <1>1, <2>1 DEF NwEngine
    <3>2. beat' = 1 /\ pkt' = pkt
      BY <1>1, <2>1, NwMoves DEF NwEngine
    <3>3. pkt.n \in Nat /\ pkt.n >= 1
      BY <1>2, <3>2, RequestFacts
    <3>4. pkt.addr \in Addrs
      BY <3>3, RequestFacts DEF IInv, Typing
    <3>5. QED
      BY <3>1, <3>3, <3>4
  <2>2. CASE ~(cstate = "IDLE" /\ cstate' = "NW2MM")
    BY <1>1, <2>2 DEF NwEngine, NoBurst, IInv, Typing
  <2>3. QED
    BY <2>1, <2>2
<1>6. tready_db' \in BOOLEAN /\ db_irq' \in Nat /\ tresp' \in Nat
  <2>1. Len(fate) + 1 \in Nat
    BY LenProperties DEF IInv, Typing
  <2>2. QED
    BY <1>1, <2>1 DEF DbEngine, None, IInv, Typing
<1>7. /\ rdata' \in Nat /\ csr_err' \subseteq {18, 19}
      /\ mode' \in [nw : BOOLEAN, nomsi : BOOLEAN]
      /\ msi' \in [busy : BOOLEAN, err : BOOLEAN, info : Nat]
  <2>1. PICK start \in BOOLEAN, end \in BOOLEAN : ReadMsiInfo(start, end) /\ (NoWrite(end) \/ Write)
    BY <1>1 DEF Hosts
  <2>2. rdata' \in Nat
    BY <2>1 DEF ReadMsiInfo, None, IInv, Typing
  <2>3. csr_err' \subseteq {18, 19}
    BY <2>1 DEF NoWrite, Write, IInv, Typing
  <2>4. mode' \in [nw : BOOLEAN, nomsi : BOOLEAN]
    BY <2>1 DEF NoWrite, Write, IInv, Typing
  <2>5. msi' \in [busy : BOOLEAN, err : BOOLEAN, info : Nat]
    <3>1. CASE NoWrite(end)
      <4>1. msi \in [busy : BOOLEAN, err : BOOLEAN, info : Nat] /\ db_irq \in Nat
        BY DEF IInv, Typing
      <4>2. \/ msi' = [msi EXCEPT !.err = TRUE]
            \/ msi' = [msi EXCEPT !.busy = TRUE, !.info = db_irq]
            \/ msi' = [msi EXCEPT !.busy = @ /\ ~end]
        BY <3>1 DEF NoWrite
      <4>3. QED
        BY <4>1, <4>2
    <3>2. CASE Write
      BY <3>2 DEF Write, IInv, Typing
    <3>3. QED
      BY <2>1, <3>1, <3>2
  <2>6. QED
    BY <2>2, <2>3, <2>4, <2>5
<1>8. wbeat' \in Nat /\ bursts' \in Seq(Bursts)
  <2> DEFINE asked == IF aw.valid /\ a
                      THEN Append(bursts, [addr |-> aw.addr, len |-> aw.len]) ELSE bursts
  <2>1. [addr |-> aw.addr, len |-> aw.len] \in Bursts
    <3>1. aw.addr \in Nat /\ aw.len \in Nat
      <4>1. aw.addr \in Addrs \cup {0} /\ aw.len \in Nat
        BY DEF IInv, Typing
      <4>2. Addrs \cup {0} \subseteq Nat
        OBVIOUS
      <4>3. QED
        BY <4>1, <4>2
    <3>2. QED
      BY <3>1 DEF Bursts
  <2>2. asked \in Seq(Bursts)
    BY <2>1, AppendProperties DEF IInv, Typing
  <2>3. handshake_w(w) => asked # <<>>
    BY <2>1, AppendProperties, EmptySeq DEF handshake_w, Step, IInv, Typing
  <2>4. handshake_w(w) => Tail(asked) \in Seq(Bursts)
    BY <2>2, <2>3, HeadTailProperties
  <2>5. QED
    <3>1. \/ handshake_w(w) /\ bursts' = Tail(asked) /\ wbeat' = 0
          \/ bursts' = asked /\ wbeat' \in {wbeat, wbeat + 1}
      BY <1>1 DEF Memory
    <3>2. wbeat \in Nat
      BY DEF IInv, Typing
    <3> HIDE DEF asked
    <3>3. QED
      BY <2>2, <2>4, <3>1, <3>2
<1>9. QED
  BY <1>2, <1>3, <1>4, <1>5, <1>6, <1>7, <1>8, DoorbellInvStep DEF Typing

LEMMA StutterStep ==
  ASSUME IInv, UNCHANGED vars
  PROVE  IInv'
<1> USE DEF IInv, vars, core, engines, host
<1>1. Typing'
  BY DEF Typing
<1>2. StreamInv'
  BY DEF StreamInv, EnginesFollowStream, nw_busy, doorbell_valid, nwrite_valid
<1>3. BurstInv'
  BY DEF BurstInv, BeatsInPlace
<1>4. DoorbellInv'
  BY DEF DoorbellInv, Seen, Owed, Coming
<1>5. SlotInv'
  BY DEF SlotInv, MessageKeptUntilRead
<1>6. QED
  BY <1>1, <1>2, <1>3, <1>4, <1>5

(* The state that a cycle leaves is one of those the engines and the slot  *)
(* rely on (db_rx_engine.v, nw_rx_engine.v, srio_pcie_bridge.v:462-489).   *)
THEOREM Invariant == Spec => []IInv
<1>1. IInv /\ [Next]_vars => IInv'
  <2>1. ASSUME IInv, Next PROVE IInv'
    <3>1. PICK w \in BOOLEAN, c \in BOOLEAN, a \in BOOLEAN, t \in BOOLEAN : Step(w, c, a, t)
      BY <2>1, NextIsStep
    <3>2. QED
      BY <2>1, <3>1, TypingStep, StreamInvStep, BurstInvStep, DoorbellInvStep, SlotInvStep DEF IInv
  <2>2. QED
    BY <2>1, StutterStep
<1>2. QED
  BY <1>1, InitIInv, PTL DEF Spec

(* Every register keeps a value of its kind, and no doorbell has a number  *)
(* above that of the packets offered.                                      *)
THEOREM TypeCorrect == Spec => []TypeOK
<1>1. ASSUME IInv PROVE TypeOK
  <2> USE <1>1 DEF IInv
  <2>1. /\ Len(fate) \in Nat /\ Len(answered) \in Nat /\ Coming \in Nat /\ Owed \in Nat
        /\ left \in Nat /\ db_irq \in Nat /\ tresp \in Nat /\ rdata \in Nat /\ msi.info \in Nat
    BY LenProperties DEF Typing, Coming, Owed
  <2>2. Seen \in Nat /\ Len(fate) <= Seen /\ Seen <= Packets /\ left <= Packets
    BY <2>1 DEF Seen, DoorbellInv
  <2>3. db_irq \in 0 .. Packets
    BY <2>1, <2>2 DEF Seen, DoorbellInv, None
  <2>4. tresp \in 0 .. Packets
    BY <2>1, <2>2 DEF Owed, DoorbellInv, None
  <2>5. msi.info \in 0 .. Packets /\ rdata \in 0 .. Packets
    BY <2>1, <2>2 DEF SlotInv, None
  <2>6. msi \in [busy : BOOLEAN, err : BOOLEAN, info : 0 .. Packets]
    BY <2>5 DEF Typing
  <2>7. \A i \in DOMAIN fate : fate[i] \in Fates
    BY LenProperties, ElementOfSeq DEF Typing
  <2>8. QED
    BY <2>1, <2>2, <2>3, <2>4, <2>5, <2>6, <2>7 DEF Typing, BurstInv, TypeOK
<1>2. QED
  BY <1>1, Invariant, PTL

(* Whatever the data beats look like, the two engines and the stream agree *)
(* where packets begin and end, and each beat has one taker.               *)
THEOREM EnginesInStep == Spec => []EnginesFollowStream
<1>1. IInv => EnginesFollowStream
  BY DEF IInv, StreamInv
<1>2. QED
  BY <1>1, Invariant, PTL

(* For packets of any size and any page: the data of an NWRITE packet goes *)
(* to the packet's own double words and to no others.                      *)
THEOREM PacketsInPlace == Spec => []BeatsInPlace
<1>1. IInv => BeatsInPlace
  BY DEF IInv, BurstInv
<1>2. QED
  BY <1>1, Invariant, PTL

(* Any number of doorbells: each accepted is answered once, in order.      *)
THEOREM DoorbellsAnswered == Spec => []EachDoorbellAnswered
<1>1. ASSUME IInv PROVE EachDoorbellAnswered
  <2> DEFINE owed == IF tresp = None THEN <<>> ELSE <<tresp>>
             all == answered \o owed
             numbers == [i \in 1 .. Seen |-> i]
  <2>1. answered \in Seq(Nat) /\ owed \in Seq(Nat) /\ Len(owed) = Owed
    BY <1>1 DEF IInv, Typing, Owed
  <2>2. /\ Len(answered) + Owed = Seen /\ Len(answered) \in Nat /\ Owed \in {0, 1}
        /\ \A i \in 1 .. Len(answered) : answered[i] = i
        /\ Owed = 1 => owed[1] = Len(answered) + 1
    BY <1>1, <2>1, LenProperties DEF IInv, DoorbellInv, Owed
  <2> HIDE DEF owed
  <2>3. /\ all \in Seq(Nat) /\ Len(all) = Seen
        /\ \A i \in 1 .. Seen : all[i] = IF i <= Len(answered) THEN answered[i] ELSE owed[i - Len(answered)]
    BY <2>1, <2>2, ConcatProperties
  <2>4. numbers \in Seq(Nat) /\ Len(numbers) = Seen /\ \A i \in 1 .. Seen : numbers[i] = i
    BY <2>2
  <2>5. \A i \in 1 .. Seen : all[i] = i
    BY <2>2, <2>3
  <2> HIDE DEF all, numbers
  <2>6. all = numbers
    BY <2>3, <2>4, <2>5, SeqEqual
  <2>7. QED
    BY <2>6 DEF all, numbers, owed, EachDoorbellAnswered, Seen
<1>2. QED
  BY <1>1, Invariant, PTL

(* A message accepted for the host stays in its slot until the host has    *)
(* read that message, however many doorbells and register accesses come    *)
(* meanwhile.                                                              *)
THEOREM MessagesKept == Spec => []MessageKeptUntilRead
<1>1. IInv => MessageKeptUntilRead
  BY DEF IInv, SlotInv
<1>2. QED
  BY <1>1, Invariant, PTL
=================================================================================
