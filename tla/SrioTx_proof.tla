------------------------------ MODULE SrioTx_proof ------------------------------
(* Proofs about SrioTx, for any packet size and any register values.       *)
EXTENDS SrioTx, SequenceTheorems, TLAPS

(***************************************************************************)
(* The inductive invariant.                                                *)
(***************************************************************************)
Bursts == [addr : Nat, len : 0 .. B - 1]

Typing ==
    /\ values \in Values
    /\ SRIO_CSR \in [db : BOOLEAN, sw : BOOLEAN, err : SUBSET {16, 17, 20, 21}]
    /\ regs \in [size : values.size, dst : values.dst, src : values.src,
                 infoSw : values.info, infoDb : values.info, mode : BOOLEAN]
    /\ db_start_q \in BOOLEAN /\ sw_start_q \in BOOLEAN /\ sw_err \subseteq {20, 21}
    /\ cstate \in {"IDLE", "SWDB", "NORMALDB", "SW"}
    /\ normal_db_req \in BOOLEAN /\ db_part_start \in BOOLEAN
    /\ sw_req \in BOOLEAN /\ sw_mode_q \in BOOLEAN
    /\ sw_db_req \in BOOLEAN /\ sw_part_start \in BOOLEAN /\ iresp_tready \in BOOLEAN
    /\ db_info_normal_q \in values.info /\ db_info_sw_q \in values.info
    /\ normal \in values.info
    /\ sw_full_pack_cnt \in Nat /\ sw_part_addr \in Nat /\ sent \in Nat /\ rbeat \in Nat
    /\ sw_last_pack_size \in 0 .. B - 1 /\ beat_cnt \in 0 .. B - 1
    /\ total_beat_cnt \in 0 .. B - 1
    /\ ar \in [busy : BOOLEAN, full : Nat, last : 0 .. B - 1, addr : Nat]
    /\ db_ireq \in values.info \cup {NoDoorbell}
    /\ iresp \in {"none", "owed", "valid"} /\ engine \in {"IDLE", "HEAD", "DATA"}
    /\ bursts \in Seq(Bursts) /\ job \in Jobs /\ lost \subseteq {"db", "sw"}

\* What is started is what the registers say in the cycle that sees the start
\* bit rise, and nothing is started while the bit is set.
StartInv ==
    /\ db_start_en => regs.infoDb = normal /\ ~normal_db_req
    /\ normal_db_req => SRIO_CSR.db /\ db_info_normal_q = normal
    /\ sw_start_en => /\ regs.size = job.size /\ regs.dst = job.dst /\ regs.src = job.src
                      /\ regs.mode = job.mode /\ regs.infoSw = job.info
                      /\ ~sw_req /\ ~sw_db_req
    /\ sw_req \/ sw_db_req => /\ SRIO_CSR.sw /\ sw_mode_q = job.mode /\ db_info_sw_q = job.info
                              /\ aligned(job.src) /\ aligned(job.dst)
    /\ ~(sw_req /\ sw_db_req)
    /\ BusyMeansWork

\* The arbiter's state says whose request is on the stream and that the
\* request is still standing.
ArbiterInv ==
    /\ cstate = "SW" <=> sw_part_start \/ engine # "IDLE"
    /\ sw_part_start => engine = "IDLE"
    /\ cstate = "SW" => sw_req
    /\ cstate = "SWDB" => sw_db_req
    /\ cstate = "NORMALDB" => normal_db_req
    /\ cstate \notin {"SWDB", "NORMALDB"} =>
           ~db_part_start /\ db_ireq = NoDoorbell /\ iresp = "none"
    /\ db_part_start => db_ireq = NoDoorbell /\ iresp = "none"
    /\ iresp # "none" => db_ireq = NoDoorbell
    /\ db_ireq # NoDoorbell => db_ireq = IF cstate = "SWDB" THEN job.info ELSE normal

\* The packets still to send, the one under way included, are the rest of the
\* transfer.
PacketInv ==
    /\ engine # "DATA" => beat_cnt = 0
    /\ engine # "IDLE" => total_beat_cnt = sw_part_size /\ beat_cnt <= total_beat_cnt
    /\ sw_req => /\ sw_part_addr + beat_cnt = job.dst + sent
                 /\ sw_part_addr % B = 0
                 /\ sent - beat_cnt + sw_full_pack_cnt * B + sw_last_pack_size = job.size
    /\ sw_db_req => sent = job.size + 1

Quiet == bursts = <<>> /\ ~ar.busy /\ rbeat = 0

\* Bursts follow one another from the address b of the one being consumed,
\* n beats of which are gone, to the address to be asked for next; all but the
\* transfer's last are full, and it ends at address e.
Reads(bs, n, b, req, e) ==
    /\ \A i \in 1 .. Len(bs) :
          /\ bs[i].addr = b + (i - 1) * B
          /\ i < Len(bs) \/ req.busy => bs[i].len = B - 1
    /\ bs # <<>> => n <= bs[1].len
    /\ IF req.busy
       THEN req.addr = b + Len(bs) * B /\ req.addr + req.full * B + req.last = e
       ELSE bs # <<>> /\ bs[Len(bs)].addr + bs[Len(bs)].len = e

ReadInv ==
    /\ ~SRIO_CSR.sw \/ sw_start_en \/ sw_db_req => Quiet
    /\ sw_req /\ ~sw_mode_q => Quiet
    /\ bursts = <<>> => rbeat = 0
    /\ sw_req /\ sw_mode_q =>
           Reads(bursts, rbeat, job.src + sent - rbeat, ar, job.src + job.size)

IInv == Typing /\ StartInv /\ ArbiterInv /\ PacketInv /\ ReadInv

-----------------------------------------------------------------------------
LEMMA ValuesFacts ==
  ASSUME NEW v \in Values
  PROVE  /\ v.size \subseteq Nat /\ v.dst \subseteq Nat /\ v.src \subseteq Nat /\ v.info \subseteq Nat
         /\ 0 \in v.size /\ 0 \in v.dst /\ 0 \in v.src /\ 0 \in v.info
<1>1. /\ "size" \in DOMAIN v /\ "dst" \in DOMAIN v /\ "src" \in DOMAIN v /\ "info" \in DOMAIN v
      /\ \A f \in DOMAIN v : v[f] \subseteq Nat /\ 0 \in v[f]
  BY TxAssumption
<1>2. QED
  BY <1>1

LEMMA TypingFacts ==
  ASSUME Typing
  PROVE  /\ regs.size \in Nat /\ regs.dst \in Nat /\ regs.src \in Nat
         /\ regs.infoSw \in Nat /\ regs.infoDb \in Nat /\ regs.mode \in BOOLEAN
         /\ job.size \in Nat /\ job.dst \in Nat /\ job.src \in Nat
         /\ job.info \in Nat /\ job.mode \in BOOLEAN
         /\ db_info_normal_q \in Nat /\ db_info_sw_q \in Nat /\ normal \in Nat
         /\ B \in Nat /\ B > 0
<1>1. /\ values \in Values
      /\ regs.size \in values.size /\ regs.dst \in values.dst /\ regs.src \in values.src
      /\ regs.infoSw \in values.info /\ regs.infoDb \in values.info /\ regs.mode \in BOOLEAN
      /\ db_info_normal_q \in values.info /\ db_info_sw_q \in values.info /\ normal \in values.info
  BY DEF Typing
<1>2. /\ job.size \in values.size /\ job.dst \in values.dst /\ job.src \in values.src
      /\ job.info \in values.info /\ job.mode \in BOOLEAN
  BY DEF Typing, Jobs
<1>3. /\ values.size \subseteq Nat /\ values.dst \subseteq Nat /\ values.src \subseteq Nat
      /\ values.info \subseteq Nat
  BY <1>1, ValuesFacts
<1>4. B \in Nat /\ B > 0
  BY TxAssumption
<1>5. QED
  BY <1>1, <1>2, <1>3, <1>4

LEMMA InitIInv == Init => IInv
<1> SUFFICES ASSUME Init PROVE IInv
  OBVIOUS
<1> USE DEF Init, NoJob, NoDoorbell
<1>1. /\ values \in Values
      /\ 0 \in values.size /\ 0 \in values.dst /\ 0 \in values.src /\ 0 \in values.info
  BY ValuesFacts
<1>2. B \in Nat /\ B > 0
  BY TxAssumption
<1>3. Typing
  <2>1. regs \in [size : values.size, dst : values.dst, src : values.src,
                  infoSw : values.info, infoDb : values.info, mode : BOOLEAN]
    BY <1>1
  <2>2. job \in Jobs
    BY <1>1 DEF Jobs
  <2>3. bursts \in Seq(Bursts)
    BY EmptySeq
  <2>4. ar \in [busy : BOOLEAN, full : Nat, last : 0 .. B - 1, addr : Nat]
    BY <1>2
  <2>5. SRIO_CSR \in [db : BOOLEAN, sw : BOOLEAN, err : SUBSET {16, 17, 20, 21}]
    OBVIOUS
  <2>6. QED
    BY <1>1, <1>2, <2>1, <2>2, <2>3, <2>4, <2>5 DEF Typing
<1>4. StartInv
  BY DEF StartInv, BusyMeansWork, db_start_en, sw_start_en
<1>5. ArbiterInv
  BY DEF ArbiterInv
<1>6. PacketInv
  BY DEF PacketInv
<1>7. ReadInv
  BY DEF ReadInv, Quiet
<1>8. QED
  BY <1>3, <1>4, <1>5, <1>6, <1>7 DEF IInv

(* What a cycle of the register file may do.                               *)
LEMMA HostMoves ==
  ASSUME Typing, Host
  PROVE  /\ values' = values /\ lost \subseteq lost' /\ lost' \subseteq {"db", "sw"}
         /\ SRIO_CSR' \in [db : BOOLEAN, sw : BOOLEAN, err : SUBSET {16, 17, 20, 21}]
         /\ regs' \in [size : values.size, dst : values.dst, src : values.src,
                       infoSw : values.info, infoDb : values.info, mode : BOOLEAN]
         /\ normal' \in values.info /\ job' \in Jobs
         /\ SRIO_CSR.db => normal' = normal
         /\ SRIO_CSR.sw => job' = job
         /\ SRIO_CSR.db /\ ~SRIO_CSR'.db => db_done
         /\ SRIO_CSR.sw /\ ~SRIO_CSR'.sw => sw_done
         /\ SRIO_CSR.db /\ SRIO_CSR'.db /\ db_done => "db" \in lost'
         /\ SRIO_CSR.sw /\ SRIO_CSR'.sw /\ sw_done => "sw" \in lost'
         /\ ~SRIO_CSR.db /\ SRIO_CSR'.db => normal' = regs.infoDb /\ regs' = regs
         /\ ~SRIO_CSR.sw /\ SRIO_CSR'.sw =>
                /\ job' = [size |-> regs.size, dst |-> regs.dst, src |-> regs.src,
                           mode |-> regs.mode, info |-> regs.infoSw]
                /\ regs' = regs
<1> USE DEF Typing, Host
<1>1. CASE NoWrite
  <2>1. SRIO_CSR' \in [db : BOOLEAN, sw : BOOLEAN, err : SUBSET {16, 17, 20, 21}]
    BY <1>1 DEF NoWrite
  <2>2. QED
    BY <1>1, <2>1 DEF NoWrite
<1>2. CASE WriteElsewhere
  BY <1>2 DEF WriteElsewhere, PulsesLost
<1>3. CASE \E db, sw \in BOOLEAN : WriteStart(db, sw)
  <2>1. PICK db \in BOOLEAN, sw \in BOOLEAN : WriteStart(db, sw)
    BY <1>3
  <2>2. /\ SRIO_CSR' \in [db : BOOLEAN, sw : BOOLEAN, err : SUBSET {16, 17, 20, 21}]
        /\ SRIO_CSR'.db <=> SRIO_CSR.db \/ db
        /\ SRIO_CSR'.sw <=> SRIO_CSR.sw \/ sw
    BY <2>1 DEF WriteStart
  <2>3. [size |-> regs.size, dst |-> regs.dst, src |-> regs.src,
         mode |-> regs.mode, info |-> regs.infoSw] \in Jobs
    BY DEF Jobs
  <2>4. job' \in Jobs /\ normal' \in values.info /\ Jobs' = Jobs
    BY <2>1, <2>3 DEF WriteStart, Jobs
  <2>5. QED
    BY <2>1, <2>2, <2>4 DEF WriteStart, PulsesLost
<1>4. CASE ClearErrors(SRIO_CSR.err)
  BY <1>4 DEF ClearErrors, PulsesLost
<1>5. ASSUME NEW r \in {"size", "dst", "src", "mode", "infoSw", "infoDb"}, NEW x, WriteReg(r, x),
             r = "size" => x \in values.size,
             r = "dst" => x \in values.dst,
             r = "src" => x \in values.src,
             r = "mode" => x \in BOOLEAN,
             r \in {"infoSw", "infoDb"} => x \in values.info
      PROVE  /\ regs' \in [size : values.size, dst : values.dst, src : values.src,
                           infoSw : values.info, infoDb : values.info, mode : BOOLEAN]
             /\ PulsesLost /\ UNCHANGED <<SRIO_CSR, job, normal>>
  BY <1>5 DEF WriteReg
<1>6. CASE \E r \in {"size", "dst", "src", "mode", "infoSw", "infoDb"} : \E x :
              /\ WriteReg(r, x)
              /\ r = "size" => x \in values.size
              /\ r = "dst" => x \in values.dst
              /\ r = "src" => x \in values.src
              /\ r = "mode" => x \in BOOLEAN
              /\ r \in {"infoSw", "infoDb"} => x \in values.info
  <2>1. /\ regs' \in [size : values.size, dst : values.dst, src : values.src,
                      infoSw : values.info, infoDb : values.info, mode : BOOLEAN]
        /\ PulsesLost /\ UNCHANGED <<SRIO_CSR, job, normal>>
    BY <1>5, <1>6
  <2>2. QED
    BY <2>1 DEF PulsesLost
<1>7. QED
  BY <1>1, <1>2, <1>3, <1>4, <1>6 DEF Host

(* A clock cycle with the inputs of Next.                                  *)
Step(ready, valid, arready, resp) ==
    /\ ready \in BOOLEAN /\ valid \in BOOLEAN /\ arready \in BOOLEAN /\ resp \in BOOLEAN
    /\ Host /\ Datapath(ready, valid, arready, resp)

LEMMA NextIsStep ==
  ASSUME Next
  PROVE  \E r, v, a, p \in BOOLEAN : Step(r, v, a, p)
  BY DEF Next, Step, When

LEMMA StartInvStep ==
  ASSUME IInv, NEW r, NEW v, NEW a, NEW p, Step(r, v, a, p)
  PROVE  StartInv'
<1> USE DEF IInv
<1>1. /\ Host /\ StartEdges /\ NormalDoorbell /\ SwLock(r, v) /\ SwDoorbell(r, v)
      /\ SRIO_CSR.db \in BOOLEAN /\ SRIO_CSR.sw \in BOOLEAN
      /\ SRIO_CSR'.db \in BOOLEAN /\ SRIO_CSR'.sw \in BOOLEAN
  BY HostMoves DEF Step, Datapath, Typing
<1>2. db_done => normal_db_req /\ ~db_start_en
  BY DEF db_done, ArbiterInv, StartInv
<1>3. sw_done => sw_db_req /\ ~sw_start_en /\ ~sw_req
  BY DEF sw_done, ArbiterInv, StartInv
<1>4. sw_last_pack_done(r, v) => sw_req /\ ~sw_start_en
  BY DEF sw_last_pack_done, StartInv
<1>5. db_start_en' => regs'.infoDb = normal' /\ ~normal_db_req'
  <2>1. db_start_en' => SRIO_CSR'.db /\ ~SRIO_CSR.db
    BY <1>1 DEF db_start_en, StartEdges
  <2>2. ~SRIO_CSR.db => ~normal_db_req'
    BY <1>1 DEF NormalDoorbell, StartInv, db_start_en
  <2>3. ~SRIO_CSR.db /\ SRIO_CSR'.db => regs'.infoDb = normal'
    BY <1>1, HostMoves
  <2>4. QED
    BY <2>1, <2>2, <2>3
<1>6. normal_db_req' => SRIO_CSR'.db /\ db_info_normal_q' = normal'
  <2>1. CASE db_start_en
    BY <1>1, <1>2, <2>1, HostMoves DEF NormalDoorbell, StartInv, db_start_en
  <2>2. CASE ~db_start_en
    BY <1>1, <2>2, HostMoves DEF NormalDoorbell, StartInv
  <2>3. QED
    BY <2>1, <2>2
<1>7. sw_start_en' => /\ regs'.size = job'.size /\ regs'.dst = job'.dst /\ regs'.src = job'.src
                      /\ regs'.mode = job'.mode /\ regs'.infoSw = job'.info
                      /\ ~sw_req' /\ ~sw_db_req'
  <2>1. sw_start_en' => SRIO_CSR'.sw /\ ~SRIO_CSR.sw
    BY <1>1 DEF sw_start_en, StartEdges
  <2>2. ~SRIO_CSR.sw => ~sw_req' /\ ~sw_db_req'
    BY <1>1, <1>4 DEF SwLock, SwDoorbell, StartInv, sw_start_en
  <2>3. ~SRIO_CSR.sw /\ SRIO_CSR'.sw =>
           /\ regs'.size = job'.size /\ regs'.dst = job'.dst /\ regs'.src = job'.src
           /\ regs'.mode = job'.mode /\ regs'.infoSw = job'.info
    BY <1>1, HostMoves
  <2>4. QED
    BY <2>1, <2>2, <2>3
<1>8. sw_req' => \/ sw_start_en /\ aligned(regs.src) /\ aligned(regs.dst)
                 \/ sw_req /\ ~sw_start_en
  BY <1>1 DEF SwLock, StartInv
<1>9. sw_db_req' => \/ sw_req /\ sw_last_pack_done(r, v)
                    \/ sw_db_req /\ ~sw_done
  BY <1>1, <1>4 DEF SwDoorbell
<1>10. sw_req' \/ sw_db_req' => SRIO_CSR.sw /\ SRIO_CSR'.sw /\ job' = job
  <2>1. sw_req' \/ sw_db_req' => SRIO_CSR.sw /\ ~sw_done
    BY <1>3, <1>4, <1>8, <1>9 DEF StartInv, sw_start_en
  <2>2. QED
    BY <1>1, <2>1, HostMoves
<1>11. sw_req' \/ sw_db_req' => sw_mode_q' = job'.mode /\ db_info_sw_q' = job'.info
                               /\ aligned(job'.src) /\ aligned(job'.dst)
  <2>1. CASE sw_start_en
    <3>1. sw_req' \/ sw_db_req' => aligned(regs.src) /\ aligned(regs.dst)
      BY <1>3, <1>4, <1>8, <1>9, <2>1 DEF StartInv
    <3>2. QED
      BY <1>1, <1>10, <2>1, <3>1 DEF SwLock, StartInv
  <2>2. CASE ~sw_start_en
    <3>1. sw_req' \/ sw_db_req' => sw_req \/ sw_db_req
      BY <1>8, <1>9, <2>2
    <3>2. QED
      BY <1>1, <1>10, <2>2, <3>1 DEF SwLock, StartInv
  <2>3. QED
    BY <2>1, <2>2
<1>12. ~(sw_req' /\ sw_db_req')
  BY <1>1, <1>3, <1>4, <1>8, <1>9 DEF SwLock, StartInv
<1>13. BusyMeansWork'
  <2>1. SRIO_CSR'.db => db_start_en' \/ normal_db_req' \/ "db" \in lost'
    <3>1. CASE ~SRIO_CSR.db
      BY <1>1, <3>1 DEF db_start_en, StartEdges
    <3>2. CASE SRIO_CSR.db /\ db_done
      BY <1>1, <3>2, HostMoves
    <3>3. CASE SRIO_CSR.db /\ ~db_done
      <4>1. normal_db_req' \/ "db" \in lost
        BY <1>1, <3>3 DEF NormalDoorbell, StartInv, BusyMeansWork
      <4>2. QED
        BY <1>1, <4>1, HostMoves
    <3>4. QED
      BY <1>1, <3>1, <3>2, <3>3
  <2>2. SRIO_CSR'.sw => \/ sw_start_en' \/ sw_req' \/ sw_db_req' \/ "sw" \in lost'
                        \/ ~aligned(job'.src) \/ ~aligned(job'.dst)
    <3>1. CASE ~SRIO_CSR.sw
      BY <1>1, <3>1 DEF sw_start_en, StartEdges
    <3>2. CASE SRIO_CSR.sw /\ sw_done
      BY <1>1, <3>2, HostMoves
    <3>3. CASE SRIO_CSR.sw /\ ~sw_done
      <4>1. job' = job /\ lost \subseteq lost'
        BY <1>1, <3>3, HostMoves
      <4>2. CASE sw_start_en
        BY <1>1, <4>1, <4>2 DEF SwLock, StartInv
      <4>3. CASE ~sw_start_en
        <5>1. \/ sw_req \/ sw_db_req \/ "sw" \in lost
              \/ ~aligned(job.src) \/ ~aligned(job.dst)
          BY <3>3, <4>3 DEF StartInv, BusyMeansWork
        <5>2. sw_req => sw_req' \/ sw_db_req'
          BY <1>1, <4>3 DEF SwLock, SwDoorbell
        <5>3. sw_db_req => sw_db_req'
          BY <1>1, <3>3 DEF SwDoorbell
        <5>4. QED
          BY <4>1, <5>1, <5>2, <5>3
      <4>4. QED
        BY <4>2, <4>3
    <3>4. QED
      BY <1>1, <3>1, <3>2, <3>3
  <2>3. QED
    BY <2>1, <2>2 DEF BusyMeansWork, aligned
<1>14. QED
  BY <1>5, <1>6, <1>7, <1>10, <1>11, <1>12, <1>13 DEF StartInv, aligned

LEMMA ArbiterInvStep ==
  ASSUME IInv, NEW r, NEW v, NEW a, NEW p, Step(r, v, a, p)
  PROVE  ArbiterInv'
<1> USE DEF IInv
<1>1. /\ Host /\ StartEdges /\ NormalDoorbell /\ SwLock(r, v) /\ SwDoorbell(r, v)
      /\ cstate' = nstate(r, v)
      /\ db_part_start' = (cstate = "IDLE" /\ cstate' \in {"NORMALDB", "SWDB"})
      /\ sw_part_start' = (cstate = "IDLE" /\ cstate' = "SW")
      /\ DbEngine(r, p) /\ SwEngine(r, v)
  BY DEF Step, Datapath, Arbiter
<1>2. /\ cstate \in {"IDLE", "SWDB", "NORMALDB", "SW"} /\ engine \in {"IDLE", "HEAD", "DATA"}
      /\ iresp \in {"none", "owed", "valid"} /\ iresp_tready \in BOOLEAN
      /\ db_part_start \in BOOLEAN /\ sw_part_start \in BOOLEAN
  BY DEF Typing
<1>3. sw_part_done(r, v) => engine = "DATA" /\ cstate = "SW"
  BY DEF sw_part_done, data_handshake, ArbiterInv
<1>4. db_part_done => iresp = "valid" /\ cstate \in {"SWDB", "NORMALDB"} /\ db_ireq = NoDoorbell
  BY <1>2 DEF db_part_done, ArbiterInv
<1>5. db_handshake(r) => cstate \in {"SWDB", "NORMALDB"} /\ iresp = "none" /\ ~db_part_start
  BY <1>2 DEF db_handshake, ArbiterInv
<1>6. /\ cstate' = "SW" <=> (sw_part_start' \/ engine' # "IDLE")
      /\ sw_part_start' => engine' = "IDLE"
  <2>1. CASE cstate = "SW"
    <3>1. cstate' = IF sw_part_done(r, v) THEN "IDLE" ELSE "SW"
      BY <2>1 , <1>1 DEF nstate
    <3>2. ~sw_part_start'
      BY <1>1, <2>1
    <3>3. engine' # "IDLE" <=> ~sw_part_done(r, v)
      BY <1>1, <1>2, <1>3, <2>1 DEF SwEngine, ArbiterInv
    <3>4. QED
      BY <3>1, <3>2, <3>3
  <2>2. CASE cstate # "SW"
    <3>1. engine = "IDLE" /\ ~sw_part_start
      BY <2>2 DEF ArbiterInv
    <3>2. engine' = "IDLE"
      BY <1>1, <3>1 DEF SwEngine
    <3>3. cstate' = "SW" => cstate = "IDLE"
      BY <1>1, <1>2, <2>2 DEF nstate
    <3>4. QED
      BY <1>1, <3>2, <3>3
  <2>3. QED
    BY <2>1, <2>2
<1>7. cstate' = "SW" => sw_req'
  <2>1. cstate' = "SW" => sw_req /\ ~sw_part_done(r, v)
    BY <1>1, <1>2, <1>3 DEF nstate, ArbiterInv
  <2>2. QED
    BY <1>1, <2>1 DEF SwLock, sw_last_pack_done
<1>8. cstate' = "SWDB" => sw_db_req'
  <2>1. cstate' = "SWDB" => sw_db_req /\ ~sw_done
    BY <1>1, <1>2 DEF nstate, ArbiterInv, sw_done
  <2>2. QED
    BY <1>1, <2>1 DEF SwDoorbell
<1>9. cstate' = "NORMALDB" => normal_db_req'
  <2>1. cstate' = "NORMALDB" => normal_db_req /\ ~db_done
    BY <1>1, <1>2 DEF nstate, ArbiterInv, db_done
  <2>2. QED
    BY <1>1, <2>1 DEF NormalDoorbell
<1>10. cstate' \notin {"SWDB", "NORMALDB"} =>
          ~db_part_start' /\ db_ireq' = NoDoorbell /\ iresp' = "none"
  <2> SUFFICES ASSUME cstate' \notin {"SWDB", "NORMALDB"}
               PROVE  ~db_part_start' /\ db_ireq' = NoDoorbell /\ iresp' = "none"
    OBVIOUS
  <2>1. ~db_part_start'
    BY <1>1
  <2>2. CASE cstate \notin {"SWDB", "NORMALDB"}
    BY <1>1, <1>4, <1>5, <2>1, <2>2 DEF DbEngine, ArbiterInv
  <2>3. CASE cstate \in {"SWDB", "NORMALDB"}
    <3>1. db_part_done
      BY <1>1, <2>3 DEF nstate
    <3>2. ~db_part_start /\ ~db_handshake(r) /\ iresp = "valid"
      BY <1>4, <1>5, <3>1 DEF ArbiterInv
    <3>3. QED
      BY <1>1, <1>4, <2>1, <3>1, <3>2 DEF DbEngine
  <2>4. QED
    BY <2>2, <2>3
<1>11. db_part_start' => db_ireq' = NoDoorbell /\ iresp' = "none"
  <2>1. db_part_start' => cstate = "IDLE"
    BY <1>1
  <2>2. cstate = "IDLE" => ~db_part_start /\ db_ireq = NoDoorbell /\ iresp = "none"
    BY DEF ArbiterInv
  <2>3. cstate = "IDLE" => db_ireq' = NoDoorbell /\ iresp' = "none"
    BY <1>1, <1>4, <1>5, <2>2 DEF DbEngine
  <2>4. QED
    BY <2>1, <2>3
<1>12. iresp' # "none" => db_ireq' = NoDoorbell
  <2>1. CASE db_handshake(r)
    BY <1>1, <1>5, <2>1 DEF DbEngine
  <2>2. CASE ~db_handshake(r)
    <3>1. iresp' # "none" => iresp # "none"
      BY <1>1, <2>2 DEF DbEngine
    <3>2. iresp # "none" => ~db_part_start /\ db_ireq = NoDoorbell
      BY DEF ArbiterInv
    <3>3. QED
      BY <1>1, <2>2, <3>1, <3>2 DEF DbEngine
  <2>3. QED
    BY <2>1, <2>2
<1>13. db_ireq' # NoDoorbell => db_ireq' = IF cstate' = "SWDB" THEN job'.info ELSE normal'
  <2> SUFFICES ASSUME db_ireq' # NoDoorbell
               PROVE  db_ireq' = IF cstate' = "SWDB" THEN job'.info ELSE normal'
    OBVIOUS
  <2>1. ~db_handshake(r) \/ db_part_start
    BY <1>1 DEF DbEngine
  <2>2. db_part_start \/ db_ireq # NoDoorbell
    BY <1>1 DEF DbEngine
  <2>3. cstate \in {"SWDB", "NORMALDB"} /\ iresp = "none"
    BY <1>2, <2>2 DEF ArbiterInv
  <2>4. cstate' = cstate
    BY <1>1, <1>4, <2>3 DEF nstate
  <2>5. CASE cstate = "SWDB"
    <3>1. sw_db_req /\ SRIO_CSR.sw /\ db_info_sw_q = job.info
      BY <2>5 DEF ArbiterInv, StartInv
    <3>2. job' = job
      BY <1>1, <3>1, HostMoves
    <3>3. QED
      BY <1>1, <2>1, <2>2, <2>4, <2>5, <3>1, <3>2 DEF DbEngine, ArbiterInv
  <2>6. CASE cstate = "NORMALDB"
    <3>1. normal_db_req /\ SRIO_CSR.db /\ db_info_normal_q = normal
      BY <2>6 DEF ArbiterInv, StartInv
    <3>2. normal' = normal
      BY <1>1, <3>1, HostMoves
    <3>3. QED
      BY <1>1, <2>1, <2>2, <2>4, <2>6, <3>1, <3>2 DEF DbEngine, ArbiterInv
  <2>7. QED
    BY <2>3, <2>5, <2>6
<1>14. QED
  BY <1>6, <1>7, <1>8, <1>9, <1>10, <1>11, <1>12, <1>13 DEF ArbiterInv

LEMMA DivisionUnique ==
  ASSUME NEW b \in Nat, b > 0, NEW q \in Int, NEW r \in 0 .. b - 1,
         NEW x \in Nat, x = q * b + r
  PROVE  x % b = r
  OBVIOUS

(* What the packet counters rely on.                                       *)
LEMMA Multiples ==
  ASSUME NEW x \in Nat
  PROVE  /\ B \in Nat /\ B > 0
         /\ x \div B \in Nat /\ x % B \in 0 .. B - 1
         /\ x = (x \div B) * B + (x % B)
         /\ (x + B) % B = x % B
         /\ x * B \in Nat /\ (x > 0 => x * B >= B) /\ (x > 0 => (x - 1) * B = x * B - B)
         /\ (x + 1) * B = x * B + B
<1>1. B \in Nat /\ B > 0
  BY TxAssumption
<1>2. x \div B \in Nat /\ x % B \in 0 .. B - 1
  BY <1>1
<1>3. x = (x \div B) * B + (x % B)
  BY <1>1
<1>4. (x + B) % B = x % B
  <2>1. x + B = ((x \div B) + 1) * B + (x % B)
    BY <1>1, <1>2, <1>3
  <2>2. x + B \in Nat /\ (x \div B) + 1 \in Int
    BY <1>1, <1>2
  <2>3. PICK q \in Int, t \in 0 .. B - 1, y \in Nat :
           q = (x \div B) + 1 /\ t = x % B /\ y = x + B
    BY <1>2, <2>2
  <2>4. y = q * B + t
    BY <2>1, <2>3
  <2>5. y % B = t
    BY <1>1, <2>4, DivisionUnique
  <2>6. QED
    BY <2>3, <2>5
<1>5. x * B \in Nat
  BY <1>1
<1>6. (x + 1) * B = x * B + B
  BY <1>1
<1>7. x > 0 => (x - 1) * B = x * B - B
  BY <1>1
<1>8. x > 0 => x * B >= B
  BY <1>1
<1>9. QED
  BY <1>1, <1>2, <1>3, <1>4, <1>5, <1>6, <1>7, <1>8

(* The last packet of a transfer is over exactly when the double word that *)
(* completes it is taken.                                                  *)
LEMMA LastPack ==
  ASSUME IInv, sw_req, NEW r \in BOOLEAN, NEW v \in BOOLEAN, data_handshake(r, v)
  PROVE  /\ sent <= job.size
         /\ sw_part_done(r, v) /\ sw_full_pack_cnt > 0 => beat_cnt = B - 1
         /\ sw_last_pack_done(r, v) <=> sent = job.size
<1>1. engine = "DATA" /\ total_beat_cnt = sw_part_size /\ beat_cnt <= total_beat_cnt
  BY DEF data_handshake, IInv, PacketInv
<1>2. /\ beat_cnt \in Nat /\ total_beat_cnt \in Nat /\ sent \in Nat /\ job.size \in Nat
      /\ sw_full_pack_cnt \in Nat /\ sw_last_pack_size \in Nat
      /\ B \in Nat /\ B > 0
  BY TypingFacts DEF IInv, Typing
<1>3. sent - beat_cnt + sw_full_pack_cnt * B + sw_last_pack_size = job.size
  BY DEF IInv, PacketInv
<1>4. CASE sw_full_pack_cnt = 0
  <2>1. total_beat_cnt = sw_last_pack_size
    BY <1>1, <1>2, <1>4 DEF sw_part_size
  <2>2. sent - beat_cnt + total_beat_cnt = job.size
    BY <1>2, <1>3, <1>4, <2>1
  <2>3. sent <= job.size /\ (beat_cnt = total_beat_cnt <=> sent = job.size)
    BY <1>1, <1>2, <2>2
  <2>4. QED
    BY <1>4, <2>3 DEF sw_last_pack_done, sw_part_done
<1>5. CASE sw_full_pack_cnt > 0
  <2>1. total_beat_cnt = B - 1
    BY <1>1, <1>2, <1>5 DEF sw_part_size
  <2>2. PICK f \in Nat : f = sw_full_pack_cnt * B /\ f >= B
    BY <1>2, <1>5, Multiples
  <2>3. sent < job.size
    BY <1>1, <1>2, <1>3, <2>1, <2>2
  <2>4. QED
    BY <1>2, <1>5, <2>1, <2>3 DEF sw_last_pack_done, sw_part_done
<1>6. QED
  BY <1>2, <1>4, <1>5

LEMMA PacketInvStep ==
  ASSUME IInv, NEW r, NEW v, NEW a, NEW p, Step(r, v, a, p)
  PROVE  /\ PacketInv'
         /\ sw_full_pack_cnt' \in Nat /\ sw_part_addr' \in Nat /\ sent' \in Nat
         /\ sw_last_pack_size' \in 0 .. B - 1 /\ beat_cnt' \in 0 .. B - 1
         /\ total_beat_cnt' \in 0 .. B - 1
<1>1. /\ Host /\ SwLock(r, v) /\ SwDoorbell(r, v) /\ Packets(r, v) /\ SwEngine(r, v)
      /\ r \in BOOLEAN /\ v \in BOOLEAN
  BY DEF Step, Datapath
<1>2. /\ beat_cnt \in 0 .. B - 1 /\ total_beat_cnt \in 0 .. B - 1 /\ sw_last_pack_size \in 0 .. B - 1
      /\ sw_full_pack_cnt \in Nat /\ sw_part_addr \in Nat /\ sent \in Nat
      /\ engine \in {"IDLE", "HEAD", "DATA"}
  BY DEF IInv, Typing
<1>3. /\ B \in Nat /\ B > 0 /\ regs.size \in Nat /\ regs.dst \in Nat
      /\ job.size \in Nat /\ job.dst \in Nat
  BY TypingFacts DEF IInv
<1>4. engine # "IDLE" => sw_req /\ ~sw_part_start /\ ~sw_start_en
  BY DEF IInv, ArbiterInv, StartInv
<1>5. /\ sw_part_done(r, v) => data_handshake(r, v)
      /\ data_handshake(r, v) => engine = "DATA"
      /\ sw_last_pack_done(r, v) => sw_part_done(r, v) /\ sw_req /\ sw_full_pack_cnt = 0
  BY DEF sw_part_done, data_handshake, sw_last_pack_done
<1>6. CASE sw_start_en
  <2>1. engine = "IDLE" /\ ~data_handshake(r, v) /\ ~sw_part_done(r, v) /\ ~sw_part_start
    BY <1>4, <1>5, <1>6 DEF IInv, StartInv, ArbiterInv
  <2>2. engine' = "IDLE" /\ beat_cnt' = 0 /\ sent' = 0 /\ total_beat_cnt' = total_beat_cnt
    BY <1>1, <1>6, <2>1 DEF SwEngine
  <2>3. /\ sw_full_pack_cnt' = regs.size \div B /\ sw_last_pack_size' = regs.size % B
        /\ sw_part_addr' = regs.dst
    BY <1>1, <1>6 DEF Packets
  <2>4. /\ sw_full_pack_cnt' \in Nat /\ sw_last_pack_size' \in 0 .. B - 1
        /\ regs.size = sw_full_pack_cnt' * B + sw_last_pack_size'
    BY <1>3, <2>3, Multiples
  <2>5. ~sw_db_req'
    BY <1>1, <1>5, <1>6, <2>1 DEF SwDoorbell, IInv, StartInv
  <2>6. sw_req' => /\ regs.dst % B = 0 /\ job' = job /\ job.size = regs.size /\ job.dst = regs.dst
    <3>1. job' = job /\ job.size = regs.size /\ job.dst = regs.dst
      BY <1>1, <1>6, HostMoves DEF IInv, StartInv, sw_start_en
    <3>2. sw_req' => aligned(regs.dst)
      BY <1>1, <1>6 DEF SwLock, IInv, StartInv
    <3>3. QED
      BY <3>1, <3>2 DEF aligned
  <2>7. sw_req' => /\ sw_part_addr' + beat_cnt' = job'.dst + sent'
                  /\ sw_part_addr' % B = 0
                  /\ sent' - beat_cnt' + sw_full_pack_cnt' * B + sw_last_pack_size' = job'.size
    <3>1. sw_full_pack_cnt' * B \in Nat
      BY <2>4, Multiples
    <3>2. 0 - 0 + sw_full_pack_cnt' * B + sw_last_pack_size' = sw_full_pack_cnt' * B + sw_last_pack_size'
      BY <2>4, <3>1
    <3>3. QED
      BY <1>3, <2>2, <2>3, <2>4, <2>6, <3>2
  <2>8. PacketInv'
    BY <2>2, <2>5, <2>7 DEF PacketInv
  <2>9. QED
    BY <1>2, <1>3, <2>2, <2>3, <2>4, <2>8
<1>7. CASE ~sw_start_en /\ ~data_handshake(r, v)
  <2>1. /\ UNCHANGED <<sw_full_pack_cnt, sw_part_addr, sw_last_pack_size, sent>>
        /\ ~sw_part_done(r, v) /\ ~sw_last_pack_done(r, v)
    BY <1>1, <1>5, <1>7 DEF Packets, SwEngine
  <2>2. engine = "DATA" => engine' = "DATA" /\ beat_cnt' = beat_cnt
    BY <1>1, <1>7, <2>1 DEF SwEngine
  <2>3. engine # "DATA" => beat_cnt' = 0 /\ beat_cnt = 0
    BY <1>1, <1>7 DEF SwEngine, IInv, PacketInv
  <2>4. engine' # "DATA" => beat_cnt' = 0
    BY <1>2, <2>2, <2>3
  <2>5. beat_cnt' = beat_cnt
    BY <2>2, <2>3
  <2>6. engine' # "IDLE" => total_beat_cnt' = sw_part_size /\ beat_cnt' <= total_beat_cnt'
    <3>1. CASE sw_part_start
      <4>1. total_beat_cnt' = sw_part_size /\ engine = "IDLE"
        BY <1>1, <3>1 DEF SwEngine, IInv, ArbiterInv
      <4>2. sw_part_size \in Nat
        BY <1>2, <1>3 DEF sw_part_size
      <4>3. QED
        BY <2>3, <4>1, <4>2
    <3>2. CASE ~sw_part_start
      <4>1. engine' # "IDLE" => engine # "IDLE" /\ total_beat_cnt' = total_beat_cnt
        BY <1>1, <3>2, <1>2 DEF SwEngine
      <4>2. QED
        BY <2>5, <4>1 DEF IInv, PacketInv
    <3>3. QED
      BY <3>1, <3>2
  <2>7. total_beat_cnt' \in 0 .. B - 1
    BY <1>1, <1>2, <1>3 DEF SwEngine, sw_part_size
  <2>8. /\ sw_req' => sw_req
        /\ sw_db_req' => sw_db_req
        /\ sw_req' \/ sw_db_req' => job' = job
    <3>1. /\ sw_req' => sw_req
          /\ sw_db_req' => sw_db_req
      BY <1>1, <1>7, <2>1 DEF SwLock, SwDoorbell
    <3>2. QED
      BY <1>1, <3>1, HostMoves DEF IInv, StartInv
  <2>9. PacketInv'
    <3>1. sw_part_size' = sw_part_size
      BY <2>1 DEF sw_part_size
    <3>2. QED
      BY <2>1, <2>4, <2>5, <2>6, <2>8, <3>1 DEF PacketInv, IInv
  <2>10. QED
    BY <1>2, <2>1, <2>5, <2>7, <2>9
<1>8. CASE ~sw_start_en /\ data_handshake(r, v)
  <2>1. /\ engine = "DATA" /\ sw_req /\ ~sw_db_req /\ ~sw_part_start /\ job' = job
        /\ sent' = sent + 1 /\ sw_last_pack_size' = sw_last_pack_size
        /\ total_beat_cnt' = total_beat_cnt
        /\ total_beat_cnt = sw_part_size /\ beat_cnt <= total_beat_cnt
        /\ sw_part_done(r, v) <=> beat_cnt = total_beat_cnt
        /\ sw_req' <=> ~sw_last_pack_done(r, v)
        /\ sw_db_req' => sw_last_pack_done(r, v)
    <3>1. engine = "DATA" /\ sw_req /\ ~sw_db_req /\ ~sw_part_start /\ SRIO_CSR.sw
      BY <1>4, <1>5, <1>8 DEF IInv, StartInv
    <3>2. sw_part_done(r, v) <=> beat_cnt = total_beat_cnt
      BY <1>8 DEF sw_part_done
    <3>3. job' = job
      BY <1>1, <3>1, HostMoves DEF IInv
    <3>4. QED
      BY <1>1, <1>8, <3>1, <3>2, <3>3 DEF Packets, SwEngine, SwLock, SwDoorbell, IInv, PacketInv
  <2>2. /\ sw_part_addr + beat_cnt = job.dst + sent
        /\ sw_part_addr % B = 0
        /\ sent - beat_cnt + sw_full_pack_cnt * B + sw_last_pack_size = job.size
    BY <2>1 DEF IInv, PacketInv
  <2>3. CASE ~sw_part_done(r, v)
    <3>1. /\ beat_cnt < total_beat_cnt /\ beat_cnt' = beat_cnt + 1 /\ engine' = "DATA"
          /\ UNCHANGED <<sw_full_pack_cnt, sw_part_addr>> /\ sw_req' /\ ~sw_db_req'
      BY <1>1, <1>2, <1>5, <1>8, <2>1, <2>3 DEF SwEngine, Packets
    <3>2. sw_part_addr' + beat_cnt' = job'.dst + sent'
      BY <1>2, <1>3, <2>1, <2>2, <3>1
    <3>3. sent' - beat_cnt' + sw_full_pack_cnt' * B + sw_last_pack_size' = job'.size
      <4>1. sent' - beat_cnt' = sent - beat_cnt
        BY <1>2, <1>3, <2>1, <3>1
      <4>2. QED
        BY <2>1, <2>2, <3>1, <4>1
    <3>4. beat_cnt' <= total_beat_cnt' /\ beat_cnt' \in 0 .. B - 1 /\ sw_part_size' = sw_part_size
      BY <1>2, <1>3, <2>1, <3>1 DEF sw_part_size
    <3>5. PacketInv'
      BY <2>1, <2>2, <3>1, <3>2, <3>3, <3>4 DEF PacketInv
    <3>6. QED
      BY <1>2, <2>1, <3>1, <3>4, <3>5
  <2>4. CASE sw_part_done(r, v)
    <3>1. engine' = "IDLE" /\ beat_cnt' = 0 /\ beat_cnt = total_beat_cnt
      BY <1>1, <1>2, <2>1, <2>4 DEF SwEngine
    <3>2. CASE sw_full_pack_cnt > 0
      <4>1. /\ sw_full_pack_cnt' = sw_full_pack_cnt - 1 /\ sw_part_addr' = sw_part_addr + B
            /\ ~sw_db_req' /\ beat_cnt = B - 1
        BY <1>1, <1>2, <1>3, <1>5, <1>8, <2>1, <2>4, <3>1, <3>2, LastPack DEF Packets, sw_part_size
      <4>2. sw_part_addr' % B = 0
        BY <1>2, <2>2, <4>1, Multiples
      <4>3. sw_part_addr' + beat_cnt' = job'.dst + sent'
        <5>1. \A x, y, z \in Nat : x + (B - 1) = y + z => (x + B) + 0 = y + (z + 1)
          BY <1>3
        <5>2. sw_part_addr + (B - 1) = job.dst + sent
          BY <2>2, <4>1
        <5>3. (sw_part_addr + B) + 0 = job.dst + (sent + 1)
          BY <1>2, <1>3, <5>1, <5>2
        <5>4. QED
          BY <2>1, <3>1, <4>1, <5>3
      <4>4. sent' - beat_cnt' + sw_full_pack_cnt' * B + sw_last_pack_size' = job'.size
        <5>1. PICK f \in Nat : f = sw_full_pack_cnt * B
          BY <1>2, Multiples
        <5>2. sw_full_pack_cnt' * B = f - B
          BY <1>2, <3>2, <4>1, <5>1, Multiples
        <5>3. sent - beat_cnt + f + sw_last_pack_size = job.size
          BY <2>2, <5>1
        <5>4. (sent + 1) - 0 + (f - B) + sw_last_pack_size = job.size
          BY <1>2, <1>3, <4>1, <5>3
        <5>5. QED
          BY <2>1, <3>1, <5>2, <5>4
      <4>5. PacketInv'
        BY <3>1, <4>1, <4>2, <4>3, <4>4 DEF PacketInv
      <4>6. QED
        BY <1>2, <1>3, <2>1, <3>1, <3>2, <4>1, <4>5
    <3>3. CASE sw_full_pack_cnt = 0
      <4>1. UNCHANGED <<sw_full_pack_cnt, sw_part_addr>>
        BY <1>1, <1>8, <3>3 DEF Packets
      <4>2. sw_last_pack_done(r, v) /\ ~sw_req' /\ sent = job.size
        BY <1>1, <1>8, <2>1, <2>4, <3>3, LastPack DEF sw_last_pack_done
      <4>3. PacketInv'
        BY <2>1, <3>1, <4>2 DEF PacketInv
      <4>4. QED
        BY <1>2, <1>3, <2>1, <3>1, <4>1, <4>3
    <3>4. QED
      BY <1>2, <3>2, <3>3
  <2>5. QED
    BY <2>3, <2>4
<1>9. QED
  BY <1>6, <1>7, <1>8

(* Nothing is asked for and nothing consumed: the read side stays quiet.   *)
LEMMA QuietStays ==
  ASSUME IInv, Quiet, NEW r, NEW v, NEW a,
         ReadRequests(a), ReadMemory(r, v, a),
         ~(sw_start_en /\ regs.mode), ~(sw_mode_q /\ data_handshake(r, v))
  PROVE  Quiet'
<1>1. ~ar_handshake(a)
  BY DEF Quiet, ar_handshake
<1>2. bursts' = bursts /\ rbeat' = rbeat
  BY <1>1 DEF ReadMemory
<1>3. ~ar'.busy
  BY DEF ReadRequests, Quiet
<1>4. QED
  BY <1>2, <1>3 DEF Quiet

Requests == [busy : BOOLEAN, full : Nat, last : 0 .. B - 1, addr : Nat]

(* The memory takes a burst: the next one starts where it ends.            *)
LEMMA BurstAsked ==
  ASSUME NEW bs \in Seq(Bursts), NEW n \in Nat, NEW b \in Int, NEW e \in Int, NEW req \in Requests,
         req.busy, Reads(bs, n, b, req, e), bs = <<>> => n = 0,
         NEW len, len = IF req.full > 0 THEN B - 1 ELSE req.last,
         NEW next, next = IF req.full > 0
                          THEN [busy |-> TRUE, full |-> req.full - 1, last |-> req.last, addr |-> req.addr + B]
                          ELSE [busy |-> FALSE, full |-> 0, last |-> req.last, addr |-> req.addr]
  PROVE  /\ Append(bs, [addr |-> req.addr, len |-> len]) \in Seq(Bursts) /\ next \in Requests
         /\ Reads(Append(bs, [addr |-> req.addr, len |-> len]), n, b, next, e)
<1> DEFINE new == [addr |-> req.addr, len |-> len]
           asked == Append(bs, new)
<1>1. /\ B \in Nat /\ B > 0 /\ req.addr \in Nat /\ req.full \in Nat /\ req.last \in 0 .. B - 1
      /\ Len(bs) \in Nat
  BY TxAssumption, LenProperties DEF Requests
<1>2. len \in 0 .. B - 1 /\ new \in Bursts /\ new.addr = req.addr /\ new.len = len
  BY <1>1 DEF Bursts
<1>3. next \in Requests
  BY <1>1 DEF Requests
<1> HIDE DEF new
<1>4. /\ asked \in Seq(Bursts) /\ Len(asked) = Len(bs) + 1 /\ asked # <<>>
      /\ \A i \in 1 .. Len(bs) : asked[i] = bs[i]
      /\ asked[Len(bs) + 1] = new
  BY <1>1, <1>2, AppendProperties, EmptySeq
<1> HIDE DEF asked
<1>5. /\ req.addr = b + Len(bs) * B /\ req.addr + req.full * B + req.last = e
      /\ \A i \in 1 .. Len(bs) : bs[i].addr = b + (i - 1) * B /\ bs[i].len = B - 1
      /\ bs # <<>> => n <= bs[1].len
  BY DEF Reads
<1>6. ASSUME NEW i \in 1 .. Len(asked)
      PROVE  /\ asked[i].addr = b + (i - 1) * B
             /\ i < Len(asked) \/ next.busy => asked[i].len = B - 1
  <2>1. CASE i \in 1 .. Len(bs)
    BY <1>4, <1>5, <2>1
  <2>2. CASE i = Len(bs) + 1
    <3>1. asked[i] = new /\ i - 1 = Len(bs) /\ ~(i < Len(asked))
      BY <1>1, <1>4, <2>2
    <3>2. next.busy => len = B - 1
      OBVIOUS
    <3>3. QED
      BY <1>2, <1>5, <3>1, <3>2
  <2>3. QED
    BY <1>1, <1>4, <2>1, <2>2
<1>7. n <= asked[1].len
  <2>1. CASE bs = <<>>
    <3>1. Len(bs) + 1 = 1 /\ n = 0
      BY <2>1
    <3>2. asked[1] = new
      BY <1>4, <3>1
    <3>3. QED
      BY <1>1, <1>2, <3>1, <3>2
  <2>2. CASE bs # <<>>
    <3>1. 1 \in 1 .. Len(bs)
      BY <2>2, EmptySeq
    <3>2. QED
      BY <1>4, <1>5, <2>2, <3>1
  <2>3. QED
    BY <2>1, <2>2
<1>8. IF next.busy
      THEN next.addr = b + Len(asked) * B /\ next.addr + next.full * B + next.last = e
      ELSE asked # <<>> /\ asked[Len(asked)].addr + asked[Len(asked)].len = e
  <2>1. CASE req.full > 0
    <3>1. next.busy /\ next.addr = req.addr + B /\ next.full = req.full - 1 /\ next.last = req.last
      BY <2>1
    <3>2. PICK l \in Nat, k \in Nat, f \in Nat :
             l = Len(bs) * B /\ k = Len(asked) * B /\ k = l + B /\ f = req.full * B
      <4>1. PICK x \in Nat : x = Len(bs) /\ Len(asked) = x + 1
        BY <1>1, <1>4
      <4>2. x * B \in Nat /\ (x + 1) * B = x * B + B /\ req.full * B \in Nat
        BY <1>1, Multiples
      <4>3. \A y \in Nat : y + B \in Nat
        BY TxAssumption
      <4>4. QED
        BY <4>1, <4>2, <4>3
    <3>3. next.full * B = f - B
      BY <1>1, <2>1, <3>1, <3>2, Multiples
    <3>4. next.addr = b + k
      <4>1. next.addr = (b + l) + B
        BY <1>5, <3>1, <3>2
      <4>2. B \in Nat /\ k = l + B
        BY TxAssumption, <3>2
      <4>2a. (b + l) + B = b + k
        BY <4>2
      <4>3. QED
        BY <4>1, <4>2a
    <3>5. (req.addr + B) + (f - B) + req.last = e
      BY <1>1, <1>5, <3>2
    <3>6. QED
      BY <3>1, <3>2, <3>3, <3>4, <3>5
  <2>2. CASE req.full = 0
    <3>1. ~next.busy /\ len = req.last
      BY <1>1, <2>2
    <3>2. asked[Len(asked)] = new
      BY <1>4
    <3>3. req.addr + req.last = e
      <4>1. req.addr + 0 * B + req.last = e
        BY <1>5, <2>2
      <4>2. 0 * B = 0
        BY <1>1
      <4>3. QED
        BY <1>1, <4>1, <4>2
    <3>4. QED
      BY <1>2, <1>4, <3>1, <3>2, <3>3
  <2>3. QED
    BY <1>1, <2>1, <2>2
<1>9. Reads(asked, n, b, next, e)
  BY <1>6, <1>7, <1>8 DEF Reads
<1>10. QED
  BY <1>3, <1>4, <1>9 DEF asked, new

(* The last beat of a transfer is the last one of its only burst left.     *)
LEMMA LastBeat ==
  ASSUME NEW bs \in Seq(Bursts), NEW n \in Nat, NEW b \in Int, NEW e \in Int, NEW req \in Requests,
         Reads(bs, n, b, req, e), bs # <<>>, b + n = e
  PROVE  ~req.busy /\ Len(bs) = 1 /\ n = bs[1].len
<1>1. /\ B \in Nat /\ B > 0 /\ req.addr \in Nat /\ req.full \in Nat /\ req.last \in 0 .. B - 1
      /\ Len(bs) \in Nat /\ Len(bs) > 0
  BY TxAssumption, LenProperties, EmptySeq DEF Requests
<1>2. bs[1] \in Bursts /\ bs[Len(bs)] \in Bursts
  BY <1>1, ElementOfSeq
<1>3. bs[1].len \in 0 .. B - 1 /\ bs[Len(bs)].len \in 0 .. B - 1 /\ n <= bs[1].len
  BY <1>2 DEF Bursts, Reads
<1>4. ~req.busy
  <2> SUFFICES ASSUME req.busy PROVE FALSE
    OBVIOUS
  <2>1. req.addr = b + Len(bs) * B /\ req.addr + req.full * B + req.last = e
    BY DEF Reads
  <2>2. PICK l \in Nat, f \in Nat : l = Len(bs) * B /\ l >= B /\ f = req.full * B
    BY <1>1, Multiples
  <2>3. b + l + f + req.last = b + n
    BY <1>1, <2>1, <2>2
  <2>4. PICK x \in Nat : x = req.last
    BY <1>1
  <2>5. b + l + f + x = b + n /\ n <= B - 1
    BY <1>1, <1>3, <2>3, <2>4
  <2>6. B \in Nat
    BY <1>1
  <2>7. QED
    BY <2>2, <2>5, <2>6
<1>5. bs[Len(bs)].addr = b + (Len(bs) - 1) * B /\ bs[Len(bs)].addr + bs[Len(bs)].len = e
  BY <1>1, <1>4 DEF Reads
<1>6. PICK x \in Nat : x = Len(bs) - 1
  BY <1>1
<1>7. PICK l \in Nat : l = x * B /\ (x > 0 => l >= B)
  BY Multiples
<1>8. b + l + bs[Len(bs)].len = b + n
  BY <1>5, <1>6, <1>7
<1>9. x = 0
  <2>1. PICK y \in Nat : y = bs[Len(bs)].len
    BY <1>1, <1>3
  <2>2. b + l + y = b + n /\ n <= B - 1
    BY <1>1, <1>3, <1>8, <2>1
  <2>3. QED
    BY <1>1, <1>7, <2>2
<1>10. QED
  <2>1. Len(bs) = 1
    BY <1>1, <1>6, <1>9
  <2>2. 0 * B = 0
    BY <1>1
  <2>3. l = 0
    BY <1>7, <1>9, <2>2
  <2>4. n = bs[1].len
    BY <1>3, <1>8, <2>1, <2>3
  <2>5. QED
    BY <1>4, <2>1, <2>4

(* The last beat of another burst: the next burst is the one that follows. *)
LEMMA BurstConsumed ==
  ASSUME NEW bs \in Seq(Bursts), NEW n \in Nat, NEW b \in Int, NEW e \in Int, NEW req \in Requests,
         Reads(bs, n, b, req, e), bs # <<>>, b + n # e, n = bs[1].len
  PROVE  Tail(bs) \in Seq(Bursts) /\ Reads(Tail(bs), 0, b + n + 1, req, e)
<1>1. /\ B \in Nat /\ B > 0 /\ req.addr \in Nat /\ req.full \in Nat /\ req.last \in 0 .. B - 1
      /\ Len(bs) \in Nat /\ Len(bs) > 0
  BY TxAssumption, LenProperties, EmptySeq DEF Requests
<1> DEFINE rest == Tail(bs)
<1>2. /\ rest \in Seq(Bursts) /\ Len(rest) = Len(bs) - 1
      /\ \A i \in 1 .. Len(rest) : rest[i] = bs[i + 1]
  BY HeadTailProperties
<1> HIDE DEF rest
<1>3. /\ \A i \in 1 .. Len(bs) :
            /\ bs[i].addr = b + (i - 1) * B
            /\ i < Len(bs) \/ req.busy => bs[i].len = B - 1
      /\ IF req.busy
         THEN req.addr = b + Len(bs) * B /\ req.addr + req.full * B + req.last = e
         ELSE bs[Len(bs)].addr + bs[Len(bs)].len = e
  BY DEF Reads
<1>2a. bs[1].addr = b
  <2>1. 1 \in 1 .. Len(bs)
    BY <1>1
  <2>2. bs[1].addr = b + (1 - 1) * B
    BY <1>3, <2>1
  <2>3. b + (1 - 1) * B = b
    BY <1>1
  <2>4. QED
    BY <2>2, <2>3
<1>4. n = B - 1
  <2>1. CASE 1 < Len(bs) \/ req.busy
    <3>1. 1 \in 1 .. Len(bs)
      BY <1>1
    <3>2. QED
      BY <1>3, <2>1, <3>1
  <2>2. CASE Len(bs) = 1 /\ ~req.busy
    <3>1. bs[1].addr = b /\ bs[1].addr + bs[1].len = e
      BY <1>2a, <1>3, <2>2
    <3>2. QED
      BY <3>1
  <2>3. Len(bs) = 1 \/ 1 < Len(bs)
    <3>1. \A x \in Nat : x > 0 => x = 1 \/ 1 < x
      OBVIOUS
    <3>2. QED
      BY <1>1, <3>1
  <2>4. QED
    BY <2>1, <2>2, <2>3
<1>5. ASSUME NEW i \in 1 .. Len(rest)
      PROVE  /\ rest[i].addr = (b + n + 1) + (i - 1) * B
             /\ i < Len(rest) \/ req.busy => rest[i].len = B - 1
  <2>1. i + 1 \in 1 .. Len(bs) /\ i - 1 \in Nat /\ (i < Len(rest) => i + 1 < Len(bs))
    BY <1>1, <1>2
  <2>2. rest[i].addr = b + ((i + 1) - 1) * B
    <3>1. rest[i] = bs[i + 1]
      BY <1>2
    <3>2. bs[i + 1].addr = b + ((i + 1) - 1) * B
      BY <1>3, <2>1
    <3>3. QED
      BY <3>1, <3>2
  <2>3. PICK x \in Nat : x = i - 1 /\ (i + 1) - 1 = x + 1
    BY <2>1
  <2>4. PICK k \in Nat : k = x * B /\ (x + 1) * B = k + B
    BY Multiples
  <2>5. rest[i].addr = b + (k + B)
    BY <2>2, <2>3, <2>4
  <2>6. b + (k + B) = (b + n + 1) + k
    BY <1>1, <1>4
  <2>7. QED
    BY <1>2, <1>3, <2>1, <2>3, <2>4, <2>5, <2>6
<1>6. rest # <<>> => 0 <= rest[1].len
  <2> SUFFICES ASSUME rest # <<>> PROVE 0 <= rest[1].len
    OBVIOUS
  <2>1. 1 \in 1 .. Len(rest)
    BY <1>2, EmptySeq
  <2>2. rest[1] \in Bursts
    BY <1>2, <2>1, ElementOfSeq
  <2>3. QED
    BY <1>1, <2>2 DEF Bursts
<1>7. IF req.busy
      THEN req.addr = (b + n + 1) + Len(rest) * B /\ req.addr + req.full * B + req.last = e
      ELSE rest # <<>> /\ rest[Len(rest)].addr + rest[Len(rest)].len = e
  <2>1. CASE req.busy
    <3>1. PICK x \in Nat : x = Len(rest) /\ Len(bs) = x + 1
      <4>1. Len(rest) \in Nat
        BY <1>2
      <4>2. QED
        BY <1>2, <4>1
    <3>2. PICK k \in Nat : k = x * B /\ (x + 1) * B = k + B
      BY Multiples
    <3>3. req.addr = b + (k + B)
      BY <1>3, <2>1, <3>1, <3>2
    <3>4. b + (k + B) = (b + n + 1) + k
      BY <1>1, <1>4
    <3>5. QED
      BY <1>3, <2>1, <3>1, <3>2, <3>3, <3>4
  <2>2. CASE ~req.busy
    <3>1. bs[Len(bs)].addr + bs[Len(bs)].len = e
      BY <1>3, <2>2
    <3>2. Len(bs) # 1
      <4> SUFFICES ASSUME Len(bs) = 1 PROVE FALSE
        OBVIOUS
      <4>1. bs[1].addr = b /\ bs[1].addr + n = e
        BY <1>2a, <3>1
      <4>2. QED
        BY <4>1
    <3>3. Len(rest) \in 1 .. Len(rest) /\ Len(rest) + 1 = Len(bs)
      BY <1>1, <1>2, <3>2
    <3>4. rest # <<>> /\ rest[Len(rest)] = bs[Len(bs)]
      BY <1>2, <3>3
    <3>5. QED
      BY <2>2, <3>1, <3>4
  <2>3. QED
    BY <2>1, <2>2
<1>8. QED
  BY <1>2, <1>5, <1>6, <1>7 DEF Reads, rest

LEMMA ReadInvStep ==
  ASSUME IInv, NEW r, NEW v, NEW a, NEW p, Step(r, v, a, p)
  PROVE  /\ ReadInv'
         /\ bursts' \in Seq(Bursts) /\ rbeat' \in Nat /\ ar' \in Requests
<1>1. /\ Host /\ StartEdges /\ SwLock(r, v) /\ SwDoorbell(r, v) /\ SwEngine(r, v)
      /\ ReadRequests(a) /\ ReadMemory(r, v, a)
      /\ r \in BOOLEAN /\ v \in BOOLEAN
      /\ SRIO_CSR.sw \in BOOLEAN /\ SRIO_CSR'.sw \in BOOLEAN
  BY HostMoves DEF Step, Datapath, IInv, Typing
<1>2. /\ bursts \in Seq(Bursts) /\ rbeat \in Nat /\ ar \in Requests /\ sent \in Nat
      /\ sw_req \in BOOLEAN /\ sw_mode_q \in BOOLEAN /\ sw_db_req \in BOOLEAN
  BY DEF IInv, Typing, Requests
<1>3. /\ B \in Nat /\ B > 0 /\ regs.size \in Nat /\ regs.src \in Nat /\ regs.mode \in BOOLEAN
      /\ job.size \in Nat /\ job.src \in Nat
  BY TypingFacts DEF IInv
<1>4. /\ data_handshake(r, v) => engine = "DATA" /\ sw_req /\ ~sw_db_req /\ SRIO_CSR.sw /\ ~sw_start_en
      /\ sw_last_pack_done(r, v) => data_handshake(r, v)
      /\ sw_done => sw_db_req
  BY DEF data_handshake, sw_last_pack_done, sw_part_done, sw_done, IInv, ArbiterInv, StartInv
<1>5. sw_start_en' => ~SRIO_CSR.sw
  BY <1>1 DEF sw_start_en, StartEdges
<1>6. CASE sw_start_en
  <2>1. Quiet /\ ~data_handshake(r, v) /\ SRIO_CSR.sw /\ ~sw_req /\ ~sw_db_req
        /\ regs.size = job.size /\ regs.src = job.src
    BY <1>4, <1>6 DEF IInv, ReadInv, StartInv, sw_start_en
  <2>2. SRIO_CSR'.sw /\ job' = job /\ ~sw_db_req' /\ sent' = 0 /\ sw_mode_q' \in {sw_mode_q, regs.mode}
        /\ (sw_req' => sw_mode_q' = regs.mode)
    BY <1>1, <1>4, <1>6, <2>1, HostMoves DEF SwDoorbell, SwEngine, SwLock, IInv
  <2>3. CASE ~regs.mode
    <3>1. Quiet'
      BY <1>1, <2>1, <2>3, QuietStays
    <3>2. bursts' = bursts
      BY <2>1, <3>1 DEF Quiet
    <3>3. ar' \in Requests /\ rbeat' = 0
      <4>1. ~ar_handshake(a)
        BY <2>1 DEF Quiet, ar_handshake
      <4>2. ar' = [busy |-> ar.busy /\ ~ar_last_req_done(a), full |-> ar.full, last |-> ar.last,
                   addr |-> ar.addr]
        BY <1>1, <2>3, <4>1 DEF ReadRequests
      <4>3. QED
        BY <1>2, <3>1, <4>2 DEF Requests, Quiet
    <3>4. QED
      BY <1>2, <2>2, <2>3, <3>1, <3>2, <3>3 DEF ReadInv, Quiet
  <2>4. CASE regs.mode
    <3>1. ar' = [busy |-> TRUE, full |-> regs.size \div B, last |-> regs.size % B, addr |-> regs.src]
      BY <1>1, <1>6, <2>4 DEF ReadRequests
    <3>2. bursts' = <<>> /\ rbeat' = 0
      BY <1>1, <2>1 DEF ReadMemory, Quiet, ar_handshake
    <3>3. ar' \in Requests /\ ar'.busy /\ ar'.addr = job.src
          /\ job.size = ar'.full * B + ar'.last
      BY <1>3, <2>1, <3>1, Multiples DEF Requests
    <3>4. Reads(<<>>, 0, job.src, ar', job.src + job.size)
      <4>1. ar'.full * B \in Nat /\ ar'.last \in Nat /\ 0 * B = 0
        BY <1>3, <3>3, Multiples DEF Requests
      <4>2. job.src + ar'.full * B + ar'.last = job.src + job.size
        BY <1>3, <3>3, <4>1
      <4>3. job.src = job.src + 0 * B
        BY <1>3, <4>1
      <4>4. QED
        BY <3>3, <4>2, <4>3 DEF Reads
    <3>5. job'.src + sent' - rbeat' = job.src
      BY <1>3, <2>2, <3>2
    <3>6. ~sw_start_en'
      BY <1>5, <2>1
    <3>7. ReadInv'
      BY <2>2, <2>4, <3>2, <3>4, <3>5, <3>6 DEF ReadInv
    <3>8. QED
      BY <3>2, <3>3, <3>7, EmptySeq
  <2>5. QED
    BY <1>3, <2>3, <2>4
<1> DEFINE asks == ar_handshake(a)
           len == axi_arlen
           new == [addr |-> ar.addr, len |-> len]
           asked == IF asks THEN Append(bursts, new) ELSE bursts
           takes == sw_mode_q /\ data_handshake(r, v)
<1>7. ASSUME ~sw_start_en
      PROVE  /\ asked \in Seq(Bursts) /\ ar' \in Requests
             /\ asked = <<>> => bursts = <<>>
             /\ bursts # <<>> => Head(asked) = Head(bursts) /\ asked[1] = bursts[1]
             /\ ar' = IF asks THEN IF ar.full > 0
                          THEN [busy |-> TRUE, full |-> ar.full - 1, last |-> ar.last, addr |-> ar.addr + B]
                          ELSE [busy |-> FALSE, full |-> 0, last |-> ar.last, addr |-> ar.addr]
                      ELSE ar
  <2>1. ar' = [busy |-> ar.busy /\ ~ar_last_req_done(a),
               full |-> IF ar.full > 0 /\ asks THEN ar.full - 1 ELSE ar.full,
               last |-> ar.last,
               addr |-> IF asks /\ ~ar_last_req_done(a) THEN ar.addr + B ELSE ar.addr]
    BY <1>1, <1>7 DEF ReadRequests
  <2>2. /\ ar.busy \in BOOLEAN /\ ar.full \in Nat /\ ar.last \in 0 .. B - 1 /\ ar.addr \in Nat
        /\ ar = [busy |-> ar.busy, full |-> ar.full, last |-> ar.last, addr |-> ar.addr]
    BY <1>2 DEF Requests
  <2>3. asks => ar.busy /\ (ar_last_req_done(a) <=> ar.full = 0)
    BY DEF ar_handshake, ar_last_req_done
  <2>4. ~asks => ~ar_last_req_done(a)
    BY DEF ar_last_req_done
  <2> HIDE DEF asks
  <2>5. ar' = IF asks THEN IF ar.full > 0
                 THEN [busy |-> TRUE, full |-> ar.full - 1, last |-> ar.last, addr |-> ar.addr + B]
                 ELSE [busy |-> FALSE, full |-> 0, last |-> ar.last, addr |-> ar.addr]
              ELSE ar
    <3>1. CASE asks /\ ar.full > 0
      <4>1. ar.busy /\ ~ar_last_req_done(a)
        BY <2>2, <2>3, <3>1
      <4>2. QED
        BY <2>1, <3>1, <4>1
    <3>2. CASE asks /\ ar.full = 0
      <4>1. ar_last_req_done(a) /\ ~(ar.full > 0)
        BY <2>2, <2>3, <3>2
      <4>2. QED
        BY <2>1, <3>2, <4>1
    <3>3. CASE ~asks
      BY <2>1, <2>2, <2>4, <3>3
    <3>4. QED
      BY <2>2, <3>1, <3>2, <3>3
  <2>6. ar' \in Requests
    <3>1. ar.full > 0 => ar.full - 1 \in Nat
      BY <2>2
    <3>2. ar.addr + B \in Nat
      BY <1>3, <2>2
    <3>3. QED
      BY <1>2, <2>2, <2>5, <3>1, <3>2 DEF Requests
  <2>7. new \in Bursts
    <3>1. len \in 0 .. B - 1
      BY <1>3, <2>2 DEF axi_arlen
    <3>2. QED
      BY <2>2, <3>1 DEF Bursts
  <2> HIDE DEF new
  <2>8. /\ asked \in Seq(Bursts)
        /\ asked = <<>> => bursts = <<>>
        /\ bursts # <<>> => asked[1] = bursts[1] /\ asked # <<>>
    <3>1. CASE ~asks
      BY <1>2, <3>1
    <3>2. CASE asks
      <4>1. /\ asked \in Seq(Bursts) /\ Len(asked) = Len(bursts) + 1 /\ Len(bursts) \in Nat
            /\ \A i \in 1 .. Len(bursts) : asked[i] = bursts[i]
        BY <1>2, <2>7, <3>2, AppendProperties, LenProperties
      <4>2. asked # <<>>
        BY <4>1, EmptySeq
      <4>3. bursts # <<>> => 1 \in 1 .. Len(bursts)
        BY <1>2, <4>1, EmptySeq
      <4>4. QED
        BY <4>1, <4>2, <4>3
    <3>3. QED
      BY <3>1, <3>2
  <2>9. bursts # <<>> => Head(asked) = asked[1] /\ Head(bursts) = bursts[1]
    BY <1>2, <2>8
  <2>10. QED
    BY <2>5, <2>6, <2>8, <2>9
<1>8. CASE ~sw_start_en /\ ~(sw_req /\ sw_mode_q)
  <2>1. ~takes
    BY <1>4, <1>8
  <2>2. bursts' = asked /\ rbeat' = rbeat
    BY <1>1, <2>1 DEF ReadMemory
  <2>3. Quiet => Quiet'
    BY <1>1, <1>8, <2>1, QuietStays
  <2>4. /\ sw_req' => sw_req /\ ~sw_mode_q /\ ~sw_mode_q'
        /\ sw_db_req' => sw_db_req \/ (sw_req /\ ~sw_mode_q)
    BY <1>1, <1>4, <1>8 DEF SwLock, SwDoorbell
  <2>5. ~SRIO_CSR'.sw => ~SRIO_CSR.sw \/ sw_db_req
    BY <1>1, <1>4, HostMoves DEF IInv
  <2>6. ~SRIO_CSR'.sw \/ sw_start_en' \/ sw_db_req' => Quiet'
    BY <1>5, <2>3, <2>4, <2>5 DEF IInv, ReadInv
  <2>7. sw_req' => Quiet' /\ ~sw_mode_q'
    BY <2>3, <2>4 DEF IInv, ReadInv
  <2>8. bursts' = <<>> => rbeat' = 0
    BY <1>7, <1>8, <2>2 DEF IInv, ReadInv
  <2>9. ReadInv'
    BY <2>6, <2>7, <2>8 DEF ReadInv
  <2>10. QED
    BY <1>2, <1>7, <1>8, <2>2, <2>9
<1>9. CASE ~sw_start_en /\ sw_req /\ sw_mode_q
  <2> DEFINE b == job.src + sent - rbeat
             e == job.src + job.size
  <2>1. SRIO_CSR.sw /\ ~sw_db_req /\ Reads(bursts, rbeat, b, ar, e) /\ (bursts = <<>> => rbeat = 0)
    BY <1>9 DEF IInv, StartInv, ReadInv
  <2>2. SRIO_CSR'.sw /\ ~sw_start_en' /\ job' = job /\ sw_mode_q' = sw_mode_q
    BY <1>1, <1>4, <1>5, <1>9, <2>1, HostMoves DEF IInv, SwLock
  <2>3. /\ sw_req' <=> ~sw_last_pack_done(r, v)
        /\ sw_db_req' <=> sw_last_pack_done(r, v)
    BY <1>1, <1>9, <2>1 DEF SwLock, SwDoorbell
  <2>4. b \in Int /\ e \in Int
    BY <1>2, <1>3
  <2>5. Reads(asked, rbeat, b, ar', e)
    <3>1. CASE ~asks
      BY <1>7, <1>9, <2>1, <3>1
    <3>2. CASE asks
      <4>1. ar.busy
        BY <3>2 DEF ar_handshake
      <4> HIDE DEF b, e
      <4>2. len = IF ar.full > 0 THEN B - 1 ELSE ar.last
        BY DEF axi_arlen
      <4>3. ar' = IF ar.full > 0
                  THEN [busy |-> TRUE, full |-> ar.full - 1, last |-> ar.last, addr |-> ar.addr + B]
                  ELSE [busy |-> FALSE, full |-> 0, last |-> ar.last, addr |-> ar.addr]
        BY <1>7, <1>9, <3>2
      <4> HIDE DEF len
      <4>4. Reads(Append(bursts, new), rbeat, b, ar', e)
        BY <1>2, <2>1, <2>4, <4>1, <4>2, <4>3, BurstAsked
      <4>5. QED
        BY <3>2, <4>4
    <3>3. QED
      BY <3>1, <3>2
  <2>6. asked \in Seq(Bursts) /\ ar' \in Requests /\ (asked = <<>> => bursts = <<>>)
    BY <1>7, <1>9
  <2>7. CASE ~data_handshake(r, v)
    <3>1. bursts' = asked /\ rbeat' = rbeat /\ sent' = sent /\ sw_req' /\ ~sw_db_req'
      BY <1>1, <1>4, <1>9, <2>3, <2>7 DEF ReadMemory, SwEngine
    <3>2. ReadInv'
      BY <1>9, <2>1, <2>2, <2>5, <2>6, <3>1 DEF ReadInv
    <3>3. QED
      BY <1>2, <2>6, <3>1, <3>2
  <2>8. CASE data_handshake(r, v)
    <3>1. bursts # <<>> /\ sent' = sent + 1 /\ takes
      BY <1>1, <1>9, <2>8 DEF data_handshake, sw_handshake, ireq_tvalid_sw, data_tvalid, SwEngine
    <3>2. Head(bursts) = Head(asked) /\ Head(asked) = asked[1] /\ asked # <<>>
      <4>1. /\ Head(asked) = Head(bursts) /\ asked[1] = bursts[1] /\ asked # <<>>
        BY <1>7, <1>9, <2>6, <3>1
      <4>2. Head(bursts) = bursts[1]
        BY <1>2, <3>1
      <4>3. QED
        BY <4>1, <4>2
    <3>3. IF rbeat = asked[1].len THEN bursts' = Tail(asked) /\ rbeat' = 0
                                  ELSE bursts' = asked /\ rbeat' = rbeat + 1
      BY <1>1, <3>1, <3>2 DEF ReadMemory
    <3>4. b + rbeat = job.src + sent /\ (b + rbeat = e <=> sent = job.size)
      BY <1>2, <1>3
    <3>5. sw_last_pack_done(r, v) <=> sent = job.size
      BY <1>1, <1>9, <2>8, LastPack
    <3> HIDE DEF b, e, asked
    <3>6. CASE sent = job.size
      <4>1. ~ar'.busy /\ Len(asked) = 1 /\ rbeat = asked[1].len
        BY <1>2, <2>4, <2>5, <2>6, <3>2, <3>4, <3>6, LastBeat
      <4>2. Tail(asked) \in Seq(Bursts) /\ Len(Tail(asked)) = 0
        BY <2>6, <3>2, <4>1, HeadTailProperties
      <4>3. Tail(asked) = <<>>
        BY <4>2, EmptySeq
      <4>4. Quiet' /\ bursts' = <<>> /\ rbeat' = 0
        BY <3>3, <4>1, <4>3 DEF Quiet
      <4>5. QED
        BY <2>3, <2>6, <3>5, <3>6, <4>4, EmptySeq DEF ReadInv
    <3>7. CASE sent # job.size
      <4>1. sw_req' /\ ~sw_db_req'
        BY <2>3, <3>5, <3>7
      <4>2. CASE rbeat = asked[1].len
        <5>1. Tail(asked) \in Seq(Bursts) /\ Reads(Tail(asked), 0, b + rbeat + 1, ar', e)
          BY <1>2, <2>4, <2>5, <2>6, <3>2, <3>4, <3>7, <4>2, BurstConsumed
        <5>2. bursts' = Tail(asked) /\ rbeat' = 0
          BY <3>3, <4>2
        <5>3. b + rbeat + 1 = job'.src + sent' - rbeat'
          <6>1. job'.src + sent' - rbeat' = job.src + (sent + 1) - 0
            BY <2>2, <3>1, <5>2
          <6>2. b + rbeat + 1 = job.src + (sent + 1) - 0
            BY <1>2, <1>3, <3>4
          <6>3. QED
            BY <6>1, <6>2
        <5>4. e = job'.src + job'.size
          BY <2>2 DEF e
        <5>5. Reads(bursts', rbeat', job'.src + sent' - rbeat', ar', job'.src + job'.size)
          BY <5>1, <5>2, <5>3, <5>4
        <5>6. ReadInv'
          BY <1>9, <2>2, <4>1, <5>2, <5>5 DEF ReadInv
        <5>7. QED
          BY <2>6, <5>1, <5>2, <5>6
      <4>3. CASE rbeat # asked[1].len
        <5>1. bursts' = asked /\ rbeat' = rbeat + 1
          BY <3>3, <4>3
        <5>2. b = job'.src + sent' - rbeat'
          <6>1. b = job.src + (sent + 1) - (rbeat + 1)
            BY <1>2, <1>3 DEF b
          <6>2. QED
            BY <2>2, <3>1, <5>1, <6>1
        <5>3. e = job'.src + job'.size
          BY <2>2 DEF e
        <5>4. rbeat + 1 <= asked[1].len
          <6>1. rbeat <= asked[1].len
            BY <2>5, <3>2 DEF Reads
          <6>2. asked[1] \in Bursts
            BY <2>6, <3>2, HeadTailProperties
          <6>3. asked[1].len \in Nat
            BY <1>3, <6>2 DEF Bursts
          <6>4. QED
            BY <1>2, <4>3, <6>1, <6>3
        <5>5. Reads(asked, rbeat + 1, b, ar', e)
          BY <2>5, <5>4 DEF Reads
        <5>6. ReadInv'
          BY <1>9, <2>2, <3>2, <4>1, <5>1, <5>2, <5>3, <5>5 DEF ReadInv
        <5>7. QED
          BY <1>2, <2>6, <5>1, <5>6
      <4>4. QED
        BY <4>2, <4>3
    <3>8. QED
      BY <3>6, <3>7
  <2>9. QED
    BY <2>7, <2>8
<1>10. QED
  BY <1>2, <1>6, <1>8, <1>9

LEMMA TypingStep ==
  ASSUME IInv, NEW r, NEW v, NEW a, NEW p, Step(r, v, a, p)
  PROVE  Typing'
<1> USE DEF IInv, Typing
<1>1. /\ Host /\ StartEdges /\ Arbiter(r, v) /\ NormalDoorbell /\ SwLock(r, v) /\ SwDoorbell(r, v)
      /\ DbEngine(r, p) /\ SwEngine(r, v)
      /\ r \in BOOLEAN /\ v \in BOOLEAN /\ p \in BOOLEAN
  BY DEF Step, Datapath
<1>2. /\ values' = values /\ lost' \subseteq {"db", "sw"}
      /\ SRIO_CSR' \in [db : BOOLEAN, sw : BOOLEAN, err : SUBSET {16, 17, 20, 21}]
      /\ regs' \in [size : values.size, dst : values.dst, src : values.src,
                    infoSw : values.info, infoDb : values.info, mode : BOOLEAN]
      /\ normal' \in values.info
  BY <1>1, HostMoves
<1>3. job' \in Jobs'
  BY <1>1, HostMoves DEF Jobs
<1>4. db_start_q' \in BOOLEAN /\ sw_start_q' \in BOOLEAN /\ sw_err' \subseteq {20, 21}
  BY <1>1 DEF StartEdges
<1>5. cstate' \in {"IDLE", "SWDB", "NORMALDB", "SW"}
  BY <1>1 DEF Arbiter, nstate
<1>6. db_part_start' \in BOOLEAN /\ sw_part_start' \in BOOLEAN
  BY <1>1 DEF Arbiter
<1>7. /\ regs.infoDb \in values.info /\ regs.infoSw \in values.info /\ regs.mode \in BOOLEAN
      /\ db_info_normal_q \in values.info /\ db_info_sw_q \in values.info
      /\ sw_req \in BOOLEAN /\ sw_db_req \in BOOLEAN /\ sw_mode_q \in BOOLEAN /\ normal_db_req \in BOOLEAN
  OBVIOUS
<1>8. normal_db_req' \in BOOLEAN /\ db_info_normal_q' \in values.info
  BY <1>1, <1>7 DEF NormalDoorbell
<1>9. sw_req' \in BOOLEAN /\ sw_mode_q' \in BOOLEAN /\ db_info_sw_q' \in values.info
  BY <1>1, <1>7 DEF SwLock
<1>10. sw_db_req' \in BOOLEAN
  BY <1>1 DEF SwDoorbell
<1>11. /\ db_ireq' \in values.info \cup {NoDoorbell} /\ iresp_tready' \in BOOLEAN
       /\ iresp' \in {"none", "owed", "valid"}
  BY <1>1, <1>7 DEF DbEngine
<1>12. engine' \in {"IDLE", "HEAD", "DATA"}
  BY <1>1 DEF SwEngine
<1>14. /\ sw_full_pack_cnt' \in Nat /\ sw_part_addr' \in Nat /\ sent' \in Nat
       /\ sw_last_pack_size' \in 0 .. B - 1 /\ beat_cnt' \in 0 .. B - 1
       /\ total_beat_cnt' \in 0 .. B - 1
  BY PacketInvStep
<1>15. /\ bursts' \in Seq(Bursts) /\ rbeat' \in Nat
       /\ ar' \in [busy : BOOLEAN, full : Nat, last : 0 .. B - 1, addr : Nat]
  BY ReadInvStep DEF Requests
<1>16. QED
  BY <1>2, <1>3, <1>4, <1>5, <1>6, <1>8, <1>9, <1>10, <1>11, <1>12, <1>14, <1>15

LEMMA StutterStep ==
  ASSUME IInv, UNCHANGED vars
  PROVE  IInv'
<1> USE DEF IInv, vars, host, arbiter, requests, packets, engines, axi
<1>1. Typing'
  BY DEF Typing, Jobs
<1>2. StartInv'
  BY DEF StartInv, BusyMeansWork, db_start_en, sw_start_en, aligned
<1>3. ArbiterInv'
  BY DEF ArbiterInv
<1>4. PacketInv'
  BY DEF PacketInv, sw_part_size
<1>5. ReadInv'
  BY DEF ReadInv, Reads, Quiet, sw_start_en
<1>6. QED
  BY <1>1, <1>2, <1>3, <1>4, <1>5

(* What the arbiter, the packetiser, the read requests and the two engines *)
(* rely on of each other holds after every cycle (srio_tx_manager.v,       *)
(* sw_tx_engine.v, db_tx_engine.v, srio_pcie_bridge.v:411-489).            *)
THEOREM Invariant == Spec => []IInv
<1>1. IInv /\ [Next]_vars => IInv'
  <2>1. ASSUME IInv, Next PROVE IInv'
    <3>1. PICK r \in BOOLEAN, v \in BOOLEAN, a \in BOOLEAN, p \in BOOLEAN : Step(r, v, a, p)
      BY <2>1, NextIsStep
    <3>2. QED
      BY <2>1, <3>1, TypingStep, StartInvStep, ArbiterInvStep, PacketInvStep, ReadInvStep DEF IInv
  <2>2. QED
    BY <2>1, StutterStep
<1>2. QED
  BY <1>1, InitIInv, PTL DEF Spec

(* Every register keeps a value of its kind: no packet or burst counter    *)
(* goes below zero, no packet and no burst has more than B beats.          *)
THEOREM TypeCorrect == Spec => []TypeOK
<1>1. ASSUME IInv PROVE TypeOK
  <2> USE <1>1 DEF IInv, Typing
  <2>1. {db_start_q, sw_start_q, normal_db_req, db_part_start, sw_req, sw_mode_q,
         sw_db_req, sw_part_start, iresp_tready} \subseteq BOOLEAN
    OBVIOUS
  <2>2. {db_info_normal_q, db_info_sw_q, normal} \subseteq values.info
    OBVIOUS
  <2>3. {sw_full_pack_cnt, sw_part_addr, sent, rbeat} \subseteq Nat
    OBVIOUS
  <2>4. {sw_last_pack_size, beat_cnt, total_beat_cnt} \subseteq 0 .. B - 1
    OBVIOUS
  <2>5. QED
    BY <2>1, <2>2, <2>3, <2>4 DEF TypeOK, Bursts
<1>2. QED
  BY <1>1, Invariant, PTL

(* For packets of any size: whatever hosts write meanwhile, the beat about *)
(* to be sent lands in the double word after the last one sent, in packets *)
(* that never cross a multiple of B, while the doorbell engine is silent.  *)
THEOREM PacketsKeepOrder == Spec => []PacketsInOrder
<1>1. ASSUME IInv PROVE PacketsInOrder
  <2> SUFFICES ASSUME engine # "IDLE"
               PROVE  /\ db_ireq = NoDoorbell
                      /\ sw_part_addr + beat_cnt = job.dst + sent
                      /\ sw_part_addr % B = 0
                      /\ sent <= job.size
    BY DEF PacketsInOrder
  <2>1. cstate = "SW" /\ sw_req /\ db_ireq = NoDoorbell
    BY <1>1 DEF IInv, ArbiterInv
  <2>2. /\ sw_part_addr + beat_cnt = job.dst + sent
        /\ sw_part_addr % B = 0
        /\ sent - beat_cnt + sw_full_pack_cnt * B + sw_last_pack_size = job.size
        /\ beat_cnt <= sw_part_size
    BY <1>1, <2>1 DEF IInv, PacketInv
  <2>3. /\ beat_cnt \in Nat /\ sent \in Nat /\ job.size \in Nat
        /\ sw_full_pack_cnt \in Nat /\ sw_last_pack_size \in Nat
        /\ B \in Nat /\ B > 0
    BY <1>1, TypingFacts DEF IInv, Typing
  <2>4. PICK f \in Nat : f = sw_full_pack_cnt * B /\ (sw_full_pack_cnt > 0 => f >= B)
    BY <2>3, Multiples
  <2>5. beat_cnt <= f + sw_last_pack_size
    BY <2>2, <2>3, <2>4 DEF sw_part_size
  <2>6. sent - beat_cnt + f + sw_last_pack_size = job.size
    BY <2>2, <2>4
  <2>7. sent <= job.size
    BY <2>3, <2>5, <2>6
  <2>8. QED
    BY <2>1, <2>2, <2>7
<1>2. QED
  BY <1>1, Invariant, PTL

(* A transfer's doorbell is raised only when every double word of it has   *)
(* been accepted, and a doorbell on the stream has the value its register  *)
(* half held when its start bit was written.                               *)
THEOREM DoorbellsKept == Spec => []DoorbellsRight
<1>1. IInv => DoorbellsRight
  BY DEF IInv, PacketInv, ArbiterInv, DoorbellsRight
<1>2. QED
  BY <1>1, Invariant, PTL

(* The data comes from the source chosen at the start; the beats read are  *)
(* the transfer's own, in order, and none is left when it ends.            *)
THEOREM ReadsKeepJob == Spec => []ReadsMatchJob
<1>1. ASSUME IInv PROVE ReadsMatchJob
  <2>1. sw_req => sw_mode_q = job.mode
    BY <1>1 DEF IInv, StartInv
  <2>2. sw_db_req => bursts = <<>> /\ ~ar.busy
    BY <1>1 DEF IInv, ReadInv, Quiet
  <2>3. ASSUME engine = "DATA", sw_mode_q, bursts # <<>>
        PROVE  Head(bursts).addr + rbeat = job.src + sent
    <3>1. sw_req
      BY <1>1, <2>3 DEF IInv, ArbiterInv
    <3>2. Reads(bursts, rbeat, job.src + sent - rbeat, ar, job.src + job.size)
      BY <1>1, <2>3, <3>1 DEF IInv, ReadInv
    <3>3. bursts \in Seq(Bursts) /\ rbeat \in Nat /\ sent \in Nat /\ job.src \in Nat
          /\ B \in Nat
      BY <1>1, TypingFacts DEF IInv, Typing
    <3>4. 1 \in 1 .. Len(bursts) /\ Head(bursts) = bursts[1]
      BY <2>3, <3>3, EmptySeq
    <3>5. bursts[1].addr = (job.src + sent - rbeat) + (1 - 1) * B
      BY <3>2, <3>4 DEF Reads
    <3>6. ((job.src + sent - rbeat) + (1 - 1) * B) + rbeat = job.src + sent
      BY <3>3
    <3>7. QED
      BY <3>4, <3>5, <3>6
  <2>4. QED
    BY <2>1, <2>2, <2>3 DEF ReadsMatchJob
<1>2. QED
  BY <1>1, Invariant, PTL

(* A busy bit is set only while its operation is pending, unless a write   *)
(* hid the pulse that clears it or the transfer was refused.               *)
THEOREM BusyHasReason == Spec => []BusyMeansWork
<1>1. IInv => BusyMeansWork
  BY DEF IInv, StartInv
<1>2. QED
  BY <1>1, Invariant, PTL
=================================================================================
