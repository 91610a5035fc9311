------------------------------- MODULE HogTrans -------------------------------
(***************************************************************************)
(* The data movement of the FHOG accelerator in the FPGA                   *)
(* (Logic/ip_repo/hog_mdl_only_axi_lite): hog_trans.v, which reads the     *)
(* block of the image over AXI into four banks and writes the features     *)
(* back from the same banks; the scaler IMG.v, which takes its pixels from *)
(* the banks while the block still arrives; read_result_feature.v, which   *)
(* puts the words of a write beat together; the layout in which            *)
(* write_bin0_31_feature.v leaves the features; and the start register of  *)
(* hog_ctrl.v as CHwFhogManager::startHwFhog uses it.                      *)
(*                                                                         *)
(* One step is one rising edge of aclk.  The byte of the image at an       *)
(* address is represented by the address, the feature of a bin of a cell   *)
(* by its place in the feature map.  The histograms and the normalisation  *)
(* between the scaler and the features are left out: they take some time.  *)
(* The sizes of the code (beats of 64 bytes, pages of 64 beats, 31 bins of *)
(* 64 beats of 4 reads, 136 rows of 136 pixels) are constants.             *)
(***************************************************************************)
EXTENDS Integers, Sequences, FiniteSetsExt

CONSTANTS BEAT,         \* bytes in a beat (64)
          BURST,        \* beats in a full burst, and in a page (64)
          Blocks,       \* records of the registers FHOG_SIZE (x rows of y
                        \* pixels), ABS_ADDR and STRIDE
          OUT,          \* rows and columns of the scaled block (136)
          FLUSH,        \* cycles from its last pixel to `finish' (9)
          READS,        \* reads of the four banks in a beat of the result (4)
          STARTS,       \* beats in a bin (64)
          BinA, BinB, BinC      \* the last bins of the three classes (17, 26, 30)

PAGE == BEAT * BURST

ASSUME HogAssumption ==
    /\ {BEAT, BURST, FLUSH, STARTS} \subseteq Nat \ {0}
    /\ {OUT, READS} \subseteq Nat \ {0, 1}
    /\ BinA \in Nat /\ BinB \in Nat /\ BinC \in Nat /\ BinA < BinB /\ BinB < BinC
    /\ ((BinC + 1) * STARTS) % BURST = 0

\* The blocks of the trackers: in a resized image of 136 or 144 pixels a row, from
\* its first pixel or from (4, 4) or (7, 7).  The module relies on two things they
\* have in common: an even number of columns (IMG.v takes every row to begin in the
\* even bank of its pair, R goes on with the other bank after an odd row), and a
\* first row that does not begin after 0 and cross a page (ArRowEnd).
ASSUME BlockAssumption ==
    \A b \in Blocks :
        /\ b.x \in Nat \ {0, 1} /\ b.y \in Nat \ {0} /\ b.addr \in Nat
        /\ b.stride \in Nat /\ b.y <= b.stride
        /\ b.y % 2 = 0
        /\ b.addr = 0 \/ (b.addr % PAGE) + b.y <= PAGE

VARIABLES
    hog,        \* hog_ctrl: the start register and its edge, the done pulses;
                \* whether a register was written at the last edge
    blk,        \* img0x, img0y, absolute_addr, cross_row_offset
    ar, r,      \* the read channels of hog_trans
    wea,        \* the bytes r writes at this edge: initial_wea, initial_dina
    banks,      \* what was written to each bank, in the order of its addresses
    bursts, rbeat,      \* the memory's read bursts; beats returned of the first
    img,        \* the scaler
    hog_ready, feature,         \* the histograms
    aw, w,      \* the write channels
    rd,         \* read_result_feature
    asked, written      \* history: bursts and beats of the result accepted

vars == <<hog, blk, ar, r, wea, banks, bursts, rbeat, img, hog_ready, feature,
          aw, w, rd, asked, written>>

ArIdle == [state |-> "IDLE", valid |-> FALSE, addr |-> 0, len |-> 0, row_count |-> 0,
           col_remain |-> 0, fst_addr |-> 0, done |-> FALSE]
RIdle == [state |-> "IDLE", ready |-> FALSE, row_count |-> 0, flag |-> <<0, 0>>,
          byte_en |-> 0, byte_count |-> 0, col_remain |-> 0, fst_addr |-> 0,
          done |-> FALSE, data |-> 0]
ImgAwait == [state |-> "await", row |-> 0, column |-> -1, sig |-> 0, delay |-> 0,
             finish |-> FALSE]
AwIdle == [state |-> "IDLE", valid |-> FALSE, addr |-> 0, count |-> 0, done |-> FALSE]
WIdle == [state |-> "IDLE", valid |-> FALSE, last |-> FALSE, data_count |-> 0,
          burst_count |-> 0, done |-> FALSE]

Init ==
    /\ hog = [start |-> FALSE, start_q |-> FALSE, wr_done_q |-> FALSE, done |-> FALSE,
              wrote |-> FALSE]
    /\ blk \in Blocks
    /\ ar = ArIdle /\ r = RIdle
    /\ wea = [b \in 0 .. 3 |-> <<>>] /\ banks = [b \in 0 .. 3 |-> <<>>]
    /\ bursts = <<>> /\ rbeat = 0
    /\ img = ImgAwait /\ hog_ready = FALSE /\ feature = "none"
    /\ aw = AwIdle /\ w = WIdle
    /\ rd = [addrb |-> 0, bin |-> 0, start |-> 0, data |-> 0, doutb |-> -1,
             stitch |-> "IDLE", res |-> <<>>, valid |-> FALSE]
    /\ asked = 0 /\ written = 0

-----------------------------------------------------------------------------
(* Wires.                                                                  *)

hog_start == hog.start /\ ~hog.start_q          \* hog_start_irq, rd_wr_irq[0]
write_feature_done == feature = "done"          \* rd_wr_irq[1]

wr_burst_time == ((BinC + 1) * STARTS) \div BURST      \* RESULT_SIZE >> 12
rd_done == ar.done /\ r.done
wr_done == aw.done /\ w.done

ar_handshake(arready) == ar.valid /\ arready
r_handshake(rvalid) == r.ready /\ rvalid
aw_handshake(awready) == aw.valid /\ awready
w_handshake(wready) == w.valid /\ wready

-----------------------------------------------------------------------------
(* hog_ctrl.v.  The done bit is two cycles wide and the register interface *)
(* never writes in two cycles that follow one another, so that a write     *)
(* of another register cannot hide it.                                     *)

\* Mutant: the done bit is one cycle wide.
doneOnce == wr_done

wr1_done == wr_done \/ hog.wr_done_q

Control(start, write) ==
    hog' = [start |-> IF start THEN TRUE
                      ELSE hog.start /\ ~(hog.done /\ ~write),
            start_q |-> hog.start,
            wr_done_q |-> wr_done,
            done |-> wr1_done,
            wrote |-> start \/ write]

-----------------------------------------------------------------------------
(* AR: the requests.  A row that ends in the page it begins in is one      *)
(* burst; another has one to the end of the page (HEAD), whole pages (QWN) *)
(* and one for what remains (COL_END).                                     *)

beats(n) == (n + BEAT - 1) \div BEAT - 1        \* arlen for n bytes from the first lane

leavesPage(addr) == (addr % PAGE) + blk.y > PAGE

ArAfterRow(addr) == IF leavesPage(addr) THEN "HEAD" ELSE "COL_END"

ar_nstate(arready) ==
    LET went == ar_handshake(arready)
    IN  CASE ar.state = "IDLE" -> IF hog_start THEN ArAfterRow(blk.addr) ELSE "IDLE"
          [] ar.state = "DONE" -> IF r.done THEN "IDLE" ELSE "DONE"
          [] ar.state \notin {"IDLE", "DONE"} /\ ~went -> "WAIT"
          [] ar.state \notin {"IDLE", "DONE"} /\ went ->
               CASE ar.row_count = blk.x -> "DONE"
                 [] ar.row_count # blk.x /\ ar.col_remain > PAGE -> "QWN"
                 [] ar.row_count # blk.x /\ ar.col_remain \in 1 .. PAGE -> "COL_END"
                 [] ar.row_count # blk.x /\ ar.col_remain = 0 -> ArAfterRow(ar.fst_addr)

rowStart == IF hog_start THEN blk.addr ELSE ar.fst_addr
nextPage == (ar.addr \div PAGE + 1) * PAGE

ArHead ==
    [ar EXCEPT !.state = "HEAD", !.valid = TRUE, !.addr = rowStart,
               !.len = beats(PAGE - (rowStart % PAGE) + (rowStart % BEAT)),
               !.col_remain = blk.y + (rowStart % PAGE) - PAGE]

ArWholePage ==
    [ar EXCEPT !.state = "QWN", !.valid = TRUE, !.addr = nextPage, !.len = BURST - 1,
               !.col_remain = @ - PAGE]

\* Mutant: a row that fills its last beat asks for one more.
ArRowEndLong ==
    [ar EXCEPT !.state = "COL_END", !.valid = TRUE, !.row_count = @ + 1, !.col_remain = 0,
               !.addr = IF ar.col_remain = 0 THEN rowStart ELSE nextPage,
               !.len = IF ar.col_remain = 0 THEN ((rowStart % BEAT) + blk.y) \div BEAT
                       ELSE ar.col_remain \div BEAT,
               !.fst_addr = (IF ar.col_remain = 0 THEN rowStart ELSE @) + blk.stride]

\* The last burst of a row.  fst_addr is the start of the next row only when
\* the first row was one burst: after a HEAD it is still zero here.
ArRowEnd ==
    [ar EXCEPT !.state = "COL_END", !.valid = TRUE, !.row_count = @ + 1, !.col_remain = 0,
               !.addr = IF ar.col_remain = 0 THEN rowStart ELSE nextPage,
               !.len = IF ar.col_remain = 0 THEN beats((rowStart % BEAT) + blk.y)
                       ELSE beats(ar.col_remain),
               !.fst_addr = (IF ar.col_remain = 0 THEN rowStart ELSE @) + blk.stride]

ReadRequests(arready) ==
    ar' = CASE ar_nstate(arready) = "IDLE"    -> ArIdle
            [] ar_nstate(arready) = "HEAD"    -> ArHead
            [] ar_nstate(arready) = "QWN"     -> ArWholePage
            [] ar_nstate(arready) = "COL_END" -> ArRowEnd
            [] ar_nstate(arready) = "WAIT"    -> [ar EXCEPT !.state = "WAIT"]
            [] ar_nstate(arready) = "DONE"    ->
                 [ar EXCEPT !.state = "DONE", !.valid = FALSE, !.done = TRUE]

(* The memory: accepts bursts and returns their beats in order.  beat is   *)
(* the first byte of the beat offered.                                     *)
beat == (Head(bursts).addr \div BEAT + rbeat) * BEAT

ReadMemory(arready, rvalid) ==
    LET all == IF ar_handshake(arready)
               THEN Append(bursts, [addr |-> ar.addr, len |-> ar.len]) ELSE bursts
    IN  IF r_handshake(rvalid) /\ rbeat = Head(bursts).len
        THEN bursts' = Tail(all) /\ rbeat' = 0
        ELSE bursts' = all /\ rbeat' = IF r_handshake(rvalid) THEN rbeat + 1 ELSE rbeat

-----------------------------------------------------------------------------
(* R: the beats, written two bytes a cycle.  The rows go by turns to banks *)
(* 0 and 1 and to banks 2 and 3, the bytes by turns to the two banks; flag *)
(* says for each pair of banks which of them is next.  PAIR stands for     *)
(* R_12, R_21, R_34 and R_43, LAST_PAIR for R_12_END and its like and      *)
(* LAST_ONE for R_1_END and its like: the pair and its order are the ones  *)
(* of r_row_count[0] and flag.                                             *)

pair == r.row_count % 2
turn == r.flag[pair + 1]

Write(n) ==     \* the state that writes of n remaining bytes
    IF n > 2 THEN "PAIR" ELSE IF n = 2 THEN "LAST_PAIR" ELSE "LAST_ONE"

r_nstate(rvalid) ==
    CASE r.state = "IDLE" -> IF hog_start THEN "WAIT" ELSE "IDLE"
      [] r.state = "WAIT" -> IF r_handshake(rvalid) THEN Write(r.byte_count) ELSE "WAIT"
      [] r.state = "PAIR" -> Write(r.byte_count)
      [] r.state \in {"LAST_PAIR", "LAST_ONE"} ->
           IF ~r.ready THEN "END"
           ELSE IF rvalid THEN Write(r.byte_count) ELSE "WAIT"
      [] r.state = "END" -> IF img.finish THEN "IDLE" ELSE "END"

\* The registers of the first beat of a row that starts at addr.
RowBegin(rr, addr) ==
    [rr EXCEPT !.ready = TRUE, !.byte_en = addr % BEAT, !.fst_addr = addr + blk.stride,
               !.byte_count = Min({BEAT - (addr % BEAT), blk.y}),
               !.col_remain = Max({0, blk.y + (addr % BEAT) - BEAT})]

\* The registers after the last write of a beat.
BeatEnd(rr) ==
    CASE rr.col_remain # 0 ->
           [rr EXCEPT !.ready = TRUE, !.byte_en = 0,
                      !.byte_count = Min({BEAT, rr.col_remain}),
                      !.col_remain = Max({0, @ - BEAT})]
      [] rr.col_remain = 0 /\ rr.row_count = blk.x - 1 ->
           [rr EXCEPT !.ready = FALSE, !.row_count = @ + 1]
      [] rr.col_remain = 0 /\ rr.row_count # blk.x - 1 ->
           RowBegin([rr EXCEPT !.row_count = @ + 1], rr.fst_addr)

turnAfter(n) == IF n = "LAST_ONE" THEN 1 - turn ELSE turn

ReadData(rvalid) ==
    LET n == r_nstate(rvalid)
        from == [r EXCEPT !.state = n, !.data = IF r_handshake(rvalid) THEN beat ELSE @,
                          !.flag[pair + 1] = turnAfter(n)]
        byte == from.data + r.byte_en
        Put(b) == IF b = 2 * pair + turn /\ n \in {"PAIR", "LAST_PAIR", "LAST_ONE"}
                  THEN <<byte>>
                  ELSE IF b = 2 * pair + 1 - turn /\ n \in {"PAIR", "LAST_PAIR"}
                  THEN <<byte + 1>> ELSE <<>>
    IN  /\ r' = CASE n = "IDLE" -> RIdle
                  [] n = "WAIT" -> IF r.byte_count = 0 THEN RowBegin(from, blk.addr)
                                   ELSE from
                  [] n = "PAIR" -> [from EXCEPT !.ready = FALSE, !.byte_en = @ + 2,
                                                !.byte_count = @ - 2]
                  [] n \in {"LAST_PAIR", "LAST_ONE"} -> BeatEnd(from)
                  [] n = "END"  -> [from EXCEPT !.ready = FALSE, !.done = TRUE]
        /\ wea' = [b \in 0 .. 3 |-> Put(b)]

\* R_IDLE sets the write addresses back; every write increments its bank's.
Banks == banks' = [b \in 0 .. 3 |-> IF r.state = "IDLE" THEN <<>> ELSE banks[b] \o wea[b]]

-----------------------------------------------------------------------------
(* The scaler.  startHwFhog gives it the ratio of the sizes as a number of *)
(* N binary digits, the fewest that place the last pixel within half a     *)
(* pixel; it starts a row of the result only when the rows of the block it *)
(* needs have arrived.                                                     *)

length(n) == IF n >= OUT THEN n ELSE n - 1      \* eta = length(n) / OUT

\* The loop that looks for the digits has no bound; for 136 rows of 136 pixels it ends
\* with 8 at most, whatever the length.
BITS == 8

precise(n, d) == 2 * (OUT - 1) * ((length(n) * 2^d) % OUT) < 2^d * OUT

digits(n) == Min({d \in 0 .. BITS : precise(n, d)})

ASSUME ScaleAssumption ==
    \A b \in Blocks : \A n \in {b.x, b.y} : \E d \in 0 .. BITS : precise(n, d)

\* Arithmetic, all of which TLC evaluates: the provers take powers as unknown numbers.
ASSUME PowerAssumption ==
    \A d, e \in 0 .. BITS :
        /\ 2^d \in Nat \ {0} /\ 2^(d + 1) = 2 * 2^d
        /\ d + e <= BITS => 2^(d + e) = 2^d * 2^e

scale_n == Max({digits(blk.x), digits(blk.y)})

\* ((int)(eta * 2^d)) * 2^(scale_n - d)
scaleOf(n) == ((length(n) * 2^digits(n)) \div OUT) * 2^(scale_n - digits(n))

t_x == scaleOf(blk.x)
t_y == scaleOf(blk.y)

\* Mutant: the row that is scaled must have arrived, not the one below it.
row_signal_needLess == (img.row * t_x) \div 2^scale_n

row_signal_need == ((img.row + 2) * t_x) \div 2^scale_n + 1

rowsReady == img.sig < r.row_count \/ r.row_count > blk.x - 1

ScalerAdvance ==
    [img EXCEPT !.column = (@ + 1) % OUT,
                !.row = IF img.column = OUT - 1 THEN @ + 1 ELSE @,
                !.delay = IF img.row = OUT - 1 /\ img.column = OUT - 2 THEN 1 ELSE @]

ScalerWork ==
    CASE img.delay > 0 /\ img.column = OUT - 1 ->
           IF img.delay = FLUSH THEN [img EXCEPT !.finish = TRUE]
           ELSE [img EXCEPT !.delay = @ + 1]
      [] ~(img.delay > 0 /\ img.column = OUT - 1) ->
           IF rowsReady THEN ScalerAdvance ELSE img

Scaler ==
    LET n == CASE img.state = "await"  -> IF hog_start THEN "await1" ELSE "await"
               [] img.state = "await1" -> IF hog_ready THEN "work" ELSE "await1"
               [] img.state = "work"   -> IF img.finish THEN "await" ELSE "work"
        next == CASE n = "await"  -> ImgAwait
                  [] n = "await1" -> img
                  [] n = "work"   -> ScalerWork
    IN  img' = [next EXCEPT !.state = n, !.sig = row_signal_need]

\* row0_fractional, column0_fractional: the pixel above and left of the place
\* in the block of pixel k of the result.
fractional(k, t) == Max({0, ((2 * k + 1) * t - 2^scale_n) \div 2^(scale_n + 1)})

\* The pixel of row i and column j of the block, as addressed in the banks: with
\* an odd number of columns, each row is taken to begin in the even bank.
Pixel(i, j) ==
    LET b == 2 * (i % 2) + (j % 2)
        k == (i \div 2) * ((blk.y + 1 - (j % 2)) \div 2) + j \div 2
    IN  IF k < Len(banks[b]) THEN banks[b][k + 1] ELSE -1

(* The histograms and the normalisation: some time after the last pixel    *)
(* the features are in the banks, and some time after that the histograms  *)
(* are clear for the next block.                                           *)
Histograms(computed, cleared) ==
    /\ feature' = CASE img.finish                              -> "computing"
                    [] ~img.finish /\ feature = "computing" /\ computed -> "done"
                    [] ~img.finish /\ feature = "done"         -> "none"
                    [] OTHER                                   -> feature
    /\ hog_ready' = (~write_feature_done /\ (hog_ready \/ cleared))

-----------------------------------------------------------------------------
(* The result: a bin has STARTS * READS words in each of the four banks.   *)
(* A cell's features of the first class of bins are in the bank of its     *)
(* number, those of the second in the next bank and those of the third in  *)
(* the one before.                                                         *)

GROUPS == READS * STARTS        \* the words of a bin in a bank: 256

class(bin) ==
    IF bin <= BinA THEN "BIN0_17" ELSE IF bin <= BinB THEN "BIN18_26" ELSE "BIN27_30"
firstBank == [BIN0_17 |-> 0, BIN18_26 |-> 1, BIN27_30 |-> 3]

\* write_bin0_31_feature: the feature at an address of a bank.
Feature(b, a) ==
    [bin |-> a \div GROUPS,
     cell |-> 4 * (a % GROUPS) + ((b - firstBank[class(a \div GROUPS)]) % 4)]

\* Mutant: the handshake of the last beat starts another read.
rd_enAlways(wready) == write_feature_done \/ w_handshake(wready) \/ rd.data # 0

rd_en(wready) ==
    \/ write_feature_done
    \/ w_handshake(wready) /\ (rd.start # 0 \/ rd.bin # 0)
    \/ rd.data # 0

beatRead == rd.data = READS - 1
binRead == beatRead /\ rd.start = STARTS - 1

doutb_valid == rd.doutb # -1

stitch_nstate ==
    CASE rd.stitch = "IDLE" -> IF doutb_valid THEN "BIN0_17" ELSE "IDLE"
      [] rd.stitch = "WAIT" -> IF wr_done THEN "IDLE"
                               ELSE IF doutb_valid THEN class(rd.bin) ELSE "WAIT"
      [] rd.stitch \in DOMAIN firstBank -> IF doutb_valid THEN rd.stitch ELSE "WAIT"

\* The words of a read, the lowest first.
Words(state) == [k \in 1 .. 4 |-> Feature((k - 1 + firstBank[state]) % 4, rd.doutb)]

ReadResult(wready) ==
    LET n == stitch_nstate
        all == rd.res \o Words(n)
    IN  rd' = [addrb |-> IF rd_en(wready) THEN (rd.addrb + 1) % ((BinC + 1) * GROUPS)
                         ELSE rd.addrb,
               data  |-> IF rd_en(wready) THEN (rd.data + 1) % READS ELSE 0,
               start |-> IF beatRead THEN (rd.start + 1) % STARTS ELSE rd.start,
               bin   |-> IF binRead THEN (rd.bin + 1) % (BinC + 1) ELSE rd.bin,
               doutb |-> IF rd_en(wready) THEN rd.addrb ELSE -1,
               stitch |-> n,
               res   |-> CASE n = "IDLE" -> <<>>
                           [] n = "WAIT" -> rd.res
                           [] n \in DOMAIN firstBank ->
                                SubSeq(all, Max({1, Len(all) - 4 * READS + 1}), Len(all)),
               valid |-> CASE n = "IDLE" -> FALSE
                           [] n = "WAIT" -> rd.valid
                           [] n \in DOMAIN firstBank -> beatRead]

-----------------------------------------------------------------------------
(* AW and W: bursts of whole pages; W puts a beat on the channel when      *)
(* read_result_feature has it, and the two end together.                   *)

aw_nstate(awready) ==
    CASE aw.state = "IDLE" -> IF write_feature_done THEN "HEAD" ELSE "IDLE"
      [] aw.state = "DONE" -> IF w.done THEN "IDLE" ELSE "DONE"
      [] aw.state \notin {"IDLE", "DONE"} ->
           IF ~aw_handshake(awready) THEN "WAIT"
           ELSE IF aw.count < wr_burst_time THEN "QWN" ELSE "DONE"

WriteAddresses(awready) ==
    LET n == aw_nstate(awready)
    IN  aw' = CASE n = "IDLE" -> AwIdle
                [] n = "HEAD" -> [aw EXCEPT !.state = n, !.valid = TRUE, !.addr = 0,
                                            !.count = @ + 1]
                [] n = "QWN"  -> [aw EXCEPT !.state = n, !.valid = TRUE,
                                            !.addr = @ + PAGE, !.count = @ + 1]
                [] n = "WAIT" -> [aw EXCEPT !.state = n]
                [] n = "DONE" -> [AwIdle EXCEPT !.state = n, !.done = TRUE]

w_nstate(wready) ==
    CASE w.state = "IDLE" -> IF write_feature_done THEN "WAIT_DATA" ELSE "IDLE"
      [] w.state = "WAIT_DATA" -> IF ~rd.valid THEN "WAIT_DATA"
                                  ELSE IF w.data_count < BURST - 1 THEN "QWN" ELSE "LAST"
      [] w.state \in {"QWN", "LAST", "WAIT"} ->
           IF ~w_handshake(wready) THEN "WAIT"
           ELSE IF w.state = "QWN" \/ w.burst_count < wr_burst_time THEN "WAIT_DATA"
           ELSE "DONE"
      [] w.state = "DONE" -> IF aw.done THEN "IDLE" ELSE "DONE"

WriteData(wready) ==
    LET n == w_nstate(wready)
    IN  w' = CASE n = "IDLE" -> WIdle
               [] n = "WAIT_DATA" ->
                    [w EXCEPT !.state = n, !.valid = FALSE, !.last = FALSE]
               [] n = "QWN"  ->
                    [w EXCEPT !.state = n, !.valid = TRUE, !.data_count = @ + 1]
               [] n = "LAST" -> [w EXCEPT !.state = n, !.valid = TRUE, !.last = TRUE,
                                          !.data_count = 0, !.burst_count = @ + 1]
               [] n = "WAIT" -> [w EXCEPT !.state = n]
               [] n = "DONE" -> [WIdle EXCEPT !.state = n, !.done = TRUE]

ResultMemory(awready, wready) ==
    /\ asked' = IF write_feature_done THEN 0
                ELSE IF aw_handshake(awready) THEN asked + 1 ELSE asked
    /\ written' = IF write_feature_done THEN 0
                  ELSE IF w_handshake(wready) THEN written + 1 ELSE written

-----------------------------------------------------------------------------
Clock(arready, rvalid, awready, wready, computed, cleared) ==
    /\ ReadRequests(arready)
    /\ ReadMemory(arready, rvalid)
    /\ ReadData(rvalid)
    /\ Banks
    /\ Scaler
    /\ Histograms(computed, cleared)
    /\ ReadResult(wready)
    /\ WriteAddresses(awready)
    /\ WriteData(wready)
    /\ ResultMemory(awready, wready)

(* The inputs of a cycle.  One that no block looks at in the cycle is low. *)
When(used) == IF used THEN BOOLEAN ELSE {FALSE}

\* startHwFhog, for a block of the image: the tracker calls it when it has been
\* told that the one before is done, and its six other registers are written
\* before FHOG_START.
startHwFhog(b) ==
    /\ ~hog.start /\ ~hog.done
    /\ blk' = b
    /\ Control(TRUE, TRUE)

\* No start; a write of another register matters in the cycles of the done bit.
NoStart ==
    /\ \E write \in When(hog.done /\ ~hog.wrote) : Control(FALSE, write)
    /\ UNCHANGED blk

Cycle ==
    \E arready \in When(ar.valid), rvalid \in When(r.ready /\ bursts # <<>>),
       awready \in When(aw.valid), wready \in When(w.valid),
       computed \in When(feature = "computing"), cleared \in When(~hog_ready) :
       Clock(arready, rvalid, awready, wready, computed, cleared)

Next == Cycle /\ (NoStart \/ \E b \in Blocks : startHwFhog(b))

Spec == Init /\ [][Next]_vars

(* The clock runs; the memories accept the requests and the beats and      *)
(* return what was asked for, and the histograms end.  The tracker need    *)
(* not start another block.                                                *)
FairSpec ==
    /\ Spec
    /\ WF_vars(NoStart /\ Cycle)
    /\ WF_ar(ar.valid /\ ReadRequests(TRUE))
    /\ WF_r(r.ready /\ bursts # <<>> /\ ReadData(TRUE))
    /\ WF_aw(aw.valid /\ WriteAddresses(TRUE))
    /\ WF_w(w.valid /\ WriteData(TRUE))
    /\ WF_feature(feature = "computing" /\ feature' = "done")
    /\ WF_hog_ready(~hog_ready /\ hog_ready' = TRUE)

-----------------------------------------------------------------------------
(* Properties.                                                             *)

\* The two halves of the read channel count the beats of a block separately and
\* agree: no burst leaves its page, none is asked for that R does not take, and
\* R does not end before all have been returned (hog_trans.v:808-1012,
\* 1563-2140).
BurstsMatchBeats ==
    /\ ar.valid => (ar.addr % PAGE) \div BEAT + ar.len < BURST
    /\ rd_done => bursts = <<>>

\* The scaler works on the block while it arrives, over banks to which R writes:
\* the four pixels around every place it interpolates are there, and are the
\* pixels of that row and column; and once R ends every pixel of the block is
\* in place (IMG.v:106-200, 256-648, hog_trans.v:1563-2140).
BlockInPlace ==
    /\ img.state = "work" /\ img.column >= 0 =>
         \A di, dj \in 0 .. 1 :
            LET i == Min({fractional(img.row, t_x) + di, blk.x - 1})
                j == Min({fractional(img.column, t_y) + dj, blk.y - 1})
            IN  Pixel(i, j) = blk.addr + i * blk.stride + j
    /\ r.state = "END" =>
         \A i \in 0 .. blk.x - 1, j \in 0 .. blk.y - 1 :
            Pixel(i, j) = blk.addr + i * blk.stride + j

FeatureAt(n) == [bin |-> n \div (4 * GROUPS), cell |-> n % (4 * GROUPS)]

\* The result leaves as the feature map the tracker reads, bin after bin and in
\* each the cells in order, although the three classes of bins lie in the banks
\* in three rotations and the reads run ahead of the channel by a beat: the beat
\* on the channel is the next one, its burst ends where the address of the next
\* begins, and all of it was accepted when the done bit is raised.  No byte of a
\* block is written into the banks meanwhile (read_result_feature.v:77-300,
\* hog_trans.v:512-747).
FeaturesInPlace ==
    /\ w.valid =>
         /\ rd.res = [k \in 1 .. 4 * READS |-> FeatureAt(4 * READS * written + k - 1)]
         /\ w.last = ((written + 1) % BURST = 0)
    /\ aw.valid => aw.addr = asked * PAGE
    /\ wr_done => asked = wr_burst_time /\ written = wr_burst_time * BURST
    /\ feature # "none" \/ w.state # "IDLE" => \A b \in 0 .. 3 : wea[b] = <<>>

\* Every start ends and leaves the module ready for the next: the pulses by
\* which its parts tell one another that they are done (img.finish,
\* write_feature_done, aw_done with w_done, the done bit that clears the start
\* register while other registers are written) are each a cycle or two long and
\* all are seen (hog_trans.v:396-417, 1549-1556, hog_ctrl.v:204-265).
EveryStartEnds == hog.start ~> ~hog.start
=============================================================================
