------------------------------ MODULE HogFeatures ------------------------------
(***************************************************************************)
(* The FHOG accelerator between the scaler and the result                  *)
(* (Logic/ip_repo/hog_mdl_only_axi_lite): the window over the pixels and   *)
(* the gradients (histogram.v), the histograms of the cells in four banks  *)
(* of memory (read_write_cell_bram.v), their sums of squares               *)
(* (read_aport_cell_bin.v, calculate_sum_of_squares.v, sos_cache.v), the   *)
(* four roots of a cell and the normalisation (normalize_truncate_pca.v,   *)
(* read_bport_cell_bin.v), and the writing of the features                 *)
(* (write_bin0_31_feature.v).                                              *)
(*                                                                         *)
(* One step is one rising edge of aclk.  Nothing in this pipeline can be   *)
(* stopped and there are no handshakes in it: its parts fit because of     *)
(* their latencies and counters, and these are modelled to the cycle.  The *)
(* arithmetic is left out: a pixel is its number in the image, a gradient  *)
(* the pixels it is the difference of, the inverse root of a sum the sum,  *)
(* a feature what was multiplied and added up.  An empty tuple is a        *)
(* register whose valid bit is low.                                        *)
(***************************************************************************)
EXTENDS Integers, FiniteSetsExt, SequencesExt

CONSTANTS CELL,         \* rows and columns of pixels in a cell (4)
          N,            \* rows and columns of cells, with the border (34)
          H,            \* half the orientations (9)
          LINE, SLINE,  \* words in the line buffers of pixels (144), of sums (32)
          ROW2,         \* pixels after which the second line is read (171)
          Pauses,       \* pixels of a row before which the scaler may pause
          ADDR,         \* addresses of a bank of cells (2^13)
          Bin(_), Mod(_),       \* orientation and length of a gradient
          Hamming       \* the window's weights, a quarter of it

W == CELL * N                   \* rows and columns of the image
INNER == N - 2
DEPTH == (N * N * H) \div 2     \* words in a bank of cells: 5202
GROUP == (INNER * INNER) \div 4 \* words of a bin in a bank of the result: 256

\* The counters of roots (12 bits), of cells (10 bits) and of the address in a line
\* of cells wrap where their count ends, which makes INNER a power of two; the line
\* buffers are longer than a line less the registers beside them.
ASSUME FeaturesAssumption ==
    /\ {CELL, N, H, LINE, SLINE, ROW2, ADDR} \subseteq Nat \ {0}
    /\ 0 \in Pauses
    /\ CELL % 2 = 0 /\ N % 2 = 0 /\ INNER % 4 = 0 /\ 2 * H > 4
    /\ LINE > W - 2 /\ SLINE > N - 4
    /\ ROW2 < 2 * W
    /\ ADDR >= DEPTH + 2 * H * ((N \div 2) + 1)
    /\ Hamming[0] = 0

VARIABLES
    src,        \* the scaler: pixels sent of an image, which image
    px, row1, row2,     \* histogram.v: counters and window, the two line buffers
    pipe,       \* gradients on their way to the cells
    mod,        \* mod_row, mod_col
    bypass,     \* what was written to the cells in the cycle before
    cells, dout,        \* the four banks, and what their ports read
    clear, histogram_done,
    rda, sq,    \* read_aport_cell_bin, calculate_sum_of_squares
    sos, sos1, sos2,    \* sos_cache: window and counters, the two line buffers
    block, roots, isr,  \* sums of four cells, their roots, the two groups of roots
    rdb, norm,  \* read_bport_cell_bin, the normalisation
    wr, result  \* write_bin0_31_feature, the banks it writes to

vars == <<src, px, row1, row2, pipe, mod, bypass, cells, dout, clear, histogram_done,
          rda, sq, sos, sos1, sos2, block, roots, isr, rdb, norm, wr, result>>

Bank == 0 .. 3
RD_BIN_IDLE == 4        \* states of the readers of the cells, beside the banks
RD_BIN_WAIT == 5
Nothing == -1           \* a difference that is taken to be zero
Unset == -2             \* the contents of a register or a word before its first use

LineEmpty(size, delay) ==
    [we |-> FALSE, dina |-> Unset, addra |-> 0, addrb |-> size - delay,
     mem |-> [a \in 0 .. size - 1 |-> Unset]]

PxReset == [count |-> 0, row |-> 1, col |-> 0, remain |-> 0,
            reg |-> [k \in 1 .. 7 |-> Unset], valid |-> FALSE]
ReadIdle == [state |-> RD_BIN_IDLE, row |-> 0, col |-> 0, bin |-> 0,
             addr |-> [b \in Bank |-> 0], started |-> {}, valid |-> {}, data |-> {}]
IsrIdle == [state |-> "IDLE", group |-> [g \in 0 .. 1 |-> <<0, 0, 0, 0>>], flag |-> 0,
            count |-> 0, valid |-> FALSE]
WriteIdle == [state |-> "IDLE", k |-> 0, tail |-> FALSE, bin |-> 0, cell |-> 0,
              cell_r1 |-> 0, count30 |-> 0, wea |-> {}, addr |-> [b \in Bank |-> 0],
              data |-> [b \in Bank |-> <<>>], done |-> FALSE]

Init ==
    /\ src = [sent |-> 0, image |-> 0]
    /\ px = PxReset
    /\ row1 = LineEmpty(LINE, W - 4) /\ row2 = LineEmpty(LINE, W - 4)
    /\ pipe = [k \in 1 .. 6 |-> <<>>] /\ mod = [row |-> 0, col |-> 0] /\ bypass = <<>>
    /\ cells = [b \in Bank |-> [a \in 0 .. DEPTH - 1 |-> Unset]]
    /\ dout = [a |-> [b \in Bank |-> Unset], b |-> [b \in Bank |-> Unset]]
    /\ clear = [start |-> TRUE, on |-> FALSE, addr |-> 0, ready |-> FALSE]
    /\ histogram_done = FALSE
    /\ rda = ReadIdle /\ rdb = ReadIdle
    /\ sq = [bin |-> 0, odd |-> FALSE, pair |-> <<>>, square |-> <<>>, count |-> 0,
             sum |-> 0, valid |-> FALSE]
    /\ sos = [count |-> 0, reg |-> [k \in 1 .. 9 |-> 0], col4 |-> 0, col5 |-> 0,
              valid |-> FALSE]
    /\ sos1 = LineEmpty(SLINE, N - 4) /\ sos2 = LineEmpty(SLINE, N - 4)
    /\ block = [state |-> "IDLE", sum |-> <<>>]
    /\ roots = [k \in 1 .. 7 |-> <<>>]
    /\ isr = IsrIdle
    /\ norm = [normal |-> <<>>, normal26 |-> <<>>, bin |-> 0, odd |-> FALSE,
               pca |-> <<>>, pca26 |-> <<>>, count |-> 0, truncate |-> <<>>,
               truncated |-> FALSE, pca30 |-> <<>>, held |-> <<>>, row |-> 0, col |-> 0,
               hamming |-> 0, hamming_r1 |-> 0, count30 |-> 0,
               feature |-> <<>>, feature26 |-> <<>>, feature30 |-> <<>>]
    /\ wr = WriteIdle
    /\ result = [b \in Bank |-> [a \in 0 .. (3 * H + 4) * GROUP - 1 |-> <<>>]]

-----------------------------------------------------------------------------
(* The scaler sends the pixels of an image row by row and begins when the  *)
(* cells are clear.  It pauses for the rows of the block it needs, which   *)
(* it finds missing after two pixels of a row (IMG.v, HogTrans).  The next *)
(* image comes after the result has left, when hog_ready has long fallen.  *)

maySend == src.sent < W * W /\ (src.sent > 0 \/ clear.ready)
mayPause == src.sent % W \in Pauses

Pixel(image, r, c) == (image * W + r) * W + c

Source(p_valid) ==
    src' = IF p_valid THEN [src EXCEPT !.sent = @ + 1]
           ELSE IF src.sent = W * W /\ ~clear.ready
           THEN [sent |-> 0, image |-> 1 - src.image] ELSE src

p == Pixel(src.image, src.sent \div W, src.sent % W)

-----------------------------------------------------------------------------
(* The window: a line buffer is written behind the registers of its row    *)
(* and read ahead of those of the next; after the last pixel a line more   *)
(* is moved through it.                                                    *)

doutb(line) == line.mem[line.addrb]

\* The next state of a line buffer when `in' is written to it or nothing is.
LineStep(line, go, in, size) ==
    [we    |-> go,
     dina  |-> IF go THEN in ELSE line.dina,
     addra |-> IF go THEN (line.addra + 1) % size ELSE line.addra,
     addrb |-> IF go THEN (line.addrb + 1) % size ELSE line.addrb,
     mem   |-> IF line.we THEN [line.mem EXCEPT ![line.addra] = line.dina]
               ELSE line.mem]

remain_valid == px.remain # 0

rd_row1_valid(p_valid) == (p_valid /\ px.count >= W - 1) \/ remain_valid
rd_row2_valid(p_valid) == (p_valid /\ px.count >= ROW2) \/ remain_valid

\* reg1 is below reg4, reg3 right of it, reg5 left of it and reg7 above it.
WindowRegisters(p_valid) ==
    LET Load(k) ==
            CASE k = 1        -> IF p_valid THEN p ELSE px.reg[1]
              [] k = 2        -> IF p_valid \/ remain_valid THEN px.reg[1] ELSE px.reg[2]
              [] k = 3        -> IF rd_row1_valid(p_valid) THEN doutb(row1) ELSE px.reg[3]
              [] k \in {4, 5} -> IF rd_row1_valid(p_valid) THEN px.reg[k - 1]
                                 ELSE px.reg[k]
              [] k = 6        -> IF rd_row2_valid(p_valid) THEN doutb(row2) ELSE px.reg[6]
              [] k = 7        -> IF rd_row2_valid(p_valid) THEN px.reg[6] ELSE px.reg[7]
    IN  [k \in 1 .. 7 |-> Load(k)]

\* Mutant: the lines stop with the last pixel of the image.
remainNone(p_valid) == 0

remain_count(p_valid) ==
    IF p_valid /\ px.count = W * W - 1 THEN 1
    ELSE IF px.remain \in {0, W} THEN 0 ELSE px.remain + 1

Window(p_valid) ==
    LET valid == (p_valid /\ px.count >= W) \/ remain_valid
        atEnd == px.row = W /\ px.col = W
    IN  /\ px' = [count  |-> IF p_valid THEN (px.count + 1) % (W * W) ELSE px.count,
                  remain |-> remain_count(p_valid),
                  reg    |-> WindowRegisters(p_valid),
                  valid  |-> valid,
                  row    |-> IF valid /\ px.col = W THEN px.row + 1
                             ELSE IF ~valid /\ atEnd THEN 1 ELSE px.row,
                  col    |-> IF valid THEN (px.col % W) + 1
                             ELSE IF atEnd THEN 0 ELSE px.col]
        /\ row1' = LineStep(row1, p_valid \/ remain_valid, px.reg[2], LINE)
        /\ row2' = LineStep(row2, p_valid \/ remain_valid, px.reg[5], LINE)

\* dx and dy of reg4, each zero at the border it would leave: <<right, left, below, above>>.
gradient ==
    LET dx == IF px.col \in {1, W} THEN <<Nothing, Nothing>> ELSE <<px.reg[3], px.reg[5]>>
        dy == IF px.row \in {1, W} THEN <<Nothing, Nothing>> ELSE <<px.reg[1], px.reg[7]>>
    IN  dx \o dy

-----------------------------------------------------------------------------
(* The way of a gradient, one register a cycle: its difference, the two    *)
(* steps of its length, the factors of its place, and with its orientation *)
(* (bin_num_valid) the read of the cells, then their write                 *)
(* (intensity_valid).  mod_row and mod_col count the lengths.              *)

bin_num_valid == pipe[5] # <<>>
intensity_valid == pipe[6] # <<>>

Gradients ==
    /\ pipe' = <<IF px.valid THEN gradient ELSE <<>>, pipe[1], pipe[2],
                 IF pipe[3] # <<>> THEN <<pipe[3], mod.row, mod.col>> ELSE <<>>,
                 pipe[4], pipe[5]>>
    /\ mod' = IF pipe[3] = <<>> THEN mod
              ELSE [col |-> (mod.col + 1) % W,
                    row |-> IF mod.col = W - 1 THEN (mod.row + 1) % W ELSE mod.row]

(* A gradient has a share in the cell of its pixel and in the three cells  *)
(* next to it on the pixel's side.  Of any such four cells each bank has   *)
(* one: 0 the odd rows and columns, 1 the odd rows, 2 the odd columns.     *)

rowOdd(b) == IF b \in {0, 1} THEN 1 ELSE 0
colOdd(b) == IF b \in {0, 2} THEN 1 ELSE 0

\* The row (column) of cells a bank has, of a pixel in row (column) k.
cellOf(k, odd) ==
    LET own == k \div CELL
    IN  IF own % 2 = odd THEN own
        ELSE IF k % CELL < CELL \div 2 THEN own - 1 ELSE own + 1

\* factor_x, factor_y: the share of that row (column).
factor(k, odd) ==
    LET in == k % CELL
        own == IF in < CELL \div 2 THEN CELL + 1 + 2 * in
               ELSE 2 * CELL - 1 - 2 * (in - CELL \div 2)
    IN  IF (k \div CELL) % 2 = odd THEN own ELSE 2 * CELL - own

wordOf(i, j, bin) == ((i \div 2) * (N \div 2) + (j \div 2)) * 2 * H + bin

\* hist_addra, and whether there is such a cell: addra_valid.  t is a gradient in pipe.
hist_addr(t, b) ==
    wordOf(cellOf(t[2], rowOdd(b)), cellOf(t[3], colOdd(b)), Bin(t[1])) % ADDR
addr_valid(t, b) ==
    {cellOf(t[2], rowOdd(b)), cellOf(t[3], colOdd(b))} \subseteq 0 .. N - 1
intensity(t, b) == Mod(t[1]) * factor(t[2], rowOdd(b)) * factor(t[3], colOdd(b))

\* Mutant: what was written in the cycle before is not looked at.
hist_dinbNoBypass(b) ==
    IF addr_valid(pipe[6], b) THEN dout.a[b] + intensity(pipe[6], b) ELSE dout.a[b]

\* The word read in the cycle before and the share; if that word was being written
\* then, what was written.
hist_dinb(b) ==
    LET t == pipe[6]
        word == IF bypass # <<>> /\ bypass[1][b] = hist_addr(t, b) THEN bypass[2][b]
                ELSE dout.a[b]
    IN  IF addr_valid(t, b) THEN word + intensity(t, b) ELSE word

(* The banks: port A reads for the histogram and for the sums of squares,  *)
(* port B writes the histogram and reads for the normalisation, and both   *)
(* clear.  Port A gets nothing usable from a word port B is writing.       *)

InBank(a) == a \in 0 .. DEPTH - 1

addra(b) == IF clear.on THEN clear.addr + 1
            ELSE IF bin_num_valid THEN hist_addr(pipe[5], b) ELSE rda.addr[b]
addrb(b) == IF clear.on THEN clear.addr
            ELSE IF intensity_valid THEN hist_addr(pipe[6], b) ELSE rdb.addr[b]
web == intensity_valid \/ clear.on

Cells ==
    LET Write(bank, a, d) == IF InBank(a) THEN [bank EXCEPT ![a] = d] ELSE bank
        Port(b, a, lost) == IF InBank(a) /\ ~lost THEN cells[b][a] ELSE Unset
    IN  /\ cells' = CASE clear.on -> [b \in Bank |-> Write(Write(cells[b], addra(b), 0),
                                                          addrb(b), 0)]
                      [] ~clear.on /\ intensity_valid ->
                           [b \in Bank |-> Write(cells[b], addrb(b), hist_dinb(b))]
                      [] OTHER -> cells
        /\ dout' = [a |-> [b \in Bank |-> Port(b, addra(b), web /\ addrb(b) = addra(b))],
                    b |-> [b \in Bank |-> Port(b, addrb(b), web)]]
        /\ bypass' = IF intensity_valid
                     THEN <<[b \in Bank |-> hist_addr(pipe[6], b)],
                            [b \in Bank |-> hist_dinb(b)]>>
                     ELSE <<>>
        /\ histogram_done' = (bin_num_valid /\ pipe[5][2] = W - 1 /\ pipe[5][3] = W - 1)

\* initial_cell_bram, initial_bram and hog_ready: two words a cycle, 0 and 1 the last.
Clear ==
    clear' = CASE clear.start -> [clear EXCEPT !.start = wr.done, !.on = TRUE, !.addr = 2,
                                               !.ready = FALSE]
               [] ~clear.start /\ clear.addr = 0 ->
                    [clear EXCEPT !.start = wr.done, !.on = FALSE, !.ready = TRUE]
               [] ~clear.start /\ clear.addr # 0 ->
                    [clear EXCEPT !.start = wr.done, !.addr = (@ + 2) % DEPTH]

-----------------------------------------------------------------------------
(* The reading of the cells.  A bank's cells are read in the order of      *)
(* their addresses, the two bins that are opposite one after the other.    *)

\* The step that reads the next word from bank b: first is where the bank begins, a
\* row ends in the banks ends after width cells.
ReadStep(r, b, first, ends, width, rows) ==
    LET cellEnds == r.bin = 2 * H - 1
        rowEnds == cellEnds /\ b \in ends /\ r.col = width - 1
        next == IF b \notin r.started THEN first
                ELSE IF r.bin % 2 = 1 THEN r.addr[b] + H
                ELSE IF r.bin = 0 THEN r.addr[b] + 1
                ELSE r.addr[b] - (H - 1)
    IN  [r EXCEPT !.state = b, !.bin = (@ + 1) % (2 * H), !.addr[b] = next,
                  !.started = @ \cup {b}, !.valid = {b},
                  !.col = IF rowEnds THEN 0 ELSE IF cellEnds THEN @ + 1 ELSE @,
                  !.row = IF rowEnds THEN (@ + 1) % rows ELSE @]

bin_data_valid(r) == r.data # {}
bin_data(r, out) == IF bin_data_valid(r) THEN out[CHOOSE b \in r.data : TRUE] ELSE 0

\* rd_bin_nstate of port A: all cells, the even rows from banks 3 and 2.
rda_nstate ==
    CASE rda.state = RD_BIN_IDLE -> IF histogram_done THEN 3 ELSE RD_BIN_IDLE
      [] rda.state \in Bank /\ rda.bin # 0 -> rda.state
      [] rda.state = 3 /\ rda.bin = 0 -> 2
      [] rda.state = 2 /\ rda.bin = 0 -> IF rda.col = 0 THEN 1 ELSE 3
      [] rda.state = 1 /\ rda.bin = 0 -> 0
      [] rda.state = 0 /\ rda.bin = 0 -> IF rda.col # 0 THEN 1
                                        ELSE IF rda.row = N THEN RD_BIN_IDLE ELSE 3

ReadForSquares ==
    rda' = [(IF rda_nstate = RD_BIN_IDLE THEN ReadIdle
             ELSE ReadStep(rda, rda_nstate, 0, {0, 2}, N, N + 1)) EXCEPT !.data = rda.valid]

\* rd_bin_nstate of port B: the inner cells, the odd rows from banks 0 and 1.
rdb_nstate ==
    CASE rdb.state = RD_BIN_IDLE -> IF isr.valid THEN 0 ELSE RD_BIN_IDLE
      [] rdb.state \in Bank /\ rdb.bin # 0 -> rdb.state
      [] rdb.state = 0 /\ rdb.bin = 0 -> 1
      [] rdb.state = 1 /\ rdb.bin = 0 -> IF rdb.col = 0 THEN RD_BIN_WAIT ELSE 0
      [] rdb.state = 2 /\ rdb.bin = 0 -> 3
      [] rdb.state = 3 /\ rdb.bin = 0 -> IF rdb.col # 0 THEN 2
                                        ELSE IF rdb.row = 0 THEN RD_BIN_IDLE
                                        ELSE RD_BIN_WAIT
      [] rdb.state = RD_BIN_WAIT -> IF ~isr.valid THEN RD_BIN_WAIT
                                    ELSE IF rdb.row % 2 = 1 THEN 2 ELSE 0

\* Where the inner cells of a bank begin; after a row a cell of the border is skipped.
firstWord(b) == wordOf((b \div 2) + 1, (b % 2) + 1, 0)

Skipped(b) ==
    (b \in {0, 1} /\ rdb.state = 1) \/ (b \in {2, 3} /\ rdb.state = 3)

ReadForFeatures ==
    LET n == rdb_nstate
        next == CASE n = RD_BIN_IDLE -> ReadIdle
                  [] n = RD_BIN_WAIT ->
                       [rdb EXCEPT !.state = n, !.valid = {},
                                   !.addr = [b \in Bank |-> IF Skipped(b)
                                               THEN rdb.addr[b] + 2 * H ELSE rdb.addr[b]]]
                  [] n \in Bank -> ReadStep(rdb, n, firstWord(n), {1, 3}, INNER, INNER)
    IN  rdb' = [next EXCEPT !.data = rdb.valid]

-----------------------------------------------------------------------------
(* The sum of squares of a cell, over its pairs of opposite bins.          *)

SumOfSquares ==
    LET data == bin_data(rda, dout.a)
        valid == bin_data_valid(rda)
        total == IF sq.count = 0 THEN 0 ELSE sq.sum
    IN  sq' = [bin    |-> data,
               odd    |-> IF valid THEN ~sq.odd ELSE sq.odd,
               pair   |-> IF valid /\ sq.odd THEN <<sq.bin + data>> ELSE <<>>,
               square |-> IF sq.pair # <<>> THEN <<sq.pair[1] * sq.pair[1]>> ELSE <<>>,
               count  |-> IF sq.square # <<>> THEN (sq.count + 1) % H ELSE sq.count,
               sum    |-> IF sq.square # <<>> THEN total + sq.square[1] ELSE sq.sum,
               valid  |-> sq.square # <<>> /\ sq.count = H - 1]

(* sos_cache: the sums of a cell (reg5) and the eight around it.  Its line *)
(* buffers are longer than they are used, with addresses that run ahead of *)
(* one another as those of the pixels do.                                  *)

SumWindow ==
    LET row1_valid == sq.valid /\ sos.count >= N
        row2_valid == sq.valid /\ sos.count >= 2 * N
        In(k) == CASE k = 1 -> sq.sum [] k = 4 -> doutb(sos1) [] k = 7 -> doutb(sos2)
                   [] OTHER -> sos.reg[k - 1]
        Load(k) == (k <= 3 /\ sq.valid) \/ (k \in 4 .. 6 /\ row1_valid)
                   \/ (k >= 7 /\ row2_valid)
    IN  /\ sos' = [count |-> IF sq.valid THEN (sos.count + 1) % (N * N) ELSE sos.count,
                   reg   |-> [k \in 1 .. 9 |-> IF Load(k) THEN In(k) ELSE sos.reg[k]],
                   col4  |-> IF row1_valid THEN (sos.col4 + 1) % N ELSE sos.col4,
                   col5  |-> IF row1_valid THEN sos.col4 ELSE sos.col5,
                   valid |-> /\ sq.valid /\ sos.count >= 2 * N + 2
                             /\ sos.col5 \notin {0, N - 1}]
        /\ sos1' = LineStep(sos1, sq.valid, sos.reg[3], SLINE)
        /\ sos2' = LineStep(sos2, sq.valid, sos.reg[6], SLINE)

\* The sums over the four cells at a corner of reg5, one a cycle.
block_nstate ==
    CASE block.state = "IDLE" -> IF sos.valid THEN "RD" ELSE "IDLE"
      [] block.state = "RD" -> "RU"
      [] block.state = "RU" -> "LD"
      [] block.state = "LD" -> "LU"
      [] block.state = "LU" -> "IDLE"

corner(n) == CASE n = "RD" -> {1, 2, 4, 5} [] n = "RU" -> {4, 5, 7, 8}
               [] n = "LD" -> {2, 3, 5, 6} [] n = "LU" -> {5, 6, 8, 9}

BlockSums ==
    block' = [state |-> block_nstate,
              sum   |-> IF block_nstate = "IDLE" THEN <<>>
                        ELSE <<1 + MapThenSumSet(LAMBDA k : sos.reg[k], corner(block_nstate))>>]

-----------------------------------------------------------------------------
(* The roots come one a cycle, seven cycles after their sums, and go to    *)
(* one of two groups in turn: one is filled while the other is in use.     *)
(* isr_valid, at the second of a cell's four, starts the reading of it.    *)

Roots == roots' = <<block.sum, roots[1], roots[2], roots[3], roots[4], roots[5], roots[6]>>

inverse_sqre_root_valid == roots[7] # <<>>

group(flag) == IF flag = 0 THEN "GROUP0" ELSE "GROUP1"

isr_nstate ==
    CASE isr.state = "IDLE" -> IF inverse_sqre_root_valid THEN "GROUP0" ELSE "IDLE"
      [] isr.state \in {"GROUP0", "GROUP1"} -> IF isr.count % 4 = 0 THEN "WAIT" ELSE isr.state
      [] isr.state = "WAIT" -> IF isr.count = 0 THEN "IDLE"
                               ELSE IF inverse_sqre_root_valid THEN group(isr.flag)
                               ELSE "WAIT"

RootGroups ==
    LET g == IF isr_nstate = "GROUP0" THEN 0 ELSE 1
        root == IF inverse_sqre_root_valid THEN roots[7][1] ELSE Unset
    IN  isr' = CASE isr_nstate = "IDLE" -> IsrIdle
                 [] isr_nstate = "WAIT" -> [isr EXCEPT !.state = "WAIT"]
                 [] OTHER -> [isr EXCEPT !.state = isr_nstate,
                                         !.group[g] = Append(Tail(@), root),
                                         !.count = (@ + 1) % (4 * INNER * INNER),
                                         !.valid = (isr.count % 4 = 1),
                                         !.flag = IF isr.count % 4 = 3 THEN 1 - @ ELSE @]

\* Mutant: the group that is being filled.
rootsFilled == isr.group[isr.flag]

\* inverse_sqre_root_0 .. 3
rootsInUse == isr.group[1 - isr.flag]

-----------------------------------------------------------------------------
(* The normalisation: a bin by each of the four roots (bins 0-17), two     *)
(* opposite ones together (18-26), all of them by one root (27-30), times  *)
(* the weight of the cell.  A weight of zero leaves zero, of whatever.     *)

Zero == <<0>>
Times(terms, weight) == IF weight = 0 THEN Zero ELSE <<weight, terms>>

\* The terms of all bins by the root k alone.
ByRoot(terms, k) == [t \in DOMAIN terms |-> <<terms[t][1], <<terms[t][2][k]>>>>]

fold(k) == IF k >= INNER \div 2 THEN INNER - 1 - k ELSE k
hamming_addr == fold(norm.row) * (INNER \div 2) + fold(norm.col)

Normalize ==
    LET data == bin_data(rdb, dout.b)
        valid == bin_data_valid(rdb)
        last == norm.normal # <<>> /\ norm.count = 2 * H - 1
        weight == Hamming[norm.hamming]
        pca30 == norm.pca30 # <<>>
        By(terms, w) == IF terms = <<>> THEN <<>> ELSE Times(<<terms>>, w)
    IN  norm' =
        [normal    |-> IF valid THEN <<data, rootsInUse>> ELSE <<>>,
         bin       |-> data,
         odd       |-> IF valid THEN ~norm.odd ELSE norm.odd,
         normal26  |-> IF valid /\ norm.odd THEN <<norm.bin + data, rootsInUse>> ELSE <<>>,
         pca       |-> norm.normal,
         pca26     |-> norm.normal26,
         count     |-> IF norm.normal # <<>> THEN (norm.count + 1) % (2 * H) ELSE norm.count,
         truncate  |-> IF norm.normal = <<>> THEN norm.truncate
                       ELSE IF norm.count = 0 THEN <<norm.normal>>
                       ELSE Append(norm.truncate, norm.normal),
         truncated |-> last,
         pca30     |-> IF norm.truncated THEN norm.truncate ELSE <<>>,
         held      |-> IF pca30 THEN norm.pca30 ELSE norm.held,
         col       |-> IF last THEN (norm.col + 1) % INNER ELSE norm.col,
         row       |-> IF last /\ norm.col = INNER - 1 THEN (norm.row + 1) % INNER
                       ELSE norm.row,
         hamming   |-> hamming_addr,
         hamming_r1 |-> IF norm.pca26 # <<>> /\ norm.count = 0 THEN weight
                        ELSE norm.hamming_r1,
         count30   |-> IF pca30 THEN 1
                       ELSE IF norm.count30 = 0 THEN 0 ELSE (norm.count30 + 1) % 4,
         feature   |-> By(norm.pca, weight),
         feature26 |-> By(norm.pca26, weight),
         feature30 |-> IF pca30 THEN Times(ByRoot(norm.pca30, 1), norm.hamming_r1)
                       ELSE IF norm.count30 # 0
                       THEN Times(ByRoot(norm.held, norm.count30 + 1), norm.hamming_r1)
                       ELSE <<>>]

-----------------------------------------------------------------------------
(* The writing: of every cell k its bins 0-17 go to bank k, 18-26 to the   *)
(* bank after it and, while the next cell's are written already, 27-30 to  *)
(* the bank before it.  The code has a state for each bank, half of a pair *)
(* of bins and whether bins 27-30 are to be written; here these are state, *)
(* k and tail.                                                             *)

write_nstate ==
    LET To(state, k, tail) == [state |-> state, k |-> k, tail |-> tail]
        bin0 == norm.feature # <<>>
    IN  CASE wr.state = "IDLE" -> IF bin0 THEN To("FIRST", 0, FALSE) ELSE To("IDLE", 0, FALSE)
          [] wr.state = "FIRST" -> To("SECOND", wr.k, wr.tail)
          [] wr.state = "SECOND" /\ wr.tail -> To("FIRST", wr.k, wr.count30 # 0)
          [] wr.state = "SECOND" /\ ~wr.tail ->
               IF wr.bin # 0 THEN To("FIRST", wr.k, FALSE)
               ELSE IF wr.k < 3 THEN To("FIRST", wr.k + 1, TRUE)
               ELSE IF bin0 THEN To("FIRST", 0, TRUE) ELSE To("BIN27_30", 0, TRUE)
          [] wr.state = "BIN27_30" -> IF wr.count30 = 0 THEN To("WAIT", 0, FALSE)
                                      ELSE To("BIN27_30", 0, TRUE)
          [] wr.state = "WAIT" -> IF wr.cell = 0 THEN To("IDLE", 0, FALSE)
                                  ELSE IF bin0 THEN To("FIRST", 0, FALSE)
                                  ELSE To("WAIT", 0, FALSE)

\* What is written in a state n: <<bank, address, data>>.
WriteBins(n) ==
    LET k == n.k
        after == (k + 1) % 4
    IN  CASE n.state = "FIRST" ->
               {<<k, IF wr.bin = 0 THEN wr.cell \div 4 ELSE wr.addr[k] - (H - 1) * GROUP,
                  norm.feature>>}
          [] n.state = "SECOND" ->
               {<<k, wr.addr[k] + H * GROUP, norm.feature>>,
                <<after, IF wr.bin = 1 THEN (wr.cell \div 4) + 2 * H * GROUP
                         ELSE wr.addr[after] + GROUP, norm.feature26>>}
          [] OTHER -> {}

\* Bins 27-30 of the cell before.
Write27(n) ==
    LET b == (n.k + 2) % 4
        begins == IF n.state = "BIN27_30" THEN wr.count30 = 0
                  ELSE n.state = "FIRST" /\ wr.bin = 0
    IN  IF ~n.tail THEN {}
        ELSE {<<b, IF begins THEN (wr.cell_r1 \div 4) + 3 * H * GROUP ELSE wr.addr[b] + GROUP,
                norm.feature30>>}

WriteFeatures ==
    LET n == write_nstate
        writes == WriteBins(n) \cup Write27(n)
        To(b) == CHOOSE w \in writes : w[1] = b
        wea == {w[1] : w \in writes}
        idle == n.state = "IDLE"
        valid == norm.feature # <<>>
        bin17 == valid /\ wr.bin = 2 * H - 1
    IN  /\ wr' = [state   |-> n.state, k |-> n.k, tail |-> n.tail,
                  bin     |-> IF valid THEN (wr.bin + 1) % (2 * H) ELSE wr.bin,
                  cell    |-> IF bin17 THEN (wr.cell + 1) % (INNER * INNER) ELSE wr.cell,
                  cell_r1 |-> IF wr.done THEN 0 ELSE IF bin17 THEN wr.cell ELSE wr.cell_r1,
                  count30 |-> IF idle THEN 0 ELSE IF n.tail THEN (wr.count30 + 1) % 4
                              ELSE wr.count30,
                  wea     |-> wea,
                  addr    |-> [b \in Bank |-> IF idle THEN 0 ELSE IF b \in wea THEN To(b)[2]
                                             ELSE wr.addr[b]],
                  data    |-> [b \in Bank |-> IF idle THEN <<>> ELSE IF b \in wea THEN To(b)[3]
                                             ELSE wr.data[b]],
                  done    |-> IF n.state = "WAIT" THEN wr.done \/ wr.cell = 0
                              ELSE IF idle THEN FALSE ELSE wr.done]
        /\ result' = [b \in Bank |-> IF b \in wr.wea
                        THEN [result[b] EXCEPT ![wr.addr[b]] = wr.data[b]] ELSE result[b]]

-----------------------------------------------------------------------------
Clock(p_valid) ==
    /\ Source(p_valid) /\ Window(p_valid) /\ Gradients /\ Cells /\ Clear
    /\ ReadForSquares /\ SumOfSquares /\ SumWindow /\ BlockSums
    /\ Roots /\ RootGroups /\ ReadForFeatures /\ Normalize /\ WriteFeatures

Idles == mayPause /\ Clock(FALSE)
Sends == maySend /\ Clock(TRUE)

Next == Idles \/ Sends

Spec == Init /\ [][Next]_vars

\* The clock runs, and the scaler sends the whole of an image it has begun, as every
\* start of the module ends (HogTrans).
FairSpec == Spec /\ WF_vars(Next) /\ WF_vars(src.sent > 0 /\ Sends)

-----------------------------------------------------------------------------
(* What the features are, from the image.                                  *)

Indices(m) == 0 .. m - 1

\* Twice the distance from the middle of pixel k to that of cell i, from a cell's length.
Share(k, i) ==
    LET d == 2 * k + 1 - CELL * (2 * i + 1)
    IN  Max({0, 2 * CELL - Max({d, -d})})

GradientAt(image, r, c) ==
    LET At(y, x) == Pixel(image, y, x)
        dx == IF c \in {0, W - 1} THEN <<Nothing, Nothing>>
              ELSE <<At(r, c + 1), At(r, c - 1)>>
        dy == IF r \in {0, W - 1} THEN <<Nothing, Nothing>>
              ELSE <<At(r + 1, c), At(r - 1, c)>>
    IN  dx \o dy

\* The pixels that have a share in a row or column of cells.
Around(i) == {k \in Indices(W) : Share(k, i) > 0}

Histogram ==
    [image \in 0 .. 1, i, j \in Indices(N) |->
       [bin \in Indices(2 * H) |->
          MapThenSumSet(LAMBDA rc : Mod(GradientAt(image, rc[1], rc[2]))
                                      * Share(rc[1], i) * Share(rc[2], j),
                        {rc \in Around(i) \X Around(j) :
                           Bin(GradientAt(image, rc[1], rc[2])) = bin})]]

Energy ==
    [image \in 0 .. 1, i, j \in Indices(N) |->
       LET h == Histogram[image, i, j]
       IN  MapThenSumSet(LAMBDA k : (h[k] + h[k + H]) * (h[k] + h[k + H]), Indices(H))]

\* The four sums around a cell: right below, right above, left below, left above.
Blocks(image, i, j) ==
    LET Sum(di, dj) == 1 + Energy[image, i, j] + Energy[image, i + di, j]
                         + Energy[image, i, j + dj] + Energy[image, i + di, j + dj]
    IN  <<Sum(1, 1), Sum(-1, 1), Sum(1, -1), Sum(-1, -1)>>

\* The 3 H + 4 features of the inner cell in row i and column j.
Features ==
    [image \in 0 .. 1, i, j \in Indices(INNER) |->
       LET h == Histogram[image, i + 1, j + 1]
           blocks == Blocks(image, i + 1, j + 1)
           weight == Hamming[fold(i) * (INNER \div 2) + fold(j)]
           \* the bins in the order they are read
           all == [t \in 1 .. 2 * H |->
                     <<h[IF t % 2 = 1 THEN t \div 2 ELSE H + (t \div 2) - 1], blocks>>]
       IN  [bin \in Indices(3 * H + 4) |->
              IF bin < 2 * H THEN Times(<< <<h[bin], blocks>> >>, weight)
              ELSE IF bin < 3 * H
              THEN Times(<< <<h[bin - 2 * H] + h[bin - H], blocks>> >>, weight)
              ELSE Times(ByRoot(all, bin - 3 * H + 1), weight)]]

bankOfCell(i, j) == CHOOSE b \in Bank : rowOdd(b) = i % 2 /\ colOdd(b) = j % 2

\* The bank of a feature of cell k: its bins in turn after one another.
bankOf(k, bin) ==
    (k + (IF bin < 2 * H THEN 0 ELSE IF bin < 3 * H THEN 1 ELSE 3)) % 4

(* When the cells are read every word of theirs is complete: each pixel    *)
(* has added its share to the four cells around it, also where two pixels  *)
(* in a row add to the same word and the second reads before the first is  *)
(* written (read_write_cell_bram), also those of the last row, whose lines *)
(* move on after the last pixel (histogram), and nothing is left there of  *)
(* the image before.                                                       *)
HistogramsComplete ==
    rda.state # RD_BIN_IDLE \/ rdb.state # RD_BIN_IDLE =>
        \A i, j \in Indices(N), bin \in Indices(2 * H) :
            cells[bankOfCell(i, j)][wordOf(i, j, bin)]
                = Histogram[src.image, i, j][bin]

(* When the writer is done, every feature of every inner cell is in its    *)
(* place and was made of that cell's own bins, the roots of the four sums  *)
(* around that cell and its own weight, though roots, bins, weights and    *)
(* addresses come from counters that never compare notes, with the roots   *)
(* of the next cell coming in and two banks and a half written at a time   *)
(* (normalize_truncate_pca, write_bin0_31_feature).  The last cell's roots *)
(* are thrown away before its bins are read: its weight is zero.           *)
FeaturesRight ==
    wr.done =>
        \A i, j \in Indices(INNER), bin \in Indices(3 * H + 4) :
            LET k == i * INNER + j
            IN  result[bankOf(k, bin)][bin * GROUP + (k \div 4)]
                    = Features[src.image, i, j][bin]

(* An image that is begun ends: its result is written and the cells are    *)
(* clear for the next (hog_ready), although the end of every part is a     *)
(* pulse or a counter that comes round.                                    *)
EveryImageEnds == src.sent > 0 ~> src.sent = 0 /\ clear.ready
=============================================================================
