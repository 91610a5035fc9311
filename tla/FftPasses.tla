------------------------------- MODULE FftPasses -------------------------------
(***************************************************************************)
(* What the FFT engine and the DMA channels do with the trackers' matrices *)
(* and images: the two-dimensional transforms of FFTTask.cpp, the          *)
(* transposition of the features, and the extraction of the window around  *)
(* the target, which may reach beyond the image.                           *)
(*                                                                         *)
(* A transform takes two passes.  In each, the engine transforms the rows  *)
(* and leaves them in a scratch memory, from where the channel stores them *)
(* transposed, real and imaginary parts in one parameter set or in two     *)
(* linked ones (CFftManager.cpp).  The second pass mostly works in place.  *)
(*                                                                         *)
(* Rows have 2 or 4 points: then the roots of unity are powers of i     *)
(* and the arithmetic is exact.  Memory is counted in words of 4 bytes.    *)
(* The engine's scaling of an inverse transform is left out.  An image has *)
(* one pixel in a word; positions in it are multiples of 1 / GRID pixels.  *)
(***************************************************************************)
EXTENDS Integers, Sequences, FiniteSetsExt

CONSTANTS Lens,         \* widths and heights of matrices
          COLS, ROWS,   \* size of the image
          GRID,         \* positions to a pixel
          REQUESTS      \* bound: how many requests are served

ASSUME PassesAssumption ==
    /\ Lens \subseteq {2, 4} /\ REQUESTS \in Nat
    /\ {COLS, ROWS, GRID} \subseteq Nat \ {0}

VARIABLES mem,          \* the words of the buffers
          pc,           \* FFTTskFxn: waiting for a request or for a pass; or the
                        \* tracker waits for its own channel
          req,          \* the request: [eType, nWidth, nHeight, pSrc, pDst, roi]
          fft, dma,     \* the pass the engine is set up for, or <<>>; parameter sets to come
          before,       \* history: the memory when the request came
          served        \* requests so far

passesVars == <<mem, pc, req, fft, dma, before, served>>

-------------------------------------------------------------------------------
(* Complex numbers whose parts are integers.                               *)

C(re, im) == [re |-> re, im |-> im]

\* z times the n-th power of i.
Turn(z, n) == <<z, C(-z.im, z.re), C(-z.re, -z.im), C(z.im, -z.re)>>[(n % 4) + 1]

CSum(S, z(_)) == C(MapThenSumSet(LAMBDA s : z(s).re, S), MapThenSumSet(LAMBDA s : z(s).im, S))

\* The root of unity to turn by, as a power of i.
Root(len, inverse) == (IF inverse THEN 4 ELSE -4) \div len

-------------------------------------------------------------------------------
(* Memory.  A pointer is a buffer and an offset; matrices are stored row   *)
(* by row.                                                                 *)

Points == Max(Lens) * Max(Lens)      \* 32 * 32 in FFTTskFxn
m_pTempR == <<"temp", 0>>
m_pTempI == <<"temp", Points>>
BlockSize == 9 * COLS * ROWS        \* more than a window, 2.5 * 2.5 times the region
Plus(p, n) == <<p[1], p[2] + n>>
WordsAt(p, n) == {Plus(p, k) : k \in 0 .. n - 1}
Fill(S, v) == [p \in S |-> v]

\* Memory m after a write (@@ of TLC, which the proofs cannot use).
Overwrite(w, m) == [p \in DOMAIN w \cup DOMAIN m |-> IF p \in DOMAIN w THEN w[p] ELSE m[p]]

\* One parameter set, AB synchronised and chained to itself until it is done:
\* cCnt frames of bCnt arrays of aCnt words.
Transfer(m, s) ==
    LET K == (0 .. s.aCnt - 1) \X (0 .. s.bCnt - 1) \X (0 .. s.cCnt - 1)
        To(k) == Plus(s.dstAddr, k[1] + k[2] * s.dstBidx + k[3] * s.dstCidx)
        From(k) == Plus(s.srcAddr, k[1] + k[2] * s.srcBidx + k[3] * s.srcCidx)
    IN  Overwrite([p \in {To(k) : k \in K} |-> m[From(CHOOSE k \in K : To(k) = p)]], m)

\* The engine's numbers, and what it makes of them: each row is read whole, then
\* written.
Numbers(f) == f.fftNum * 2 ^ f.fftSize

Spectra(m, f) ==
    LET len == 2 ^ f.fftSize
        In(k) == IF f.cross THEN C(m[Plus(f.srcR, 2 * k)], m[Plus(f.srcR, 2 * k + 1)])
                 ELSE C(m[Plus(f.srcR, k)], IF f.complex THEN m[Plus(f.srcI, k)] ELSE 0)
    IN  [k \in 0 .. Numbers(f) - 1 |->
           CSum(0 .. len - 1, LAMBDA j : Turn(In(k - (k % len) + j),
                                             j * (k % len) * Root(len, f.inverse)))]

FftRows(m, f) ==
    LET n == Numbers(f)
        Out == Spectra(m, f)
        At(base, p) == p[2] - base[2]
    IN  IF f.cross
        THEN Overwrite([p \in WordsAt(f.dstR, 2 * n) |-> IF At(f.dstR, p) % 2 = 0
                                                   THEN Out[At(f.dstR, p) \div 2].re
                                                   ELSE Out[At(f.dstR, p) \div 2].im], m)
        ELSE Overwrite([p \in WordsAt(f.dstR, n) |-> Out[At(f.dstR, p)].re],
                   Overwrite([p \in WordsAt(f.dstI, n) |-> Out[At(f.dstI, p)].im], m))

-------------------------------------------------------------------------------
(* CFftManager: the set-up of a pass.                                      *)

\* The trailing ones of nLength - 1.
getPowOfLen(nLength) ==
    LET ones[tmp \in 0 .. nLength] == IF tmp % 2 = 1 THEN 1 + ones[tmp \div 2] ELSE 0
    IN  ones[nLength - 1]

Param(src, dst, aCnt, nLen, nRows, srcUnit, dstUnit) ==
    [srcAddr |-> src, dstAddr |-> dst, aCnt |-> aCnt, bCnt |-> nLen, cCnt |-> nRows,
     srcBidx |-> srcUnit, dstBidx |-> nRows * dstUnit,
     srcCidx |-> nLen * srcUnit, dstCidx |-> dstUnit]

Split(pSrc, srcI, complex, nLen, nRows) ==
    [srcR |-> pSrc, srcI |-> srcI, dstR |-> m_pTempR, dstI |-> m_pTempI, fftNum |-> nRows,
     complex |-> complex, cross |-> FALSE, inverse |-> FALSE, fftSize |-> getPowOfLen(nLen)]

Cross(pSrc, inverse, nLen, nRows) ==
    [srcR |-> pSrc, srcI |-> pSrc, dstR |-> m_pTempR, dstI |-> m_pTempR, fftNum |-> nRows,
     complex |-> TRUE, cross |-> TRUE, inverse |-> inverse, fftSize |-> getPowOfLen(nLen)]

Pass(config, sets) == [fft |-> config, sets |-> sets]

\* The imaginary parts, transposed, are the next pass's imaginary input.
FFT_R2R_T(pSrc, pDst, nLen, nRows) ==
    Pass(Split(pSrc, m_pTempR, TRUE, nLen, nRows),
         <<Param(m_pTempR, pDst, 1, nLen, nRows, 1, 1),
           Param(m_pTempI, m_pTempR, 1, nLen, nRows, 1, 1)>>)

FFT_R2C_T(pSrc, pDst, nLen, nRows) ==
    Pass(Split(pSrc, pSrc, FALSE, nLen, nRows),
         <<Param(m_pTempR, pDst, 1, nLen, nRows, 1, 2),
           Param(m_pTempI, Plus(pDst, 1), 1, nLen, nRows, 1, 2)>>)

\* Stores each number as [imag, real].
FFT_C2C_T(pSrc, pDst, nLen, nRows) ==
    Pass(Cross(pSrc, FALSE, nLen, nRows),
         <<Param(m_pTempR, Plus(pDst, 1), 1, nLen, nRows, 2, 2),
           Param(Plus(m_pTempR, 1), pDst, 1, nLen, nRows, 2, 2)>>)

\* Stores each number as [real, imag].
FFT_C2C_TN(pSrc, pDst, nLen, nRows) ==
    Pass(Cross(pSrc, FALSE, nLen, nRows), <<Param(m_pTempR, pDst, 2, nLen, nRows, 2, 2)>>)

IFFT_C2C_T(pSrc, pDst, nLen, nRows) ==
    Pass(Cross(pSrc, TRUE, nLen, nRows), <<Param(m_pTempR, pDst, 2, nLen, nRows, 2, 2)>>)

\* Mutant: both parts of a number are stored.
IFFT_C2R_TBoth(pSrc, pDst, nLen, nRows) ==
    Pass(Cross(pSrc, TRUE, nLen, nRows), <<Param(m_pTempR, pDst, 2, nLen, nRows, 2, 1)>>)

\* Stores the real parts.
IFFT_C2R_T(pSrc, pDst, nLen, nRows) ==
    Pass(Cross(pSrc, TRUE, nLen, nRows), <<Param(m_pTempR, pDst, 1, nLen, nRows, 2, 1)>>)

-------------------------------------------------------------------------------
(* CTspsManager: one parameter set, and no engine.                         *)

startTranspose(q) ==
    [srcAddr |-> q.pSrc, dstAddr |-> q.pDst, aCnt |-> 1, bCnt |-> q.nHeight,
     cCnt |-> q.nWidth, srcBidx |-> q.nWidth, dstBidx |-> 1,
     srcCidx |-> 1, dstCidx |-> q.nHeight]

\* round() of C: halves go away from zero.
Round(n, d) == IF n >= 0 THEN (2 * n + d) \div (2 * d) ELSE -((d - 2 * n) \div (2 * d))

\* Mutant: what is left of or above the image is forgotten.
WindowNoMargin(p, size, n) ==
    LET count == Round(5 * size, 2 * GRID)
        lu == Round(2 * p + size - GRID * count, 2 * GRID)
        offset == Max({0, Min({lu, n - 1})})
    IN  [count |-> count, lu |-> lu, from |-> offset, to |-> 0,
         block |-> Min({n, lu + count}) - offset]

\* The window around a region of `size' at p, along an axis of n pixels: pixels,
\* the first one's place in the image, and what is copied of the image: from which
\* pixel, to which place in the window, how many.
Window(p, size, n) ==
    LET count == Round(5 * size, 2 * GRID)             \* m_fPadding = 2.5
        lu == Round(2 * p + size - GRID * count, 2 * GRID)
        rd == lu + count - 1
        offset == CASE lu < 0 -> 0 [] lu > n - 1 -> n - 1 [] lu \in 0 .. n - 1 -> lu
    IN  [count |-> count, lu |-> lu, from |-> offset, to |-> Max({0, -lu}),
         block |-> (IF rd > n - 1 THEN n ELSE rd + 1) - offset]

WindowX(roi) == Window(roi.x, roi.width, COLS)
WindowY(roi) == Window(roi.y, roi.height, ROWS)

startSubWindowExtract(q) ==
    LET X == WindowX(q.roi)
        Y == WindowY(q.roi)
    IN  [srcAddr |-> Plus(q.pSrc, Y.from * COLS + X.from),
         dstAddr |-> Plus(q.pDst, Y.to * X.count + X.to),
         aCnt |-> X.block, bCnt |-> Y.block, cCnt |-> 1,
         srcBidx |-> COLS, dstBidx |-> X.count, srcCidx |-> 0, dstCidx |-> 0]

WindowWords(q) == WordsAt(q.pDst, WindowX(q.roi).count * WindowY(q.roi).count)

-------------------------------------------------------------------------------
(* FFTTskFxn.                                                              *)

FirstPass(q) ==
    CASE q.eType = "FFT2d_R2R" -> FFT_R2R_T(q.pSrc, q.pDst, q.nWidth, q.nHeight)
      [] q.eType \in {"FFT2d_R2C", "FFT2d_R2C_N"} ->
             FFT_R2C_T(q.pSrc, q.pDst, q.nWidth, q.nHeight)
      [] q.eType = "IFFT2d_C2R" -> IFFT_C2C_T(q.pSrc, q.pSrc, q.nWidth, q.nHeight)

SecondPass(q) ==
    CASE q.eType = "FFT2d_R2R" -> FFT_R2R_T(q.pDst, q.pDst, q.nHeight, q.nWidth)
      [] q.eType = "FFT2d_R2C" -> FFT_C2C_T(q.pDst, q.pDst, q.nHeight, q.nWidth)
      [] q.eType = "FFT2d_R2C_N" -> FFT_C2C_TN(q.pDst, q.pDst, q.nHeight, q.nWidth)
      [] q.eType = "IFFT2d_C2R" -> IFFT_C2R_T(q.pSrc, q.pDst, q.nHeight, q.nWidth)

\* Mutant: the scratch memory is not cleared.
ClearedNoTemp(q) ==
    IF q.eType \in {"FFT2d_R2C", "FFT2d_R2C_N"}
    THEN WordsAt(q.pDst, 2 * q.nWidth * q.nHeight) ELSE {}

\* What the processor writes before the first pass: ClearTempR, and the
\* memset of FFT_R2C_T.
Cleared(q) ==
    CASE q.eType = "FFT2d_R2R" -> WordsAt(m_pTempR, q.nWidth * q.nHeight)
      [] q.eType \in {"FFT2d_R2C", "FFT2d_R2C_N"} -> WordsAt(q.pDst, 2 * q.nWidth * q.nHeight)
      [] q.eType = "IFFT2d_C2R" -> {}

\* The processor clears the words, and starts the pass.
Start(m, cleared, pass) ==
    /\ mem' = Overwrite(Fill(cleared, 0), m)
    /\ fft' = <<pass.fft>> /\ dma' = pass.sets

EngineDone == fft = <<>> /\ dma = <<>>

Buffers ==
    WordsAt(<<"src", 0>>, 2 * Points) \cup WordsAt(<<"dst", 0>>, 2 * Points)
    \cup WordsAt(<<"block", 0>>, BlockSize)

\* A request comes with its data; the rest of its buffers holds anything.
Come(q, data) ==
    /\ pc = "get" /\ served < REQUESTS
    /\ req' = q /\ served' = served + 1
    /\ before' = Overwrite([p \in WordsAt(q.pSrc, Len(data)) |-> data[p[2] + 1]],
                       Overwrite([p \in Buffers |-> [src |-> 7, dst |-> 5, block |-> 3][p[1]]],
                                 mem))

Get(q, data) ==
    /\ Come(q, data) /\ pc' = "pass1"
    /\ Start(before', Cleared(q), FirstPass(q))

\* getFeaturesBySw transposes the features; prepareBlock clears the window and
\* copies what the image has of it.  Both wait for hTspsDoneSem.
Transpose(q, data) ==
    /\ Come(q, data) /\ pc' = "tsps"
    /\ mem' = before' /\ fft' = <<>> /\ dma' = <<startTranspose(q)>>

Extract(q, data) ==
    /\ Come(q, data) /\ pc' = "tsps"
    /\ mem' = Overwrite(Fill(WindowWords(q), 0), before')
    /\ fft' = <<>> /\ dma' = <<startSubWindowExtract(q)>>

TspsDone ==
    /\ pc = "tsps" /\ EngineDone /\ pc' = "get"
    /\ UNCHANGED <<mem, req, fft, dma, before, served>>

Engine ==
    /\ fft # <<>>
    /\ mem' = FftRows(mem, fft[1]) /\ fft' = <<>>
    /\ UNCHANGED <<pc, req, dma, before, served>>

\* The engine's end starts the channel; each set links to the next.
Edma ==
    /\ fft = <<>> /\ dma # <<>>
    /\ mem' = Transfer(mem, Head(dma)) /\ dma' = Tail(dma)
    /\ UNCHANGED <<pc, req, fft, before, served>>

\* hFFTHwiSem has been posted.
Pass1 ==
    /\ pc = "pass1" /\ EngineDone
    /\ pc' = "pass2" /\ Start(mem, {}, SecondPass(req))
    /\ UNCHANGED <<req, before, served>>

Pass2 ==
    /\ pc = "pass2" /\ EngineDone /\ pc' = "get"
    /\ UNCHANGED <<mem, req, fft, dma, before, served>>

Idle == pc = "get" /\ served = REQUESTS /\ UNCHANGED passesVars

-------------------------------------------------------------------------------
(* What the trackers ask for: transforms of real matrices in place, if the *)
(* result is real because the matrix is symmetric about its origin, and    *)
(* from one buffer to another.  As all steps are linear, a matrix with one *)
(* element (or a symmetric pair) at each place stands for all.             *)

NoRoi == [x |-> 0, y |-> 0, width |-> GRID, height |-> GRID]

Request(t, w, h) ==
    [eType |-> t, nWidth |-> w, nHeight |-> h, pSrc |-> <<"src", 0>>,
     pDst |-> IF t = "FFT2d_R2R" THEN <<"src", 0>> ELSE <<"dst", 0>>, roi |-> NoRoi]

WindowRequest(roi) ==
    [eType |-> "window", nWidth |-> COLS, nHeight |-> ROWS, pSrc |-> <<"src", 0>>,
     pDst |-> <<"block", 0>>, roi |-> roi]

\* Where the target is looked for: update moves it by what detect found and then
\* brings it back into the image, if need be by making it smaller for good.
MovedPos(p, d, n) == Max({0, Min({p + d, GRID * (n - 1)})})
MovedSize(p, size, d, n) == Min({size, GRID * n - MovedPos(p, d, n)})

Moved(r, dx, dy) ==
    [x |-> MovedPos(r.x, dx, COLS), y |-> MovedPos(r.y, dy, ROWS),
     width |-> MovedSize(r.x, r.width, dx, COLS),
     height |-> MovedSize(r.y, r.height, dy, ROWS)]

InImage(p, size, n) == p >= 0 /\ size >= GRID /\ p + size <= GRID * n

\* One update from any region that lies in the image.
Places(n) == {z \in (0 .. GRID * n) \X (0 .. GRID * n) : InImage(z[1], z[2], n)}
Moves(n) == -GRID * n .. GRID * n

Rois ==
    {Moved([x |-> a[1], width |-> a[2], y |-> b[1], height |-> b[2]], dx, dy) :
        a \in Places(COLS), b \in Places(ROWS), dx \in Moves(COLS), dy \in Moves(ROWS)}

\* A sequence of n words: 1 at the places in K.
Ones(n, K) == [k \in 1 .. n |-> IF k - 1 \in K THEN 1 ELSE 0]
Opposite(k, w, h) == ((-(k \div w)) % h) * w + ((-(k % w)) % w)

Inputs(q) ==
    LET n == q.nWidth * q.nHeight
    IN  CASE q.eType = "FFT2d_R2R" ->
               {Ones(n, {k, Opposite(k, q.nWidth, q.nHeight)}) : k \in 0 .. n - 1}
          [] q.eType \in {"FFT2d_R2C", "FFT2d_R2C_N"} -> {Ones(n, {k}) : k \in 0 .. n - 1}
          [] q.eType = "IFFT2d_C2R" -> {Ones(2 * n, {k}) : k \in 0 .. 2 * n - 1}

\* All elements differ.
Numbered(n) == [k \in 1 .. n |-> k]

Types == {"FFT2d_R2R", "FFT2d_R2C", "FFT2d_R2C_N", "IFFT2d_C2R"}

NoRequest == Request("IFFT2d_C2R", 2, 2)

\* The scratch memory comes uninitialised from memalign: its words differ.
PassesInit ==
    /\ mem = [p \in Buffers \cup WordsAt(m_pTempR, 2 * Points) |-> p[2]]
    /\ pc = "get" /\ req = NoRequest /\ fft = <<>> /\ dma = <<>>
    /\ before = mem /\ served = 0

PassesNext ==
    \/ \E t \in Types, w, h \in Lens :
          \E data \in Inputs(Request(t, w, h)) : Get(Request(t, w, h), data)
    \/ \E w, h \in Lens : Transpose(Request("transpose", w, h), Numbered(w * h))
    \/ \E roi \in Rois : Extract(WindowRequest(roi), Numbered(COLS * ROWS))
    \/ Engine \/ Edma \/ Pass1 \/ Pass2 \/ TspsDone \/ Idle

PassesSpec == PassesInit /\ [][PassesNext]_passesVars

-------------------------------------------------------------------------------
(* Properties.                                                             *)

\* The matrix of a request, and its two-dimensional transform by definition.
Element(q, r, c) ==
    LET k == r * q.nWidth + c
    IN  IF q.eType = "IFFT2d_C2R"
        THEN C(before[Plus(q.pSrc, 2 * k)], before[Plus(q.pSrc, 2 * k + 1)])
        ELSE C(before[Plus(q.pSrc, k)], 0)

Transform(q, u, v) ==
    LET inverse == q.eType = "IFFT2d_C2R"
    IN  CSum((0 .. q.nHeight - 1) \X (0 .. q.nWidth - 1),
             LAMBDA k : Turn(Element(q, k[1], k[2]),
                             u * k[1] * Root(q.nHeight, inverse)
                             + v * k[2] * Root(q.nWidth, inverse)))

\* The words of the result: real, [imag, real] or [real, imag] for each number.
ResultWords(q) ==
    CASE q.eType = "window" -> WindowWords(q)
      [] q.eType \in {"FFT2d_R2R", "IFFT2d_C2R", "transpose"} ->
             WordsAt(q.pDst, q.nWidth * q.nHeight)
      [] q.eType \in {"FFT2d_R2C", "FFT2d_R2C_N"} -> WordsAt(q.pDst, 2 * q.nWidth * q.nHeight)

TransformRight(q) ==
    \A u \in 0 .. q.nHeight - 1, v \in 0 .. q.nWidth - 1 :
        LET k == u * q.nWidth + v
            z == Transform(q, u, v)
        IN  CASE q.eType \in {"FFT2d_R2R", "IFFT2d_C2R"} -> mem[Plus(q.pDst, k)] = z.re
              [] q.eType = "FFT2d_R2C" ->
                   /\ mem[Plus(q.pDst, 2 * k)] = z.im
                   /\ mem[Plus(q.pDst, 2 * k + 1)] = z.re
              [] q.eType = "FFT2d_R2C_N" ->
                   /\ mem[Plus(q.pDst, 2 * k)] = z.re
                   /\ mem[Plus(q.pDst, 2 * k + 1)] = z.im

TransposeRight(q) ==
    \A u \in 0 .. q.nHeight - 1, v \in 0 .. q.nWidth - 1 :
        mem[Plus(q.pDst, v * q.nHeight + u)] = before[Plus(q.pSrc, u * q.nWidth + v)]

\* The window has its region in the middle, to half a pixel.
Centred(W, p, size) ==
    2 * (GRID * W.lu) + GRID * W.count - (2 * p + size) \in -GRID .. GRID

WindowRight(q) ==
    LET X == WindowX(q.roi)
        Y == WindowY(q.roi)
        Pixel(r, c) == IF r \in 0 .. ROWS - 1 /\ c \in 0 .. COLS - 1
                       THEN before[Plus(q.pSrc, r * COLS + c)] ELSE 0
    IN  /\ InImage(q.roi.x, q.roi.width, COLS) /\ Centred(X, q.roi.x, q.roi.width)
        /\ InImage(q.roi.y, q.roi.height, ROWS) /\ Centred(Y, q.roi.y, q.roi.height)
        /\ \A r \in 0 .. Y.count - 1, c \in 0 .. X.count - 1 :
               mem[Plus(q.pDst, r * X.count + c)] = Pixel(Y.lu + r, X.lu + c)

\* When core 3 notifies, the destination holds the transform of the matrix that
\* was sent, not transposed, in the order of parts the tracker multiplies or
\* sends back; whatever request was served before (FFTTask.cpp:55-99,
\* CFftManager.cpp:113-545).
TransformIsRight == pc = "get" /\ served > 0 /\ req.eType \in Types => TransformRight(req)

\* When the channel is done, the features are transposed.  The region stays in
\* the image and never vanishes, and the window around it holds the image where
\* there is one and zeros elsewhere (Kcf_SF/src/CKcfTracker.cpp:374-437, 1058-1079).
CopyIsRight ==
    pc = "get" /\ served > 0 =>
        /\ req.eType = "transpose" => TransposeRight(req)
        /\ req.eType = "window" => WindowRight(req)

\* A request only ever changes its result's words; the inverse transform also
\* uses up its source.  The trackers rely on it: they use the features they sent
\* again, and their buffers lie next to each other (CKcfTracker.cpp:288-307).
NothingElseWritten ==
    \A p \in DOMAIN mem :
        \/ p[1] = "temp" \/ p \in ResultWords(req)
        \/ p \in DOMAIN before /\ mem[p] = before[p]
        \/ req.eType = "IFFT2d_C2R" /\ p \in WordsAt(req.pSrc, 2 * req.nWidth * req.nHeight)
================================================================================
