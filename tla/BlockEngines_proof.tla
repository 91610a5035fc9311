-------------------------- MODULE BlockEngines_proof --------------------------
(***************************************************************************)
(* Proofs about the two engines that move the trackers' blocks.            *)
(*                                                                         *)
(* The FFT engine and the DMA channels (FftPasses), for images of any size *)
(* and positions of any precision: a request changes its own words and the *)
(* scratch memory only, and the copies (the transposition and the window   *)
(* around the target) are right.  That the two passes of a request leave   *)
(* the transform is left to TLC.                                           *)
(*                                                                         *)
(* The FHOG accelerator's AXI master (HogTrans), for blocks, results,      *)
(* bursts and pages of any size, as far as BlockAssumption allows them,    *)
(* and all delays of the memory: the beats asked for are the beats taken,  *)
(* the bytes lie in the banks where the scaler looks for them when it      *)
(* looks, and the features leave in order.                                 *)
(***************************************************************************)
EXTENDS FftPasses, HogTrans, SequenceTheorems, TLAPS

(***************************************************************************)
(*                 FftPasses                                               *)
(***************************************************************************)

-----------------------------------------------------------------------------
(* Row-major order.                                                        *)

LEMMA RowMajor ==
  ASSUME NEW a \in Int, NEW b \in Int, NEW m \in Int, NEW n \in Int,
         0 <= a, a < m, 0 <= b, b < n
  PROVE  a * n + b \in Int /\ 0 <= a * n + b /\ a * n + b < m * n
<1>1. a * n \in Int /\ m * n \in Int /\ 0 <= a * n
  OBVIOUS
<1>2. (a + 1) * n = a * n + n
  OBVIOUS
<1>3. (a + 1) * n <= m * n
  OBVIOUS
<1> QED
  BY <1>1, <1>2, <1>3

LEMMA OnePlace ==
  ASSUME NEW a \in Int, NEW b \in Int, NEW c \in Int, NEW d \in Int, NEW n \in Int,
         0 <= b, b < n, 0 <= d, d < n, a * n + b = c * n + d
  PROVE  a = c /\ b = d
<1>1. ~(a < c)
  <2> SUFFICES ASSUME a < c PROVE FALSE
    OBVIOUS
  <2>1. (a + 1) * n <= c * n
    OBVIOUS
  <2>2. (a + 1) * n = a * n + n /\ a * n \in Int /\ c * n \in Int
    OBVIOUS
  <2> QED
    BY <2>1, <2>2
<1>2. ~(c < a)
  <2> SUFFICES ASSUME c < a PROVE FALSE
    OBVIOUS
  <2>1. (c + 1) * n <= a * n
    OBVIOUS
  <2>2. (c + 1) * n = c * n + n /\ a * n \in Int /\ c * n \in Int
    OBVIOUS
  <2> QED
    BY <2>1, <2>2
<1> QED
  BY <1>1, <1>2

-----------------------------------------------------------------------------
(* Minimum, maximum and rounding.                                          *)

LEMMA MinOfTwo ==
  ASSUME NEW a \in Int, NEW b \in Int
  PROVE  Min({a, b}) = IF a <= b THEN a ELSE b
<1>1. \E x \in {a, b} : \A y \in {a, b} : x =< y
  OBVIOUS
<1> QED
  BY <1>1 DEF Min

LEMMA MaxOfTwo ==
  ASSUME NEW a \in Int, NEW b \in Int
  PROVE  Max({a, b}) = IF a >= b THEN a ELSE b
<1>1. \E x \in {a, b} : \A y \in {a, b} : x >= y
  OBVIOUS
<1> QED
  BY <1>1 DEF Max

\* round() is off by at most a half.
LEMMA RoundFacts ==
  ASSUME NEW x \in Int, NEW g \in Int, g > 0
  PROVE  /\ Round(x, 2 * g) \in Int
         /\ 2 * g * Round(x, 2 * g) - x \in -g .. g
<1>0. PICK d \in Int : d = 4 * g
  OBVIOUS
<1>1. \A a \in Int : /\ a \div d \in Int /\ a % d \in Int
                     /\ a = d * (a \div d) + (a % d)
                     /\ 0 <= a % d /\ a % d < d
  BY <1>0
<1>2. CASE x >= 0
  <2>1. PICK a \in Int : a = 2 * x + 2 * g
    OBVIOUS
  <2>2. PICK q \in Int : q = a \div d
    BY <1>1
  <2>3. PICK row \in Int : row = a % d
    BY <1>1
  <2>4. a = d * q + row /\ 0 <= row /\ row < d
    BY <1>1, <2>2, <2>3
  <2>5. Round(x, 2 * g) = q
    BY <1>0, <1>2, <2>1, <2>2 DEF Round
  <2>6. PICK y \in Int : y = g * q
    OBVIOUS
  <2>7. d * q = 4 * y /\ 2 * g * q = 2 * y
    BY <1>0, <2>6
  <2> QED
    BY <1>0, <2>1, <2>4, <2>5, <2>7
<1>3. CASE x < 0
  <2>0. 2 * g - 2 * x \in Int
    OBVIOUS
  <2>1. PICK a \in Int : a = 2 * g - 2 * x
    BY <2>0
  <2>2. PICK q \in Int : q = a \div d
    BY <1>1
  <2>3. PICK row \in Int : row = a % d
    BY <1>1
  <2>4. a = d * q + row /\ 0 <= row /\ row < d
    BY <1>1, <2>2, <2>3
  <2>5. Round(x, 2 * g) = -q
    BY <1>0, <1>3, <2>1, <2>2 DEF Round
  <2>6. PICK y \in Int : y = g * q
    OBVIOUS
  <2>7. d * q = 4 * y /\ 2 * g * (-q) = -(2 * y)
    BY <1>0, <2>6
  <2> QED
    BY <1>0, <2>1, <2>4, <2>5, <2>7
<1> QED
  BY <1>2, <1>3

\* The part of the image that is copied into the window W lies in both, and what
\* is not copied lies outside the image.
InBoth(W, n) ==
    /\ W.count \in Int /\ W.lu \in Int /\ W.from \in Int /\ W.to \in Int /\ W.block \in Int
    /\ 1 <= W.count /\ 0 <= W.to /\ 0 <= W.from
    /\ W.to + W.block <= W.count /\ W.from + W.block <= n
    /\ W.from = W.lu + W.to
    /\ \A c \in 0 .. W.count - 1 : c - W.to \in 0 .. W.block - 1 <=> W.lu + c \in 0 .. n - 1

LEMMA WindowFacts ==
  ASSUME NEW p \in Int, NEW size \in Int, NEW n \in Int, n >= 1, InImage(p, size, n)
  PROVE  /\ InBoth(Window(p, size, n), n)
         /\ Centred(Window(p, size, n), p, size)
<1>1. PICK g \in Int : g = GRID
  BY PassesAssumption
<1>2. g >= 1
  BY <1>1, PassesAssumption
<1>3. p >= 0 /\ size >= g /\ p + size <= g * n
  BY <1>1 DEF InImage
<1>a. \A y \in Int : /\ Round(y, 2 * g) \in Int
                     /\ 2 * g * Round(y, 2 * g) - y \in -g .. g
  <2>1. g > 0
    BY <1>2
  <2> QED
    BY <2>1, RoundFacts
<1>b. PICK y \in Int : y = 5 * size
  OBVIOUS
<1>4. PICK count \in Int : count = Round(y, 2 * g)
  BY <1>a
<1>5. 2 * g * count - 5 * size \in -g .. g
  BY <1>a, <1>b, <1>4
<1>6. PICK x \in Int : x = 2 * p + size - g * count
  <2>1. 2 * p + size - g * count \in Int
    OBVIOUS
  <2> QED
    BY <2>1
<1>7. PICK lu \in Int : lu = Round(x, 2 * g)
  BY <1>a
<1>8. 2 * g * lu - x \in -g .. g
  BY <1>a, <1>7
<1>9. PICK gc \in Int : gc = g * count
  OBVIOUS
<1>10. PICK gl \in Int : gl = g * lu
  OBVIOUS
<1>11. PICK gn \in Int : gn = g * n
  OBVIOUS
<1>12. /\ 2 * gc - 5 * size \in -g .. g /\ x = 2 * p + size - gc
       /\ 2 * gl - x \in -g .. g /\ p + size <= gn
  <2>1. 2 * g * count = 2 * gc /\ 2 * g * lu = 2 * gl
    BY <1>9, <1>10
  <2> QED
    BY <1>3, <1>5, <1>6, <1>8, <1>9, <1>11, <2>1
<1>13. count >= 1
  <2>1. gc >= 2 * g
    BY <1>2, <1>3, <1>12
  <2> QED
    BY <1>2, <1>9, <2>1
<1>14. lu <= n - 1
  <2>1. gl <= gn - g
    BY <1>2, <1>3, <1>12
  <2>2. g * lu <= g * (n - 1)
    BY <1>10, <1>11, <2>1
  <2> QED
    BY <1>2, <2>2
<1>15. lu + count >= 1
  <2>1. gl + gc >= g
    BY <1>2, <1>3, <1>12
  <2>2. g * (lu + count) >= g
    BY <1>9, <1>10, <2>1
  <2>3. lu + count \in Int
    OBVIOUS
  <2> QED
    BY <1>2, <2>2, <2>3
<1> DEFINE from == IF lu < 0 THEN 0 ELSE lu
           to == IF lu < 0 THEN -lu ELSE 0
           block == (IF lu + count > n THEN n ELSE lu + count) - from
<1>16. Window(p, size, n) =
         [count |-> count, lu |-> lu, from |-> from, to |-> to, block |-> block]
  <2>1. Round(5 * size, 2 * GRID) = count
    BY <1>1, <1>b, <1>4
  <2>2. Round(2 * p + size - GRID * count, 2 * GRID) = lu
    BY <1>1, <1>6, <1>7
  <2>3. Max({0, -lu}) = to
    BY MaxOfTwo
  <2>4. (CASE lu < 0 -> 0 [] lu > n - 1 -> n - 1 [] lu \in 0 .. n - 1 -> lu) = from
    BY <1>14
  <2>5. (IF lu + count - 1 > n - 1 THEN n ELSE lu + count - 1 + 1) =
        IF lu + count > n THEN n ELSE lu + count
    OBVIOUS
  <2> HIDE DEF from, to
  <2> QED
    BY <2>1, <2>2, <2>3, <2>4, <2>5 DEF Window
<1>17. Centred(Window(p, size, n), p, size)
  <2>1. Window(p, size, n).lu = lu /\ Window(p, size, n).count = count
    BY <1>16
  <2>2. 2 * (g * lu) + g * count - (2 * p + size) = 2 * gl + gc - (2 * p + size)
    BY <1>9, <1>10
  <2>3. 2 * gl + gc - (2 * p + size) \in -g .. g
    BY <1>12
  <2> QED
    BY <1>1, <2>1, <2>2, <2>3 DEF Centred
<1>18. InBoth(Window(p, size, n), n)
  BY <1>13, <1>14, <1>15, <1>16 DEF InBoth
<1> QED
  BY <1>17, <1>18

\* update leaves the region in the image, and it never vanishes.
LEMMA RegionStays ==
  ASSUME NEW p \in Int, NEW size \in Int, NEW d \in Int, NEW n \in Int, n >= 1,
         InImage(p, size, n)
  PROVE  /\ MovedPos(p, d, n) \in Int /\ MovedSize(p, size, d, n) \in Int
         /\ InImage(MovedPos(p, d, n), MovedSize(p, size, d, n), n)
<1>1. PICK g \in Int : g = GRID
  BY PassesAssumption
<1>2. g >= 1
  BY <1>1, PassesAssumption
<1>3. PICK gn \in Int : gn = g * n
  OBVIOUS
<1>4. gn >= g /\ g * (n - 1) = gn - g
  BY <1>2, <1>3
<1>5. MovedPos(p, d, n) = IF p + d <= gn - g THEN IF 0 >= p + d THEN 0 ELSE p + d ELSE gn - g
  <2>1. Min({p + d, gn - g}) = IF p + d <= gn - g THEN p + d ELSE gn - g
    BY MinOfTwo
  <2>2. PICK m \in Int : m = Min({p + d, gn - g})
    BY <2>1
  <2>3. Max({0, m}) = IF 0 >= m THEN 0 ELSE m
    BY MaxOfTwo
  <2>4. MovedPos(p, d, n) = Max({0, m})
    BY <1>1, <1>4, <2>2 DEF MovedPos
  <2> QED
    BY <1>4, <2>1, <2>2, <2>3, <2>4
<1>6. PICK q \in Int : q = MovedPos(p, d, n)
  BY <1>5
<1>7. MovedSize(p, size, d, n) = IF size <= gn - q THEN size ELSE gn - q
  <2>1. gn - q \in Int
    OBVIOUS
  <2>2. Min({size, gn - q}) = IF size <= gn - q THEN size ELSE gn - q
    BY <2>1, MinOfTwo
  <2> QED
    BY <1>1, <1>3, <1>6, <2>2 DEF MovedSize
<1> QED
  BY <1>1, <1>2, <1>3, <1>4, <1>5, <1>6, <1>7 DEF InImage

-----------------------------------------------------------------------------
(* Memory and transfers.                                                   *)

LEMMA OverwriteFacts ==
  ASSUME NEW wd, NEW m
  PROVE  /\ DOMAIN Overwrite(wd, m) = DOMAIN wd \cup DOMAIN m
         /\ \A p \in DOMAIN wd : Overwrite(wd, m)[p] = wd[p]
         /\ \A p \in DOMAIN m : p \notin DOMAIN wd => Overwrite(wd, m)[p] = m[p]
BY DEF Overwrite

LEMMA FillFacts ==
  ASSUME NEW S, NEW v, NEW m
  PROVE  /\ DOMAIN Overwrite(Fill(S, v), m) = S \cup DOMAIN m
         /\ \A p \in S : Overwrite(Fill(S, v), m)[p] = v
         /\ \A p \in DOMAIN m : p \notin S => Overwrite(Fill(S, v), m)[p] = m[p]
BY DEF Overwrite, Fill

LEMMA WordsAtFacts ==
  ASSUME NEW b, NEW o \in Int, NEW n \in Int
  PROVE  /\ \A k \in Int : Plus(<<b, o>>, k) = <<b, o + k>>
         /\ \A k \in 0 .. n - 1 : <<b, o + k>> \in WordsAt(<<b, o>>, n)
         /\ \A p \in WordsAt(<<b, o>>, n) : \E k \in 0 .. n - 1 : p = <<b, o + k>>
BY DEF Plus, WordsAt

\* The steps of a transfer, and the words it goes from and to.
Steps(s) == (0 .. s.aCnt - 1) \X (0 .. s.bCnt - 1) \X (0 .. s.cCnt - 1)
To(s, k) == Plus(s.dstAddr, k[1] + k[2] * s.dstBidx + k[3] * s.dstCidx)
From(s, k) == Plus(s.srcAddr, k[1] + k[2] * s.srcBidx + k[3] * s.srcCidx)

LEMMA TransferFacts ==
  ASSUME NEW m, NEW s
  PROVE  /\ DOMAIN Transfer(m, s) = {To(s, k) : k \in Steps(s)} \cup DOMAIN m
         /\ \A p \in DOMAIN m : p \notin {To(s, k) : k \in Steps(s)} => Transfer(m, s)[p] = m[p]
         /\ \A k \in Steps(s) :
               (\A l \in Steps(s) : To(s, l) = To(s, k) => l = k)
                 => Transfer(m, s)[To(s, k)] = m[From(s, k)]
<1> DEFINE K == Steps(s)
           wd == [p \in {To(s, k) : k \in K} |-> m[From(s, CHOOSE k \in K : To(s, k) = p)]]
<1>1. Transfer(m, s) = Overwrite(wd, m)
  BY DEF Transfer, To, From, Steps
<1>2. DOMAIN wd = {To(s, k) : k \in K}
  OBVIOUS
<1>3. ASSUME NEW k \in K, \A l \in K : To(s, l) = To(s, k) => l = k
      PROVE  wd[To(s, k)] = m[From(s, k)]
  <2> HIDE DEF K
  <2>1. (CHOOSE l \in K : To(s, l) = To(s, k)) = k
    BY <1>3
  <2>2. To(s, k) \in {To(s, l) : l \in K}
    OBVIOUS
  <2> QED
    BY <2>1, <2>2
<1> HIDE DEF wd
<1>4. ASSUME NEW k \in K PROVE Overwrite(wd, m)[To(s, k)] = wd[To(s, k)]
  <2>1. To(s, k) \in DOMAIN wd
    BY <1>2
  <2> QED
    BY <2>1 DEF Overwrite
<1>5. /\ DOMAIN Overwrite(wd, m) = DOMAIN wd \cup DOMAIN m
      /\ \A p \in DOMAIN m : p \notin DOMAIN wd => Overwrite(wd, m)[p] = m[p]
  BY OverwriteFacts
<1>6. \A k \in K : (\A l \in K : To(s, l) = To(s, k) => l = k)
                     => Overwrite(wd, m)[To(s, k)] = m[From(s, k)]
  BY <1>3, <1>4
<1> QED
  BY <1>1, <1>2, <1>5, <1>6

LEMMA TransferKeeps ==
  ASSUME NEW m, NEW s, NEW p \in DOMAIN m, \A k \in Steps(s) : To(s, k) # p
  PROVE  Transfer(m, s)[p] = m[p]
<1>1. p \notin {To(s, k) : k \in Steps(s)}
  OBVIOUS
<1> QED
  BY <1>1, TransferFacts

LEMMA TransferStores ==
  ASSUME NEW m, NEW s, NEW k \in Steps(s), \A l \in Steps(s) : To(s, l) = To(s, k) => l = k
  PROVE  Transfer(m, s)[To(s, k)] = m[From(s, k)]
<1>1. \A j \in Steps(s) : (\A l \in Steps(s) : To(s, l) = To(s, j) => l = j)
                             => Transfer(m, s)[To(s, j)] = m[From(s, j)]
  BY TransferFacts
<1> QED
  BY <1>1

-----------------------------------------------------------------------------
(* Requests, and what each may write.                                      *)

Requests ==
    {Request(t, wd, h) : t \in Types \cup {"transpose"}, wd \in {2, 4}, h \in {2, 4}}
    \cup {WindowRequest(roi) : roi \in Rois}

Mine(q, p) ==
    \/ p[1] = "temp" \/ p \in ResultWords(q)
    \/ q.eType = "IFFT2d_C2R" /\ p \in WordsAt(q.pSrc, 2 * q.nWidth * q.nHeight)

SetFits(q, s) == \A k \in Steps(s) : Mine(q, To(s, k))

SetsFit(q, sets) ==
    \/ sets = <<>>
    \/ \E s : sets = <<s>> /\ SetFits(q, s)
    \/ \E s, t : sets = <<s, t>> /\ SetFits(q, s) /\ SetFits(q, t)

ToTemp(f) == f.dstR[1] = "temp" /\ f.dstI[1] = "temp"

LEMMA TransformRequest ==
  ASSUME NEW q \in Requests, q.eType \in Types \cup {"transpose"}
  PROVE  /\ q.nWidth \in {2, 4} /\ q.nHeight \in {2, 4} /\ q.pSrc = <<"src", 0>>
         /\ q.pDst = IF q.eType = "FFT2d_R2R" THEN <<"src", 0>> ELSE <<"dst", 0>>
BY DEF Requests, Request, WindowRequest, Types

LEMMA RoiFacts ==
  ASSUME NEW roi \in Rois
  PROVE  /\ roi.x \in Int /\ roi.y \in Int /\ roi.width \in Int /\ roi.height \in Int
         /\ InImage(roi.x, roi.width, COLS) /\ InImage(roi.y, roi.height, ROWS)
<1>1. COLS \in Int /\ ROWS \in Int /\ GRID \in Int /\ COLS >= 1 /\ ROWS >= 1
  BY PassesAssumption
<1>2. PICK a \in Places(COLS), b \in Places(ROWS), dx \in Moves(COLS), dy \in Moves(ROWS) :
         roi = Moved([x |-> a[1], width |-> a[2], y |-> b[1], height |-> b[2]], dx, dy)
  BY DEF Rois
<1>3. a[1] \in Int /\ a[2] \in Int /\ InImage(a[1], a[2], COLS)
  BY DEF Places
<1>4. b[1] \in Int /\ b[2] \in Int /\ InImage(b[1], b[2], ROWS)
  BY DEF Places
<1>5. dx \in Int /\ dy \in Int
  BY <1>1 DEF Moves
<1>6. /\ roi.x = MovedPos(a[1], dx, COLS) /\ roi.width = MovedSize(a[1], a[2], dx, COLS)
      /\ roi.y = MovedPos(b[1], dy, ROWS) /\ roi.height = MovedSize(b[1], b[2], dy, ROWS)
  BY <1>2 DEF Moved
<1>7. /\ roi.x \in Int /\ roi.width \in Int /\ InImage(roi.x, roi.width, COLS)
  BY <1>1, <1>3, <1>5, <1>6, RegionStays
<1>8. /\ roi.y \in Int /\ roi.height \in Int /\ InImage(roi.y, roi.height, ROWS)
  BY <1>1, <1>4, <1>5, <1>6, RegionStays
<1> QED
  BY <1>7, <1>8

\* The words a parameter set of CFftManager stores to.
LEMMA ParamFits ==
  ASSUME NEW src, NEW b, NEW o \in Int, NEW a \in Int, NEW n \in {2, 4},
         NEW row \in {2, 4},
         NEW su, NEW u \in Int, 0 <= o, o + a <= u, u \in {1, 2},
         NEW s, s = Param(src, <<b, o>>, a, n, row, su, u), NEW k \in Steps(s)
  PROVE  To(s, k) \in WordsAt(<<b, 0>>, u * n * row)
<1>1. /\ s.aCnt = a /\ s.bCnt = n /\ s.cCnt = row /\ s.dstAddr = <<b, o>>
      /\ s.dstBidx = row * u /\ s.dstCidx = u
  BY DEF Param
<1>2. k \in (0 .. a - 1) \X (0 .. n - 1) \X (0 .. row - 1)
  BY <1>1 DEF Steps
<1>3. PICK x \in Int : x = k[1]
  BY <1>2
<1>4. PICK y \in Int : y = k[2]
  BY <1>2
<1>5. PICK z \in Int : z = k[3]
  BY <1>2
<1>6. x \in 0 .. a - 1 /\ y \in 0 .. n - 1 /\ z \in 0 .. row - 1
  BY <1>2, <1>3, <1>4, <1>5
<1>7. To(s, k) = Plus(<<b, o>>, x + y * (row * u) + z * u)
  BY <1>1, <1>3, <1>4, <1>5 DEF To
<1>8. o + (x + y * (row * u) + z * u) \in 0 .. u * n * row - 1
  <2>1. CASE u = 1
    BY <1>6, <2>1
  <2>2. CASE u = 2
    BY <1>6, <2>2
  <2> QED
    BY <2>1, <2>2
<1>9. Plus(<<b, o>>, x + y * (row * u) + z * u) = <<b, o + (x + y * (row * u) + z * u)>>
  BY DEF Plus
<1>10. PICK i \in 0 .. u * n * row - 1 : i = o + (x + y * (row * u) + z * u)
  BY <1>8
<1> QED
  BY <1>7, <1>9, <1>10 DEF WordsAt, Plus

LEMMA ParamMine ==
  ASSUME NEW q, NEW src, NEW b, NEW o \in Int, NEW a \in Int, NEW n \in {2, 4},
         NEW row \in {2, 4},
         NEW su, NEW u \in Int, 0 <= o, o + a <= u, u \in {1, 2},
         b = "temp" \/ \A p \in WordsAt(<<b, 0>>, u * n * row) : Mine(q, p)
  PROVE  SetFits(q, Param(src, <<b, o>>, a, n, row, su, u))
<1> DEFINE s == Param(src, <<b, o>>, a, n, row, su, u)
<1> SUFFICES ASSUME NEW k \in Steps(s) PROVE Mine(q, To(s, k))
  BY DEF SetFits
<1>1. To(s, k) \in WordsAt(<<b, 0>>, u * n * row)
  BY ParamFits
<1>2. ASSUME b = "temp" PROVE To(s, k)[1] = "temp"
  BY <1>1, <1>2 DEF WordsAt, Plus
<1> QED
  BY <1>1, <1>2 DEF Mine

LEMMA PassesFit ==
  ASSUME NEW q \in Requests, q.eType \in Types
  PROVE  /\ SetsFit(q, FirstPass(q).sets) /\ ToTemp(FirstPass(q).fft)
         /\ SetsFit(q, SecondPass(q).sets) /\ ToTemp(SecondPass(q).fft)
<1>a. PICK zero \in Int : zero = 0
  OBVIOUS
<1>b. PICK one \in Int : one = 1
  OBVIOUS
<1>c. PICK two \in Int : two = 2
  OBVIOUS
<1>d. 0 <= zero /\ zero + one <= one /\ zero + two <= two /\ one \in {1, 2} /\ two \in {1, 2}
  BY <1>a, <1>b, <1>c
<1>1. PICK wd \in {2, 4} : wd = q.nWidth
  BY TransformRequest
<1>2. PICK h \in {2, 4} : h = q.nHeight
  BY TransformRequest
<1>3. /\ q.pSrc = <<"src", 0>>
      /\ q.pDst = IF q.eType = "FFT2d_R2R" THEN <<"src", 0>> ELSE <<"dst", 0>>
  BY TransformRequest
<1>4. m_pTempR = <<"temp", 0>> /\ m_pTempI[1] = "temp"
  BY DEF m_pTempR, m_pTempI
<1>5. \A x \in {2, 4}, y \in {2, 4} : 1 * x * y = x * y /\ x * y = y * x /\ 2 * x * y = 2 * y * x
  OBVIOUS
<1>6. CASE q.eType = "FFT2d_R2R"
  <2>1. \A p \in WordsAt(<<"src", 0>>, wd * h) : Mine(q, p)
    BY <1>1, <1>2, <1>3, <1>6 DEF Mine, ResultWords
  <2>2. /\ FirstPass(q) = FFT_R2R_T(<<"src", 0>>, <<"src", 0>>, wd, h)
        /\ SecondPass(q) = FFT_R2R_T(<<"src", 0>>, <<"src", 0>>, h, wd)
    BY <1>1, <1>2, <1>3, <1>6 DEF FirstPass, SecondPass
  <2>3. ASSUME NEW n \in {2, 4},
         NEW row \in {2, 4}, n * row = wd * h,
               NEW e, e = FFT_R2R_T(<<"src", 0>>, <<"src", 0>>, n, row)
        PROVE  SetsFit(q, e.sets) /\ ToTemp(e.fft)
    <3>1. SetFits(q, Param(m_pTempR, <<"src", 0>>, 1, n, row, 1, 1))
      <4>1. \A p \in WordsAt(<<"src", 0>>, one * n * row) : Mine(q, p)
        BY <1>a, <1>b, <1>5, <2>1, <2>3
      <4>2. SetFits(q, Param(m_pTempR, <<"src", zero>>, one, n, row, one, one))
        BY <1>d, <4>1, ParamMine
      <4> QED
        BY <1>a, <1>b, <4>2
    <3>2. SetFits(q, Param(m_pTempI, <<"temp", 0>>, 1, n, row, 1, 1))
      <4>1. SetFits(q, Param(m_pTempI, <<"temp", zero>>, one, n, row, one, one))
        BY <1>d, ParamMine
      <4> QED
        BY <1>a, <1>b, <4>1
    <3> QED
      BY <1>4, <2>3, <3>1, <3>2 DEF FFT_R2R_T, Pass, Split, ToTemp, SetsFit
  <2> QED
    BY <1>5, <2>2, <2>3
<1>7. CASE q.eType \in {"FFT2d_R2C", "FFT2d_R2C_N"}
  <2>1. \A p \in WordsAt(<<"dst", 0>>, 2 * wd * h) : Mine(q, p)
    BY <1>1, <1>2, <1>3, <1>7 DEF Mine, ResultWords
  <2>2. ASSUME NEW src, NEW n \in {2, 4},
         NEW row \in {2, 4}, 2 * n * row = 2 * wd * h,
               NEW o \in {0, 1}, NEW su
        PROVE  SetFits(q, Param(src, <<"dst", o>>, 1, n, row, su, 2))
    <3>1. \A p \in WordsAt(<<"dst", 0>>, two * n * row) : Mine(q, p)
      BY <1>c, <2>1, <2>2
    <3>2. SetFits(q, Param(src, <<"dst", o>>, one, n, row, su, two))
      <4>1. o \in Int /\ 0 <= o /\ o + one <= two
        BY <1>b, <1>c, <2>2
      <4> QED
        BY <1>c, <3>1, <4>1, ParamMine
    <3> QED
      BY <1>b, <1>c, <3>2
  <2>3. ASSUME NEW src, NEW n \in {2, 4},
         NEW row \in {2, 4}, 2 * n * row = 2 * wd * h, NEW su
        PROVE  SetFits(q, Param(src, <<"dst", 0>>, 2, n, row, su, 2))
    <3>1. \A p \in WordsAt(<<"dst", 0>>, two * n * row) : Mine(q, p)
      BY <1>c, <2>1, <2>3
    <3>2. SetFits(q, Param(src, <<"dst", zero>>, two, n, row, su, two))
      BY <1>d, <3>1, ParamMine
    <3> QED
      BY <1>a, <1>c, <3>2
  <2>4. SetsFit(q, FirstPass(q).sets) /\ ToTemp(FirstPass(q).fft)
    <3>1. FirstPass(q) = FFT_R2C_T(<<"src", 0>>, <<"dst", 0>>, wd, h)
      BY <1>1, <1>2, <1>3, <1>7 DEF FirstPass
    <3>2. /\ SetFits(q, Param(m_pTempR, <<"dst", 0>>, 1, wd, h, 1, 2))
          /\ SetFits(q, Param(m_pTempI, <<"dst", 1>>, 1, wd, h, 1, 2))
      BY <2>2
    <3> QED
      BY <1>4, <3>1, <3>2 DEF FFT_R2C_T, Pass, Split, ToTemp, SetsFit, Plus
  <2>5. CASE q.eType = "FFT2d_R2C"
    <3>1. SecondPass(q) = FFT_C2C_T(<<"dst", 0>>, <<"dst", 0>>, h, wd)
      BY <1>1, <1>2, <1>3, <2>5 DEF SecondPass
    <3>2. /\ SetFits(q, Param(m_pTempR, <<"dst", 1>>, 1, h, wd, 2, 2))
          /\ SetFits(q, Param(Plus(m_pTempR, 1), <<"dst", 0>>, 1, h, wd, 2, 2))
      BY <1>5, <2>2
    <3> QED
      BY <1>4, <2>4, <3>1, <3>2 DEF FFT_C2C_T, Pass, Cross, ToTemp, SetsFit, Plus
  <2>6. CASE q.eType = "FFT2d_R2C_N"
    <3>1. SecondPass(q) = FFT_C2C_TN(<<"dst", 0>>, <<"dst", 0>>, h, wd)
      BY <1>1, <1>2, <1>3, <2>6 DEF SecondPass
    <3>2. SetFits(q, Param(m_pTempR, <<"dst", 0>>, 2, h, wd, 2, 2))
      BY <1>5, <2>3
    <3> QED
      BY <1>4, <2>4, <3>1, <3>2 DEF FFT_C2C_TN, Pass, Cross, ToTemp, SetsFit
  <2> QED
    BY <1>7, <2>5, <2>6
<1>8. CASE q.eType = "IFFT2d_C2R"
  <2>1. /\ \A p \in WordsAt(<<"src", 0>>, 2 * wd * h) : Mine(q, p)
        /\ \A p \in WordsAt(<<"dst", 0>>, wd * h) : Mine(q, p)
    BY <1>1, <1>2, <1>3, <1>8 DEF Mine, ResultWords
  <2>2. /\ FirstPass(q) = IFFT_C2C_T(<<"src", 0>>, <<"src", 0>>, wd, h)
        /\ SecondPass(q) = IFFT_C2R_T(<<"src", 0>>, <<"dst", 0>>, h, wd)
    BY <1>1, <1>2, <1>3, <1>8 DEF FirstPass, SecondPass
  <2>3. SetFits(q, Param(m_pTempR, <<"src", 0>>, 2, wd, h, 2, 2))
    <3>1. \A p \in WordsAt(<<"src", 0>>, two * wd * h) : Mine(q, p)
      BY <1>c, <2>1
    <3>2. SetFits(q, Param(m_pTempR, <<"src", zero>>, two, wd, h, two, two))
      BY <1>d, <3>1, ParamMine
    <3> QED
      BY <1>a, <1>c, <3>2
  <2>4. SetFits(q, Param(m_pTempR, <<"dst", 0>>, 1, h, wd, 2, 1))
    <3>1. \A p \in WordsAt(<<"dst", 0>>, one * h * wd) : Mine(q, p)
      BY <1>b, <1>5, <2>1
    <3>2. SetFits(q, Param(m_pTempR, <<"dst", zero>>, one, h, wd, two, one))
      BY <1>d, <3>1, ParamMine
    <3> QED
      BY <1>a, <1>b, <1>c, <3>2
  <2> QED
    BY <1>4, <2>2, <2>3, <2>4 DEF IFFT_C2C_T, IFFT_C2R_T, Pass, Cross, ToTemp, SetsFit
<1> QED
  BY <1>6, <1>7, <1>8 DEF Types

-----------------------------------------------------------------------------
(* Copies.                                                                 *)

LEMMA TransposeCopied ==
  ASSUME NEW q \in Requests, q.eType = "transpose", NEW m,
         NEW s, s = startTranspose(q)
  PROVE  /\ SetFits(q, s)
         /\ \A u \in 0 .. q.nHeight - 1, v \in 0 .. q.nWidth - 1 :
               Transfer(m, s)[Plus(q.pDst, v * q.nHeight + u)] = m[Plus(q.pSrc, u * q.nWidth + v)]
<1>1. PICK wd \in Int : wd = q.nWidth /\ wd \in {2, 4}
  BY TransformRequest
<1>2. PICK h \in Int : h = q.nHeight /\ h \in {2, 4}
  BY TransformRequest
<1>3. q.pSrc = <<"src", 0>> /\ q.pDst = <<"dst", 0>>
  BY TransformRequest
<1>4. /\ s.aCnt = 1 /\ s.bCnt = h /\ s.cCnt = wd /\ s.srcAddr = q.pSrc /\ s.dstAddr = q.pDst
      /\ s.srcBidx = wd /\ s.dstBidx = 1 /\ s.srcCidx = 1 /\ s.dstCidx = h
  BY <1>1, <1>2 DEF startTranspose
<1>5. Steps(s) = (0 .. 0) \X (0 .. h - 1) \X (0 .. wd - 1)
  BY <1>4 DEF Steps
<1>6. ASSUME NEW k \in Steps(s)
      PROVE  /\ k = <<0, k[2], k[3]>> /\ k[2] \in 0 .. h - 1 /\ k[3] \in 0 .. wd - 1
             /\ To(s, k) = <<"dst", k[3] * h + k[2]>>
  <2>1. k = <<0, k[2], k[3]>> /\ k[2] \in 0 .. h - 1 /\ k[3] \in 0 .. wd - 1
    BY <1>5
  <2>2. PICK u \in Int : u = k[2]
    BY <2>1
  <2>3. PICK v \in Int : v = k[3]
    BY <2>1
  <2>4. To(s, k) = <<"dst", 0 + (0 + u * 1 + v * h)>>
    BY <1>3, <1>4, <2>1, <2>2, <2>3 DEF To, Plus
  <2>5. 0 + (0 + u * 1 + v * h) = v * h + u
    OBVIOUS
  <2> QED
    BY <2>1, <2>2, <2>3, <2>4, <2>5
<1>7. SetFits(q, s)
  <2> SUFFICES ASSUME NEW k \in Steps(s) PROVE Mine(q, To(s, k))
    BY DEF SetFits
  <2>1. PICK u \in Int : u = k[2]
    BY <1>6
  <2>2. PICK v \in Int : v = k[3]
    BY <1>6
  <2>3. v * h + u \in 0 .. wd * h - 1
    BY <1>1, <1>2, <1>6, <2>1, <2>2
  <2>4. To(s, k) \in WordsAt(<<"dst", 0>>, wd * h)
    <3>1. To(s, k) = <<"dst", v * h + u>>
      BY <1>6, <2>1, <2>2
    <3>2. PICK i \in 0 .. wd * h - 1 : i = v * h + u
      BY <2>3
    <3> QED
      BY <3>1, <3>2 DEF WordsAt, Plus
  <2> QED
    BY <1>1, <1>2, <1>3, <2>4 DEF Mine, ResultWords
<1>8. ASSUME NEW u \in 0 .. h - 1, NEW v \in 0 .. wd - 1
      PROVE  Transfer(m, s)[Plus(q.pDst, v * h + u)] = m[Plus(q.pSrc, u * wd + v)]
  <2>1. PICK k : k = <<0, u, v>>
    OBVIOUS
  <2>2. k \in Steps(s)
    BY <1>5, <2>1
  <2>3. To(s, k) = Plus(q.pDst, v * h + u)
    <3>1. To(s, k) = <<"dst", v * h + u>>
      BY <1>6, <2>1, <2>2
    <3>2. 0 + (v * h + u) = v * h + u
      OBVIOUS
    <3> QED
      BY <1>3, <3>1, <3>2 DEF Plus
  <2>4. From(s, k) = Plus(q.pSrc, u * wd + v)
    <3>1. From(s, k) = Plus(q.pSrc, 0 + u * wd + v * 1)
      BY <1>4, <2>1 DEF From
    <3>2. 0 + u * wd + v * 1 = u * wd + v
      OBVIOUS
    <3> QED
      BY <3>1, <3>2
  <2>5. ASSUME NEW l \in Steps(s), To(s, l) = To(s, k) PROVE l = k
    <3>1. PICK a \in Int : a = l[2]
      BY <1>6
    <3>2. PICK b \in Int : b = l[3]
      BY <1>6
    <3>3. /\ l = <<0, a, b>> /\ a \in 0 .. h - 1 /\ b \in 0 .. wd - 1
          /\ To(s, l) = <<"dst", b * h + a>>
      BY <1>6, <3>1, <3>2
    <3>4. To(s, k) = <<"dst", v * h + u>>
      BY <1>6, <2>1, <2>2
    <3>5. b * h + a = v * h + u
      BY <2>5, <3>3, <3>4
    <3>6. b = v /\ a = u
      BY <3>3, <3>5, OnePlace
    <3> QED
      BY <2>1, <3>3, <3>6
  <2>6. \A l \in Steps(s) : To(s, l) = To(s, k) => l = k
    BY <2>5
  <2>7. Transfer(m, s)[To(s, k)] = m[From(s, k)]
    BY <2>2, <2>6, TransferStores
  <2> QED
    BY <2>3, <2>4, <2>7
<1> QED
  BY <1>1, <1>2, <1>7, <1>8

\* The window of a request, along both axes.
LEMMA WindowRequestFacts ==
  ASSUME NEW q \in Requests, q.eType = "window"
  PROVE  /\ q.pSrc = <<"src", 0>> /\ q.pDst = <<"block", 0>>
         /\ InImage(q.roi.x, q.roi.width, COLS) /\ InImage(q.roi.y, q.roi.height, ROWS)
         /\ Centred(WindowX(q.roi), q.roi.x, q.roi.width) /\ InBoth(WindowX(q.roi), COLS)
         /\ Centred(WindowY(q.roi), q.roi.y, q.roi.height) /\ InBoth(WindowY(q.roi), ROWS)
<1>1. COLS \in Int /\ ROWS \in Int /\ COLS >= 1 /\ ROWS >= 1
  BY PassesAssumption
<1>2. PICK roi \in Rois : q = WindowRequest(roi)
  BY DEF Requests, Request, Types
<1>3. q.roi = roi /\ q.pSrc = <<"src", 0>> /\ q.pDst = <<"block", 0>>
  BY <1>2 DEF WindowRequest
<1>4. /\ roi.x \in Int /\ roi.width \in Int /\ InImage(roi.x, roi.width, COLS)
      /\ roi.y \in Int /\ roi.height \in Int /\ InImage(roi.y, roi.height, ROWS)
  BY RoiFacts
<1>5. Centred(WindowX(roi), roi.x, roi.width) /\ InBoth(WindowX(roi), COLS)
  BY <1>1, <1>4, WindowFacts DEF WindowX
<1>6. Centred(WindowY(roi), roi.y, roi.height) /\ InBoth(WindowY(roi), ROWS)
  BY <1>1, <1>4, WindowFacts DEF WindowY
<1> QED
  BY <1>3, <1>4, <1>5, <1>6

\* The steps of the transfer that copies the window of request q.
LEMMA WindowSteps ==
  ASSUME NEW q \in Requests, q.eType = "window", NEW s, s = startSubWindowExtract(q),
         NEW X, X = WindowX(q.roi), NEW Y, Y = WindowY(q.roi)
  PROVE  /\ \A k \in Steps(s) :
               /\ k = <<k[1], k[2], 0>> /\ k[1] \in 0 .. X.block - 1 /\ k[2] \in 0 .. Y.block - 1
               /\ To(s, k) = <<"block", (Y.to + k[2]) * X.count + (X.to + k[1])>>
               /\ From(s, k) = <<"src", (Y.from + k[2]) * COLS + (X.from + k[1])>>
         /\ \A i \in 0 .. X.block - 1, j \in 0 .. Y.block - 1 : <<i, j, 0>> \in Steps(s)
<1>1. /\ q.pSrc = <<"src", 0>> /\ q.pDst = <<"block", 0>>
      /\ InBoth(X, COLS) /\ InBoth(Y, ROWS)
  BY WindowRequestFacts
<1>2. PICK n \in Int : n = COLS
  BY PassesAssumption
<1>3. PICK xc \in Int : xc = X.count
  BY <1>1 DEF InBoth
<1>4. PICK xt \in Int : xt = X.to
  BY <1>1 DEF InBoth
<1>5. PICK yt \in Int : yt = Y.to
  BY <1>1 DEF InBoth
<1>6. PICK xf \in Int : xf = X.from
  BY <1>1 DEF InBoth
<1>7. PICK yf \in Int : yf = Y.from
  BY <1>1 DEF InBoth
<1>8. /\ s.aCnt = X.block /\ s.bCnt = Y.block /\ s.cCnt = 1
      /\ s.srcAddr = <<"src", 0 + (yf * n + xf)>>
      /\ s.dstAddr = <<"block", 0 + (yt * xc + xt)>>
      /\ s.srcBidx = n /\ s.dstBidx = xc /\ s.srcCidx = 0 /\ s.dstCidx = 0
  BY <1>1, <1>2, <1>3, <1>4, <1>5, <1>6, <1>7 DEF startSubWindowExtract, Plus
<1>9. Steps(s) = (0 .. X.block - 1) \X (0 .. Y.block - 1) \X (0 .. 0)
  BY <1>8 DEF Steps
<1>10. ASSUME NEW k \in Steps(s)
       PROVE  /\ k = <<k[1], k[2], 0>> /\ k[1] \in 0 .. X.block - 1 /\ k[2] \in 0 .. Y.block - 1
              /\ To(s, k) = <<"block", (Y.to + k[2]) * X.count + (X.to + k[1])>>
              /\ From(s, k) = <<"src", (Y.from + k[2]) * COLS + (X.from + k[1])>>
  <2>1. k = <<k[1], k[2], 0>> /\ k[1] \in 0 .. X.block - 1 /\ k[2] \in 0 .. Y.block - 1
    BY <1>9
  <2>2. PICK i \in Int : i = k[1]
    BY <2>1
  <2>3. PICK j \in Int : j = k[2]
    BY <2>1
  <2>4. k[3] = 0
    BY <2>1
  <2>5. To(s, k) = <<"block", 0 + (yt * xc + xt) + (i + j * xc + 0 * 0)>>
    BY <1>8, <2>2, <2>3, <2>4 DEF To, Plus
  <2>6. 0 + (yt * xc + xt) + (i + j * xc + 0 * 0) = (yt + j) * xc + (xt + i)
    OBVIOUS
  <2>7. From(s, k) = <<"src", 0 + (yf * n + xf) + (i + j * n + 0 * 0)>>
    BY <1>8, <2>2, <2>3, <2>4 DEF From, Plus
  <2>8. 0 + (yf * n + xf) + (i + j * n + 0 * 0) = (yf + j) * n + (xf + i)
    OBVIOUS
  <2> QED
    BY <1>2, <1>3, <1>4, <1>5, <1>6, <1>7, <2>1, <2>2, <2>3, <2>5, <2>6, <2>7, <2>8
<1>11. \A i \in 0 .. X.block - 1, j \in 0 .. Y.block - 1 : <<i, j, 0>> \in Steps(s)
  BY <1>9
<1> QED
  BY <1>10, <1>11

LEMMA WindowCopied ==
  ASSUME NEW q \in Requests, q.eType = "window", NEW s, s = startSubWindowExtract(q),
         NEW X, X = WindowX(q.roi), NEW Y, Y = WindowY(q.roi),
         NEW b, WordsAt(q.pSrc, COLS * ROWS) \subseteq DOMAIN b,
         NEW m, m = Overwrite(Fill(WindowWords(q), 0), b)
  PROVE  /\ SetFits(q, s)
         /\ \A row \in 0 .. Y.count - 1, c \in 0 .. X.count - 1 :
               Transfer(m, s)[Plus(q.pDst, row * X.count + c)] =
                 IF Y.lu + row \in 0 .. ROWS - 1 /\ X.lu + c \in 0 .. COLS - 1
                 THEN b[Plus(q.pSrc, (Y.lu + row) * COLS + (X.lu + c))] ELSE 0
<1>1. /\ q.pSrc = <<"src", 0>> /\ q.pDst = <<"block", 0>>
      /\ InBoth(X, COLS) /\ InBoth(Y, ROWS)
  BY WindowRequestFacts
<1>2. COLS \in Int /\ ROWS \in Int /\ COLS >= 1 /\ ROWS >= 1
  BY PassesAssumption
<1>3. WindowWords(q) = WordsAt(<<"block", 0>>, X.count * Y.count)
  BY <1>1 DEF WindowWords
<1>4. ASSUME NEW row \in 0 .. Y.count - 1, NEW c \in 0 .. X.count - 1
      PROVE  /\ row * X.count + c \in Int
             /\ <<"block", row * X.count + c>> \in WindowWords(q)
  <2>1. PICK xc \in Int : xc = X.count
    BY <1>1 DEF InBoth
  <2>2. PICK yc \in Int : yc = Y.count
    BY <1>1 DEF InBoth
  <2>3. row \in Int /\ c \in Int /\ 0 <= row /\ row < yc /\ 0 <= c /\ c < xc
    BY <2>1, <2>2
  <2>4. row * xc + c \in Int /\ 0 <= row * xc + c /\ row * xc + c < yc * xc
    BY <2>3, RowMajor
  <2>5. yc * xc = xc * yc /\ xc * yc \in Int
    OBVIOUS
  <2>6. row * xc + c \in 0 .. xc * yc - 1
    BY <2>4, <2>5
  <2>7. <<"block", 0 + (row * xc + c)>> \in WordsAt(<<"block", 0>>, xc * yc)
    BY <2>6 DEF WordsAt, Plus
  <2>8. 0 + (row * xc + c) = row * xc + c
    BY <2>4
  <2> QED
    BY <1>3, <2>1, <2>2, <2>4, <2>7, <2>8
<1>5. ASSUME NEW k \in Steps(s)
      PROVE  /\ Y.to + k[2] \in 0 .. Y.count - 1 /\ X.to + k[1] \in 0 .. X.count - 1
             /\ To(s, k) = <<"block", (Y.to + k[2]) * X.count + (X.to + k[1])>>
  <2>1. /\ k[1] \in 0 .. X.block - 1 /\ k[2] \in 0 .. Y.block - 1
        /\ To(s, k) = <<"block", (Y.to + k[2]) * X.count + (X.to + k[1])>>
    BY WindowSteps
  <2> QED
    BY <1>1, <2>1 DEF InBoth
<1>6. SetFits(q, s)
  <2> SUFFICES ASSUME NEW k \in Steps(s) PROVE Mine(q, To(s, k))
    BY DEF SetFits
  <2>1. To(s, k) \in WindowWords(q)
    BY <1>4, <1>5
  <2> QED
    BY <2>1 DEF Mine, ResultWords
<1>7. ASSUME NEW k \in Steps(s), NEW row \in 0 .. Y.count - 1, NEW c \in 0 .. X.count - 1,
             To(s, k) = <<"block", row * X.count + c>>
      PROVE  row = Y.to + k[2] /\ c = X.to + k[1]
  <2>1. PICK i \in Int : i = X.to + k[1]
    BY <1>5
  <2>2. PICK j \in Int : j = Y.to + k[2]
    BY <1>5
  <2>3. PICK xc \in Int : xc = X.count
    BY <1>1 DEF InBoth
  <2>4. j * xc + i = row * xc + c
    BY <1>5, <1>7, <2>1, <2>2, <2>3
  <2>5. row \in Int /\ c \in Int /\ 0 <= c /\ c < xc /\ 0 <= i /\ i < xc
    BY <1>5, <2>1, <2>3
  <2>6. j = row /\ i = c
    BY <2>4, <2>5, OnePlace
  <2> QED
    BY <2>1, <2>2, <2>6
<1>8. ASSUME NEW row \in 0 .. Y.count - 1, NEW c \in 0 .. X.count - 1
      PROVE  Transfer(m, s)[<<"block", row * X.count + c>>] =
               IF Y.lu + row \in 0 .. ROWS - 1 /\ X.lu + c \in 0 .. COLS - 1
               THEN b[<<"src", (Y.lu + row) * COLS + (X.lu + c)>>] ELSE 0
  <2> DEFINE p == <<"block", row * X.count + c>>
  <2>1. p \in WindowWords(q)
    BY <1>4
  <2>2. p \in DOMAIN m /\ m[p] = 0
    BY <2>1 DEF Overwrite, Fill
  <2>3. /\ c - X.to \in 0 .. X.block - 1 <=> X.lu + c \in 0 .. COLS - 1
        /\ row - Y.to \in 0 .. Y.block - 1 <=> Y.lu + row \in 0 .. ROWS - 1
    BY <1>1 DEF InBoth
  <2>4. CASE Y.lu + row \in 0 .. ROWS - 1 /\ X.lu + c \in 0 .. COLS - 1
    <3>1. PICK i \in 0 .. X.block - 1 : i = c - X.to
      BY <2>3, <2>4
    <3>2. PICK j \in 0 .. Y.block - 1 : j = row - Y.to
      BY <2>3, <2>4
    <3>3. PICK k \in Steps(s) : k = <<i, j, 0>>
      BY WindowSteps
    <3>4. X.to + i = c /\ Y.to + j = row /\ X.from + i = X.lu + c /\ Y.from + j = Y.lu + row
      BY <1>1, <3>1, <3>2 DEF InBoth
    <3>5. k[1] = i /\ k[2] = j
      BY <3>3
    <3>6. To(s, k) = p /\ From(s, k) = <<"src", (Y.lu + row) * COLS + (X.lu + c)>>
      BY <3>4, <3>5, WindowSteps
    <3>7. ASSUME NEW l \in Steps(s), To(s, l) = To(s, k) PROVE l = k
      <4>1. row = Y.to + l[2] /\ c = X.to + l[1]
        BY <1>7, <3>6, <3>7
      <4>2. l = <<l[1], l[2], 0>> /\ l[1] \in Int /\ l[2] \in Int
        BY WindowSteps
      <4>3. l[1] = i /\ l[2] = j
        BY <1>1, <3>1, <3>2, <4>1, <4>2 DEF InBoth
      <4> QED
        BY <3>3, <4>2, <4>3
    <3>8. Transfer(m, s)[p] = m[From(s, k)]
      <4>1. \A l \in Steps(s) : To(s, l) = To(s, k) => l = k
        BY <3>7
      <4>2. Transfer(m, s)[To(s, k)] = m[From(s, k)]
        BY <3>3, <4>1, TransferStores
      <4> QED
        BY <3>6, <4>2
    <3>9. m[From(s, k)] = b[From(s, k)]
      <4>1. PICK y \in Int : y = Y.lu + row
        BY <2>4
      <4>2. PICK x \in Int : x = X.lu + c
        BY <2>4
      <4>3. x \in 0 .. COLS - 1 /\ y \in 0 .. ROWS - 1
        BY <2>4, <4>1, <4>2
      <4>4. y * COLS + x \in Int /\ 0 <= y * COLS + x /\ y * COLS + x < ROWS * COLS
        BY <1>2, <4>3, RowMajor
      <4>5. ROWS * COLS = COLS * ROWS /\ COLS * ROWS \in Int
        BY <1>2
      <4>6. From(s, k) = <<"src", y * COLS + x>>
        BY <3>6, <4>1, <4>2
      <4>7. <<"src", y * COLS + x>> \in WordsAt(<<"src", 0>>, COLS * ROWS)
        <5>1. y * COLS + x \in 0 .. COLS * ROWS - 1 /\ 0 + (y * COLS + x) = y * COLS + x
          BY <4>4, <4>5
        <5> QED
          BY <5>1 DEF WordsAt, Plus
      <4>8. From(s, k) \in DOMAIN b
        BY <1>1, <4>6, <4>7
      <4>9. From(s, k) \notin WindowWords(q)
        BY <1>3, <4>6 DEF WordsAt, Plus
      <4> QED
        BY <4>8, <4>9 DEF Overwrite, Fill
    <3> QED
      BY <2>4, <3>6, <3>8, <3>9
  <2>5. CASE ~(Y.lu + row \in 0 .. ROWS - 1 /\ X.lu + c \in 0 .. COLS - 1)
    <3>1. \A k \in Steps(s) : To(s, k) # p
      <4> SUFFICES ASSUME NEW k \in Steps(s), To(s, k) = p PROVE FALSE
        OBVIOUS
      <4>1. row = Y.to + k[2] /\ c = X.to + k[1]
        BY <1>7
      <4>2. k[1] \in 0 .. X.block - 1 /\ k[2] \in 0 .. Y.block - 1
        BY WindowSteps
      <4>3. c - X.to = k[1] /\ row - Y.to = k[2]
        BY <1>1, <4>1, <4>2 DEF InBoth
      <4> QED
        BY <2>3, <2>5, <4>2, <4>3
    <3>2. Transfer(m, s)[p] = m[p]
      BY <2>2, <3>1, TransferKeeps
    <3> QED
      BY <2>2, <2>5, <3>2
  <2> QED
    BY <2>4, <2>5
<1>9. \A i \in Int : Plus(q.pDst, i) = <<"block", i>> /\ Plus(q.pSrc, i) = <<"src", i>>
  BY <1>1 DEF Plus
<1>10. ASSUME NEW row \in 0 .. Y.count - 1, NEW c \in 0 .. X.count - 1
       PROVE  /\ row * X.count + c \in Int /\ (Y.lu + row) * COLS + (X.lu + c) \in Int
  BY <1>1, <1>2, <1>4 DEF InBoth
<1> QED
  BY <1>6, <1>8, <1>9, <1>10

-----------------------------------------------------------------------------
(* The invariant.                                                          *)

\* A copy under way, or done.
TransposeInv ==
    req.eType = "transpose" =>
        /\ fft = <<>>
        /\ \/ dma = <<startTranspose(req)>> /\ pc = "tsps" /\ mem = before
           \/ dma = <<>> /\ TransposeRight(req)

WindowInv ==
    req.eType = "window" =>
        /\ fft = <<>>
        /\ \/ /\ dma = <<startSubWindowExtract(req)>> /\ pc = "tsps"
              /\ WordsAt(req.pSrc, COLS * ROWS) \subseteq DOMAIN before
              /\ mem = Overwrite(Fill(WindowWords(req), 0), before)
           \/ dma = <<>> /\ WindowRight(req)

\* Each set to come writes words of the request only, and the engine the scratch
\* memory.
PassInv ==
    /\ pc \in {"get", "pass1", "pass2", "tsps"}
    /\ pc \in {"pass1", "pass2"} => req.eType \in Types
    /\ SetsFit(req, dma)
    /\ fft = <<>> \/ \E f : fft = <<f>> /\ ToTemp(f)

PassesIInv == req \in Requests /\ PassInv /\ TransposeInv /\ WindowInv /\ NothingElseWritten

LEMMA NothingElse ==
  NothingElseWritten <=>
    \A p \in DOMAIN mem : Mine(req, p) \/ (p \in DOMAIN before /\ mem[p] = before[p])
BY DEF NothingElseWritten, Mine

LEMMA InitPassesIInv == PassesInit => PassesIInv
<1> SUFFICES ASSUME PassesInit PROVE PassesIInv
  OBVIOUS
<1>1. req = Request("IFFT2d_C2R", 2, 2) /\ req.eType = "IFFT2d_C2R"
  BY DEF PassesInit, NoRequest, Request
<1>2. req \in Requests
  BY <1>1 DEF Requests, Types
<1>3. PassInv
  BY DEF PassesInit, PassInv, SetsFit
<1>4. TransposeInv /\ WindowInv
  BY <1>1 DEF TransposeInv, WindowInv
<1>5. NothingElseWritten
  BY DEF PassesInit, NothingElseWritten
<1> QED
  BY <1>2, <1>3, <1>4, <1>5 DEF PassesIInv

LEMMA ClearedMine ==
  ASSUME NEW q \in Requests, q.eType \in Types, NEW p \in Cleared(q)
  PROVE  Mine(q, p)
<1>1. CASE q.eType = "FFT2d_R2R"
  BY <1>1 DEF Cleared, Mine, WordsAt, Plus, m_pTempR
<1>2. CASE q.eType \in {"FFT2d_R2C", "FFT2d_R2C_N"}
  BY <1>2 DEF Cleared, Mine, ResultWords
<1>3. CASE q.eType = "IFFT2d_C2R"
  BY <1>3 DEF Cleared
<1> QED
  BY <1>1, <1>2, <1>3 DEF Types

LEMMA EngineToTemp ==
  ASSUME NEW m, NEW f, ToTemp(f), NEW p \in DOMAIN FftRows(m, f)
  PROVE  p[1] = "temp" \/ (p \in DOMAIN m /\ FftRows(m, f)[p] = m[p])
<1>1. \A n : \A x \in WordsAt(f.dstR, n) \cup WordsAt(f.dstI, n) : x[1] = "temp"
  BY DEF WordsAt, Plus, ToTemp
<1>2. CASE f.cross
  BY <1>1, <1>2 DEF FftRows, Overwrite
<1>3. CASE ~f.cross
  BY <1>1, <1>3 DEF FftRows, Overwrite
<1> QED
  BY <1>2, <1>3

\* A request comes with its words in memory.
LEMMA ComeFacts ==
  ASSUME NEW q, NEW data, Come(q, data)
  PROVE  req' = q /\ WordsAt(q.pSrc, Len(data)) \subseteq DOMAIN before'
BY DEF Come, Overwrite

LEMMA GetIInv ==
  ASSUME NEW t \in Types, NEW wd \in Lens, NEW h \in Lens, NEW data,
         Get(Request(t, wd, h), data)
  PROVE  PassesIInv'
<1> DEFINE q == Request(t, wd, h)
<1>1. q \in Requests /\ q.eType \in Types
  <2>1. wd \in {2, 4} /\ h \in {2, 4}
    BY PassesAssumption
  <2> QED
    BY <2>1 DEF Requests, Request
<1> HIDE DEF q
<1>2. /\ req' = q /\ pc' = "pass1" /\ fft' = <<FirstPass(q).fft>> /\ dma' = FirstPass(q).sets
      /\ mem' = Overwrite(Fill(Cleared(q), 0), before')
  BY ComeFacts DEF Get, Start, q
<1>3. PassInv'
  BY <1>1, <1>2, PassesFit DEF PassInv
<1>4. TransposeInv' /\ WindowInv'
  BY <1>1, <1>2 DEF TransposeInv, WindowInv, Types
<1>5. NothingElseWritten'
  <2>1. \A p \in DOMAIN mem' : Mine(q, p) \/ (p \in DOMAIN before' /\ mem'[p] = before'[p])
    BY <1>1, <1>2, ClearedMine DEF Overwrite, Fill
  <2> QED
    BY <1>2, <2>1 DEF NothingElseWritten, Mine
<1> QED
  BY <1>1, <1>2, <1>3, <1>4, <1>5 DEF PassesIInv

LEMMA TransposeIInv ==
  ASSUME NEW wd \in Lens, NEW h \in Lens, NEW data,
         Transpose(Request("transpose", wd, h), data)
  PROVE  PassesIInv'
<1> DEFINE q == Request("transpose", wd, h)
<1>1. q \in Requests /\ q.eType = "transpose"
  <2>1. wd \in {2, 4} /\ h \in {2, 4}
    BY PassesAssumption
  <2>2. Request("transpose", wd, h) \in
          {Request(t, a, b) : t \in Types \cup {"transpose"}, a \in {2, 4}, b \in {2, 4}}
    BY <2>1
  <2>3. q \in Requests
    BY <2>2 DEF Requests
  <2>4. q.eType = "transpose"
    BY DEF Request
  <2> QED
    BY <2>3, <2>4
<1> HIDE DEF q
<1>2. /\ req' = q /\ pc' = "tsps" /\ fft' = <<>> /\ dma' = <<startTranspose(q)>> /\ mem' = before'
  BY ComeFacts DEF Transpose, q
<1>3. SetFits(q, startTranspose(q))
  BY <1>1, TransposeCopied
<1>4. PassInv'
  BY <1>2, <1>3 DEF PassInv, SetsFit
<1>5. TransposeInv' /\ WindowInv'
  BY <1>1, <1>2 DEF TransposeInv, WindowInv
<1>6. NothingElseWritten'
  BY <1>2 DEF NothingElseWritten
<1> QED
  BY <1>1, <1>2, <1>4, <1>5, <1>6 DEF PassesIInv

LEMMA ExtractIInv ==
  ASSUME NEW roi \in Rois, Extract(WindowRequest(roi), Numbered(COLS * ROWS))
  PROVE  PassesIInv'
<1> DEFINE q == WindowRequest(roi)
           data == Numbered(COLS * ROWS)
<1>1. q \in Requests /\ q.eType = "window"
  BY DEF Requests, WindowRequest
<1>2. Len(data) = COLS * ROWS
  <2>1. COLS * ROWS \in Nat
    BY PassesAssumption
  <2> QED
    BY <2>1 DEF Numbered
<1> HIDE DEF q, data
<1>3. /\ req' = q /\ pc' = "tsps" /\ fft' = <<>> /\ dma' = <<startSubWindowExtract(q)>>
      /\ mem' = Overwrite(Fill(WindowWords(q), 0), before')
      /\ WordsAt(q.pSrc, COLS * ROWS) \subseteq DOMAIN before'
  BY <1>2, ComeFacts DEF Extract, q, data
<1>4. SetFits(q, startSubWindowExtract(q))
  BY <1>1, <1>3, WindowCopied
<1>5. PassInv'
  BY <1>3, <1>4 DEF PassInv, SetsFit
<1>6. TransposeInv' /\ WindowInv'
  BY <1>1, <1>3 DEF TransposeInv, WindowInv
<1>7. NothingElseWritten'
  <2>1. \A p \in DOMAIN mem' :
           p \in WindowWords(q) \/ (p \in DOMAIN before' /\ mem'[p] = before'[p])
    BY <1>3 DEF Overwrite, Fill
  <2>2. ResultWords(q) = WindowWords(q)
    BY <1>1 DEF ResultWords
  <2> QED
    BY <1>3, <2>1, <2>2 DEF NothingElseWritten
<1> QED
  BY <1>1, <1>3, <1>5, <1>6, <1>7 DEF PassesIInv

LEMMA EngineIInv == ASSUME PassesIInv, Engine PROVE PassesIInv'
<1>1. /\ fft' = <<>> /\ pc' = pc /\ req' = req /\ dma' = dma /\ before' = before
      /\ mem' = FftRows(mem, fft[1])
  BY DEF Engine
<1>2. PICK f : fft = <<f>> /\ ToTemp(f)
  BY DEF Engine, PassesIInv, PassInv
<1>3. mem' = FftRows(mem, f)
  BY <1>1, <1>2
<1>4. NothingElseWritten'
  <2>1. \A p \in DOMAIN mem' : p[1] = "temp" \/ (p \in DOMAIN mem /\ mem'[p] = mem[p])
    BY <1>2, <1>3, EngineToTemp
  <2> QED
    BY <1>1, <2>1 DEF PassesIInv, NothingElseWritten
<1>5. TransposeInv' /\ WindowInv'
  BY <1>1, <1>2 DEF PassesIInv, TransposeInv, WindowInv
<1>6. PassInv'
  BY <1>1 DEF PassesIInv, PassInv
<1> QED
  BY <1>1, <1>4, <1>5, <1>6 DEF PassesIInv

LEMMA EdmaIInv == ASSUME PassesIInv, Edma PROVE PassesIInv'
<1>1. /\ fft' = fft /\ fft = <<>> /\ pc' = pc /\ req' = req /\ before' = before
      /\ dma' = Tail(dma) /\ dma # <<>> /\ mem' = Transfer(mem, Head(dma))
  BY DEF Edma
<1>2. PICK s : s = Head(dma)
  OBVIOUS
<1>3. SetFits(req, s) /\ SetsFit(req, Tail(dma))
  <2>1. CASE \E a : dma = <<a>> /\ SetFits(req, a)
    BY <1>2, <2>1 DEF SetsFit
  <2>2. CASE \E a, b : dma = <<a, b>> /\ SetFits(req, a) /\ SetFits(req, b)
    <3>1. PICK a, b : dma = <<a, b>> /\ SetFits(req, a) /\ SetFits(req, b)
      BY <2>2
    <3>2. Head(dma) = a /\ Tail(dma) = <<b>>
      BY <3>1
    <3> QED
      BY <1>2, <3>1, <3>2 DEF SetsFit
  <2> QED
    BY <1>1, <2>1, <2>2 DEF PassesIInv, PassInv, SetsFit
<1>4. NothingElseWritten'
  <2>1. ASSUME NEW p \in DOMAIN mem'
        PROVE  Mine(req, p) \/ (p \in DOMAIN mem /\ mem'[p] = mem[p])
    <3>1. DOMAIN mem' = {To(s, k) : k \in Steps(s)} \cup DOMAIN mem
      <4>1. DOMAIN Transfer(mem, s) = {To(s, k) : k \in Steps(s)} \cup DOMAIN mem
        BY TransferFacts
      <4> QED
        BY <1>1, <1>2, <4>1
    <3>2. CASE \E k \in Steps(s) : p = To(s, k)
      BY <1>3, <3>2 DEF SetFits
    <3>3. CASE \A k \in Steps(s) : To(s, k) # p
      <4>1. p \in DOMAIN mem
        BY <2>1, <3>1, <3>3
      <4> QED
        BY <1>1, <1>2, <3>3, <4>1, TransferKeeps
    <3> QED
      BY <3>2, <3>3
  <2> QED
    BY <1>1, <2>1 DEF PassesIInv, NothingElseWritten, Mine
<1>5. PassInv'
  BY <1>1, <1>3 DEF PassesIInv, PassInv
<1>6. TransposeInv'
  <2> SUFFICES ASSUME req.eType = "transpose" PROVE dma' = <<>> /\ TransposeRight(req)'
    BY <1>1 DEF TransposeInv
  <2>1. dma = <<startTranspose(req)>> /\ mem = before
    BY <1>1 DEF PassesIInv, TransposeInv
  <2>2. s = startTranspose(req) /\ dma' = <<>>
    BY <1>1, <1>2, <2>1
  <2>3. \A u \in 0 .. req.nHeight - 1, v \in 0 .. req.nWidth - 1 :
           Transfer(mem, s)[Plus(req.pDst, v * req.nHeight + u)]
             = mem[Plus(req.pSrc, u * req.nWidth + v)]
    BY <2>2, TransposeCopied DEF PassesIInv
  <2> QED
    BY <1>1, <1>2, <2>1, <2>2, <2>3 DEF TransposeRight
<1>7. WindowInv'
  <2> SUFFICES ASSUME req.eType = "window" PROVE dma' = <<>> /\ WindowRight(req)'
    BY <1>1 DEF WindowInv
  <2>1. /\ dma = <<startSubWindowExtract(req)>>
        /\ mem = Overwrite(Fill(WindowWords(req), 0), before)
        /\ WordsAt(req.pSrc, COLS * ROWS) \subseteq DOMAIN before
    BY <1>1 DEF PassesIInv, WindowInv
  <2>2. s = startSubWindowExtract(req) /\ dma' = <<>>
    BY <1>1, <1>2, <2>1
  <2>3. PICK X : X = WindowX(req.roi)
    OBVIOUS
  <2>4. PICK Y : Y = WindowY(req.roi)
    OBVIOUS
  <2>5. \A row \in 0 .. Y.count - 1, c \in 0 .. X.count - 1 :
           Transfer(mem, s)[Plus(req.pDst, row * X.count + c)] =
             IF Y.lu + row \in 0 .. ROWS - 1 /\ X.lu + c \in 0 .. COLS - 1
             THEN before[Plus(req.pSrc, (Y.lu + row) * COLS + (X.lu + c))] ELSE 0
    BY <2>1, <2>2, <2>3, <2>4, WindowCopied DEF PassesIInv
  <2>6. /\ InImage(req.roi.x, req.roi.width, COLS) /\ Centred(X, req.roi.x, req.roi.width)
        /\ InImage(req.roi.y, req.roi.height, ROWS) /\ Centred(Y, req.roi.y, req.roi.height)
    BY <2>3, <2>4, WindowRequestFacts DEF PassesIInv
  <2> QED
    BY <1>1, <1>2, <2>2, <2>3, <2>4, <2>5, <2>6 DEF WindowRight
<1> QED
  BY <1>1, <1>4, <1>5, <1>6, <1>7 DEF PassesIInv

LEMMA NextPass == ASSUME PassesIInv, Pass1 PROVE PassesIInv'
<1>1. /\ req.eType \in Types /\ req \in Requests
      /\ req' = req /\ before' = before /\ pc' = "pass2"
      /\ fft' = <<SecondPass(req).fft>> /\ dma' = SecondPass(req).sets
      /\ mem' = Overwrite(Fill({}, 0), mem)
  BY DEF PassesIInv, PassInv, Pass1, Start
<1>2. NothingElseWritten'
  <2>1. DOMAIN mem' = DOMAIN mem /\ \A p \in DOMAIN mem : mem'[p] = mem[p]
    BY <1>1 DEF Overwrite, Fill
  <2> QED
    BY <1>1, <2>1 DEF PassesIInv, NothingElseWritten
<1>3. PassInv'
  BY <1>1, PassesFit DEF PassInv
<1>4. TransposeInv' /\ WindowInv'
  BY <1>1 DEF TransposeInv, WindowInv, Types
<1> QED
  BY <1>1, <1>2, <1>3, <1>4 DEF PassesIInv

LEMMA Notified == ASSUME PassesIInv, TspsDone \/ Pass2 PROVE PassesIInv'
<1>1. /\ UNCHANGED <<mem, req, fft, dma, before>> /\ pc' = "get" /\ EngineDone
  BY DEF TspsDone, Pass2
<1>2. PassInv'
  BY <1>1 DEF PassesIInv, PassInv, SetsFit, EngineDone
<1>3. TransposeInv' /\ WindowInv'
  BY <1>1 DEF PassesIInv, TransposeInv, WindowInv, EngineDone, TransposeRight, WindowRight
<1>4. NothingElseWritten'
  BY <1>1 DEF PassesIInv, NothingElseWritten
<1> QED
  BY <1>1, <1>2, <1>3, <1>4 DEF PassesIInv

LEMMA NextPassesIInv == ASSUME PassesIInv, [PassesNext]_passesVars PROVE PassesIInv'
<1>1. CASE \E t \in Types, wd, h \in Lens :
              \E data \in Inputs(Request(t, wd, h)) : Get(Request(t, wd, h), data)
  BY <1>1, GetIInv
<1>2. CASE \E wd, h \in Lens : Transpose(Request("transpose", wd, h), Numbered(wd * h))
  BY <1>2, TransposeIInv
<1>3. CASE \E roi \in Rois : Extract(WindowRequest(roi), Numbered(COLS * ROWS))
  BY <1>3, ExtractIInv
<1>4. CASE Engine \/ Edma \/ Pass1 \/ Pass2 \/ TspsDone
  BY <1>4, EngineIInv, EdmaIInv, NextPass, Notified
<1>5. CASE Idle \/ UNCHANGED passesVars
  <2>1. UNCHANGED <<mem, pc, req, fft, dma, before>>
    BY <1>5 DEF Idle, passesVars
  <2> QED
    BY <2>1 DEF PassesIInv, PassInv, TransposeInv, WindowInv, NothingElseWritten, TransposeRight,
       WindowRight
<1> QED
  BY <1>1, <1>2, <1>3, <1>4, <1>5 DEF PassesNext

\* For every image, every precision of positions, and matrices of 2 or 4 rows and
\* columns: each request, engine pass and parameter set keeps to the words of its
\* request, and a copy is under way from data that is all there, or done and right.
THEOREM PassesInvariant == PassesSpec => []PassesIInv
<1>1. PassesInit => PassesIInv
  BY InitPassesIInv
<1>2. PassesIInv /\ [PassesNext]_passesVars => PassesIInv'
  BY NextPassesIInv
<1> QED
  BY <1>1, <1>2, PTL DEF PassesSpec

\* A request only ever changes its result's words and the scratch memory; the inverse
\* transform also uses up its source (CFftManager.cpp:113-545).
THEOREM OthersKept == PassesSpec => []NothingElseWritten
<1>1. PassesIInv => NothingElseWritten
  BY DEF PassesIInv
<1> QED
  BY <1>1, PassesInvariant, PTL

\* When the channel is done the features are transposed, and the window around the
\* region, which never leaves the image, holds the image where there is one and zeros
\* elsewhere, for every size of the image (Kcf_SF/src/CKcfTracker.cpp:374-437, 1058-1079).
THEOREM CopiesRight == PassesSpec => []CopyIsRight
<1>1. PassesIInv => CopyIsRight
  BY DEF PassesIInv, TransposeInv, WindowInv, CopyIsRight
<1> QED
  BY <1>1, PassesInvariant, PTL

(***************************************************************************)
(*                 HogTrans                                                *)
(***************************************************************************)

-----------------------------------------------------------------------------
ArStates == {"IDLE", "HEAD", "QWN", "COL_END", "WAIT", "DONE"}
RStates == {"IDLE", "WAIT", "PAIR", "LAST_PAIR", "LAST_ONE", "END"}
Features == [bin : Int, cell : Int]

Typing ==
    /\ hog \in [start : BOOLEAN, start_q : BOOLEAN, wr_done_q : BOOLEAN, done : BOOLEAN,
                wrote : BOOLEAN]
    /\ blk \in Blocks
    /\ ar \in [state : ArStates, valid : BOOLEAN, addr : Int, len : Int, row_count : Int,
               col_remain : Int, fst_addr : Int, done : BOOLEAN]
    /\ r \in [state : RStates, ready : BOOLEAN, row_count : Int, flag : [1 .. 2 -> 0 .. 1],
              byte_en : Int, byte_count : Int, col_remain : Int, fst_addr : Int,
              done : BOOLEAN, data : Int]
    /\ bursts \in Seq([addr : Int, len : Int]) /\ rbeat \in Int
    /\ img \in [state : {"await", "await1", "work"}, row : Int, column : Int, sig : Int,
                delay : Int, finish : BOOLEAN]
    /\ hog_ready \in BOOLEAN /\ feature \in {"none", "computing", "done"}
    /\ aw \in [state : {"IDLE", "HEAD", "QWN", "WAIT", "DONE"}, valid : BOOLEAN,
               addr : Int, count : Int, done : BOOLEAN]
    /\ w \in [state : {"IDLE", "WAIT_DATA", "QWN", "LAST", "WAIT", "DONE"},
              valid : BOOLEAN, last : BOOLEAN, data_count : Int, burst_count : Int,
              done : BOOLEAN]
    /\ rd \in [addrb : Int, bin : Int, start : Int, data : Int, doutb : Int,
               stitch : {"IDLE", "WAIT", "BIN0_17", "BIN18_26", "BIN27_30"},
               res : Seq(Features), valid : BOOLEAN]
    /\ asked \in Int /\ written \in Int

-----------------------------------------------------------------------------
(* The invariant.                                                          *)

\* The stages of a start, by the parts of the module that are at work.
Quiet == /\ r.state = "IDLE" /\ img.state = "await"
         /\ feature = "none" /\ aw.state = "IDLE" /\ w.state = "IDLE"

NotEnding == ~hog.wr_done_q /\ ~hog.done

Reading == /\ NotEnding
           /\ r.state # "IDLE" /\ img.state # "await"
           /\ feature = "none" /\ aw.state = "IDLE" /\ w.state = "IDLE"

Computing == /\ NotEnding
             /\ r.state = "IDLE" /\ img.state = "await"
             /\ feature # "none" /\ aw.state = "IDLE" /\ w.state = "IDLE"

Writing == /\ NotEnding
           /\ r.state = "IDLE" /\ img.state = "await"
           /\ feature = "none" /\ aw.state # "IDLE" /\ w.state # "IDLE"

Ending == Quiet /\ hog.done /\ (hog.wr_done_q \/ hog.wrote)

\* A start register that is clear, or just set, has nothing under way.
StageInv ==
    /\ ~hog.start => Quiet /\ ~hog.wr_done_q
    /\ hog_start => Quiet /\ NotEnding
    /\ hog.start /\ hog.start_q => Reading \/ Computing \/ Writing \/ Ending

\* R counts the rows of the block; it takes no beat after the last row.
RowInv ==
    /\ r.state = "IDLE" => r = RIdle
    /\ r.row_count \in 0 .. blk.x
    /\ r.row_count = blk.x <=>
         r.state = "END" \/ (r.state \in {"LAST_PAIR", "LAST_ONE"} /\ ~r.ready)
    /\ r.state \in {"IDLE", "WAIT", "END"} => \A b \in 0 .. 3 : wea[b] = <<>>

\* The scaler ends with the last row, for which it needs the block's last row.
ScalerInv ==
    /\ img.state # "work" => img.row = 0 /\ img.column = -1 /\ img.delay = 0 /\ ~img.finish
    /\ img.row \in 0 .. OUT - 1 /\ img.column \in -1 .. OUT - 1 /\ img.delay \in 0 .. FLUSH
    /\ img.row = OUT - 1 => img.sig >= blk.x - 1
    /\ img.row = OUT - 1 /\ img.column = OUT - 1 => img.delay > 0
    /\ img.delay > 0 => img.row = OUT - 1 /\ img.column = OUT - 1 /\ r.state = "END"
    /\ img.finish => img.delay > 0

AddressInv ==
    /\ aw.state = "IDLE" => aw = AwIdle
    /\ aw.state \in {"HEAD", "QWN", "WAIT"} =>
         /\ aw.valid /\ ~aw.done
         /\ aw.count \in 1 .. wr_burst_time /\ asked = aw.count - 1
         /\ aw.addr = asked * PAGE
    /\ aw.state = "DONE" => /\ aw.count = 0 /\ ~aw.valid /\ aw.done
                            /\ asked = wr_burst_time

Beats == (BinC + 1) * STARTS            \* the beats of the result

\* The beats that W has put on the channel.
Put == w.burst_count * BURST + w.data_count

BeatInv ==
    /\ w.state = "IDLE" => w = WIdle
    /\ w.state = "WAIT_DATA" =>
         /\ ~w.valid /\ ~w.done /\ ~w.last
         /\ w.data_count \in 0 .. BURST - 1 /\ w.burst_count \in 0 .. wr_burst_time - 1
         /\ written = Put
    /\ w.state \in {"QWN", "LAST", "WAIT"} =>
         /\ w.valid /\ ~w.done
         /\ w.data_count \in 0 .. BURST - 1
         /\ w.burst_count \in 0 .. wr_burst_time
         /\ w.last <=> w.data_count = 0
         /\ IF w.last THEN w.burst_count > 0 ELSE w.burst_count < wr_burst_time
         /\ written = Put - 1
         /\ w.state = "QWN" => ~w.last
         /\ w.state = "LAST" => w.last
    /\ w.state = "DONE" => ~w.valid /\ ~w.last /\ w.data_count = 0 /\ w.burst_count = 0
                           /\ w.done /\ written = Beats

RdIdle == [addrb |-> 0, bin |-> 0, start |-> 0, data |-> 0, doutb |-> -1,
           stitch |-> "IDLE", res |-> <<>>, valid |-> FALSE]

\* The beat that is read next.
Nth == STARTS * rd.bin + rd.start

\* The last words of res are the first 4 * n of the beat that is to be written.
Filled(n) ==
    /\ Len(rd.res) \in 4 * n .. 4 * READS
    /\ \A k \in 1 .. 4 * n :
         rd.res[Len(rd.res) - 4 * n + k] = FeatureAt(4 * READS * written + k - 1)

\* Its words are being read: the one of the last cycle is at the banks' outputs.
Fetching ==
    /\ rd.data # 0 /\ ~rd.valid
    /\ Nth = written
    /\ rd.doutb = rd.addrb - 1
    /\ \/ rd.data = 1 /\ rd.stitch = "WAIT"
       \/ rd.data = 1 /\ rd.stitch = "IDLE" /\ rd.bin = 0 /\ rd.res = <<>>
       \/ rd.data > 1 /\ rd.stitch = class(rd.bin)
    /\ Filled(rd.data - 1)

\* All have been read; the next beat is the one after it, the first after the last.
Read == rd.data = 0 /\ Nth = IF written + 1 = Beats THEN 0 ELSE written + 1

Fetched ==
    /\ Read /\ rd.valid
    /\ rd.doutb = READS * written + READS - 1
    /\ rd.stitch = class(rd.doutb \div GROUPS)
    /\ Filled(READS - 1)

Held ==
    /\ Read /\ ~rd.valid
    /\ rd.doutb = -1
    /\ rd.stitch # "IDLE"
    /\ Filled(READS)

ResultInv ==
    /\ rd.bin \in 0 .. BinC /\ rd.start \in 0 .. STARTS - 1 /\ rd.data \in 0 .. READS - 1
    /\ rd.addrb = READS * Nth + rd.data
    /\ w.state = "IDLE" => rd = RdIdle
    /\ w.state = "WAIT_DATA" => Fetching \/ Fetched
    /\ w.state \in {"QWN", "LAST", "WAIT"} => Held
    /\ w.state = "DONE" => /\ rd.data = 0 /\ rd.bin = 0 /\ rd.start = 0
                           /\ rd.doutb = -1 /\ rd.stitch = "WAIT" /\ ~rd.valid
    

\* Where a row of the block begins, and the beat after its last.
Row(b, i) == b.addr + i * b.stride
RowEnd(b, i) == (Row(b, i) + b.y - 1) \div BEAT + 1

\* A place in the stream of the beats of a block is a row and a beat of it: the one
\* that comes before beat k of row i has been read.
Place(b, i, k) == IF k = RowEnd(b, i) THEN <<i + 1, Row(b, i + 1) \div BEAT>> ELSE <<i, k>>

FirstBeat(burst) == burst.addr \div BEAT
NextBeat(burst) == burst.addr \div BEAT + burst.len + 1

\* The bursts lead from one place to another; rb beats of the first were returned.
Leads(b, bs, rb, from, to) ==
    IF bs = <<>> THEN rb = 0 /\ from = to
    ELSE \E row \in [1 .. Len(bs) -> 0 .. b.x - 1] :
           /\ rb \in 0 .. bs[1].len
           /\ from = <<row[1], FirstBeat(bs[1]) + rb>>
           /\ \A p \in 1 .. Len(bs) :
                bs[p].len >= 0 /\ NextBeat(bs[p]) <= RowEnd(b, row[p])
           /\ \A p \in 1 .. Len(bs) - 1 :
                Place(b, row[p], NextBeat(bs[p])) = <<row[p + 1], FirstBeat(bs[p + 1])>>
           /\ to = Place(b, row[Len(bs)], NextBeat(bs[Len(bs)]))

\* The request on the channel: its row, and its place.
ArRow(q) == IF q.col_remain = 0 THEN q.row_count - 1 ELSE q.row_count
ArPlace(b, q) == IF q.valid THEN <<ArRow(q), FirstBeat(q)>>
                 ELSE <<b.x, Row(b, b.x) \div BEAT>>

EndOfPage(addr) == (addr \div PAGE + 1) * BURST

\* A row goes on after the burst exactly when that one ends with its page.
Requesting(b, q) ==
    /\ q.valid /\ ~q.done
    /\ ArRow(q) \in 0 .. b.x - 1 /\ q.row_count \in 0 .. b.x
    /\ q.col_remain >= 0 /\ q.len >= 0
    /\ q.fst_addr = Row(b, q.row_count)
    /\ IF q.col_remain = 0
       THEN NextBeat(q) = RowEnd(b, ArRow(q)) /\ NextBeat(q) <= EndOfPage(q.addr)
       ELSE /\ NextBeat(q) = EndOfPage(q.addr)
            /\ BEAT * NextBeat(q) + q.col_remain = Row(b, ArRow(q)) + b.y

\* The bytes of its row that R has not taken, and the place of the beat it takes next.
Rest(rr) == IF rr.ready THEN rr.byte_count + rr.col_remain ELSE rr.col_remain
RPlace(b, rr) ==
    IF rr.row_count = b.x
    THEN <<b.x, Row(b, b.x) \div BEAT>>
    ELSE IF Rest(rr) > 0
    THEN <<rr.row_count, (Row(b, rr.row_count) + b.y - Rest(rr)) \div BEAT>>
    ELSE <<rr.row_count + 1, Row(b, rr.row_count + 1) \div BEAT>>

\* A beat that is not the last of its row is taken to its end.
Taking(b, rr) ==
    /\ rr.fst_addr = Row(b, rr.row_count + 1)
    /\ rr.col_remain >= 0
    /\ rr.col_remain > 0 => (Row(b, rr.row_count) + b.y - rr.col_remain) % BEAT = 0
    /\ rr.ready =>
         /\ rr.byte_count > 0
         /\ (Row(b, rr.row_count) + b.y - rr.col_remain - 1) \div BEAT =
              (Row(b, rr.row_count) + b.y - Rest(rr)) \div BEAT

RequestInv ==
    /\ ar.state = "IDLE" => /\ ar = ArIdle /\ r.state \in {"IDLE", "END"}
                            /\ bursts = <<>> /\ rbeat = 0
    /\ ar.state = "DONE" => ~ar.valid /\ ar.done /\ r.state # "IDLE"
    /\ ar.state \notin {"IDLE", "DONE"} =>
         Requesting(blk, ar) /\ r.state \notin {"IDLE", "END"}

TakingInv ==
    /\ r.done <=> r.state = "END"
    /\ r.state = "WAIT" => r.ready
    /\ r.state \in {"PAIR", "END"} => ~r.ready
    /\ r.state # "IDLE" /\ r.row_count < blk.x => Taking(blk, r)
    /\ r.state # "IDLE" /\ ar.state # "IDLE" =>
         Leads(blk, bursts, rbeat, RPlace(blk, r), ArPlace(blk, ar))

IInv == /\ Typing
        /\ StageInv /\ RowInv /\ ScalerInv
        /\ AddressInv /\ BeatInv /\ ResultInv
        /\ RequestInv /\ TakingInv

-----------------------------------------------------------------------------
(* The constants.                                                          *)

LEMMA Sizes ==
  /\ BEAT \in Nat /\ BEAT > 0 /\ BURST \in Nat /\ BURST > 0 /\ FLUSH \in Nat /\ FLUSH > 0
  /\ STARTS \in Nat /\ STARTS > 0 /\ OUT \in Nat /\ OUT > 1 /\ READS \in Nat /\ READS > 1
  /\ BinA \in Nat /\ BinB \in Nat /\ BinC \in Nat /\ BinA < BinB /\ BinB < BinC
  /\ PAGE \in Nat /\ PAGE > 0 /\ GROUPS \in Nat /\ GROUPS > 0
<1>1. /\ BEAT \in Nat /\ BEAT > 0 /\ BURST \in Nat /\ BURST > 0 /\ FLUSH \in Nat /\ FLUSH > 0
      /\ STARTS \in Nat /\ STARTS > 0 /\ OUT \in Nat /\ OUT > 1 /\ READS \in Nat /\ READS > 1
      /\ BinA \in Nat /\ BinB \in Nat /\ BinC \in Nat /\ BinA < BinB /\ BinB < BinC
  BY HogAssumption
<1>2. ASSUME NEW a \in Nat, NEW b \in Nat, a > 0, b > 0
      PROVE  a * b \in Nat /\ a * b > 0
  BY <1>2
<1>3. PAGE \in Nat /\ PAGE > 0
  BY <1>1, <1>2 DEF PAGE
<1>4. GROUPS \in Nat /\ GROUPS > 0
  BY <1>1, <1>2 DEF GROUPS
<1> QED
  BY <1>1, <1>3, <1>4

LEMMA DivisionUnique ==
  ASSUME NEW b \in Nat, b > 0, NEW q \in Int, NEW m \in 0 .. b - 1
  PROVE  (q * b + m) \div b = q /\ (q * b + m) % b = m
<1>1. PICK x \in Int : x = q * b + m
  OBVIOUS
<1>2. /\ x \div b \in Int /\ x % b \in 0 .. b - 1
      /\ x = (x \div b) * b + (x % b)
  BY <1>1
<1>3. x \div b = q
  <2>1. ~(x \div b < q)
    <3> SUFFICES ASSUME x \div b < q PROVE FALSE
      OBVIOUS
    <3>1. ((x \div b) + 1) * b <= q * b
      BY <1>2
    <3> QED
      BY <1>1, <1>2, <3>1
  <2>2. ~(q < x \div b)
    <3> SUFFICES ASSUME q < x \div b PROVE FALSE
      OBVIOUS
    <3>1. (q + 1) * b <= (x \div b) * b
      BY <1>2
    <3> QED
      BY <1>1, <1>2, <3>1
  <2> QED
    BY <1>2, <2>1, <2>2
<1> QED
  BY <1>1, <1>2, <1>3

\* The bursts of the result are whole.
LEMMA WholeBursts ==
  /\ Beats \in Nat /\ Beats > 0
  /\ wr_burst_time \in Nat /\ wr_burst_time > 0 /\ wr_burst_time * BURST = Beats
<1>1. Beats \in Nat /\ Beats > 0
  <2>1. ASSUME NEW a \in Nat, NEW b \in Nat, a > 0, b > 0
        PROVE  a * b \in Nat /\ a * b > 0
    BY <2>1
  <2> QED
    BY <2>1, Sizes DEF Beats
<1>2. Beats % BURST = 0
  BY HogAssumption DEF Beats
<1>3. wr_burst_time = Beats \div BURST
  BY DEF wr_burst_time, Beats
<1>4. PICK n \in Nat, b \in Nat : n = Beats /\ b = BURST /\ b > 0
  BY <1>1, Sizes
<1>5. n \div b \in Int /\ n % b \in 0 .. b - 1 /\ n = (n \div b) * b + (n % b)
  BY <1>4
<1>6. n \div b > 0
  <2> SUFFICES ASSUME n \div b <= 0 PROVE FALSE
    BY <1>5
  <2>1. (n \div b) * b <= 0
    BY <1>4, <1>5
  <2> QED
    BY <1>1, <1>2, <1>4, <1>5, <2>1
<1> QED
  BY <1>1, <1>2, <1>3, <1>4, <1>5, <1>6

-----------------------------------------------------------------------------
(* What the parts of the module do at an edge, case by case.               *)

Edge(arready, rvalid, awready, wready, computed, cleared) ==
    /\ Clock(arready, rvalid, awready, wready, computed, cleared)
    /\ rvalid => r.ready /\ bursts # <<>>

Registers(start, write) ==
    /\ Control(start, write)
    /\ start => ~hog.start /\ ~hog.done /\ write /\ blk' \in Blocks
    /\ ~start => UNCHANGED blk
    /\ write /\ ~start => hog.done /\ ~hog.wrote

LEMMA NextIsStep ==
  ASSUME Next
  PROVE  /\ \E arready, rvalid, awready, wready, computed, cleared \in BOOLEAN :
               Edge(arready, rvalid, awready, wready, computed, cleared)
         /\ \E start, write \in BOOLEAN : Registers(start, write)
<1>1. \A used : When(used) \subseteq BOOLEAN
  BY DEF When
<1>2. \E arready, rvalid, awready, wready, computed, cleared \in BOOLEAN :
         Edge(arready, rvalid, awready, wready, computed, cleared)
  <2>1. PICK arready \in When(ar.valid), rvalid \in When(r.ready /\ bursts # <<>>),
             awready \in When(aw.valid), wready \in When(w.valid),
             computed \in When(feature = "computing"), cleared \in When(~hog_ready) :
             Clock(arready, rvalid, awready, wready, computed, cleared)
    BY DEF Next, Cycle
  <2>2. rvalid => r.ready /\ bursts # <<>>
    BY <2>1 DEF When
  <2>3. Edge(arready, rvalid, awready, wready, computed, cleared)
    BY <2>1, <2>2 DEF Edge
  <2>4. /\ arready \in BOOLEAN /\ rvalid \in BOOLEAN /\ awready \in BOOLEAN
        /\ wready \in BOOLEAN /\ computed \in BOOLEAN /\ cleared \in BOOLEAN
    BY <1>1
  <2> QED
    BY <2>3, <2>4
<1>3. ASSUME NoStart PROVE \E start, write \in BOOLEAN : Registers(start, write)
  <2>1. PICK write \in When(hog.done /\ ~hog.wrote) : Control(FALSE, write) /\ UNCHANGED blk
    BY <1>3 DEF NoStart
  <2>2. write \in BOOLEAN /\ (write => hog.done /\ ~hog.wrote)
    BY <1>1, <2>1 DEF When
  <2>3. Registers(FALSE, write)
    BY <2>1, <2>2 DEF Registers
  <2> QED
    BY <2>2, <2>3
<1>4. ASSUME NEW b \in Blocks, startHwFhog(b)
      PROVE  \E start, write \in BOOLEAN : Registers(start, write)
  <2>1. Registers(TRUE, TRUE)
    BY <1>4 DEF Registers, startHwFhog
  <2> QED
    BY <2>1
<1> QED
  BY <1>2, <1>3, <1>4 DEF Next

LEMMA ControlMoves ==
  ASSUME NEW start \in BOOLEAN, NEW write \in BOOLEAN, Control(start, write), Typing
  PROVE  /\ hog' \in [start : BOOLEAN, start_q : BOOLEAN, wr_done_q : BOOLEAN,
                      done : BOOLEAN, wrote : BOOLEAN]
         /\ hog'.start <=> start \/ (hog.start /\ ~(hog.done /\ ~write))
         /\ hog'.start_q <=> hog.start
         /\ hog'.wr_done_q <=> aw.done /\ w.done
         /\ hog'.done <=> (aw.done /\ w.done) \/ hog.wr_done_q
         /\ hog'.wrote <=> start \/ write
<1>1. /\ hog.start \in BOOLEAN /\ hog.wr_done_q \in BOOLEAN /\ hog.done \in BOOLEAN
      /\ aw.done \in BOOLEAN /\ w.done \in BOOLEAN
  BY DEF Typing
<1>2. hog' = [start |-> IF start THEN TRUE ELSE hog.start /\ ~(hog.done /\ ~write),
              start_q |-> hog.start, wr_done_q |-> aw.done /\ w.done,
              done |-> (aw.done /\ w.done) \/ hog.wr_done_q, wrote |-> start \/ write]
  BY DEF Control, wr1_done, wr_done
<1>3. /\ hog'.start = IF start THEN TRUE ELSE hog.start /\ ~(hog.done /\ ~write)
      /\ hog'.start_q = hog.start /\ hog'.wr_done_q = (aw.done /\ w.done)
      /\ hog'.done = ((aw.done /\ w.done) \/ hog.wr_done_q) /\ hog'.wrote = (start \/ write)
  BY <1>2, Zenon
<1>4. /\ hog'.start \in BOOLEAN /\ hog'.start_q \in BOOLEAN /\ hog'.wr_done_q \in BOOLEAN
      /\ hog'.done \in BOOLEAN /\ hog'.wrote \in BOOLEAN
  BY <1>1, <1>3
<1>5. hog' = [start |-> hog'.start, start_q |-> hog'.start_q, wr_done_q |-> hog'.wr_done_q,
              done |-> hog'.done, wrote |-> hog'.wrote]
  BY <1>2, Zenon
<1>6. hog' \in [start : BOOLEAN, start_q : BOOLEAN, wr_done_q : BOOLEAN,
                done : BOOLEAN, wrote : BOOLEAN]
  BY <1>4, <1>5
<1> QED
  BY <1>1, <1>3, <1>6

AwStates == {"IDLE", "HEAD", "QWN", "WAIT", "DONE"}

LEMMA AwMoves ==
  ASSUME NEW awready \in BOOLEAN, WriteAddresses(awready), aw.state \in AwStates
  PROVE  \/ /\ aw.state = "IDLE" /\ feature # "done"
            /\ aw' = AwIdle
         \/ /\ aw.state = "IDLE" /\ feature = "done"
            /\ aw' = [aw EXCEPT !.state = "HEAD", !.valid = TRUE, !.addr = 0,
                                !.count = @ + 1]
         \/ /\ aw.state \in {"HEAD", "QWN", "WAIT"} /\ ~aw_handshake(awready)
            /\ aw' = [aw EXCEPT !.state = "WAIT"]
         \/ /\ aw.state \in {"HEAD", "QWN", "WAIT"} /\ aw_handshake(awready)
            /\ aw.count < wr_burst_time
            /\ aw' = [aw EXCEPT !.state = "QWN", !.valid = TRUE, !.addr = @ + PAGE,
                                !.count = @ + 1]
         \/ /\ aw.state \in {"HEAD", "QWN", "WAIT"} /\ aw_handshake(awready)
            /\ ~(aw.count < wr_burst_time)
            /\ aw' = [AwIdle EXCEPT !.state = "DONE", !.done = TRUE]
         \/ /\ aw.state = "DONE" /\ w.done
            /\ aw' = AwIdle
         \/ /\ aw.state = "DONE" /\ ~w.done
            /\ aw' = [AwIdle EXCEPT !.state = "DONE", !.done = TRUE]
<1>1. CASE aw.state = "IDLE"
  BY <1>1 DEF aw_nstate, write_feature_done, WriteAddresses
<1>2. CASE aw.state = "DONE"
  BY <1>2 DEF aw_nstate, write_feature_done, WriteAddresses
<1>3. CASE aw.state \in {"HEAD", "QWN", "WAIT"}
  BY <1>3 DEF aw_nstate, write_feature_done, WriteAddresses
<1> QED
  BY <1>1, <1>2, <1>3 DEF AwStates

LEMMA WMoves ==
  ASSUME NEW wready \in BOOLEAN, WriteData(wready),
         w.state \in {"IDLE", "WAIT_DATA", "QWN", "LAST", "WAIT", "DONE"}
  PROVE  \/ /\ w.state = "IDLE" /\ feature # "done"
            /\ w' = WIdle
         \/ /\ \/ w.state = "IDLE" /\ feature = "done"
               \/ w.state = "WAIT_DATA" /\ ~rd.valid
               \/ /\ w.state \in {"QWN", "LAST", "WAIT"} /\ w_handshake(wready)
                  /\ w.state = "QWN" \/ w.burst_count < wr_burst_time
            /\ w' = [w EXCEPT !.state = "WAIT_DATA", !.valid = FALSE, !.last = FALSE]
         \/ /\ w.state = "WAIT_DATA" /\ rd.valid /\ w.data_count < BURST - 1
            /\ w' = [w EXCEPT !.state = "QWN", !.valid = TRUE, !.data_count = @ + 1]
         \/ /\ w.state = "WAIT_DATA" /\ rd.valid /\ ~(w.data_count < BURST - 1)
            /\ w' = [w EXCEPT !.state = "LAST", !.valid = TRUE, !.last = TRUE,
                              !.data_count = 0, !.burst_count = @ + 1]
         \/ /\ w.state \in {"QWN", "LAST", "WAIT"} /\ ~w_handshake(wready)
            /\ w' = [w EXCEPT !.state = "WAIT"]
         \/ /\ \/ w.state \in {"LAST", "WAIT"} /\ w_handshake(wready)
                  /\ ~(w.burst_count < wr_burst_time)
               \/ w.state = "DONE" /\ ~aw.done
            /\ w' = [WIdle EXCEPT !.state = "DONE", !.done = TRUE]
         \/ /\ w.state = "DONE" /\ aw.done
            /\ w' = WIdle
<1>1. CASE w.state = "IDLE"
  BY <1>1 DEF w_nstate, write_feature_done, WriteData
<1>2. CASE w.state = "DONE"
  BY <1>2 DEF w_nstate, write_feature_done, WriteData
<1>3. CASE w.state = "WAIT_DATA"
  BY <1>3 DEF w_nstate, write_feature_done, WriteData
<1>4. CASE w.state \in {"QWN", "LAST", "WAIT"}
  <2>1. CASE w.state = "QWN"
    BY <2>1 DEF w_nstate, WriteData
  <2>2. CASE w.state \in {"LAST", "WAIT"}
    BY <2>2, Zenon DEF w_nstate, WriteData
  <2> QED
    BY <1>4, <2>1, <2>2
<1> QED
  BY <1>1, <1>2, <1>3, <1>4

LEMMA FeatureMoves ==
  ASSUME NEW computed \in BOOLEAN, NEW cleared \in BOOLEAN, Histograms(computed, cleared),
         Typing
  PROVE  \/ img.finish /\ feature' = "computing"
         \/ ~img.finish /\ feature = "computing" /\ feature' \in {"computing", "done"}
         \/ ~img.finish /\ feature \in {"none", "done"} /\ feature' = "none"
<1>1. CASE img.finish
  BY <1>1 DEF Histograms
<1>2. CASE ~img.finish /\ feature = "computing"
  BY <1>2 DEF Histograms
<1>3. CASE ~img.finish /\ feature = "done"
  BY <1>3 DEF Histograms
<1>4. CASE ~img.finish /\ feature = "none"
  BY <1>4 DEF Histograms
<1>5. img.finish \in BOOLEAN /\ feature \in {"none", "computing", "done"}
  BY DEF Typing
<1> QED
  BY <1>1, <1>2, <1>3, <1>4, <1>5

LEMMA ScalerMoves ==
  ASSUME Scaler, Typing
  PROVE  \/ /\ \/ img.state = "await" /\ ~hog_start
               \/ img.state = "work" /\ img.finish
            /\ img' = [ImgAwait EXCEPT !.state = "await", !.sig = row_signal_need]
         \/ /\ \/ img.state = "await" /\ hog_start
               \/ img.state = "await1" /\ ~hog_ready
            /\ img' = [img EXCEPT !.state = "await1", !.sig = row_signal_need]
         \/ /\ \/ img.state = "await1" /\ hog_ready
               \/ img.state = "work" /\ ~img.finish
            /\ img' = [ScalerWork EXCEPT !.state = "work", !.sig = row_signal_need]
<1>1. img.state \in {"await", "await1", "work"}
  BY DEF Typing
<1>2. CASE img.state = "await"
  <2>1. CASE hog_start
    BY <1>2, <2>1 DEF Scaler
  <2>2. CASE ~hog_start
    BY <1>2, <2>2 DEF Scaler
  <2> QED
    BY <2>1, <2>2
<1>3. CASE img.state = "await1"
  <2>1. CASE hog_ready
    BY <1>3, <2>1 DEF Scaler
  <2>2. CASE ~hog_ready
    BY <1>3, <2>2 DEF Scaler
  <2> QED
    BY <2>1, <2>2
<1>4. CASE img.state = "work"
  <2>1. CASE img.finish
    BY <1>4, <2>1 DEF Scaler
  <2>2. CASE ~img.finish
    BY <1>4, <2>2 DEF Scaler
  <2> QED
    BY <2>1, <2>2
<1> QED
  BY <1>1, <1>2, <1>3, <1>4

LEMMA WorkMoves ==
  \/ /\ img.delay > 0 /\ img.column = OUT - 1 /\ img.delay = FLUSH
     /\ ScalerWork = [img EXCEPT !.finish = TRUE]
  \/ /\ img.delay > 0 /\ img.column = OUT - 1 /\ img.delay # FLUSH
     /\ ScalerWork = [img EXCEPT !.delay = @ + 1]
  \/ /\ ~(img.delay > 0 /\ img.column = OUT - 1) /\ rowsReady
     /\ ScalerWork = ScalerAdvance
  \/ /\ ~(img.delay > 0 /\ img.column = OUT - 1) /\ ~rowsReady
     /\ ScalerWork = img
<1>1. CASE img.delay > 0 /\ img.column = OUT - 1
  BY <1>1, Zenon DEF ScalerWork
<1>2. CASE ~(img.delay > 0 /\ img.column = OUT - 1)
  BY <1>2, Zenon DEF ScalerWork
<1> QED
  BY <1>1, <1>2

\* The registers of R after an edge at which it goes to the state n.
Taken(rvalid) ==
    [r EXCEPT !.state = r_nstate(rvalid), !.data = IF r_handshake(rvalid) THEN beat ELSE @,
              !.flag[pair + 1] = turnAfter(r_nstate(rvalid))]

LEMMA RMoves ==
  ASSUME NEW rvalid \in BOOLEAN, ReadData(rvalid)
  PROVE  /\ r_nstate(rvalid) = "IDLE" => r' = RIdle
         /\ r_nstate(rvalid) = "WAIT" =>
              r' = IF r.byte_count = 0 THEN RowBegin(Taken(rvalid), blk.addr)
                   ELSE Taken(rvalid)
         /\ r_nstate(rvalid) = "PAIR" =>
              r' = [Taken(rvalid) EXCEPT !.ready = FALSE, !.byte_en = @ + 2,
                                         !.byte_count = @ - 2]
         /\ r_nstate(rvalid) \in {"LAST_PAIR", "LAST_ONE"} => r' = BeatEnd(Taken(rvalid))
         /\ r_nstate(rvalid) = "END" =>
              r' = [Taken(rvalid) EXCEPT !.ready = FALSE, !.done = TRUE]
         /\ r_nstate(rvalid) \in {"IDLE", "WAIT", "END"} =>
              \A b \in 0 .. 3 : wea'[b] = <<>>
<1>1. CASE r_nstate(rvalid) = "IDLE"
  BY <1>1, Zenon DEF ReadData, Taken
<1>2. CASE r_nstate(rvalid) = "WAIT"
  BY <1>2, Zenon DEF ReadData, Taken
<1>3. CASE r_nstate(rvalid) = "PAIR"
  BY <1>3, Zenon DEF ReadData, Taken
<1>4. CASE r_nstate(rvalid) = "LAST_PAIR"
  BY <1>4, Zenon DEF ReadData, Taken
<1>5. CASE r_nstate(rvalid) = "LAST_ONE"
  BY <1>5, Zenon DEF ReadData, Taken
<1>6. CASE r_nstate(rvalid) = "END"
  BY <1>6, Zenon DEF ReadData, Taken
<1>7. CASE r_nstate(rvalid) \notin {"IDLE", "WAIT", "PAIR", "LAST_PAIR", "LAST_ONE", "END"}
  BY <1>7
<1> QED
  BY <1>1, <1>2, <1>3, <1>4, <1>5, <1>6, <1>7

LEMMA RStateMoves ==
  ASSUME NEW rvalid \in BOOLEAN, r.state \in RStates
  PROVE  /\ r.state = "IDLE" =>
              r_nstate(rvalid) = IF hog_start THEN "WAIT" ELSE "IDLE"
         /\ r.state = "WAIT" =>
              r_nstate(rvalid) = IF r_handshake(rvalid) THEN Write(r.byte_count) ELSE "WAIT"
         /\ r.state = "PAIR" => r_nstate(rvalid) = Write(r.byte_count)
         /\ r.state \in {"LAST_PAIR", "LAST_ONE"} =>
              r_nstate(rvalid) = IF ~r.ready THEN "END"
                                 ELSE IF rvalid THEN Write(r.byte_count) ELSE "WAIT"
         /\ r.state = "END" =>
              r_nstate(rvalid) = IF img.finish THEN "IDLE" ELSE "END"
<1>1. CASE r.state = "IDLE"
  BY <1>1, Zenon DEF r_nstate
<1>2. CASE r.state = "WAIT"
  BY <1>2, Zenon DEF r_nstate
<1>3. CASE r.state = "PAIR"
  BY <1>3, Zenon DEF r_nstate
<1>4. CASE r.state = "LAST_PAIR"
  BY <1>4, Zenon DEF r_nstate
<1>5. CASE r.state = "LAST_ONE"
  BY <1>5, Zenon DEF r_nstate
<1>6. CASE r.state = "END"
  BY <1>6, Zenon DEF r_nstate
<1> QED
  BY <1>1, <1>2, <1>3, <1>4, <1>5, <1>6 DEF RStates

AwType == [state : AwStates, valid : BOOLEAN, addr : Int, count : Int, done : BOOLEAN]

WStates == {"IDLE", "WAIT_DATA", "QWN", "LAST", "WAIT", "DONE"}

WType == [state : WStates, valid : BOOLEAN, last : BOOLEAN, data_count : Int,
          burst_count : Int, done : BOOLEAN]

ImgType == [state : {"await", "await1", "work"}, row : Int, column : Int, sig : Int,
            delay : Int, finish : BOOLEAN]

LEMMA AwFields ==
  ASSUME NEW awready \in BOOLEAN, WriteAddresses(awready), Typing
  PROVE  /\ aw' \in AwType
         /\ \/ /\ aw.state = "IDLE" /\ feature # "done"
               /\ aw' = AwIdle /\ aw'.state = "IDLE"
            \/ /\ aw.state = "IDLE" /\ feature = "done"
               /\ aw'.state = "HEAD" /\ aw'.valid /\ aw'.addr = 0
               /\ aw'.count = aw.count + 1 /\ aw'.done = aw.done
            \/ /\ aw.state \in {"HEAD", "QWN", "WAIT"} /\ ~aw_handshake(awready)
               /\ aw'.state = "WAIT" /\ aw'.valid = aw.valid /\ aw'.addr = aw.addr
               /\ aw'.count = aw.count /\ aw'.done = aw.done
            \/ /\ aw.state \in {"HEAD", "QWN", "WAIT"} /\ aw_handshake(awready)
               /\ aw.count < wr_burst_time
               /\ aw'.state = "QWN" /\ aw'.valid /\ aw'.addr = aw.addr + PAGE
               /\ aw'.count = aw.count + 1 /\ aw'.done = aw.done
            \/ /\ aw.state \in {"HEAD", "QWN", "WAIT"} /\ aw_handshake(awready)
               /\ ~(aw.count < wr_burst_time)
               /\ aw'.state = "DONE" /\ ~aw'.valid /\ aw'.count = 0 /\ aw'.done
            \/ /\ aw.state = "DONE" /\ w.done
               /\ aw' = AwIdle /\ aw'.state = "IDLE"
            \/ /\ aw.state = "DONE" /\ ~w.done
               /\ aw'.state = "DONE" /\ ~aw'.valid /\ aw'.count = 0 /\ aw'.done
<1>1. aw \in AwType /\ PAGE \in Int /\ aw.addr \in Int /\ aw.count \in Int
  BY Sizes DEF Typing, AwType, AwStates
<1>2. aw.state \in AwStates
  BY <1>1 DEF AwType
<1>3. PICK z \in Int : z = 0
  OBVIOUS
<1>4. /\ AwIdle \in AwType /\ AwIdle.state = "IDLE" /\ ~AwIdle.valid
      /\ AwIdle.count = 0
  BY DEF AwIdle, AwType, AwStates
<1>5. PICK d : d = [AwIdle EXCEPT !.state = "DONE", !.done = TRUE]
  OBVIOUS
<1>6. d \in AwType /\ d.state = "DONE" /\ ~d.valid /\ d.count = 0 /\ d.done
  <2>1. PICK i \in AwType : i = AwIdle
    BY <1>4
  <2> QED
    BY <1>4, <1>5, <2>1 DEF AwType, AwStates
<1>7. PICK n \in Int, a \in Int : n = aw.count + 1 /\ a = aw.addr + PAGE
  BY <1>1
<1>8. PICK h : h = [aw EXCEPT !.state = "HEAD", !.valid = TRUE, !.addr = z, !.count = n]
  OBVIOUS
<1>9. h \in AwType /\ h.state = "HEAD" /\ h.valid /\ h.addr = 0 /\ h.count = n
      /\ h.done = aw.done
  BY <1>1, <1>3, <1>8 DEF AwType, AwStates
<1>10. PICK q : q = [aw EXCEPT !.state = "QWN", !.valid = TRUE, !.addr = a, !.count = n]
  OBVIOUS
<1>11. q \in AwType /\ q.state = "QWN" /\ q.valid /\ q.addr = a /\ q.count = n
       /\ q.done = aw.done
  BY <1>1, <1>10 DEF AwType, AwStates
<1>12. PICK s : s = [aw EXCEPT !.state = "WAIT"]
  OBVIOUS
<1>13. s \in AwType /\ s.state = "WAIT" /\ s.valid = aw.valid /\ s.addr = aw.addr
       /\ s.count = aw.count /\ s.done = aw.done
  BY <1>1, <1>12 DEF AwType, AwStates
<1>14. /\ h = [aw EXCEPT !.state = "HEAD", !.valid = TRUE, !.addr = 0, !.count = @ + 1]
       /\ q = [aw EXCEPT !.state = "QWN", !.valid = TRUE, !.addr = @ + PAGE, !.count = @ + 1]
  BY <1>3, <1>7, <1>8, <1>10
<1>15. \/ aw.state = "IDLE" /\ feature # "done" /\ aw' = AwIdle
       \/ aw.state = "IDLE" /\ feature = "done" /\ aw' = h
       \/ aw.state \in {"HEAD", "QWN", "WAIT"} /\ ~aw_handshake(awready) /\ aw' = s
       \/ /\ aw.state \in {"HEAD", "QWN", "WAIT"} /\ aw_handshake(awready)
          /\ aw.count < wr_burst_time /\ aw' = q
       \/ /\ aw.state \in {"HEAD", "QWN", "WAIT"} /\ aw_handshake(awready)
          /\ ~(aw.count < wr_burst_time) /\ aw' = d
       \/ aw.state = "DONE" /\ w.done /\ aw' = AwIdle
       \/ aw.state = "DONE" /\ ~w.done /\ aw' = d
  BY <1>2, <1>5, <1>12, <1>14, AwMoves, Zenon
<1> QED
  BY <1>15, <1>4, <1>6, <1>7, <1>9, <1>11, <1>13

LEMMA WFields ==
  ASSUME NEW wready \in BOOLEAN, WriteData(wready), Typing
  PROVE  /\ w' \in WType
         /\ \/ /\ w.state = "IDLE" /\ feature # "done"
               /\ w' = WIdle /\ w'.state = "IDLE"
            \/ /\ \/ w.state = "IDLE" /\ feature = "done"
                  \/ w.state = "WAIT_DATA" /\ ~rd.valid
                  \/ /\ w.state \in {"QWN", "LAST", "WAIT"} /\ w_handshake(wready)
                     /\ w.state = "QWN" \/ w.burst_count < wr_burst_time
               /\ w'.state = "WAIT_DATA" /\ ~w'.valid /\ ~w'.last /\ w'.done = w.done
               /\ w'.data_count = w.data_count /\ w'.burst_count = w.burst_count
            \/ /\ w.state = "WAIT_DATA" /\ rd.valid /\ w.data_count < BURST - 1
               /\ w'.state = "QWN" /\ w'.valid /\ w'.last = w.last /\ w'.done = w.done
               /\ w'.data_count = w.data_count + 1 /\ w'.burst_count = w.burst_count
            \/ /\ w.state = "WAIT_DATA" /\ rd.valid /\ ~(w.data_count < BURST - 1)
               /\ w'.state = "LAST" /\ w'.valid /\ w'.last /\ w'.done = w.done
               /\ w'.data_count = 0 /\ w'.burst_count = w.burst_count + 1
            \/ /\ w.state \in {"QWN", "LAST", "WAIT"} /\ ~w_handshake(wready)
               /\ w'.state = "WAIT" /\ w'.valid = w.valid /\ w'.last = w.last
               /\ w'.done = w.done
               /\ w'.data_count = w.data_count /\ w'.burst_count = w.burst_count
            \/ /\ \/ w.state \in {"LAST", "WAIT"} /\ w_handshake(wready)
                     /\ ~(w.burst_count < wr_burst_time)
                  \/ w.state = "DONE" /\ ~aw.done
               /\ w'.state = "DONE" /\ ~w'.valid /\ ~w'.last /\ w'.done
               /\ w'.data_count = 0 /\ w'.burst_count = 0
            \/ /\ w.state = "DONE" /\ aw.done
               /\ w' = WIdle /\ w'.state = "IDLE"
<1>1. w \in WType /\ w.data_count \in Int /\ w.burst_count \in Int
  BY DEF Typing, WType, WStates
<1>2. w.state \in WStates
  BY <1>1 DEF WType
<1>3. PICK z \in Int : z = 0
  OBVIOUS
<1>4. /\ WIdle \in WType /\ WIdle.state = "IDLE" /\ ~WIdle.valid /\ ~WIdle.last
      /\ WIdle.data_count = 0 /\ WIdle.burst_count = 0
  BY DEF WIdle, WType, WStates
<1>5. PICK d : d = [WIdle EXCEPT !.state = "DONE", !.done = TRUE]
  OBVIOUS
<1>6. d \in WType /\ d.state = "DONE" /\ ~d.valid /\ ~d.last /\ d.data_count = 0
      /\ d.burst_count = 0 /\ d.done
  <2>1. PICK i \in WType : i = WIdle
    BY <1>4
  <2> QED
    BY <1>4, <1>5, <2>1 DEF WType, WStates
<1>7. PICK n \in Int, b \in Int : n = w.data_count + 1 /\ b = w.burst_count + 1
  BY <1>1
<1>8. PICK h : h = [w EXCEPT !.state = "WAIT_DATA", !.valid = FALSE, !.last = FALSE]
  OBVIOUS
<1>9. h \in WType /\ h.state = "WAIT_DATA" /\ ~h.valid /\ ~h.last /\ h.done = w.done
      /\ h.data_count = w.data_count /\ h.burst_count = w.burst_count
  BY <1>1, <1>8 DEF WType, WStates
<1>10. PICK q : q = [w EXCEPT !.state = "QWN", !.valid = TRUE, !.data_count = n]
  OBVIOUS
<1>11. q \in WType /\ q.state = "QWN" /\ q.valid /\ q.last = w.last /\ q.done = w.done
       /\ q.data_count = n /\ q.burst_count = w.burst_count
  BY <1>1, <1>10 DEF WType, WStates
<1>12. PICK s : s = [w EXCEPT !.state = "WAIT"]
  OBVIOUS
<1>13. s \in WType /\ s.state = "WAIT" /\ s.valid = w.valid /\ s.last = w.last
       /\ s.done = w.done /\ s.data_count = w.data_count /\ s.burst_count = w.burst_count
  BY <1>1, <1>12 DEF WType, WStates
<1>14. PICK l : l = [w EXCEPT !.state = "LAST", !.valid = TRUE, !.last = TRUE,
                              !.data_count = z, !.burst_count = b]
  OBVIOUS
<1>15. l \in WType /\ l.state = "LAST" /\ l.valid /\ l.last /\ l.done = w.done
       /\ l.data_count = 0 /\ l.burst_count = b
  BY <1>1, <1>3, <1>14 DEF WType, WStates
<1>16. /\ q = [w EXCEPT !.state = "QWN", !.valid = TRUE, !.data_count = @ + 1]
       /\ l = [w EXCEPT !.state = "LAST", !.valid = TRUE, !.last = TRUE,
                        !.data_count = 0, !.burst_count = @ + 1]
  BY <1>3, <1>7, <1>10, <1>14
<1>17. \/ w.state = "IDLE" /\ feature # "done" /\ w' = WIdle
       \/ /\ \/ w.state = "IDLE" /\ feature = "done"
             \/ w.state = "WAIT_DATA" /\ ~rd.valid
             \/ /\ w.state \in {"QWN", "LAST", "WAIT"} /\ w_handshake(wready)
                /\ w.state = "QWN" \/ w.burst_count < wr_burst_time
          /\ w' = h
       \/ w.state = "WAIT_DATA" /\ rd.valid /\ w.data_count < BURST - 1 /\ w' = q
       \/ w.state = "WAIT_DATA" /\ rd.valid /\ ~(w.data_count < BURST - 1) /\ w' = l
       \/ w.state \in {"QWN", "LAST", "WAIT"} /\ ~w_handshake(wready) /\ w' = s
       \/ /\ \/ w.state \in {"LAST", "WAIT"} /\ w_handshake(wready)
                /\ ~(w.burst_count < wr_burst_time)
             \/ w.state = "DONE" /\ ~aw.done
          /\ w' = d
       \/ w.state = "DONE" /\ aw.done /\ w' = WIdle
  BY <1>2, <1>5, <1>8, <1>12, <1>16, WMoves, Zenon DEF WStates
<1> QED
  BY <1>17, <1>4, <1>6, <1>7, <1>9, <1>11, <1>13, <1>15

-----------------------------------------------------------------------------
(* R.                                                                      *)

LEMMA BlockFacts ==
  ASSUME Typing
  PROVE  /\ blk.x \in Nat /\ blk.x > 1 /\ blk.y \in Nat /\ blk.y > 0
         /\ blk.addr \in Nat /\ blk.stride \in Nat
<1>1. blk \in Blocks
  BY DEF Typing
<1> QED
  BY <1>1, BlockAssumption

Flags == [1 .. 2 -> 0 .. 1]

RType == [state : RStates, ready : BOOLEAN, row_count : Int, flag : Flags,
          byte_en : Int, byte_count : Int, col_remain : Int, fst_addr : Int,
          done : BOOLEAN, data : Int]

LEMMA MinMax ==
  ASSUME NEW a \in Int, NEW b \in Int
  PROVE  /\ Min({a, b}) = IF a <= b THEN a ELSE b
         /\ Max({a, b}) = IF a >= b THEN a ELSE b
<1>1. \E x \in {a, b} : \A y \in {a, b} : x =< y
  OBVIOUS
<1>2. \E x \in {a, b} : \A y \in {a, b} : x >= y
  OBVIOUS
<1>3. Min({a, b}) = IF a <= b THEN a ELSE b
  BY <1>1 DEF Min
<1>4. Max({a, b}) = IF a >= b THEN a ELSE b
  BY <1>2 DEF Max
<1> QED
  BY <1>3, <1>4

LEMMA MaxZero ==
  ASSUME NEW b \in Int
  PROVE  Max({0, b}) = IF b <= 0 THEN 0 ELSE b
<1>1. PICK a \in Int : a = 0
  OBVIOUS
<1>2. Max({a, b}) = IF a >= b THEN a ELSE b
  BY MinMax
<1> QED
  BY <1>1, <1>2

LEMMA WriteFacts ==
  ASSUME NEW n \in Int
  PROVE  /\ Write(n) \in {"PAIR", "LAST_PAIR", "LAST_ONE"}
         /\ Write(n) = "PAIR" <=> n > 2
         /\ Write(n) = "LAST_PAIR" <=> n = 2
  BY DEF Write

LEMMA RowBeginFacts ==
  ASSUME Typing, NEW rr \in RType, NEW addr \in Int
  PROVE  /\ RowBegin(rr, addr) \in RType
         /\ RowBegin(rr, addr).state = rr.state /\ RowBegin(rr, addr).ready
         /\ RowBegin(rr, addr).row_count = rr.row_count
         /\ RowBegin(rr, addr).flag = rr.flag
         /\ RowBegin(rr, addr).data = rr.data /\ RowBegin(rr, addr).done = rr.done
         /\ RowBegin(rr, addr).byte_en = addr % BEAT
         /\ RowBegin(rr, addr).fst_addr = addr + blk.stride
         /\ RowBegin(rr, addr).byte_count =
              IF BEAT - (addr % BEAT) <= blk.y THEN BEAT - (addr % BEAT) ELSE blk.y
         /\ RowBegin(rr, addr).col_remain =
              IF blk.y + (addr % BEAT) - BEAT <= 0 THEN 0
              ELSE blk.y + (addr % BEAT) - BEAT
<1>1. addr % BEAT \in Int /\ blk.y \in Int /\ blk.stride \in Int /\ BEAT \in Int
  BY Sizes, BlockFacts
<1>a. PICK a \in Int : a = BEAT - (addr % BEAT)
  BY <1>1
<1>b. PICK b \in Int : b = blk.y + (addr % BEAT) - BEAT
  BY <1>1
<1>c. PICK c \in Int : c = addr % BEAT
  BY <1>1
<1>d. PICK d \in Int : d = addr + blk.stride
  BY <1>1
<1>2. PICK n \in Int : n = Min({a, blk.y}) /\ n = IF a <= blk.y THEN a ELSE blk.y
  BY <1>1, MinMax
<1>3. PICK m \in Int : m = Max({0, b}) /\ m = IF b <= 0 THEN 0 ELSE b
  BY MaxZero
<1>4. /\ n = IF BEAT - (addr % BEAT) <= blk.y THEN BEAT - (addr % BEAT) ELSE blk.y
      /\ m = IF blk.y + (addr % BEAT) - BEAT <= 0 THEN 0 ELSE blk.y + (addr % BEAT) - BEAT
  BY <1>a, <1>b, <1>2, <1>3
<1>5. RowBegin(rr, addr) =
        [rr EXCEPT !.ready = TRUE, !.byte_en = c, !.fst_addr = d,
                   !.byte_count = n, !.col_remain = m]
  BY <1>a, <1>b, <1>c, <1>d, <1>2, <1>3, Zenon DEF RowBegin
<1>6. RowBegin(rr, addr) \in RType
  BY <1>5, Zenon DEF RType
<1>7. RowBegin(rr, addr).byte_count = n /\ RowBegin(rr, addr).col_remain = m
  BY <1>5 DEF RType
<1>8. /\ RowBegin(rr, addr).state = rr.state /\ RowBegin(rr, addr).ready
      /\ RowBegin(rr, addr).row_count = rr.row_count
      /\ RowBegin(rr, addr).flag = rr.flag
      /\ RowBegin(rr, addr).data = rr.data /\ RowBegin(rr, addr).done = rr.done
      /\ RowBegin(rr, addr).byte_en = c
      /\ RowBegin(rr, addr).fst_addr = d
  BY <1>5 DEF RType
<1> QED
  BY <1>4, <1>6, <1>7, <1>8, <1>c, <1>d

LEMMA BeatEndFacts ==
  ASSUME Typing, NEW rr \in RType
  PROVE  /\ BeatEnd(rr) \in RType
         /\ BeatEnd(rr).state = rr.state
         /\ rr.col_remain # 0 =>
              BeatEnd(rr) = [rr EXCEPT !.ready = TRUE, !.byte_en = 0,
                   !.byte_count = IF BEAT <= rr.col_remain THEN BEAT ELSE rr.col_remain,
                   !.col_remain = IF rr.col_remain - BEAT <= 0 THEN 0
                                  ELSE rr.col_remain - BEAT]
         /\ rr.col_remain = 0 /\ rr.row_count = blk.x - 1 =>
              BeatEnd(rr) = [rr EXCEPT !.ready = FALSE, !.row_count = @ + 1]
         /\ rr.col_remain = 0 /\ rr.row_count # blk.x - 1 =>
              BeatEnd(rr) = RowBegin([rr EXCEPT !.row_count = @ + 1], rr.fst_addr)
<1>0. /\ rr.col_remain \in Int /\ rr.row_count \in Int /\ rr.fst_addr \in Int
      /\ BEAT \in Int /\ blk.x \in Int
  BY Sizes, BlockFacts DEF RType
<1>1. CASE rr.col_remain # 0
  <2>1. BeatEnd(rr) = [rr EXCEPT !.ready = TRUE, !.byte_en = 0,
                      !.byte_count = Min({BEAT, rr.col_remain}),
                      !.col_remain = Max({0, rr.col_remain - BEAT})]
    BY <1>1, Zenon DEF BeatEnd
  <2>2. Min({BEAT, rr.col_remain}) = IF BEAT <= rr.col_remain THEN BEAT ELSE rr.col_remain
    BY <1>0, MinMax
  <2>3. Max({0, rr.col_remain - BEAT}) =
          IF rr.col_remain - BEAT <= 0 THEN 0 ELSE rr.col_remain - BEAT
    <3>1. PICK b \in Int : b = rr.col_remain - BEAT
      BY <1>0
    <3>2. Max({0, b}) = IF b <= 0 THEN 0 ELSE b
      BY MaxZero
    <3> QED
      BY <3>1, <3>2
  <2>4. BeatEnd(rr) = [rr EXCEPT !.ready = TRUE, !.byte_en = 0,
                   !.byte_count = IF BEAT <= rr.col_remain THEN BEAT ELSE rr.col_remain,
                   !.col_remain = IF rr.col_remain - BEAT <= 0 THEN 0
                                  ELSE rr.col_remain - BEAT]
    BY <2>1, <2>2, <2>3
  <2>5. BeatEnd(rr) \in RType /\ BeatEnd(rr).state = rr.state
    <3>1. PICK n \in Int : n = IF BEAT <= rr.col_remain THEN BEAT ELSE rr.col_remain
      BY <1>0
    <3>2. PICK m \in Int : m = IF rr.col_remain - BEAT <= 0 THEN 0
                               ELSE rr.col_remain - BEAT
      BY <1>0
    <3>3. PICK z \in Int : z = 0
      OBVIOUS
    <3>4. BeatEnd(rr) = [rr EXCEPT !.ready = TRUE, !.byte_en = z, !.byte_count = n,
                                   !.col_remain = m]
      BY <2>4, <3>1, <3>2, <3>3
    <3> QED
      BY <3>4 DEF RType
  <2> QED
    BY <1>1, <2>4, <2>5
<1>2. CASE rr.col_remain = 0 /\ rr.row_count = blk.x - 1
  <2>1. BeatEnd(rr) = [rr EXCEPT !.ready = FALSE, !.row_count = @ + 1]
    BY <1>2, Zenon DEF BeatEnd
  <2>2. PICK n \in Int : n = rr.row_count + 1
    BY <1>0
  <2>3. BeatEnd(rr) = [rr EXCEPT !.ready = FALSE, !.row_count = n]
    BY <2>1, <2>2
  <2>4. BeatEnd(rr) \in RType /\ BeatEnd(rr).state = rr.state
    BY <2>3 DEF RType
  <2> QED
    BY <1>2, <2>1, <2>4
<1>3. CASE rr.col_remain = 0 /\ rr.row_count # blk.x - 1
  <2>1. BeatEnd(rr) = RowBegin([rr EXCEPT !.row_count = @ + 1], rr.fst_addr)
    BY <1>3, Zenon DEF BeatEnd
  <2>2. [rr EXCEPT !.row_count = @ + 1] \in RType
        /\ [rr EXCEPT !.row_count = @ + 1].state = rr.state
    BY <1>0 DEF RType
  <2>3. BeatEnd(rr) \in RType /\ BeatEnd(rr).state = rr.state
    <3>1. PICK ss \in RType : ss = [rr EXCEPT !.row_count = @ + 1]
      BY <2>2
    <3>2. RowBegin(ss, rr.fst_addr) \in RType /\ RowBegin(ss, rr.fst_addr).state = ss.state
      BY <1>0, RowBeginFacts
    <3> QED
      BY <2>1, <2>2, <3>1, <3>2
  <2> QED
    BY <1>3, <2>1, <2>3
<1> QED
  BY <1>1, <1>2, <1>3

LEMMA TakenFacts ==
  ASSUME Typing, NEW rvalid \in BOOLEAN, rvalid => bursts # <<>>,
         r_nstate(rvalid) \in RStates
  PROVE  /\ Taken(rvalid) \in RType
         /\ Taken(rvalid).state = r_nstate(rvalid) /\ Taken(rvalid).ready = r.ready
         /\ Taken(rvalid).row_count = r.row_count
         /\ Taken(rvalid).byte_en = r.byte_en /\ Taken(rvalid).byte_count = r.byte_count
         /\ Taken(rvalid).col_remain = r.col_remain
         /\ Taken(rvalid).fst_addr = r.fst_addr /\ Taken(rvalid).done = r.done
         /\ Taken(rvalid).data = IF r_handshake(rvalid) THEN beat ELSE r.data
         /\ Taken(rvalid).flag = [r.flag EXCEPT ![pair + 1] = turnAfter(r_nstate(rvalid))]
<1>1. pair \in 0 .. 1 /\ r \in RType
  <2>1. r \in RType
    BY DEF Typing, RType, Flags
  <2>2. r.row_count \in Int
    BY <2>1 DEF RType
  <2> QED
    BY <2>1, <2>2 DEF pair
<1>2. turn \in 0 .. 1
  BY <1>1 DEF turn, RType, Flags
<1>3. turnAfter(r_nstate(rvalid)) \in 0 .. 1
  BY <1>2 DEF turnAfter
<1>4. rvalid => beat \in Int
  <2> SUFFICES ASSUME rvalid PROVE beat \in Int
    OBVIOUS
  <2>1. bursts \in Seq([addr : Int, len : Int]) /\ bursts # <<>> /\ rbeat \in Int
    BY DEF Typing
  <2>2. Head(bursts) \in [addr : Int, len : Int]
    <3>1. PICK T : T = [addr : Int, len : Int]
      OBVIOUS
    <3> QED
      BY <2>1, <3>1, HeadTailProperties
  <2>3. Head(bursts).addr \in Int /\ BEAT \in Int /\ BEAT > 0
    BY <2>2, Sizes
  <2> QED
    BY <2>1, <2>3 DEF beat
<1>5. PICK d \in Int : d = IF r_handshake(rvalid) THEN beat ELSE r.data
  BY <1>1, <1>4 DEF r_handshake, RType
<1>6. PICK f \in Flags :
         f = [r.flag EXCEPT ![pair + 1] = turnAfter(r_nstate(rvalid))]
  BY <1>1, <1>3 DEF RType, Flags
<1>7. Taken(rvalid) = [r EXCEPT !.state = r_nstate(rvalid), !.data = d, !.flag = f]
  BY <1>1, <1>5, <1>6 DEF Taken
<1> QED
  BY <1>1, <1>5, <1>6, <1>7 DEF RType

LEMMA RTyping ==
  ASSUME IInv, NEW rvalid \in BOOLEAN, ReadData(rvalid), rvalid => bursts # <<>>
  PROVE  /\ r_nstate(rvalid) \in RStates
         /\ r' \in RType /\ r'.state = r_nstate(rvalid)
<1>t. Typing /\ r.state \in RStates /\ r.byte_count \in Int
  BY DEF IInv, Typing
<1>0. r_nstate(rvalid) \in RStates
  BY <1>t, RStateMoves, WriteFacts DEF RStates
<1>1. PICK tt \in RType : tt = Taken(rvalid) /\ tt.state = r_nstate(rvalid)
  BY <1>t, <1>0, TakenFacts
<1>2. CASE r_nstate(rvalid) = "IDLE"
  <2>1. r' = RIdle
    BY <1>2, RMoves, Zenon
  <2>2. RIdle \in RType /\ RIdle.state = "IDLE"
    <3>1. <<0, 0>> \in Flags
      BY DEF Flags
    <3> QED
      BY <3>1 DEF RIdle, RType, RStates
  <2> QED
    BY <1>0, <1>2, <2>1, <2>2
<1>3. CASE r_nstate(rvalid) = "WAIT"
  <2>1. r' = IF r.byte_count = 0 THEN RowBegin(tt, blk.addr) ELSE tt
    BY <1>1, <1>3, RMoves, Zenon
  <2>2. blk.addr \in Int
    BY <1>t, BlockFacts
  <2>3. RowBegin(tt, blk.addr) \in RType /\ RowBegin(tt, blk.addr).state = tt.state
    BY <1>t, <2>2, RowBeginFacts, Zenon
  <2> QED
    BY <1>0, <1>1, <2>1, <2>3
<1>4. CASE r_nstate(rvalid) = "PAIR"
  <2>1. r' = [tt EXCEPT !.ready = FALSE, !.byte_en = @ + 2, !.byte_count = @ - 2]
    BY <1>1, <1>4, RMoves, Zenon
  <2>2. PICK n \in Int, m \in Int : n = tt.byte_en + 2 /\ m = tt.byte_count - 2
    BY DEF RType
  <2>3. r' = [tt EXCEPT !.ready = FALSE, !.byte_en = n, !.byte_count = m]
    BY <2>1, <2>2
  <2>4. r' \in RType /\ r'.state = tt.state
    BY <2>3 DEF RType
  <2> QED
    BY <1>0, <1>1, <2>4
<1>5. CASE r_nstate(rvalid) \in {"LAST_PAIR", "LAST_ONE"}
  <2>1. r' = BeatEnd(tt)
    BY <1>1, <1>5, RMoves, Zenon
  <2> QED
    BY <1>0, <1>1, <1>t, <2>1, BeatEndFacts, Zenon
<1>6. CASE r_nstate(rvalid) = "END"
  <2>1. r' = [tt EXCEPT !.ready = FALSE, !.done = TRUE]
    BY <1>1, <1>6, RMoves, Zenon
  <2>2. r' \in RType /\ r'.state = tt.state
    BY <2>1 DEF RType
  <2> QED
    BY <1>0, <1>1, <2>2
<1> QED
  BY <1>0, <1>2, <1>3, <1>4, <1>5, <1>6 DEF RStates

\* The rows and the ready line.
LEMMA RRows ==
  ASSUME IInv, NEW rvalid \in BOOLEAN, ReadData(rvalid), rvalid => bursts # <<>>
  PROVE  LET n == r_nstate(rvalid)
         IN  /\ n \in {"IDLE", "WAIT", "PAIR", "END"} /\ n # "IDLE" =>
                  r'.row_count = r.row_count
             /\ n = "PAIR" => ~r'.ready
             /\ n \in {"LAST_PAIR", "LAST_ONE"} =>
                  \/ r'.row_count = r.row_count /\ r'.ready
                  \/ r.row_count = blk.x - 1 /\ r'.row_count = r.row_count + 1 /\ ~r'.ready
                  \/ r.row_count # blk.x - 1 /\ r'.row_count = r.row_count + 1 /\ r'.ready
<1>t. Typing /\ r.state \in RStates /\ r.byte_count \in Int
  BY DEF IInv, Typing
<1>0. r_nstate(rvalid) \in RStates
  BY RTyping
<1>1. PICK tt \in RType : tt = Taken(rvalid) /\ tt.state = r_nstate(rvalid)
                          /\ tt.row_count = r.row_count /\ tt.ready = r.ready
                          /\ tt.fst_addr = r.fst_addr /\ tt.col_remain = r.col_remain
  BY <1>t, <1>0, TakenFacts, Zenon
<1>2. CASE r_nstate(rvalid) = "IDLE"
  BY <1>2
<1>3. CASE r_nstate(rvalid) = "WAIT"
  <2>1. r' = IF r.byte_count = 0 THEN RowBegin(tt, blk.addr) ELSE tt
    BY <1>1, <1>3, RMoves, Zenon
  <2>2. blk.addr \in Int
    BY <1>t, BlockFacts
  <2>3. RowBegin(tt, blk.addr).row_count = tt.row_count
    BY <1>t, <2>2, RowBeginFacts, Zenon
  <2> QED
    BY <1>3, <1>1, <2>1, <2>3
<1>4. CASE r_nstate(rvalid) = "PAIR"
  <2>1. r' = [tt EXCEPT !.ready = FALSE, !.byte_en = @ + 2, !.byte_count = @ - 2]
    BY <1>1, <1>4, RMoves, Zenon
  <2>2. r'.row_count = tt.row_count /\ r'.ready = FALSE
    BY <2>1 DEF RType
  <2> QED
    BY <1>4, <1>1, <2>2
<1>5. CASE r_nstate(rvalid) \in {"LAST_PAIR", "LAST_ONE"}
  <2>1. r' = BeatEnd(tt)
    BY <1>1, <1>5, RMoves, Zenon
  <2>2. CASE tt.col_remain # 0
    <3>1. r' = [tt EXCEPT !.ready = TRUE, !.byte_en = 0,
                   !.byte_count = IF BEAT <= tt.col_remain THEN BEAT ELSE tt.col_remain,
                   !.col_remain = IF tt.col_remain - BEAT <= 0 THEN 0
                                  ELSE tt.col_remain - BEAT]
      BY <1>t, <2>1, <2>2, BeatEndFacts, Zenon
    <3>2. r'.row_count = tt.row_count /\ r'.ready = TRUE
      BY <3>1 DEF RType
    <3> QED
      BY <1>1, <1>5, <3>2
  <2>3. CASE tt.col_remain = 0 /\ tt.row_count = blk.x - 1
    <3>1. r' = [tt EXCEPT !.ready = FALSE, !.row_count = @ + 1]
      BY <1>t, <2>1, <2>3, BeatEndFacts, Zenon
    <3>2. r'.row_count = tt.row_count + 1 /\ r'.ready = FALSE
      BY <3>1 DEF RType
    <3> QED
      BY <1>1, <1>5, <2>3, <3>2
  <2>4. CASE tt.col_remain = 0 /\ tt.row_count # blk.x - 1
    <3>1. r' = RowBegin([tt EXCEPT !.row_count = @ + 1], tt.fst_addr)
      BY <1>t, <2>1, <2>4, BeatEndFacts, Zenon
    <3>2. PICK n \in Int : n = tt.row_count + 1
      BY DEF RType
    <3>3. PICK ss \in RType : ss = [tt EXCEPT !.row_count = n]
      BY DEF RType
    <3>4. r' = RowBegin(ss, tt.fst_addr) /\ ss.row_count = n /\ tt.fst_addr \in Int
      BY <3>1, <3>2, <3>3 DEF RType
    <3>5. r'.row_count = n /\ r'.ready
      BY <1>t, <3>4, RowBeginFacts
    <3> QED
      BY <1>1, <1>5, <2>4, <3>2, <3>5
  <2> QED
    BY <2>2, <2>3, <2>4
<1>6. CASE r_nstate(rvalid) = "END"
  <2>1. r' = [tt EXCEPT !.ready = FALSE, !.done = TRUE]
    BY <1>1, <1>6, RMoves, Zenon
  <2>2. r'.row_count = tt.row_count
    BY <2>1 DEF RType
  <2> QED
    BY <1>6, <1>1, <2>2
<1> QED
  BY <1>0, <1>2, <1>3, <1>4, <1>5, <1>6 DEF RStates

LEMMA RowStep ==
  ASSUME IInv, NEW start \in BOOLEAN, NEW write \in BOOLEAN, Registers(start, write),
         NEW rvalid \in BOOLEAN, ReadData(rvalid), rvalid => r.ready /\ bursts # <<>>
  PROVE  RowInv'
<1>t. Typing /\ RowInv /\ r.state \in RStates /\ r.byte_count \in Int /\ r.ready \in BOOLEAN
      /\ r.row_count \in Int /\ r' \in RType
  BY RTyping DEF IInv, Typing
<1>n. PICK n : n = r_nstate(rvalid)
  OBVIOUS
<1>1. n \in RStates /\ r'.state = n /\ r'.row_count \in Int /\ r'.ready \in BOOLEAN
  BY <1>n, RTyping DEF RType
<1>2. /\ r.state = "IDLE" => r.row_count = 0
      /\ r.row_count \in 0 .. blk.x
      /\ r.row_count = blk.x <=>
           r.state = "END" \/ (r.state \in {"LAST_PAIR", "LAST_ONE"} /\ ~r.ready)
  BY <1>t DEF RowInv, RIdle
<1>3. blk.x \in Nat /\ blk.x > 1
  BY <1>t, BlockFacts
<1>4. /\ n \in {"WAIT", "PAIR", "LAST_PAIR", "LAST_ONE"} => r.row_count < blk.x
      /\ n = "END" => r.row_count = blk.x
  BY <1>t, <1>n, <1>1, <1>2, <1>3, RStateMoves, WriteFacts DEF RStates
<1>5. n # "IDLE" => blk' = blk
  <2>1. start => ~hog.start /\ r.state = "IDLE"
    BY DEF Registers, IInv, StageInv, Quiet
  <2>2. start => n = "IDLE"
    BY <2>1, <1>n, <1>t, RStateMoves DEF hog_start
  <2> QED
    BY <2>2 DEF Registers
<1>6. CASE n = "IDLE"
  <2>1. r' = RIdle
    BY <1>n, <1>6, RMoves, Zenon
  <2>2. blk' \in Blocks
    BY <1>t DEF Registers, Typing
  <2>3. blk'.x \in Nat /\ blk'.x > 1
    BY <2>2, BlockAssumption
  <2>4. \A b \in 0 .. 3 : wea'[b] = <<>>
    BY <1>n, <1>6, RMoves, Zenon
  <2> QED
    BY <2>1, <2>3, <2>4 DEF RowInv, RIdle
<1>7. CASE n # "IDLE"
  <2>1. blk' = blk
    BY <1>5, <1>7
  <2>2. n \in {"WAIT", "END"} => \A b \in 0 .. 3 : wea'[b] = <<>>
    BY <1>n, RMoves, Zenon
  <2>3. /\ n \in {"WAIT", "PAIR", "END"} => r'.row_count = r.row_count
        /\ n = "PAIR" => ~r'.ready
        /\ n \in {"LAST_PAIR", "LAST_ONE"} =>
             \/ r'.row_count = r.row_count /\ r'.ready
             \/ r.row_count = blk.x - 1 /\ r'.row_count = r.row_count + 1 /\ ~r'.ready
             \/ r.row_count # blk.x - 1 /\ r'.row_count = r.row_count + 1 /\ r'.ready
    BY <1>n, RRows
  <2>4. r'.row_count \in 0 .. blk'.x
    BY <1>1, <1>2, <1>3, <1>4, <1>7, <2>1, <2>3 DEF RStates
  <2>5. r'.row_count = blk'.x <=>
          r'.state = "END" \/ (r'.state \in {"LAST_PAIR", "LAST_ONE"} /\ ~r'.ready)
    BY <1>1, <1>2, <1>3, <1>4, <1>7, <2>1, <2>3 DEF RStates
  <2> QED
    BY <1>1, <1>7, <2>2, <2>4, <2>5 DEF RowInv
<1> QED
  BY <1>6, <1>7

-----------------------------------------------------------------------------
(* The scale: the row that comes before the last row of the result already *)
(* needs the last row of the block.                                        *)

LEMMA LeastOf ==
  ASSUME NEW S \in SUBSET (0 .. BITS), S # {}
  PROVE  \E m \in S : \A x \in S : m =< x
<1>1. SUFFICES ASSUME \A m \in S : \E x \in S : x < m PROVE FALSE
  <2>1. S \subseteq Int
    BY DEF BITS
  <2> QED
    BY <2>1
<1>2. \A x \in S : x \in 0 .. 8
  BY DEF BITS
<1>3. 0 \notin S
  BY <1>1, <1>2
<1>4. 1 \notin S
  BY <1>1, <1>2, <1>3
<1>5. 2 \notin S
  BY <1>1, <1>2, <1>3, <1>4
<1>6. 3 \notin S
  BY <1>1, <1>2, <1>3, <1>4, <1>5
<1>7. 4 \notin S
  BY <1>1, <1>2, <1>3, <1>4, <1>5, <1>6
<1>8. 5 \notin S
  BY <1>1, <1>2, <1>3, <1>4, <1>5, <1>6, <1>7
<1>9. 6 \notin S
  BY <1>1, <1>2, <1>3, <1>4, <1>5, <1>6, <1>7, <1>8
<1>10. 7 \notin S
  BY <1>1, <1>2, <1>3, <1>4, <1>5, <1>6, <1>7, <1>8, <1>9
<1>11. 8 \notin S
  BY <1>1, <1>2, <1>3, <1>4, <1>5, <1>6, <1>7, <1>8, <1>9, <1>10
<1>12. PICK x \in S : TRUE
  OBVIOUS
<1> QED
  BY <1>2, <1>3, <1>4, <1>5, <1>6, <1>7, <1>8, <1>9, <1>10, <1>11, <1>12

LEMMA Digits ==
  ASSUME NEW n, \E d \in 0 .. BITS : precise(n, d)
  PROVE  digits(n) \in 0 .. BITS /\ precise(n, digits(n))
<1>1. PICK S \in SUBSET (0 .. BITS) : S = {d \in 0 .. BITS : precise(n, d)}
  OBVIOUS
<1>2. \E m \in S : \A x \in S : m =< x
  BY <1>1, LeastOf
<1>3. Min(S) \in S
  BY <1>2 DEF Min
<1>4. digits(n) = Min(S)
  BY <1>1 DEF digits
<1> QED
  BY <1>1, <1>3, <1>4

\* The arithmetic of it: L is the length, P and Q the powers of two, q and m the
\* quotient and the remainder of the division by OUT.
LEMMA Reaches ==
  ASSUME NEW L \in Nat, NEW P \in Nat, P > 0, NEW Q \in Nat, Q > 0,
         NEW o \in Nat, o > 1, NEW q \in Nat, NEW m \in 0 .. o - 1, L * P = q * o + m,
         2 * (o - 1) * m < P * o,
         NEW k \in Nat, k >= o
  PROVE  (k * (q * Q)) \div (P * Q) >= L - 1
<1>1. m < P
  <2> SUFFICES ASSUME m >= P PROVE FALSE
    OBVIOUS
  <2>1. PICK c \in Nat : c = 2 * (o - 1) /\ c >= o
    OBVIOUS
  <2>2. c * m >= c * P /\ c * P >= o * P
    BY <2>1
  <2>3. o * P = P * o /\ c * m \in Int /\ c * P \in Int /\ P * o \in Int
    BY <2>1
  <2> QED
    BY <2>1, <2>2, <2>3
<1>2. PICK N \in Nat : N = P * Q /\ N > 0
  <2>1. P * Q \in Nat /\ P * Q > 0
    OBVIOUS
  <2> QED
    BY <2>1
<1>3. PICK t \in Nat : t = q * Q
  <2>1. q * Q \in Nat
    OBVIOUS
  <2> QED
    BY <2>1
<1>4. k * t >= o * t /\ k * t \in Nat /\ o * t \in Nat
  OBVIOUS
<1>5. o * t = L * N - m * Q
  <2>1. o * t = (q * o) * Q
    BY <1>3
  <2>2. q * o = L * P - m
    <3>1. q * o \in Int /\ L * P \in Int
      OBVIOUS
    <3> QED
      BY <3>1
  <2>3. (L * P - m) * Q = L * (P * Q) - m * Q
    OBVIOUS
  <2> QED
    BY <1>2, <2>1, <2>2, <2>3
<1>6. m * Q < N
  <2>1. (m + 1) * Q <= P * Q
    BY <1>1
  <2>2. (m + 1) * Q = m * Q + Q /\ m * Q \in Int
    OBVIOUS
  <2> QED
    BY <1>2, <2>1, <2>2
<1>7. PICK x \in Int : x = k * t
  BY <1>4
<1>8. x > (L - 1) * N
  <2>1. (L - 1) * N = L * N - N /\ L * N \in Int /\ m * Q \in Int
    BY <1>2
  <2> QED
    BY <1>4, <1>5, <1>6, <1>7, <2>1
<1>9. x \div N \in Int /\ x < ((x \div N) + 1) * N
  <2>1. x = (x \div N) * N + (x % N) /\ x % N < N /\ x \div N \in Int /\ x % N \in Int
    BY <1>2
  <2>2. ((x \div N) + 1) * N = (x \div N) * N + N /\ (x \div N) * N \in Int
    BY <1>2, <2>1
  <2> QED
    BY <2>1, <2>2
<1>10. x \div N >= L - 1
  <2> SUFFICES ASSUME (x \div N) + 1 <= L - 1 PROVE FALSE
    BY <1>9
  <2>1. ((x \div N) + 1) * N <= (L - 1) * N
    BY <1>2, <1>9
  <2>2. ((x \div N) + 1) * N \in Int /\ (L - 1) * N \in Int
    BY <1>2, <1>9
  <2> QED
    BY <1>8, <1>9, <2>1, <2>2
<1> QED
  BY <1>2, <1>3, <1>7, <1>10

LEMMA SignalReaches ==
  ASSUME Typing
  PROVE  /\ row_signal_need \in Int
         /\ img.row >= OUT - 2 => row_signal_need >= blk.x - 1
<1>t. /\ img.row \in Int /\ blk \in Blocks /\ blk.x \in Nat /\ blk.x > 1
      /\ blk.y \in Nat /\ blk.y > 0
  BY BlockFacts DEF Typing
<1>0. OUT \in Nat /\ OUT > 1
  BY Sizes
<1>1. PICK L \in Nat : L = length(blk.x) /\ L >= blk.x - 1
  BY <1>t, <1>0 DEF length
<1>2. PICK d \in 0 .. BITS : d = digits(blk.x) /\ precise(blk.x, d)
  BY <1>t, ScaleAssumption, Digits
<1>3. PICK e \in 0 .. BITS : e = digits(blk.y)
  BY <1>t, ScaleAssumption, Digits
<1>4. PICK n \in 0 .. BITS : n = scale_n /\ n >= d
  <2>1. d \in Int /\ e \in Int
    BY DEF BITS
  <2>2. Max({d, e}) = IF d >= e THEN d ELSE e
    BY <2>1, MinMax
  <2> QED
    BY <1>2, <1>3, <2>1, <2>2 DEF scale_n
<1>5. PICK f \in 0 .. BITS : f = n - d
  BY <1>4 DEF BITS
<1>6. d + f = n /\ d + f <= BITS
  BY <1>4, <1>5 DEF BITS
<1>7. PICK P \in Nat, Q \in Nat : P = 2^d /\ Q = 2^f /\ P > 0 /\ Q > 0 /\ 2^n = P * Q
  <2>1. 2^d \in Nat \ {0} /\ 2^f \in Nat \ {0} /\ 2^(d + f) = 2^d * 2^f
    <3>1. 2^d \in Nat \ {0}
      BY PowerAssumption, Zenon
    <3>2. 2^f \in Nat \ {0}
      BY PowerAssumption, Zenon
    <3>3. d + f <= BITS => 2^(d + f) = 2^d * 2^f
      BY PowerAssumption, Zenon
    <3> QED
      BY <1>6, <3>1, <3>2, <3>3
  <2> QED
    BY <1>6, <2>1
<1>8. PICK x \in Nat : x = L * P
  <2>1. L * P \in Nat
    OBVIOUS
  <2> QED
    BY <2>1
<1>9. PICK q \in Nat, m \in 0 .. OUT - 1 : q = x \div OUT /\ m = x % OUT /\ x = q * OUT + m
  BY <1>0
<1>10. 2 * (OUT - 1) * m < P * OUT
  <2>1. 2 * (OUT - 1) * ((L * P) % OUT) < P * OUT
    BY <1>1, <1>2, <1>7 DEF precise
  <2> QED
    BY <1>8, <1>9, <2>1
<1>11. t_x = q * Q
  <2>1. t_x = ((L * 2^d) \div OUT) * 2^(n - d)
    BY <1>1, <1>2, <1>4 DEF t_x, scaleOf
  <2> QED
    BY <2>1, <1>5, <1>7, <1>8, <1>9
<1>12. row_signal_need = ((img.row + 2) * (q * Q)) \div (P * Q) + 1
  BY <1>4, <1>7, <1>11 DEF row_signal_need
<1>13. row_signal_need \in Int
  <2>1. PICK N \in Nat : N = P * Q /\ N > 0
    <3>1. P * Q \in Nat /\ P * Q > 0
      BY <1>7
    <3> QED
      BY <3>1
  <2>2. PICK a \in Int : a = (img.row + 2) * (q * Q)
    <3>1. (img.row + 2) * (q * Q) \in Int
      BY <1>t
    <3> QED
      BY <3>1
  <2> QED
    BY <1>12, <2>1, <2>2
<1>14. ASSUME img.row >= OUT - 2 PROVE row_signal_need >= blk.x - 1
  <2>1. PICK k \in Nat : k = img.row + 2 /\ k >= OUT
    BY <1>t, <1>0, <1>14
  <2>2. L * P = q * OUT + m
    BY <1>8, <1>9
  <2>3. (k * (q * Q)) \div (P * Q) >= L - 1
    BY <1>0, <1>7, <1>10, <2>1, <2>2, Reaches
  <2>4. PICK y : y = (k * (q * Q)) \div (P * Q)
    OBVIOUS
  <2>5. y + 1 = row_signal_need /\ y >= L - 1
    BY <1>12, <2>1, <2>3, <2>4
  <2>6. y \in Int
    <3>1. P * Q \in Nat /\ P * Q > 0 /\ k * (q * Q) \in Int
      BY <1>7
    <3> QED
      BY <2>4, <3>1
  <2> QED
    BY <1>t, <1>1, <2>5, <2>6
<1> QED
  BY <1>13, <1>14


-----------------------------------------------------------------------------
(* The fields of the scaler.                                               *)

LEMMA WorkFields ==
  ASSUME Typing
  PROVE  /\ ScalerWork \in ImgType
         /\ \/ /\ img.delay > 0 /\ img.column = OUT - 1 /\ img.delay = FLUSH
               /\ ScalerWork.row = img.row /\ ScalerWork.column = img.column
               /\ ScalerWork.delay = img.delay /\ ScalerWork.finish
            \/ /\ img.delay > 0 /\ img.column = OUT - 1 /\ img.delay # FLUSH
               /\ ScalerWork.row = img.row /\ ScalerWork.column = img.column
               /\ ScalerWork.delay = img.delay + 1 /\ ScalerWork.finish = img.finish
            \/ /\ ~(img.delay > 0 /\ img.column = OUT - 1) /\ rowsReady
               /\ ScalerWork.row = (IF img.column = OUT - 1 THEN img.row + 1 ELSE img.row)
               /\ ScalerWork.column = (img.column + 1) % OUT
               /\ ScalerWork.delay =
                    (IF img.row = OUT - 1 /\ img.column = OUT - 2 THEN 1 ELSE img.delay)
               /\ ScalerWork.finish = img.finish
            \/ /\ ~(img.delay > 0 /\ img.column = OUT - 1) /\ ~rowsReady
               /\ ScalerWork.row = img.row /\ ScalerWork.column = img.column
               /\ ScalerWork.delay = img.delay /\ ScalerWork.finish = img.finish
<1>1. img \in ImgType /\ img.row \in Int /\ img.column \in Int /\ img.delay \in Int
  BY DEF Typing, ImgType
<1>2. OUT \in Nat /\ OUT > 1
  BY Sizes
<1>3. PICK c \in Int, p \in Int, d \in Int, e \in Int :
         /\ c = (img.column + 1) % OUT
         /\ p = IF img.column = OUT - 1 THEN img.row + 1 ELSE img.row
         /\ d = IF img.row = OUT - 1 /\ img.column = OUT - 2 THEN 1 ELSE img.delay
         /\ e = img.delay + 1
  <2>1. (img.column + 1) % OUT \in Int
    BY <1>1, <1>2
  <2>2. PICK c \in Int : c = (img.column + 1) % OUT
    BY <2>1
  <2>3. PICK p \in Int : p = IF img.column = OUT - 1 THEN img.row + 1 ELSE img.row
    BY <1>1
  <2>4. PICK d \in Int :
           d = IF img.row = OUT - 1 /\ img.column = OUT - 2 THEN 1 ELSE img.delay
    BY <1>1
  <2>5. PICK e \in Int : e = img.delay + 1
    BY <1>1
  <2> QED
    BY <2>2, <2>3, <2>4, <2>5
<1>4. ScalerAdvance = [img EXCEPT !.column = c, !.row = p, !.delay = d]
  BY <1>3, Zenon DEF ScalerAdvance
<1>5. /\ ScalerAdvance \in ImgType /\ ScalerAdvance.row = p /\ ScalerAdvance.column = c
      /\ ScalerAdvance.delay = d /\ ScalerAdvance.finish = img.finish
  BY <1>1, <1>4 DEF ImgType
<1>6. PICK g \in ImgType : /\ g = [img EXCEPT !.finish = TRUE] /\ g.row = img.row
                           /\ g.column = img.column /\ g.delay = img.delay /\ g.finish
  <2>1. PICK g : g = [img EXCEPT !.finish = TRUE]
    OBVIOUS
  <2>2. /\ g \in ImgType /\ g.row = img.row /\ g.column = img.column
        /\ g.delay = img.delay /\ g.finish
    BY <1>1, <2>1 DEF ImgType
  <2> QED
    BY <2>1, <2>2
<1>7. PICK h : h = [img EXCEPT !.delay = e]
  OBVIOUS
<1>8. /\ h \in ImgType /\ h.row = img.row /\ h.column = img.column /\ h.delay = e
      /\ h.finish = img.finish
  BY <1>1, <1>7 DEF ImgType
<1>9. [img EXCEPT !.delay = @ + 1] = h
  BY <1>3, <1>7, Zenon
<1> QED
  BY <1>1, <1>3, <1>5, <1>6, <1>8, <1>9, WorkMoves

LEMMA ImgFields ==
  ASSUME Scaler, Typing
  PROVE  /\ img' \in ImgType /\ img'.sig = row_signal_need
         /\ \/ /\ \/ img.state = "await" /\ ~hog_start
                  \/ img.state = "work" /\ img.finish
               /\ img'.state = "await" /\ img'.row = 0 /\ img'.column = -1
               /\ img'.delay = 0 /\ ~img'.finish
            \/ /\ \/ img.state = "await" /\ hog_start
                  \/ img.state = "await1" /\ ~hog_ready
               /\ img'.state = "await1" /\ img'.row = img.row
               /\ img'.column = img.column /\ img'.delay = img.delay
               /\ img'.finish = img.finish
            \/ /\ \/ img.state = "await1" /\ hog_ready
                  \/ img.state = "work" /\ ~img.finish
               /\ img'.state = "work" /\ img'.row = ScalerWork.row
               /\ img'.column = ScalerWork.column /\ img'.delay = ScalerWork.delay
               /\ img'.finish = ScalerWork.finish
<1>1. img \in ImgType
  BY DEF Typing, ImgType
<1>2. PICK s \in Int : s = row_signal_need
  BY SignalReaches
<1>3. PICK k \in ImgType : k = ScalerWork
  BY WorkFields
<1>4. PICK a : a = [ImgAwait EXCEPT !.state = "await", !.sig = s]
  OBVIOUS
<1>5. /\ a \in ImgType /\ a.sig = s /\ a.state = "await" /\ a.row = 0 /\ a.column = -1
      /\ a.delay = 0 /\ ~a.finish
  <2>1. PICK i \in ImgType : /\ i = ImgAwait /\ i.row = 0 /\ i.column = -1 /\ i.delay = 0
                             /\ ~i.finish
    <3>1. /\ ImgAwait \in ImgType /\ ImgAwait.row = 0 /\ ImgAwait.column = -1
          /\ ImgAwait.delay = 0 /\ ~ImgAwait.finish
      BY DEF ImgAwait, ImgType
    <3> QED
      BY <3>1
  <2> QED
    BY <1>4, <2>1 DEF ImgType
<1>6. PICK b : b = [img EXCEPT !.state = "await1", !.sig = s]
  OBVIOUS
<1>7. /\ b \in ImgType /\ b.sig = s /\ b.state = "await1" /\ b.row = img.row
      /\ b.column = img.column /\ b.delay = img.delay /\ b.finish = img.finish
  BY <1>1, <1>6 DEF ImgType
<1>8. PICK c : c = [k EXCEPT !.state = "work", !.sig = s]
  OBVIOUS
<1>9. /\ c \in ImgType /\ c.sig = s /\ c.state = "work" /\ c.row = k.row
      /\ c.column = k.column /\ c.delay = k.delay /\ c.finish = k.finish
  BY <1>8 DEF ImgType
<1>10. \/ /\ \/ img.state = "await" /\ ~hog_start
             \/ img.state = "work" /\ img.finish
          /\ img' = a
       \/ /\ \/ img.state = "await" /\ hog_start
             \/ img.state = "await1" /\ ~hog_ready
          /\ img' = b
       \/ /\ \/ img.state = "await1" /\ hog_ready
             \/ img.state = "work" /\ ~img.finish
          /\ img' = c
  BY <1>2, <1>3, <1>4, <1>6, <1>8, ScalerMoves, Zenon
<1> QED
  BY <1>2, <1>3, <1>5, <1>7, <1>9, <1>10

LEMMA ScalerStates ==
  ASSUME Scaler, Typing
  PROVE  /\ img'.state = "await" <=> \/ img.state = "await" /\ ~hog_start
                                     \/ img.state = "work" /\ img.finish
         /\ img'.state = "await1" <=> \/ img.state = "await" /\ hog_start
                                      \/ img.state = "await1" /\ ~hog_ready
<1>1. /\ img.state \in {"await", "await1", "work"} /\ img.finish \in BOOLEAN
      /\ hog_ready \in BOOLEAN /\ hog_start \in BOOLEAN
  BY DEF Typing, hog_start
<1> QED
  BY <1>1, ImgFields
-----------------------------------------------------------------------------
(* The stages.                                                             *)

LEMMA StageStep ==
  ASSUME IInv, Next
  PROVE  StageInv'
<1>a. PICK arready, rvalid, awready, wready, computed, cleared \in BOOLEAN :
         Edge(arready, rvalid, awready, wready, computed, cleared)
  BY NextIsStep
<1>b. PICK start, write \in BOOLEAN : Registers(start, write)
  BY NextIsStep
<1>t. /\ hog.start \in BOOLEAN /\ hog.start_q \in BOOLEAN /\ hog.wr_done_q \in BOOLEAN
      /\ hog.done \in BOOLEAN /\ hog.wrote \in BOOLEAN
      /\ aw.done \in BOOLEAN /\ w.done \in BOOLEAN /\ img.finish \in BOOLEAN
      /\ r.state \in RStates /\ aw.state \in AwStates
      /\ w.state \in {"IDLE", "WAIT_DATA", "QWN", "LAST", "WAIT", "DONE"}
      /\ img.state \in {"await", "await1", "work"} /\ feature \in {"none", "computing", "done"}
  BY DEF IInv, Typing, AwStates
<1>0. /\ Typing /\ ReadData(rvalid) /\ WriteAddresses(awready) /\ WriteData(wready)
      /\ Scaler /\ Histograms(computed, cleared) /\ Control(start, write)
      /\ rvalid => bursts # <<>>
  BY <1>a, <1>b DEF IInv, Edge, Clock, Registers
<1>1. /\ hog'.start <=> start \/ (hog.start /\ ~(hog.done /\ ~write))
      /\ hog'.start_q <=> hog.start
      /\ hog'.wr_done_q <=> aw.done /\ w.done
      /\ hog'.done <=> (aw.done /\ w.done) \/ hog.wr_done_q
      /\ hog'.wrote <=> start \/ write
      /\ start => ~hog.start /\ ~hog.done
      /\ write /\ ~start => hog.done /\ ~hog.wrote
  BY <1>0, <1>b, ControlMoves DEF Registers
<1>2. /\ aw.state = "DONE" <=> aw.done
      /\ w.state = "DONE" <=> w.done
  BY <1>t DEF IInv, AddressInv, BeatInv, AwIdle, WIdle, AwStates
<1>3. /\ aw'.state = "IDLE" <=> \/ aw.state = "IDLE" /\ feature # "done"
                                \/ aw.done /\ w.done
      /\ w'.state = "IDLE" <=> \/ w.state = "IDLE" /\ feature # "done"
                               \/ aw.done /\ w.done
  <2>1. aw'.state = "IDLE" <=> \/ aw.state = "IDLE" /\ feature # "done"
                               \/ aw.done /\ w.done
    BY <1>0, <1>t, <1>2, AwFields DEF AwStates
  <2>2. w'.state = "IDLE" <=> \/ w.state = "IDLE" /\ feature # "done"
                              \/ aw.done /\ w.done
    BY <1>0, <1>t, <1>2, WFields
  <2> QED
    BY <2>1, <2>2
<1>4. r'.state = "IDLE" <=> \/ r.state = "IDLE" /\ ~hog_start
                            \/ r.state = "END" /\ img.finish
  <2>1. r.byte_count \in Int /\ r'.state = r_nstate(rvalid)
    BY <1>0, RTyping DEF Typing
  <2> QED
    BY <1>0, <1>t, <2>1, RStateMoves, WriteFacts DEF RStates
<1>5. img'.state = "await" <=> \/ img.state = "await" /\ ~hog_start
                               \/ img.state = "work" /\ img.finish
  BY <1>0, <1>t, ScalerStates
<1>6. img.finish => img.state = "work" /\ r.state = "END"
  BY DEF IInv, ScalerInv
<1>7. \/ img.finish /\ feature' = "computing"
      \/ ~img.finish /\ feature = "computing" /\ feature' \in {"computing", "done"}
      \/ ~img.finish /\ feature \in {"none", "done"} /\ feature' = "none"
  BY <1>0, FeatureMoves
<1>8. StageInv
  BY DEF IInv
<1>q. Quiet' <=> /\ r'.state = "IDLE" /\ img'.state = "await"
                 /\ feature' = "none" /\ aw'.state = "IDLE" /\ w'.state = "IDLE"
  BY DEF Quiet
<1> USE DEF Quiet, NotEnding, hog_start
<1>9. CASE ~hog.start
  <2>1. Quiet /\ ~hog.wr_done_q /\ ~img.finish /\ ~aw.done /\ ~w.done /\ ~hog_start
    BY <1>9, <1>8, <1>6, <1>2, <1>t DEF StageInv
  <2>2. Quiet'
    BY <2>1, <1>3, <1>4, <1>5, <1>7
  <2>3. ~hog'.wr_done_q /\ ~hog'.done /\ ~hog'.start_q
    BY <2>1, <1>1, <1>9
  <2> QED
    BY <2>2, <2>3 DEF StageInv
<1>10. CASE hog_start
  <2>1. Quiet /\ NotEnding /\ ~img.finish /\ ~aw.done /\ ~w.done
    BY <1>10, <1>8, <1>6, <1>2, <1>t DEF StageInv
  <2>2. Reading'
    BY <2>1, <1>10, <1>1, <1>3, <1>4, <1>5, <1>7 DEF Reading
  <2>3. hog'.start /\ hog'.start_q
    BY <2>1, <1>1, <1>10
  <2> QED
    BY <2>2, <2>3 DEF StageInv
<1>11. CASE hog.start /\ hog.start_q
  <2>0. ~hog_start /\ ~start /\ hog'.start_q
    BY <1>11, <1>1
  <2>1. CASE Reading
    <3>1. hog'.start /\ NotEnding'
      BY <1>11, <2>0, <2>1, <1>1, <1>2 DEF Reading
    <3>2. CASE img.finish
      <4>1. Computing'
        BY <1>11, <2>0, <2>1, <3>1, <3>2, <1>2, <1>3, <1>4, <1>5, <1>6, <1>7
           DEF Reading, Computing
      <4> QED
        BY <2>0, <3>1, <4>1 DEF StageInv
    <3>3. CASE ~img.finish
      <4>1. Reading'
        BY <1>11, <2>0, <2>1, <3>1, <3>3, <1>2, <1>3, <1>4, <1>5, <1>6, <1>7 DEF Reading
      <4> QED
        BY <2>0, <3>1, <4>1 DEF StageInv
    <3> QED
      BY <3>2, <3>3
  <2>2. CASE Computing
    <3>0. ~img.finish /\ ~aw.done /\ ~w.done
      BY <2>2, <1>2, <1>6 DEF Computing
    <3>1. hog'.start /\ NotEnding'
      BY <1>11, <2>0, <2>2, <3>0, <1>1 DEF Computing
    <3>2. CASE feature = "done"
      <4>1. Writing'
        BY <2>0, <2>2, <3>0, <3>1, <3>2, <1>3, <1>4, <1>5, <1>7 DEF Computing, Writing
      <4> QED
        BY <2>0, <3>1, <4>1 DEF StageInv
    <3>3. CASE feature # "done"
      <4>1. Computing'
        BY <2>0, <2>2, <3>0, <3>1, <3>3, <1>t, <1>3, <1>4, <1>5, <1>7 DEF Computing
      <4> QED
        BY <2>0, <3>1, <4>1 DEF StageInv
    <3> QED
      BY <3>2, <3>3
  <2>3. CASE Writing
    <3>0. ~img.finish
      BY <2>3, <1>6 DEF Writing
    <3>1. hog'.start
      BY <1>11, <2>0, <2>3, <1>1 DEF Writing
    <3>2. CASE aw.done /\ w.done
      <4>1. Ending'
        BY <2>0, <2>3, <3>0, <3>2, <1>1, <1>3, <1>4, <1>5, <1>7 DEF Writing, Ending
      <4> QED
        BY <2>0, <3>1, <4>1 DEF StageInv
    <3>3. CASE ~(aw.done /\ w.done)
      <4>1. Writing'
        BY <2>0, <2>3, <3>0, <3>3, <1>1, <1>3, <1>4, <1>5, <1>7 DEF Writing
      <4> QED
        BY <2>0, <3>1, <4>1 DEF StageInv
    <3> QED
      BY <3>2, <3>3
  <2>4. CASE Ending
    <3>0. ~img.finish /\ ~aw.done /\ ~w.done
      BY <2>4, <1>2, <1>6 DEF Ending
    <3>1. Quiet' /\ ~hog'.wr_done_q
      BY <2>0, <2>4, <3>0, <1>1, <1>3, <1>4, <1>5, <1>7 DEF Ending
    <3>2. hog'.start => hog.wr_done_q /\ write
      BY <2>0, <2>4, <1>1 DEF Ending
    <3>3. hog'.start => Ending'
      BY <3>1, <3>2, <1>1, <2>0 DEF Ending
    <3> QED
      BY <2>0, <3>1, <3>3 DEF StageInv
  <2> QED
    BY <1>11, <1>8, <2>1, <2>2, <2>3, <2>4 DEF StageInv
<1> QED
  BY <1>9, <1>10, <1>11


LEMMA EndOfRows ==
  ASSUME IInv, NEW rvalid \in BOOLEAN, ReadData(rvalid), rvalid => r.ready /\ bursts # <<>>,
         r.row_count = blk.x, ~img.finish
  PROVE  r'.state = "END"
<1>1. /\ r.state = "END" \/ (r.state \in {"LAST_PAIR", "LAST_ONE"} /\ ~r.ready)
      /\ r.state \in RStates
  BY DEF IInv, RowInv, Typing
<1>2. r_nstate(rvalid) = "END"
  BY <1>1, RStateMoves
<1> QED
  BY <1>2, RTyping

LEMMA ScalerStep ==
  ASSUME IInv, NEW start \in BOOLEAN, NEW write \in BOOLEAN, Registers(start, write),
         NEW rvalid \in BOOLEAN, ReadData(rvalid), rvalid => r.ready /\ bursts # <<>>,
         Scaler
  PROVE  ScalerInv'
<1>t. /\ Typing /\ ScalerInv /\ img'.row \in Int /\ img'.column \in Int /\ img'.delay \in Int
      /\ img'.finish \in BOOLEAN /\ img'.sig = row_signal_need
      /\ img.row \in Int /\ img.column \in Int /\ img.delay \in Int /\ img.sig \in Int
      /\ img.finish \in BOOLEAN /\ r.row_count \in Int
      /\ blk.x \in Int /\ row_signal_need \in Int
      /\ img.row >= OUT - 2 => row_signal_need >= blk.x - 1
  <2>1. Typing /\ ScalerInv
    BY DEF IInv
  <2>2. img' \in ImgType /\ img'.sig = row_signal_need
    BY <2>1, ImgFields
  <2>3. blk.x \in Int
    BY <2>1, BlockFacts
  <2>4. row_signal_need \in Int /\ (img.row >= OUT - 2 => row_signal_need >= blk.x - 1)
    BY <2>1, SignalReaches
  <2> QED
    BY <2>1, <2>2, <2>3, <2>4 DEF Typing, ImgType
<1>c. OUT \in Nat /\ OUT > 1 /\ FLUSH \in Nat /\ FLUSH > 0
  BY Sizes
<1>i. /\ img.state # "work" => img.row = 0 /\ img.column = -1 /\ img.delay = 0 /\ ~img.finish
      /\ img.row \in 0 .. OUT - 1 /\ img.column \in -1 .. OUT - 1 /\ img.delay \in 0 .. FLUSH
      /\ img.row = OUT - 1 => img.sig >= blk.x - 1
      /\ img.row = OUT - 1 /\ img.column = OUT - 1 => img.delay > 0
      /\ img.delay > 0 => img.row = OUT - 1 /\ img.column = OUT - 1 /\ r.state = "END"
      /\ img.finish => img.delay > 0
  BY <1>t DEF ScalerInv
<1>1. CASE img'.row = 0 /\ img'.column = -1 /\ img'.delay = 0 /\ ~img'.finish
  BY <1>1, <1>c DEF ScalerInv
<1>2. CASE ~(img'.row = 0 /\ img'.column = -1 /\ img'.delay = 0 /\ ~img'.finish)
  <2>1. /\ img'.state = "work" /\ img'.row = ScalerWork.row
        /\ img'.column = ScalerWork.column /\ img'.delay = ScalerWork.delay
        /\ img'.finish = ScalerWork.finish
        /\ \/ img.state = "await1"
           \/ img.state = "work"
        /\ ~img.finish
    BY <1>t, <1>i, <1>2, ImgFields
  <2>2. blk' = blk
    <3>1. start => Quiet
      BY DEF Registers, IInv, StageInv
    <3> QED
      BY <2>1, <3>1 DEF Registers, Quiet
  <2>3. r.row_count = blk.x => r'.state = "END"
    BY <2>1, EndOfRows
  <2>4. r.row_count <= blk.x /\ (r.state = "END" => r.row_count = blk.x)
    BY <1>t DEF IInv, RowInv
  <2>5. CASE img.delay > 0 /\ img.column = OUT - 1
    <3>1. /\ img'.row = img.row /\ img'.column = img.column
          /\ \/ img.delay = FLUSH /\ img'.delay = img.delay
             \/ img.delay # FLUSH /\ img'.delay = img.delay + 1
      BY <1>t, <2>1, <2>5, WorkFields
    <3>2. r'.state = "END"
      BY <1>i, <2>3, <2>4, <2>5
    <3> QED
      BY <1>t, <1>c, <1>i, <2>1, <2>2, <2>5, <3>1, <3>2 DEF ScalerInv
  <2>6. CASE ~(img.delay > 0 /\ img.column = OUT - 1) /\ rowsReady
    <3>1. /\ img'.row = (IF img.column = OUT - 1 THEN img.row + 1 ELSE img.row)
          /\ img'.column = (img.column + 1) % OUT
          /\ img'.delay =
               (IF img.row = OUT - 1 /\ img.column = OUT - 2 THEN 1 ELSE img.delay)
          /\ ~img'.finish
      BY <1>t, <2>1, <2>6, WorkFields
    <3>2. img.delay = 0
      BY <1>t, <1>i, <2>6
    <3>3. img'.column = IF img.column = OUT - 1 THEN 0 ELSE img.column + 1
      <4>1. PICK c \in 0 .. OUT : c = img.column + 1
        BY <1>i, <1>c
      <4>2. c % OUT = IF c = OUT THEN 0 ELSE c
        <5>1. CASE c = OUT
          BY <1>c, <5>1
        <5>2. CASE c # OUT
          <6>1. c \in 0 .. OUT - 1
            BY <5>2, <1>c
          <6> QED
            BY <6>1, <1>c, <5>2
        <5> QED
          BY <5>1, <5>2
      <4>3. img'.column = c % OUT
        BY <3>1, <4>1
      <4>4. c = OUT <=> img.column = OUT - 1
        BY <4>1, <1>i, <1>c
      <4>5. CASE c = OUT
        BY <4>2, <4>3, <4>4, <4>5
      <4>6. CASE c # OUT
        BY <4>1, <4>2, <4>3, <4>4, <4>6
      <4> QED
        BY <4>5, <4>6
    <3>4. img'.delay > 0 => r'.state = "END"
      <4>1. img'.delay > 0 => img.row = OUT - 1
        BY <3>1, <3>2
      <4>2. img'.delay > 0 => r.row_count > blk.x - 1
        BY <4>1, <1>t, <1>i, <2>6 DEF rowsReady
      <4> QED
        BY <4>2, <1>t, <2>3, <2>4
    <3>5. img'.row \in 0 .. OUT - 1
      BY <3>1, <3>2, <1>t, <1>c, <1>i
    <3>6. img'.row = OUT - 1 => img.row >= OUT - 2
      BY <3>1, <1>t, <1>c
    <3>7. img'.column \in -1 .. OUT - 1
      <4>1. PICK c \in -1 .. OUT - 1 : c = img.column
        BY <1>i
      <4>2. (IF c = OUT - 1 THEN 0 ELSE c + 1) \in -1 .. OUT - 1
        BY <4>1, <1>c
      <4> QED
        BY <3>3, <4>1, <4>2, Zenon
    <3>8. img'.row = OUT - 1 /\ img'.column = OUT - 1 => img'.delay > 0
      <4> SUFFICES ASSUME img'.row = OUT - 1, img'.column = OUT - 1 PROVE img'.delay > 0
        OBVIOUS
      <4>1. img.column = OUT - 2
        BY <3>3, <1>t, <1>c
      <4>2. img.row = OUT - 1
        BY <3>1, <4>1, <1>t, <1>c
      <4> QED
        BY <3>1, <4>1, <4>2
    <3>9. img'.delay > 0 => img'.row = OUT - 1 /\ img'.column = OUT - 1
      <4> SUFFICES ASSUME img'.delay > 0 PROVE img'.row = OUT - 1 /\ img'.column = OUT - 1
        OBVIOUS
      <4>1. img.row = OUT - 1 /\ img.column = OUT - 2
        BY <3>1, <3>2
      <4> QED
        BY <3>1, <3>3, <4>1, <1>t, <1>c
    <3>10. img'.delay \in 0 .. FLUSH
      BY <3>1, <3>2, <1>c
    <3>11. img'.row = OUT - 1 => img'.sig >= blk'.x - 1
      BY <3>6, <1>t, <2>2
    <3> QED
      BY <3>1, <3>4, <3>5, <3>7, <3>8, <3>9, <3>10, <3>11, <2>1 DEF ScalerInv
  <2>7. CASE ~(img.delay > 0 /\ img.column = OUT - 1) /\ ~rowsReady
    <3>1. /\ img'.row = img.row /\ img'.column = img.column /\ img'.delay = img.delay
          /\ ~img'.finish
      BY <1>t, <2>1, <2>7, WorkFields
    <3>2. img.delay = 0
      BY <1>t, <1>i, <2>7
    <3> QED
      BY <3>1, <3>2, <1>t, <1>c, <1>i, <2>1, <2>2 DEF ScalerInv
  <2> QED
    BY <2>5, <2>6, <2>7
<1> QED
  BY <1>1, <1>2

-----------------------------------------------------------------------------
(* AW and W.                                                               *)

\* The two are at work at the same time, and the other parts are not.
LEMMA Stages ==
  ASSUME IInv
  PROVE  /\ aw.state = "IDLE" <=> w.state = "IDLE"
         /\ aw.state # "IDLE" => feature = "none"
         /\ feature # "none" \/ w.state # "IDLE" => r.state = "IDLE"
         /\ r.state # "IDLE" => feature = "none"
<1>1. hog.start \in BOOLEAN /\ hog.start_q \in BOOLEAN /\ StageInv
  BY DEF IInv, Typing
<1>2. Quiet \/ Reading \/ Computing \/ Writing
  BY <1>1 DEF StageInv, Ending, hog_start
<1> QED
  BY <1>2 DEF Quiet, Reading, Computing, Writing

LEMMA AddressStep ==
  ASSUME IInv, NEW awready \in BOOLEAN, NEW wready \in BOOLEAN, WriteAddresses(awready),
         ResultMemory(awready, wready)
  PROVE  AddressInv' /\ asked' \in Int
<1>t. /\ Typing /\ AddressInv /\ asked \in Int /\ aw.count \in Int
      /\ aw.valid \in BOOLEAN /\ aw.state \in AwStates
  BY DEF IInv, Typing, AwStates
<1>c. wr_burst_time \in Nat /\ wr_burst_time > 0 /\ PAGE \in Nat
  BY Sizes, WholeBursts
<1>1. asked' = IF feature = "done" THEN 0
               ELSE IF aw.valid /\ awready THEN asked + 1 ELSE asked
  BY DEF ResultMemory, write_feature_done, aw_handshake
<1>2. asked' \in Int
  BY <1>t, <1>1
<1>3. aw.state # "IDLE" => feature # "done"
  BY Stages
<1>i. /\ aw.state = "IDLE" => aw.count = 0 /\ ~aw.valid /\ ~aw.done
      /\ aw.state \in {"HEAD", "QWN", "WAIT"} =>
           /\ aw.valid /\ ~aw.done
           /\ aw.count \in 1 .. wr_burst_time /\ asked = aw.count - 1
           /\ aw.addr = asked * PAGE
      /\ aw.state = "DONE" => /\ aw.count = 0 /\ ~aw.valid /\ aw.done
                              /\ asked = wr_burst_time
  BY <1>t DEF AddressInv, AwIdle
<1>4. CASE aw.state = "IDLE" /\ feature # "done"
  <2>1. aw' = AwIdle /\ aw'.state = "IDLE"
    BY <1>4, <1>t, AwFields
  <2> QED
    BY <1>2, <2>1 DEF AddressInv
<1>5. CASE aw.state = "IDLE" /\ feature = "done"
  <2>1. /\ aw'.state = "HEAD" /\ aw'.valid /\ aw'.addr = 0 /\ aw'.count = 1
        /\ aw'.done = aw.done
    BY <1>5, <1>t, <1>i, AwFields
  <2>2. asked' = 0 /\ 0 * PAGE = 0
    BY <1>1, <1>5, <1>c
  <2> QED
    BY <1>2, <1>i, <1>5, <1>c, <2>1, <2>2 DEF AddressInv
<1>6. CASE aw.state \in {"HEAD", "QWN", "WAIT"} /\ ~aw_handshake(awready)
  <2>1. /\ aw'.state = "WAIT" /\ aw'.valid = aw.valid /\ aw'.addr = aw.addr
        /\ aw'.count = aw.count /\ aw'.done = aw.done
    BY <1>6, <1>t, AwFields
  <2>2. asked' = asked
    BY <1>1, <1>3, <1>6 DEF aw_handshake
  <2> QED
    BY <1>2, <1>i, <1>6, <2>1, <2>2 DEF AddressInv
<1>7. CASE /\ aw.state \in {"HEAD", "QWN", "WAIT"} /\ aw_handshake(awready)
           /\ aw.count < wr_burst_time
  <2>1. /\ aw'.state = "QWN" /\ aw'.valid /\ aw'.addr = aw.addr + PAGE
        /\ aw'.count = aw.count + 1 /\ aw'.done = aw.done
    BY <1>7, <1>t, AwFields
  <2>2. asked' = asked + 1
    BY <1>1, <1>3, <1>7 DEF aw_handshake
  <2>3. (asked + 1) * PAGE = asked * PAGE + PAGE
    BY <1>t, <1>c
  <2>4. aw'.addr = asked' * PAGE
    BY <1>i, <1>7, <2>1, <2>2, <2>3
  <2>5. aw'.count \in 1 .. wr_burst_time /\ asked' = aw'.count - 1
    <3>1. aw.count \in 1 .. wr_burst_time - 1 /\ asked = aw.count - 1
      BY <1>i, <1>7, <1>c, <1>t
    <3> QED
      BY <3>1, <1>c, <1>t, <2>1, <2>2
  <2> QED
    BY <1>2, <1>i, <1>7, <2>1, <2>4, <2>5 DEF AddressInv
<1>8. CASE /\ aw.state \in {"HEAD", "QWN", "WAIT"} /\ aw_handshake(awready)
           /\ ~(aw.count < wr_burst_time)
  <2>1. aw'.state = "DONE" /\ ~aw'.valid /\ aw'.count = 0 /\ aw'.done
    BY <1>8, <1>t, AwFields
  <2>2. asked' = asked + 1
    BY <1>1, <1>3, <1>8 DEF aw_handshake
  <2> QED
    BY <1>2, <1>i, <1>8, <1>c, <2>1, <2>2 DEF AddressInv
<1>9. CASE aw.state = "DONE" /\ w.done
  <2>1. aw' = AwIdle /\ aw'.state = "IDLE"
    BY <1>9, <1>t, AwFields
  <2> QED
    BY <1>2, <2>1 DEF AddressInv
<1>10. CASE aw.state = "DONE" /\ ~w.done
  <2>1. aw'.state = "DONE" /\ ~aw'.valid /\ aw'.count = 0 /\ aw'.done
    BY <1>10, <1>t, AwFields
  <2>2. asked' = asked
    BY <1>1, <1>3, <1>i, <1>10
  <2> QED
    BY <1>2, <1>i, <1>10, <2>1, <2>2 DEF AddressInv
<1> QED
  BY <1>t, <1>4, <1>5, <1>6, <1>7, <1>8, <1>9, <1>10 DEF AwStates

LEMMA BeatStep ==
  ASSUME IInv, NEW awready \in BOOLEAN, NEW wready \in BOOLEAN, WriteData(wready),
         ResultMemory(awready, wready)
  PROVE  BeatInv' /\ written' \in Int
<1>t. /\ Typing /\ BeatInv /\ written \in Int /\ w.data_count \in Int /\ w.burst_count \in Int
      /\ w.valid \in BOOLEAN /\ w.last \in BOOLEAN /\ w.done \in BOOLEAN /\ w.state \in WStates
  BY DEF IInv, Typing, WStates
<1>c. /\ wr_burst_time \in Nat /\ wr_burst_time > 0 /\ BURST \in Nat /\ BURST > 0
      /\ wr_burst_time * BURST = Beats /\ Beats \in Nat
  BY Sizes, WholeBursts
<1>1. written' = IF feature = "done" THEN 0
                 ELSE IF w.valid /\ wready THEN written + 1 ELSE written
  BY DEF ResultMemory, write_feature_done, w_handshake
<1>2. written' \in Int
  BY <1>t, <1>1
<1>3. w.state # "IDLE" => feature # "done"
  BY Stages
<1>w. w' \in WType
  BY <1>t, WFields
<1>i. /\ w.state = "IDLE" => /\ w.data_count = 0 /\ w.burst_count = 0 /\ ~w.valid /\ ~w.done
                             /\ ~w.last
      /\ w.state = "WAIT_DATA" =>
           /\ ~w.valid /\ ~w.done /\ ~w.last
           /\ w.data_count \in 0 .. BURST - 1 /\ w.burst_count \in 0 .. wr_burst_time - 1
           /\ written = Put
      /\ w.state \in {"QWN", "LAST", "WAIT"} =>
           /\ w.valid /\ ~w.done
           /\ w.data_count \in 0 .. BURST - 1
           /\ w.burst_count \in 0 .. wr_burst_time
           /\ w.last <=> w.data_count = 0
           /\ IF w.last THEN w.burst_count > 0 ELSE w.burst_count < wr_burst_time
           /\ written = Put - 1
           /\ w.state = "QWN" => ~w.last
           /\ w.state = "LAST" => w.last
      /\ w.state = "DONE" => ~w.valid /\ ~w.last /\ w.data_count = 0 /\ w.burst_count = 0
                             /\ w.done /\ written = Beats
  <2>1. w.state = "IDLE" => /\ w.data_count = 0 /\ w.burst_count = 0 /\ ~w.valid /\ ~w.done
                            /\ ~w.last
    BY <1>t DEF BeatInv, WIdle
  <2>3. w.state = "WAIT_DATA" =>
           /\ ~w.valid /\ ~w.done /\ ~w.last
           /\ w.data_count \in 0 .. BURST - 1 /\ w.burst_count \in 0 .. wr_burst_time - 1
           /\ written = Put
    BY <1>t DEF BeatInv
  <2>4. w.state \in {"QWN", "LAST", "WAIT"} =>
           /\ w.valid /\ ~w.done
           /\ w.data_count \in 0 .. BURST - 1
           /\ w.burst_count \in 0 .. wr_burst_time
           /\ w.last <=> w.data_count = 0
           /\ IF w.last THEN w.burst_count > 0 ELSE w.burst_count < wr_burst_time
           /\ written = Put - 1
           /\ w.state = "QWN" => ~w.last
           /\ w.state = "LAST" => w.last
    BY <1>t DEF BeatInv
  <2>5. w.state = "DONE" => ~w.valid /\ ~w.last /\ w.data_count = 0 /\ w.burst_count = 0
                            /\ w.done /\ written = Beats
    BY <1>t DEF BeatInv
  <2> QED
    BY <2>1, <2>3, <2>4, <2>5, Zenon
<1>u. Put = w.burst_count * BURST + w.data_count /\ Put \in Int
  BY <1>t, <1>c DEF Put
<1>q. Put' = w'.burst_count * BURST + w'.data_count
  BY DEF Put
<1>p. \A b \in Int : (b + 1) * BURST = b * BURST + BURST /\ b * BURST \in Int
  BY <1>c
<1>4. CASE \/ w.state = "IDLE" /\ feature # "done"
           \/ w.state = "DONE" /\ aw.done
  <2>1. w' = WIdle /\ w'.state = "IDLE"
    BY <1>4, <1>t, WFields
  <2> QED
    BY <1>2, <2>1 DEF BeatInv
<1>5. CASE \/ w.state = "IDLE" /\ feature = "done"
           \/ w.state = "WAIT_DATA" /\ ~rd.valid
           \/ /\ w.state \in {"QWN", "LAST", "WAIT"} /\ w_handshake(wready)
              /\ w.state = "QWN" \/ w.burst_count < wr_burst_time
  <2>1. /\ w'.state = "WAIT_DATA" /\ ~w'.valid /\ ~w'.last /\ w'.done = w.done
        /\ w'.data_count = w.data_count /\ w'.burst_count = w.burst_count
    BY <1>5, <1>t, WFields
  <2>2. /\ ~w'.done
        /\ w'.data_count \in 0 .. BURST - 1 /\ w'.burst_count \in 0 .. wr_burst_time - 1
    <3>1. ~w'.done
      BY <1>i, <1>5, <2>1
    <3>2. w'.data_count \in 0 .. BURST - 1
      BY <1>i, <1>c, <1>5, <2>1
    <3>3. w.burst_count \in 0 .. wr_burst_time - 1
      BY <1>i, <1>c, <1>t, <1>5
    <3> QED
      BY <3>1, <3>2, <3>3, <2>1
  <2>3. written' = Put'
    <3>1. CASE w.state = "IDLE"
      <4>1. written' = 0 /\ 0 * BURST = 0
        BY <1>1, <1>5, <3>1, <1>c
      <4>2. w.burst_count = 0 /\ w.data_count = 0
        BY <1>i, <3>1
      <4> QED
        BY <2>1, <4>1, <4>2, <1>q
    <3>2. CASE w.state = "WAIT_DATA"
      BY <1>1, <1>3, <1>i, <3>2, <2>1, <1>u, <1>q
    <3>3. CASE w.state \in {"QWN", "LAST", "WAIT"}
      <4>1. written' = written + 1 /\ written = Put - 1
        BY <1>1, <1>3, <1>i, <1>5, <3>3 DEF w_handshake
      <4> QED
        BY <4>1, <1>p, <1>t, <2>1, <1>u, <1>q
    <3> QED
      BY <1>5, <3>1, <3>2, <3>3
  <2> QED
    BY <1>2, <2>1, <2>2, <2>3 DEF BeatInv
<1>6. CASE w.state = "WAIT_DATA" /\ rd.valid /\ w.data_count < BURST - 1
  <2>1. /\ w'.state = "QWN" /\ w'.valid /\ w'.last = w.last /\ w'.done = w.done
        /\ w'.data_count = w.data_count + 1 /\ w'.burst_count = w.burst_count
    BY <1>6, <1>t, WFields
  <2>2. written' = written /\ written = Put
    BY <1>1, <1>3, <1>i, <1>6
  <2>3. written' = Put' - 1
    BY <2>1, <2>2, <1>p, <1>t, <1>u, <1>q
  <2>4. /\ ~w'.done /\ ~w'.last /\ w'.data_count \in 0 .. BURST - 1 /\ w'.data_count # 0
        /\ w'.burst_count \in 0 .. wr_burst_time /\ w'.burst_count < wr_burst_time
    BY <1>i, <1>6, <1>c, <2>1
  <2> QED
    BY <1>2, <2>1, <2>3, <2>4 DEF BeatInv
<1>7. CASE w.state = "WAIT_DATA" /\ rd.valid /\ ~(w.data_count < BURST - 1)
  <2>1. /\ w'.state = "LAST" /\ w'.valid /\ w'.last /\ w'.done = w.done
        /\ w'.data_count = 0 /\ w'.burst_count = w.burst_count + 1
    BY <1>7, <1>t, WFields
  <2>2. written' = written /\ written = Put
    BY <1>1, <1>3, <1>i, <1>7
  <2>3. w.data_count = BURST - 1
    BY <1>i, <1>7, <1>c, <1>t
  <2>4. written' = Put' - 1
    <3>1. (w.burst_count + 1) * BURST = w.burst_count * BURST + BURST
          /\ w.burst_count * BURST \in Int
      BY <1>p, <1>t
    <3> QED
      BY <2>1, <2>2, <2>3, <3>1, <1>c, <1>u, <1>q
  <2>5. /\ ~w'.done /\ w'.data_count \in 0 .. BURST - 1
        /\ w'.burst_count \in 0 .. wr_burst_time /\ w'.burst_count > 0
    BY <1>i, <1>7, <1>c, <2>1
  <2> QED
    BY <1>2, <2>1, <2>4, <2>5 DEF BeatInv
<1>8. CASE w.state \in {"QWN", "LAST", "WAIT"} /\ ~w_handshake(wready)
  <2>1. /\ w'.state = "WAIT" /\ w'.valid = w.valid /\ w'.last = w.last
        /\ w'.done = w.done
        /\ w'.data_count = w.data_count /\ w'.burst_count = w.burst_count
    BY <1>8, <1>t, WFields
  <2>2. written' = written
    BY <1>1, <1>3, <1>8 DEF w_handshake
  <2>3. /\ w'.valid /\ ~w'.done
        /\ w'.data_count \in 0 .. BURST - 1 /\ w'.burst_count \in 0 .. wr_burst_time
        /\ w'.last <=> w'.data_count = 0
        /\ IF w'.last THEN w'.burst_count > 0 ELSE w'.burst_count < wr_burst_time
    BY <1>i, <1>8, <2>1
  <2>4. written' = Put' - 1
    BY <1>i, <1>8, <1>q, <1>u, <2>1, <2>2
  <2> QED
    BY <1>2, <2>1, <2>3, <2>4 DEF BeatInv
<1>9. CASE \/ w.state \in {"LAST", "WAIT"} /\ w_handshake(wready)
              /\ ~(w.burst_count < wr_burst_time)
           \/ w.state = "DONE" /\ ~aw.done
  <2>1. /\ w'.state = "DONE" /\ ~w'.valid /\ ~w'.last /\ w'.done
        /\ w'.data_count = 0 /\ w'.burst_count = 0
    BY <1>9, <1>t, WFields
  <2>2. written' = Beats
    <3>1. CASE w.state = "DONE"
      BY <1>1, <1>3, <1>i, <3>1
    <3>2. CASE w.state # "DONE"
      <4>1. /\ w.burst_count = wr_burst_time /\ w.data_count = 0
            /\ written = Put - 1
            /\ written' = written + 1
        BY <1>1, <1>3, <1>i, <1>c, <1>t, <1>9, <3>2 DEF w_handshake
      <4> QED
        BY <4>1, <1>c, <1>u
    <3> QED
      BY <3>1, <3>2
  <2> QED
    BY <1>2, <2>1, <2>2 DEF BeatInv
<1> QED
  BY <1>t, <1>4, <1>5, <1>6, <1>7, <1>8, <1>9 DEF WStates

-----------------------------------------------------------------------------
(* The result.                                                             *)

Size == 4 * READS                       \* the words of a beat

Newest(all) == SubSeq(all, Max({1, Len(all) - Size + 1}), Len(all))

\* The window keeps the last words.
LEMMA NewestFacts ==
  ASSUME NEW S, NEW s \in Seq(S), NEW f \in [1 .. 4 -> S], Len(s) <= Size
  PROVE  /\ s \o f \in Seq(S) /\ Len(s \o f) = Len(s) + 4
         /\ Newest(s \o f) \in Seq(S)
         /\ Len(Newest(s \o f)) = IF Len(s) + 4 <= Size THEN Len(s) + 4 ELSE Size
         /\ \A i \in 0 .. Len(Newest(s \o f)) - 1 :
              Newest(s \o f)[Len(Newest(s \o f)) - i] =
                IF i < 4 THEN f[4 - i] ELSE s[Len(s) + 4 - i]
<1>0. Size \in Nat /\ Size > 4
  BY Sizes DEF Size
<1>1. PICK t \in Seq(S) : t = f /\ Len(t) = 4
  <2>1. f \in Seq(S)
    <3>1. Seq(S) = UNION {[1 .. n -> S] : n \in Nat}
      BY SeqDef
    <3>2. 4 \in Nat
      OBVIOUS
    <3>3. [1 .. 4 -> S] \in {[1 .. n -> S] : n \in Nat}
      BY <3>2
    <3> QED
      BY <3>1, <3>3
  <2>2. Len(f) \in Nat /\ DOMAIN f = 1 .. Len(f) /\ DOMAIN f = 1 .. 4
    BY <2>1, LenProperties
  <2>3. Len(f) = 4
    BY <2>2
  <2> QED
    BY <2>1, <2>3
<1>2. PICK a \in Seq(S) : a = s \o t
  BY ConcatProperties
<1>3. /\ Len(a) = Len(s) + 4
      /\ \A i \in 1 .. Len(a) : a[i] = IF i <= Len(s) THEN s[i] ELSE t[i - Len(s)]
  <2>1. /\ Len(s \o t) = Len(s) + Len(t)
        /\ \A i \in 1 .. Len(s) + Len(t) :
             (s \o t)[i] = IF i <= Len(s) THEN s[i] ELSE t[i - Len(s)]
    BY ConcatProperties
  <2>2. Len(s) + Len(t) = Len(a) /\ Len(a) = Len(s) + 4
    BY <1>1, <1>2, <2>1
  <2> QED
    BY <1>2, <2>1, <2>2
<1>4. PICK n \in Nat : n = Len(s) /\ n + 4 = Len(a)
  BY <1>3, LenProperties
<1>5. PICK m \in Nat : m = Max({1, Len(a) - Size + 1})
                       /\ m = IF n + 4 - Size + 1 <= 1 THEN 1 ELSE n + 4 - Size + 1
  <2>0. Len(a) - Size + 1 = n + 4 - Size + 1 /\ Len(a) - Size + 1 \in Int
    BY <1>0, <1>4
  <2>1. PICK b \in Int : b = Len(a) - Size + 1
    BY <2>0
  <2>4. PICK o \in Int : o = 1
    OBVIOUS
  <2>2. Max({o, b}) = IF o >= b THEN o ELSE b
    BY MinMax
  <2>3. Max({1, Len(a) - Size + 1}) = Max({o, b})
    BY <2>1, <2>4
  <2> QED
    BY <1>0, <2>0, <2>1, <2>2, <2>3, <2>4
<1>6. m \in 1 .. Len(a) + 1 /\ Len(a) \in m - 1 .. Len(a) /\ Len(a) = n + 4
  BY <1>0, <1>3, <1>4, <1>5
<1>7. PICK u : u = SubSeq(a, m, Len(a))
  OBVIOUS
<1>8. /\ u \in Seq(S) /\ Len(u) = Len(a) - m + 1
      /\ \A i \in 1 .. Len(a) - m + 1 : u[i] = a[m + i - 1]
  <2>1. m \in Int /\ Len(a) \in Int
    BY <1>6
  <2>2. \A i \in m .. Len(a) : a[i] \in S
    <3>1. \A i \in m .. Len(a) : i \in 1 .. Len(a)
      BY <1>6
    <3> QED
      BY <3>1, ElementOfSeq
  <2>3. /\ u \in Seq(S) /\ Len(u) = IF m <= Len(a) THEN Len(a) - m + 1 ELSE 0
        /\ \A i \in 1 .. Len(a) - m + 1 : u[i] = a[m + i - 1]
    <3>1. PICK l \in Int : l = Len(a)
      BY <2>1
    <3>2. /\ SubSeq(a, m, l) \in Seq(S)
          /\ Len(SubSeq(a, m, l)) = IF m <= l THEN l - m + 1 ELSE 0
          /\ \A i \in 1 .. l - m + 1 : SubSeq(a, m, l)[i] = a[m + i - 1]
      BY <2>1, <2>2, <3>1, SubSeqProperties
    <3> QED
      BY <1>7, <3>1, <3>2, Zenon
  <2>4. Len(u) = Len(a) - m + 1
    BY <1>6, <2>1, <2>3
  <2> QED
    BY <2>3, <2>4
<1>9. u = Newest(s \o f)
  BY <1>1, <1>2, <1>5, <1>7 DEF Newest
<1>10. Len(u) = (IF n + 4 <= Size THEN n + 4 ELSE Size) /\ Len(u) = n + 4 - m + 1
  <2>0. Len(u) = Len(a) - m + 1 /\ Len(a) = n + 4
    BY <1>4, <1>8
  <2>1. PICK l \in Int : l = Len(u) /\ l = n + 4 - m + 1
    BY <2>0
  <2>4. PICK z \in Nat : z = Size
    BY <1>0
  <2>2. m = IF n + 4 - z + 1 <= 1 THEN 1 ELSE n + 4 - z + 1
    BY <1>5, <2>4
  <2>3. l = IF n + 4 <= z THEN n + 4 ELSE z
    BY <2>1, <2>2
  <2> QED
    BY <2>1, <2>3, <2>4
<1>11. ASSUME NEW i \in 0 .. Len(u) - 1
       PROVE  u[Len(u) - i] = IF i < 4 THEN f[4 - i] ELSE s[Len(s) + 4 - i]
  <2>1. Len(u) - i \in 1 .. Len(a) - m + 1
    BY <1>6, <1>8
  <2>2. u[Len(u) - i] = a[m + (Len(u) - i) - 1]
    BY <1>8, <2>1
  <2>3. m + (Len(u) - i) - 1 = n + 4 - i /\ n + 4 - i \in 1 .. Len(a)
    <3>1. PICK l \in Nat, k \in Nat : l = Len(u) /\ k = i /\ k <= l - 1 /\ l = n + 4 - m + 1
      BY <1>0, <1>4, <1>10
    <3>2. m + (l - k) - 1 = n + 4 - k /\ n + 4 - k \in 1 .. n + 4
      BY <1>6, <3>1
    <3> QED
      BY <1>4, <3>1, <3>2
  <2>4. PICK j \in 1 .. Len(a) : j = n + 4 - i
    BY <2>3
  <2>5. a[j] = IF j <= n THEN s[j] ELSE t[j - n]
    BY <1>3, <1>4, <2>4
  <2>6. u[Len(u) - i] = a[j]
    BY <2>2, <2>3, <2>4, Zenon
  <2>7. j \in Int /\ j - n = 4 - i /\ (j <= n <=> ~(i < 4)) /\ Len(s) + 4 - i = j
    BY <1>4, <2>4
  <2>8. CASE i < 4
    BY <1>1, <2>5, <2>6, <2>7, <2>8
  <2>9. CASE ~(i < 4)
    BY <2>5, <2>6, <2>7, <2>9
  <2> QED
    BY <2>8, <2>9
<1> QED
  BY <1>1, <1>2, <1>3, <1>4, <1>8, <1>9, <1>10, <1>11

\* The four words of a read are the features of four cells that follow one another.
LEMMA WordsFacts ==
  ASSUME NEW q \in Nat, NEW m \in 0 .. GROUPS - 1, rd.doutb = q * GROUPS + m
  PROVE  /\ rd.doutb \div GROUPS = q
         /\ class(q) \in {"BIN0_17", "BIN18_26", "BIN27_30"}
         /\ Words(class(q)) \in [1 .. 4 -> Features]
         /\ \A k \in 1 .. 4 : Words(class(q))[k] = FeatureAt(4 * rd.doutb + k - 1)
<1>0. GROUPS \in Nat /\ GROUPS > 0 /\ BinA \in Nat /\ BinB \in Nat
  BY Sizes
<1>1. PICK a \in Int : a = rd.doutb /\ a = q * GROUPS + m
  BY <1>0
<1>2. a \div GROUPS = q /\ a % GROUPS = m
  BY <1>0, <1>1, DivisionUnique
<1>3. class(q) \in {"BIN0_17", "BIN18_26", "BIN27_30"}
  BY DEF class
<1>4. PICK f \in {0, 1, 3} : f = firstBank[class(q)]
  BY <1>3 DEF firstBank
<1>5. ASSUME NEW k \in 1 .. 4
      PROVE  /\ Words(class(q))[k] = [bin |-> q, cell |-> 4 * m + k - 1]
             /\ FeatureAt(4 * a + k - 1) = [bin |-> q, cell |-> 4 * m + k - 1]
  <2>1. ((((k - 1 + f) % 4) - f) % 4) = k - 1
    <3>1. k \in {1, 2, 3, 4}
      OBVIOUS
    <3> QED
      BY <3>1
  <2>2. Words(class(q))[k] = Feature((k - 1 + f) % 4, a)
    BY <1>1, <1>4 DEF Words
  <2>3. Feature((k - 1 + f) % 4, a) =
          [bin |-> q, cell |-> 4 * m + ((((k - 1 + f) % 4) - f) % 4)]
    BY <1>2, <1>4 DEF Feature
  <2>4. PICK z \in Nat : z = 4 * GROUPS /\ z > 0
    BY <1>0
  <2>5. PICK c \in 0 .. z - 1 : c = 4 * m + k - 1
    BY <1>0, <2>4
  <2>6. 4 * a + k - 1 = q * z + c
    <3>1. q * (4 * GROUPS) = 4 * (q * GROUPS) /\ q * GROUPS \in Int
      BY <1>0
    <3> QED
      BY <1>1, <2>4, <2>5, <3>1
  <2>7. (q * z + c) \div z = q /\ (q * z + c) % z = c
    BY <2>4, DivisionUnique
  <2>8. FeatureAt(4 * a + k - 1) = [bin |-> q, cell |-> c]
    BY <2>4, <2>6, <2>7 DEF FeatureAt
  <2>9. 4 * m + ((((k - 1 + f) % 4) - f) % 4) = c
    BY <2>1, <2>5
  <2> QED
    BY <2>2, <2>3, <2>5, <2>8, <2>9
<1>6. Words(class(q)) \in [1 .. 4 -> Features]
  <2>1. \A k \in 1 .. 4 : Words(class(q))[k] \in Features
    <3>1. \A k \in 1 .. 4 : 4 * m + k - 1 \in Int
      OBVIOUS
    <3>2. \A k \in 1 .. 4 : [bin |-> q, cell |-> 4 * m + k - 1] \in Features
      BY <3>1 DEF Features
    <3> QED
      BY <1>5, <3>2
  <2>2. Words(class(q)) = [k \in 1 .. 4 |-> Words(class(q))[k]]
    BY DEF Words
  <2> QED
    BY <2>1, <2>2
<1> QED
  BY <1>1, <1>2, <1>3, <1>5, <1>6

LEMMA RdFields ==
  ASSUME NEW wready \in BOOLEAN, ReadResult(wready)
  PROVE  /\ rd'.addrb = (IF rd_en(wready) THEN (rd.addrb + 1) % ((BinC + 1) * GROUPS)
                         ELSE rd.addrb)
         /\ rd'.data = (IF rd_en(wready) THEN (rd.data + 1) % READS ELSE 0)
         /\ rd'.start = (IF beatRead THEN (rd.start + 1) % STARTS ELSE rd.start)
         /\ rd'.bin = (IF binRead THEN (rd.bin + 1) % (BinC + 1) ELSE rd.bin)
         /\ rd'.doutb = (IF rd_en(wready) THEN rd.addrb ELSE -1)
         /\ rd'.stitch = stitch_nstate
         /\ stitch_nstate = "IDLE" => rd'.res = <<>> /\ rd'.valid = FALSE
         /\ stitch_nstate = "WAIT" => rd'.res = rd.res /\ rd'.valid = rd.valid
         /\ stitch_nstate \in {"BIN0_17", "BIN18_26", "BIN27_30"} =>
              /\ rd'.res = Newest(rd.res \o Words(stitch_nstate))
              /\ rd'.valid = beatRead
         /\ rd' = [addrb |-> rd'.addrb, bin |-> rd'.bin, start |-> rd'.start,
                   data |-> rd'.data, doutb |-> rd'.doutb, stitch |-> rd'.stitch,
                   res |-> rd'.res, valid |-> rd'.valid]
<1>1. PICK n : n = stitch_nstate
  OBVIOUS
<1>2. /\ rd'.addrb = (IF rd_en(wready) THEN (rd.addrb + 1) % ((BinC + 1) * GROUPS)
                      ELSE rd.addrb)
      /\ rd'.data = (IF rd_en(wready) THEN (rd.data + 1) % READS ELSE 0)
      /\ rd'.start = (IF beatRead THEN (rd.start + 1) % STARTS ELSE rd.start)
      /\ rd'.bin = (IF binRead THEN (rd.bin + 1) % (BinC + 1) ELSE rd.bin)
      /\ rd'.doutb = (IF rd_en(wready) THEN rd.addrb ELSE -1)
      /\ rd'.stitch = stitch_nstate
      /\ rd' = [addrb |-> rd'.addrb, bin |-> rd'.bin, start |-> rd'.start,
                data |-> rd'.data, doutb |-> rd'.doutb, stitch |-> rd'.stitch,
                res |-> rd'.res, valid |-> rd'.valid]
  BY Zenon DEF ReadResult
<1>3. PICK s : s = SubSeq(rd.res \o Words(n),
                          Max({1, Len(rd.res \o Words(n)) - 4 * READS + 1}),
                          Len(rd.res \o Words(n)))
  OBVIOUS
<1>4. /\ rd'.res = CASE n = "IDLE" -> <<>> [] n = "WAIT" -> rd.res
                     [] n \in DOMAIN firstBank -> s
      /\ rd'.valid = CASE n = "IDLE" -> FALSE [] n = "WAIT" -> rd.valid
                       [] n \in DOMAIN firstBank -> beatRead
  BY <1>1, <1>3, Zenon DEF ReadResult
<1>5. s = Newest(rd.res \o Words(n))
  BY <1>3 DEF Newest, Size
<1>6. DOMAIN firstBank = {"BIN0_17", "BIN18_26", "BIN27_30"}
  BY DEF firstBank
<1>7. n = "IDLE" => rd'.res = <<>> /\ rd'.valid = FALSE
  BY <1>4, <1>6
<1>8. n = "WAIT" => rd'.res = rd.res /\ rd'.valid = rd.valid
  BY <1>4, <1>6
<1>9. n \in {"BIN0_17", "BIN18_26", "BIN27_30"} => rd'.res = s /\ rd'.valid = beatRead
  BY <1>4, <1>6
<1> QED
  BY <1>1, <1>2, <1>5, <1>7, <1>8, <1>9

\* The address goes up by one with every read and back to zero after the last.
LEMMA Counters ==
  ASSUME NEW wready \in BOOLEAN, ReadResult(wready),
         rd.bin \in 0 .. BinC, rd.start \in 0 .. STARTS - 1, rd.data \in 0 .. READS - 1,
         rd.addrb = READS * Nth + rd.data
  PROVE  /\ rd'.bin \in 0 .. BinC /\ rd'.start \in 0 .. STARTS - 1
         /\ rd'.data \in 0 .. READS - 1
         /\ Nth \in 0 .. Beats - 1
         /\ rd'.addrb = READS * Nth' + rd'.data
         /\ Nth = 0 <=> rd.bin = 0 /\ rd.start = 0
         /\ ~rd_en(wready) => /\ rd.data = 0 /\ rd'.data = 0 /\ rd'.doutb = -1
                              /\ rd'.bin = rd.bin /\ rd'.start = rd.start
                              /\ rd'.addrb = rd.addrb
         /\ rd_en(wready) /\ rd.data < READS - 1 =>
              /\ rd'.data = rd.data + 1 /\ rd'.doutb = rd.addrb
              /\ rd'.bin = rd.bin /\ rd'.start = rd.start
              /\ rd'.addrb = rd.addrb + 1
         /\ rd.data = READS - 1 =>
              /\ rd'.data = 0 /\ rd'.doutb = rd.addrb
              /\ Nth' = IF Nth + 1 = Beats THEN 0 ELSE Nth + 1
<1>c. /\ STARTS \in Nat /\ STARTS > 0 /\ READS \in Nat /\ READS > 1 /\ BinC \in Nat
      /\ Beats \in Nat /\ Beats > 0
  BY Sizes, WholeBursts
<1>n. PICK s \in Nat, b \in Nat, d \in Nat :
         s = rd.start /\ b = rd.bin /\ d = rd.data /\ s < STARTS /\ b <= BinC /\ d < READS
  BY <1>c
<1>k. PICK p \in Nat : p = STARTS * b
  <2>1. STARTS * b \in Nat
    BY <1>c
  <2> QED
    BY <2>1
<1>1. Nth = p + s /\ Nth \in Nat
  BY <1>n, <1>k DEF Nth
<1>2. p + STARTS <= Beats /\ (b < BinC => p + STARTS < Beats) /\ (b = BinC => p + STARTS = Beats)
  <2>1. (BinC + 1) * STARTS = STARTS * (BinC + 1) /\ STARTS * (BinC + 1) = STARTS * BinC + STARTS
        /\ STARTS * BinC \in Int
    BY <1>c
  <2>2. STARTS * b <= STARTS * BinC
    BY <1>c, <1>n
  <2>3. b < BinC => STARTS * b + STARTS <= STARTS * BinC
    <3> SUFFICES ASSUME b < BinC PROVE STARTS * b + STARTS <= STARTS * BinC
      OBVIOUS
    <3>1. STARTS * (b + 1) <= STARTS * BinC
      BY <1>c, <1>n
    <3> QED
      BY <3>1, <1>c, <1>n
  <2>4. Beats = STARTS * BinC + STARTS
    BY <2>1 DEF Beats
  <2> QED
    BY <1>k, <1>c, <1>n, <2>1, <2>2, <2>3, <2>4
<1>3. Nth \in 0 .. Beats - 1
  BY <1>1, <1>2, <1>n, <1>c, <1>k
<1>4. Nth = 0 <=> rd.bin = 0 /\ rd.start = 0
  <2>1. b # 0 => p >= STARTS
    BY <1>c, <1>n, <1>k
  <2>2. b = 0 => p = 0
    BY <1>c, <1>k
  <2>3. Nth = 0 <=> p = 0 /\ s = 0
    BY <1>1
  <2>4. p = 0 <=> b = 0
    BY <1>c, <2>1, <2>2
  <2> QED
    BY <1>n, <2>3, <2>4
<1>5. (BinC + 1) * GROUPS = READS * Beats
  <2>1. (BinC + 1) * (READS * STARTS) = READS * ((BinC + 1) * STARTS)
    BY <1>c
  <2> QED
    BY <2>1 DEF GROUPS, Beats
<1>6. PICK z \in Nat, x \in Nat : z = READS * Beats /\ x = READS * Nth /\ z > 0
                                  /\ x + READS <= z
                                  /\ (Nth + 1 < Beats => x + READS < z)
                                  /\ (Nth + 1 = Beats => x + READS = z)
  <2>1. PICK z \in Nat, x \in Nat : z = READS * Beats /\ x = READS * Nth
    <3>1. READS * Beats \in Nat /\ READS * Nth \in Nat
      BY <1>c, <1>1
    <3> QED
      BY <3>1
  <2>2. READS * (Nth + 1) <= READS * Beats
    BY <1>c, <1>1, <1>3
  <2>3. READS * (Nth + 1) = x + READS
    BY <1>c, <1>1, <2>1
  <2>4. Nth + 1 = Beats => x + READS = z
    BY <2>1, <2>3
  <2>5. Nth + 1 < Beats => x + READS < z
    <3> SUFFICES ASSUME Nth + 1 < Beats PROVE x + READS < z
      OBVIOUS
    <3>1. READS * (Nth + 2) <= READS * Beats
      BY <1>c, <1>1
    <3>2. READS * (Nth + 2) = x + READS + READS
      BY <1>c, <1>1, <2>1
    <3> QED
      BY <1>c, <2>1, <3>1, <3>2
  <2> QED
    BY <1>c, <2>1, <2>2, <2>3, <2>4, <2>5
<1>a. rd.addrb = x + d
  BY <1>6, <1>n
<1>7. CASE ~rd_en(wready)
  <2>1. rd.data = 0
    BY <1>7 DEF rd_en
  <2>2. ~beatRead /\ ~binRead
    BY <2>1, <1>c DEF beatRead, binRead
  <2>3. /\ rd'.data = 0 /\ rd'.doutb = -1 /\ rd'.bin = rd.bin /\ rd'.start = rd.start
        /\ rd'.addrb = rd.addrb
    BY <1>7, <2>2, RdFields
  <2>4. Nth' = Nth
    BY <2>3 DEF Nth
  <2> QED
    BY <1>7, <1>3, <1>4, <1>c, <2>1, <2>3, <2>4
<1>8. CASE rd_en(wready) /\ rd.data < READS - 1
  <2>1. ~beatRead /\ ~binRead
    BY <1>8, <1>c DEF beatRead, binRead
  <2>2. /\ rd'.data = (d + 1) % READS /\ rd'.doutb = rd.addrb /\ rd'.bin = rd.bin
        /\ rd'.start = rd.start /\ rd'.addrb = (x + d + 1) % z
    BY <1>8, <1>n, <1>a, <1>5, <1>6, <2>1, RdFields
  <2>3. (d + 1) % READS = d + 1
    BY <1>8, <1>n, <1>c
  <2>4. (x + d + 1) % z = x + d + 1
    <3>1. PICK y \in 0 .. z - 1 : y = x + d + 1
      BY <1>6, <1>8, <1>n, <1>c
    <3>2. y % z = y
      BY <1>6
    <3> QED
      BY <3>1, <3>2
  <2>5. Nth' = Nth
    BY <2>2 DEF Nth
  <2>6. /\ rd'.data = rd.data + 1 /\ rd'.doutb = rd.addrb
        /\ rd'.bin = rd.bin /\ rd'.start = rd.start /\ rd'.addrb = rd.addrb + 1
    BY <1>n, <1>a, <2>2, <2>3, <2>4
  <2>7. rd'.addrb = READS * Nth' + rd'.data
    BY <1>6, <1>n, <1>a, <2>5, <2>6
  <2> QED
    BY <1>8, <1>3, <1>4, <1>c, <1>n, <2>6, <2>7
<1>9. CASE rd_en(wready) /\ rd.data = READS - 1
  <2>1. beatRead /\ (binRead <=> s = STARTS - 1)
    BY <1>9, <1>n DEF beatRead, binRead
  <2>2. /\ rd'.data = READS % READS /\ rd'.doutb = rd.addrb
        /\ rd'.start = (s + 1) % STARTS
        /\ rd'.addrb = (x + READS) % z
        /\ s = STARTS - 1 => rd'.bin = (b + 1) % (BinC + 1)
        /\ s # STARTS - 1 => rd'.bin = b
    <3>1. rd.data + 1 = READS /\ rd.addrb + 1 = x + READS
      BY <1>9, <1>a, <1>n, <1>6, <1>c
    <3> QED
      BY <1>9, <1>n, <1>5, <1>6, <2>1, <3>1, RdFields
  <2>3. READS % READS = 0
    BY <1>c
  <2>4. rd'.start = IF s = STARTS - 1 THEN 0 ELSE s + 1
    <3>1. s = STARTS - 1 => (s + 1) % STARTS = 0
      <4>1. STARTS % STARTS = 0
        BY <1>c
      <4>2. s = STARTS - 1 => s + 1 = STARTS
        BY <1>c
      <4> QED
        BY <4>1, <4>2
    <3>2. s # STARTS - 1 => (s + 1) % STARTS = s + 1
      BY <1>c, <1>n
    <3> QED
      BY <2>2, <3>1, <3>2
  <2>5. s = STARTS - 1 => rd'.bin = IF b = BinC THEN 0 ELSE b + 1
    <3>1. b = BinC => (b + 1) % (BinC + 1) = 0
      <4>1. PICK e \in Nat : e = BinC + 1 /\ e > 0
        BY <1>c
      <4>2. e % e = 0
        BY <4>1
      <4> QED
        BY <4>1, <4>2
    <3>2. b # BinC => (b + 1) % (BinC + 1) = b + 1
      BY <1>c, <1>n
    <3> QED
      BY <2>2, <3>1, <3>2
  <2>6. /\ rd'.bin \in 0 .. BinC /\ rd'.start \in 0 .. STARTS - 1
        /\ rd'.data = 0
    BY <1>c, <1>n, <2>2, <2>3, <2>4, <2>5
  <2>7. Nth' = IF Nth + 1 = Beats THEN 0 ELSE Nth + 1
    <3>1. Nth' = STARTS * rd'.bin + rd'.start
      BY DEF Nth
    <3>2. CASE s # STARTS - 1
      <4>1. Nth' = p + s + 1
        BY <3>1, <3>2, <1>k, <1>n, <2>2, <2>4
      <4> QED
        BY <4>1, <1>1, <1>2, <1>c, <1>n, <3>2
    <3>3. CASE s = STARTS - 1 /\ b = BinC
      <4>1. Nth' = 0
        BY <3>1, <3>3, <1>c, <2>4, <2>5
      <4> QED
        BY <4>1, <1>1, <1>2, <1>c, <3>3
    <3>4. CASE s = STARTS - 1 /\ b # BinC
      <4>1. STARTS * (b + 1) = p + STARTS
        BY <1>c, <1>k
      <4>2. Nth' = p + STARTS
        BY <3>1, <3>4, <1>c, <1>k, <2>4, <2>5, <4>1
      <4> QED
        BY <4>2, <1>1, <1>2, <1>c, <1>n, <3>4
    <3> QED
      BY <3>2, <3>3, <3>4
  <2>8. rd'.addrb = READS * Nth'
    <3>1. CASE Nth + 1 = Beats
      <4>1. x + READS = z /\ z % z = 0 /\ READS * 0 = 0
        BY <3>1, <1>6, <1>c
      <4> QED
        BY <3>1, <2>2, <2>7, <4>1
    <3>2. CASE Nth + 1 # Beats
      <4>1. PICK y \in 0 .. z - 1 : y = x + READS
        BY <3>2, <1>3, <1>6, <1>c
      <4>2. y % z = y
        BY <1>6
      <4>3. READS * (Nth + 1) = x + READS
        BY <1>c, <1>1, <1>6
      <4> QED
        BY <3>2, <2>2, <2>7, <4>1, <4>2, <4>3
    <3> QED
      BY <3>1, <3>2
  <2>9. rd'.addrb = READS * Nth' + rd'.data
    <3>1. READS * Nth' \in Int
      BY <1>c, <1>1, <2>7
    <3> QED
      BY <2>6, <2>8, <3>1
  <2>10. rd'.data \in 0 .. READS - 1 /\ ~(rd.data < READS - 1)
    BY <1>9, <1>c, <2>6
  <2>11. rd'.doutb = rd.addrb
    BY <2>2
  <2> QED
    BY <1>9, <1>3, <1>4, <2>6, <2>7, <2>9, <2>10, <2>11
<1>10. rd.data = READS - 1 => rd_en(wready)
  BY <1>c DEF rd_en
<1> QED
  BY <1>7, <1>8, <1>9, <1>10, <1>n, <1>c

\* With every read of the beat, four more of its words are in place.
LEMMA FilledGrows ==
  ASSUME NEW q \in Nat, NEW m \in 0 .. GROUPS - 1, rd.doutb = q * GROUPS + m,
         NEW n \in Nat, n < READS, Filled(n), rd.res \in Seq(Features),
         rd'.res = Newest(rd.res \o Words(class(q))),
         written \in Nat, written' = written, rd.doutb = READS * written + n
  PROVE  rd'.res \in Seq(Features) /\ Filled(n + 1)'
<1>c. READS \in Nat /\ READS > 1 /\ Size = 4 * READS
  BY Sizes DEF Size
<1>1. PICK f \in [1 .. 4 -> Features] :
         /\ f = Words(class(q))
         /\ \A k \in 1 .. 4 : f[k] = FeatureAt(4 * rd.doutb + k - 1)
  BY WordsFacts
<1>2. PICK s \in Seq(Features), L \in Nat : s = rd.res /\ L = Len(s)
  BY LenProperties
<1>3. /\ L >= 4 * n /\ L <= Size
      /\ \A k \in 1 .. 4 * n : s[L - 4 * n + k] = FeatureAt(4 * READS * written + k - 1)
  BY <1>2, <1>c DEF Filled
<1>4. PICK u \in Seq(Features), M \in Nat :
         /\ u = rd'.res /\ M = Len(u)
         /\ M = IF L + 4 <= Size THEN L + 4 ELSE Size
         /\ \A i \in 0 .. M - 1 : u[M - i] = IF i < 4 THEN f[4 - i] ELSE s[L + 4 - i]
  <2>1. /\ Newest(s \o f) \in Seq(Features)
        /\ Len(Newest(s \o f)) = IF Len(s) + 4 <= Size THEN Len(s) + 4 ELSE Size
        /\ \A i \in 0 .. Len(Newest(s \o f)) - 1 :
             Newest(s \o f)[Len(Newest(s \o f)) - i] =
               IF i < 4 THEN f[4 - i] ELSE s[Len(s) + 4 - i]
    <3>1. Len(s) <= Size
      BY <1>2, <1>3
    <3> QED
      BY <3>1, NewestFacts
  <2>2. PICK u \in Seq(Features), M \in Nat : u = Newest(s \o f) /\ M = Len(u)
    BY <2>1, LenProperties
  <2>3. u = rd'.res
    BY <1>1, <1>2, <2>2
  <2>4. /\ M = IF L + 4 <= Size THEN L + 4 ELSE Size
        /\ \A i \in 0 .. M - 1 : u[M - i] = IF i < 4 THEN f[4 - i] ELSE s[Len(s) + 4 - i]
    BY <1>2, <2>1, <2>2
  <2> QED
    BY <1>2, <2>2, <2>3, <2>4
<1>5. M >= 4 * n + 4 /\ M <= Size
  BY <1>3, <1>4, <1>c
<1>6. PICK w0 \in Int, a \in Int : /\ w0 = 4 * READS * written /\ a = 4 * rd.doutb
                                   /\ a = w0 + 4 * n
  <2>1. READS * written \in Int /\ 4 * READS * written = 4 * (READS * written)
    BY <1>c
  <2> QED
    BY <2>1
<1>7. ASSUME NEW k \in 1 .. 4 * n + 4
      PROVE  u[M - (4 * n + 4) + k] = FeatureAt(w0 + k - 1)
  <2>1. PICK i \in 0 .. M - 1 : i = 4 * n + 4 - k /\ M - i = M - (4 * n + 4) + k
    BY <1>5
  <2>2. CASE k > 4 * n
    <3>1. i < 4 /\ 4 - i \in 1 .. 4 /\ a + (4 - i) - 1 = w0 + k - 1
      <4>1. i < 4 /\ 4 - i \in 1 .. 4
        BY <2>1, <2>2
      <4>2. a + (4 - i) - 1 = w0 + k - 1
        BY <1>6, <2>1
      <4> QED
        BY <4>1, <4>2
    <3>2. u[M - i] = f[4 - i]
      BY <1>4, <3>1
    <3>3. f[4 - i] = FeatureAt(a + (4 - i) - 1)
      BY <1>1, <1>6, <3>1
    <3> QED
      BY <2>1, <3>1, <3>2, <3>3
  <2>3. CASE k <= 4 * n
    <3>1. ~(i < 4) /\ L + 4 - i = L - 4 * n + k
      BY <2>1, <2>3
    <3>2. u[M - i] = s[L - 4 * n + k]
      BY <1>4, <3>1
    <3>3. s[L - 4 * n + k] = FeatureAt(w0 + k - 1)
      <4>1. k \in 1 .. 4 * n
        BY <2>3
      <4>2. s[L - 4 * n + k] = FeatureAt(4 * READS * written + k - 1)
        BY <1>3, <4>1
      <4> QED
        BY <1>6, <4>2
    <3> QED
      BY <2>1, <3>2, <3>3
  <2> QED
    BY <2>2, <2>3
<1>8. 4 * (n + 1) = 4 * n + 4 /\ 4 * READS * written' = w0
  BY <1>6
<1>9. Len(rd'.res) \in 4 * (n + 1) .. 4 * READS
  BY <1>4, <1>5, <1>c, <1>8
<1>10. \A k \in 1 .. 4 * (n + 1) :
          rd'.res[Len(rd'.res) - 4 * (n + 1) + k] = FeatureAt(4 * READS * written' + k - 1)
  BY <1>4, <1>7, <1>8
<1>11. \A x : FeatureAt(x)' = FeatureAt(x)
  BY DEF FeatureAt
<1> QED
  BY <1>4, <1>9, <1>10 DEF Filled

LEMMA StitchMoves ==
  ASSUME Typing
  PROVE  /\ rd.stitch = "IDLE" =>
              stitch_nstate = IF rd.doutb # -1 THEN "BIN0_17" ELSE "IDLE"
         /\ rd.stitch = "WAIT" =>
              stitch_nstate = IF wr_done THEN "IDLE"
                              ELSE IF rd.doutb # -1 THEN class(rd.bin) ELSE "WAIT"
         /\ rd.stitch \in {"BIN0_17", "BIN18_26", "BIN27_30"} =>
              stitch_nstate = IF rd.doutb # -1 THEN rd.stitch ELSE "WAIT"
<1>1. DOMAIN firstBank = {"BIN0_17", "BIN18_26", "BIN27_30"}
  BY DEF firstBank
<1>2. CASE rd.stitch = "IDLE"
  BY <1>1, <1>2 DEF stitch_nstate, doutb_valid
<1>3. CASE rd.stitch = "WAIT"
  BY <1>1, <1>3 DEF stitch_nstate, doutb_valid
<1>4. CASE rd.stitch \in {"BIN0_17", "BIN18_26", "BIN27_30"}
  BY <1>1, <1>4 DEF stitch_nstate, doutb_valid
<1> QED
  BY <1>2, <1>3, <1>4

Bins == {"BIN0_17", "BIN18_26", "BIN27_30"}

RdType == [addrb : Int, bin : Int, start : Int, data : Int, doutb : Int,
           stitch : {"IDLE", "WAIT", "BIN0_17", "BIN18_26", "BIN27_30"},
           res : Seq(Features), valid : BOOLEAN]

\* A read of the beat arrives.
LEMMA FetchStep ==
  ASSUME Typing, NEW wready \in BOOLEAN, ReadResult(wready),
         rd.bin \in 0 .. BinC, rd.start \in 0 .. STARTS - 1, rd.data \in 0 .. READS - 1,
         rd.addrb = READS * Nth + rd.data,
         Fetching, ~wr_done, written' = written
  PROVE  /\ rd'.res \in Seq(Features) /\ rd'.stitch \in Bins /\ rd'.valid \in BOOLEAN
         /\ rd'.doutb \in Int
         /\ (Fetching \/ Fetched)'
<1>c. /\ READS \in Nat /\ READS > 1 /\ STARTS \in Nat /\ STARTS > 0 /\ BinA \in Nat
      /\ GROUPS \in Nat /\ GROUPS > 0 /\ Beats \in Nat
  BY Sizes, WholeBursts
<1>1. PICK d \in Nat, b \in Nat, s \in Nat :
         /\ d = rd.data /\ b = rd.bin /\ s = rd.start
         /\ d > 0 /\ d < READS /\ s < STARTS
  BY <1>c DEF Fetching
<1>2. Nth = written /\ Nth \in 0 .. Beats - 1 /\ ~rd.valid
  BY Counters DEF Fetching
<1>3. rd.addrb \in Int /\ rd.doutb = rd.addrb - 1 /\ rd.doutb \in Int
  BY DEF Fetching, Typing
<1>4. PICK m \in 0 .. GROUPS - 1 : m = READS * s + (d - 1)
  <2>1. READS * s + READS <= GROUPS
    <3>1. READS * (s + 1) <= READS * STARTS
      BY <1>c, <1>1
    <3>2. READS * (s + 1) = READS * s + READS
      BY <1>c
    <3> QED
      BY <3>1, <3>2 DEF GROUPS
  <2>2. READS * s \in Nat
    BY <1>c
  <2> QED
    BY <1>1, <1>c, <2>1, <2>2
<1>5. rd.doutb = b * GROUPS + m /\ rd.doutb # -1
  <2>1. READS * (STARTS * b + s) = b * (READS * STARTS) + READS * s
    BY <1>c
  <2>2. rd.addrb = READS * (STARTS * b + s) + d
    BY <1>1 DEF Nth
  <2>3. b * GROUPS \in Nat /\ READS * s \in Int
    BY <1>c
  <2>4. rd.addrb = b * GROUPS + READS * s + d
    BY <2>1, <2>2, <2>3 DEF GROUPS
  <2> QED
    BY <1>3, <1>4, <2>3, <2>4
<1>6. stitch_nstate = class(b) /\ class(b) \in Bins
  <2>1. class(b) \in Bins
    BY DEF class, Bins
  <2>2. b = 0 => class(b) = "BIN0_17"
    BY <1>c DEF class
  <2>3. \/ rd.stitch = "WAIT" \/ (rd.stitch = "IDLE" /\ b = 0) \/ rd.stitch = class(b)
    BY <1>1 DEF Fetching
  <2> QED
    BY <1>1, <1>5, <2>1, <2>2, <2>3, StitchMoves DEF Bins
<1>7. /\ rd'.stitch = class(b) /\ rd'.res = Newest(rd.res \o Words(class(b)))
      /\ rd'.valid = beatRead
  BY <1>6, RdFields DEF Bins
<1>8. PICK n \in Nat : n = d - 1 /\ n < READS /\ d = n + 1
  <2>1. d - 1 \in Nat /\ d - 1 < READS /\ d = (d - 1) + 1
    BY <1>1, <1>c
  <2> QED
    BY <2>1
<1>9. rd'.res \in Seq(Features) /\ Filled(n + 1)'
  <2>1. Filled(n)
    BY <1>1, <1>8 DEF Fetching
  <2>2. rd.doutb = READS * written + n
    <3>1. READS * written \in Int
      BY <1>2, <1>c
    <3> QED
      BY <1>1, <1>2, <1>3, <1>8, <3>1
  <2>3. rd.res \in Seq(Features)
    BY DEF Typing
  <2>4. written \in Nat
    BY <1>2, <1>c
  <2> QED
    BY <1>5, <1>7, <1>8, <2>1, <2>2, <2>3, <2>4, FilledGrows
<1>13. rd'.valid \in BOOLEAN
  <2>1. beatRead \in BOOLEAN
    BY DEF beatRead
  <2> QED
    BY <1>7, <2>1
<1>10. rd_en(wready)
  BY <1>1 DEF rd_en
<1>11. CASE rd.data < READS - 1
  <2>1. /\ rd'.data = rd.data + 1 /\ rd'.doutb = rd.addrb
        /\ rd'.bin = rd.bin /\ rd'.start = rd.start
        /\ rd'.addrb = rd.addrb + 1
    BY <1>10, <1>11, Counters
  <2>2. ~beatRead
    BY <1>11, <1>1, <1>c DEF beatRead
  <2>3. Nth' = written'
    BY <1>2, <2>1 DEF Nth
  <2>4. rd'.data # 0 /\ rd'.data > 1 /\ rd'.data - 1 = n + 1 /\ rd'.doutb = rd'.addrb - 1
    <3>1. rd'.data = n + 2
      <4>1. rd'.data = d + 1
        BY <1>1, <2>1
      <4> QED
        BY <4>1, <1>8
    <3> QED
      BY <3>1, <1>3, <2>1
  <2>5. class(rd'.bin) = class(b)
    BY <1>1, <2>1
  <2>6. class(rd.bin)' = class(rd'.bin)
    BY DEF class
  <2>7. Filled(rd.data - 1)'
    BY <1>9, <2>4 DEF Filled
  <2>8. Fetching'
    BY <1>7, <2>2, <2>3, <2>4, <2>5, <2>6, <2>7 DEF Fetching
  <2>9. rd'.doutb \in Int /\ rd'.valid \in BOOLEAN
    BY <1>3, <1>13, <2>1
  <2> QED
    BY <1>6, <1>7, <1>9, <2>8, <2>9
<1>12. CASE rd.data = READS - 1
  <2>1. /\ rd'.data = 0 /\ rd'.doutb = rd.addrb
        /\ Nth' = IF Nth + 1 = Beats THEN 0 ELSE Nth + 1
    BY <1>12, Counters
  <2>2. beatRead
    BY <1>12 DEF beatRead
  <2>3. Read'
    <3>1. Nth' = IF written' + 1 = Beats THEN 0 ELSE written' + 1
      BY <1>2, <2>1
    <3>2. Beats' = Beats
      BY DEF Beats
    <3> QED
      BY <2>1, <3>1, <3>2 DEF Read
  <2>4. rd'.doutb = READS * written' + READS - 1
    <3>1. READS * written \in Int
      BY <1>2, <1>c
    <3> QED
      BY <1>12, <1>2, <1>c, <2>1, <3>1
  <2>5. rd'.doutb \div GROUPS = b
    <3>1. PICK e \in 0 .. GROUPS - 1 : e = READS * s + READS - 1
      <4>1. READS * (s + 1) <= READS * STARTS
        BY <1>c, <1>1
      <4>2. READS * (s + 1) = READS * s + READS /\ READS * s \in Nat
        BY <1>c
      <4> QED
        BY <1>c, <4>1, <4>2 DEF GROUPS
    <3>2. rd'.doutb = b * GROUPS + e
      <4>1. READS * s \in Int /\ b * GROUPS \in Int
        BY <1>c
      <4>2. rd'.doutb = rd.doutb + 1 /\ rd.doutb = b * GROUPS + m
        BY <1>3, <1>5, <2>1
      <4>3. e = m + 1
        BY <1>4, <1>1, <1>12, <1>c, <3>1, <4>1
      <4> QED
        BY <4>1, <4>2, <4>3
    <3> QED
      BY <3>2, <1>c, DivisionUnique
  <2>6. rd'.stitch = class(rd'.doutb \div GROUPS)
    BY <1>7, <2>5
  <2>7. class(rd.doutb \div GROUPS)' = class(rd'.doutb \div GROUPS)
    BY DEF class, GROUPS
  <2>8. Filled(READS - 1)'
    <3>1. n + 1 = READS - 1
      BY <1>12, <1>1, <1>8
    <3> QED
      BY <1>9, <3>1
  <2>9. Fetched'
    BY <1>7, <2>2, <2>3, <2>4, <2>6, <2>7, <2>8 DEF Fetched
  <2>10. rd'.doutb \in Int /\ rd'.valid \in BOOLEAN
    BY <1>3, <1>13, <2>1
  <2> QED
    BY <1>6, <1>7, <1>9, <2>9, <2>10
<1> QED
  BY <1>1, <1>c, <1>11, <1>12

\* The beat on the channel is the last one exactly when its burst is the last.
LEMMA LastBeat ==
  ASSUME IInv, w.state \in {"QWN", "LAST", "WAIT"}
  PROVE  /\ written \in 0 .. Beats - 1
         /\ w.state = "QWN" \/ w.burst_count < wr_burst_time => written + 1 < Beats
         /\ ~(w.state = "QWN" \/ w.burst_count < wr_burst_time) => written + 1 = Beats
         /\ w.last <=> (written + 1) % BURST = 0
<1>c. /\ wr_burst_time \in Nat /\ wr_burst_time > 0 /\ BURST \in Nat /\ BURST > 0
      /\ wr_burst_time * BURST = Beats /\ Beats \in Nat /\ Beats > 0
  BY Sizes, WholeBursts
<1>1. /\ w.data_count \in 0 .. BURST - 1 /\ w.burst_count \in 0 .. wr_burst_time
      /\ w.last <=> w.data_count = 0
      /\ IF w.last THEN w.burst_count > 0 ELSE w.burst_count < wr_burst_time
      /\ written = Put - 1
      /\ w.state = "QWN" => ~w.last
  BY DEF IInv, BeatInv
<1>2. PICK n \in Nat, d \in 0 .. BURST - 1, p \in Int :
         /\ n = w.burst_count /\ d = w.data_count /\ p = n * BURST /\ written + 1 = p + d
         /\ (n + 1) * BURST = p + BURST
  <2>1. PICK n \in Nat, d \in 0 .. BURST - 1 : n = w.burst_count /\ d = w.data_count
    BY <1>1, <1>c
  <2>2. PICK p \in Int : p = n * BURST
    BY <1>c
  <2>3. Put = p + d
    BY <2>1, <2>2 DEF Put
  <2>4. (n + 1) * BURST = p + BURST
    BY <1>c, <2>2
  <2>5. written + 1 = p + d
    BY <1>1, <2>2, <2>3, <1>c
  <2> QED
    BY <2>1, <2>2, <2>4, <2>5
<1>3. written \in Int
  BY DEF IInv, Typing
<1>4. n < wr_burst_time => p + BURST <= Beats
  <2> SUFFICES ASSUME n < wr_burst_time PROVE p + BURST <= Beats
    OBVIOUS
  <2>1. (n + 1) * BURST <= wr_burst_time * BURST
    BY <1>c
  <2> QED
    BY <2>1, <1>2, <1>c
<1>5. n = wr_burst_time => p = Beats /\ d = 0
  BY <1>1, <1>2, <1>c
<1>6. n = 0 => d # 0
  BY <1>1, <1>2
<1>7. p >= 0 /\ (n > 0 => p > 0)
  BY <1>2, <1>c
<1>8. (written + 1) % BURST = d
  <2>1. (n * BURST + d) % BURST = d
    BY <1>c, DivisionUnique
  <2> QED
    BY <1>2, <2>1
<1>9. written >= 0
  BY <1>2, <1>3, <1>6, <1>7
<1>10. written \in 0 .. Beats - 1
  BY <1>2, <1>3, <1>4, <1>5, <1>9, <1>1, <1>c
<1>11. w.last <=> (written + 1) % BURST = 0
  BY <1>1, <1>2, <1>8
<1>12. w.state = "QWN" \/ w.burst_count < wr_burst_time => written + 1 < Beats
  BY <1>1, <1>2, <1>3, <1>4, <1>c
<1>13. ~(w.state = "QWN" \/ w.burst_count < wr_burst_time) => written + 1 = Beats
  BY <1>1, <1>2, <1>3, <1>5, <1>c
<1> QED
  BY <1>10, <1>11, <1>12, <1>13

LEMMA ReadStep ==
  ASSUME IInv, NEW awready \in BOOLEAN, NEW wready \in BOOLEAN, WriteData(wready),
         ResultMemory(awready, wready), ReadResult(wready)
  PROVE  ResultInv' /\ rd' \in RdType
<1>t. /\ Typing /\ ResultInv /\ written \in Int /\ w.valid \in BOOLEAN /\ w.state \in WStates
      /\ w.burst_count \in Int /\ rd.valid \in BOOLEAN /\ rd \in RdType
  BY DEF IInv, Typing, WStates, RdType
<1>c. READS \in Nat /\ READS > 1 /\ Beats \in Nat /\ Beats > 0 /\ Beats' = Beats
  BY Sizes, WholeBursts DEF Beats
<1>i. /\ rd.bin \in 0 .. BinC /\ rd.start \in 0 .. STARTS - 1 /\ rd.data \in 0 .. READS - 1
      /\ rd.addrb = READS * Nth + rd.data
      /\ w.state = "IDLE" => rd = RdIdle
      /\ w.state = "WAIT_DATA" => Fetching \/ Fetched
      /\ w.state \in {"QWN", "LAST", "WAIT"} => Held
      /\ w.state = "DONE" => /\ rd.data = 0 /\ rd.bin = 0 /\ rd.start = 0
                             /\ rd.doutb = -1 /\ rd.stitch = "WAIT" /\ ~rd.valid
  BY <1>t DEF ResultInv
<1>1. /\ rd'.bin \in 0 .. BinC /\ rd'.start \in 0 .. STARTS - 1
      /\ rd'.data \in 0 .. READS - 1
      /\ Nth \in 0 .. Beats - 1
      /\ rd'.addrb = READS * Nth' + rd'.data
      /\ Nth = 0 <=> rd.bin = 0 /\ rd.start = 0
      /\ ~rd_en(wready) => /\ rd.data = 0 /\ rd'.data = 0 /\ rd'.doutb = -1
                           /\ rd'.bin = rd.bin /\ rd'.start = rd.start
                           /\ rd'.addrb = rd.addrb
      /\ rd_en(wready) /\ rd.data < READS - 1 =>
           /\ rd'.data = rd.data + 1 /\ rd'.doutb = rd.addrb
           /\ rd'.bin = rd.bin /\ rd'.start = rd.start
           /\ rd'.addrb = rd.addrb + 1
  BY <1>i, Counters
<1>2. rd'.bin \in Int /\ rd'.start \in Int /\ rd'.data \in Int /\ rd'.addrb \in Int
  <2>1. /\ rd'.bin \in Int /\ rd'.start \in Int /\ rd'.data \in Int
        /\ STARTS \in Int /\ READS \in Int
    BY <1>1, Sizes
  <2>2. READS * (STARTS * rd'.bin + rd'.start) + rd'.data \in Int
    BY <2>1
  <2>3. Nth' = STARTS * rd'.bin + rd'.start
    BY DEF Nth
  <2> QED
    BY <1>1, <2>1, <2>2, <2>3
<1>3. ASSUME rd'.doutb \in Int, rd'.res \in Seq(Features), rd'.valid \in BOOLEAN,
             rd'.stitch \in {"IDLE", "WAIT", "BIN0_17", "BIN18_26", "BIN27_30"}
      PROVE  rd' \in RdType
  <2>1. rd' = [addrb |-> rd'.addrb, bin |-> rd'.bin, start |-> rd'.start,
               data |-> rd'.data, doutb |-> rd'.doutb, stitch |-> rd'.stitch,
               res |-> rd'.res, valid |-> rd'.valid]
    BY RdFields
  <2> QED
    BY <1>2, <1>3, <2>1 DEF RdType
<1>4. /\ written' = IF feature = "done" THEN 0
                    ELSE IF w.valid /\ wready THEN written + 1 ELSE written
      /\ w.state # "IDLE" => feature # "done"
  BY Stages DEF ResultMemory, write_feature_done, w_handshake
<1>5. rd_en(wready) <=> \/ feature = "done"
                        \/ w.valid /\ wready /\ (rd.start # 0 \/ rd.bin # 0)
                        \/ rd.data # 0
  BY DEF rd_en, write_feature_done, w_handshake
<1>6. /\ w.state \in {"IDLE", "WAIT_DATA"} => ~w.valid /\ ~w.done
      /\ w.state \in {"QWN", "LAST", "WAIT"} => w.valid /\ ~w.done
      /\ w.state = "DONE" => ~w.valid /\ w.done
  BY DEF IInv, BeatInv, WIdle
<1>7. /\ Fetching' = Fetching' /\ Nth' = STARTS * rd'.bin + rd'.start
      /\ Nth = STARTS * rd.bin + rd.start
  BY DEF Nth
<1>8. <<>> \in Seq(Features) /\ Len(<<>>) = 0 /\ rd.res \in Seq(Features)
  BY <1>t DEF RdType
<1>9. CASE w.state = "IDLE"
  <2>1. /\ rd.addrb = 0 /\ rd.bin = 0 /\ rd.start = 0 /\ rd.data = 0 /\ rd.doutb = -1
        /\ rd.stitch = "IDLE" /\ rd.res = <<>> /\ rd.valid = FALSE
    BY <1>i, <1>9 DEF RdIdle
  <2>2. stitch_nstate = "IDLE"
    BY <1>t, <2>1, StitchMoves
  <2>3. rd'.stitch = "IDLE" /\ rd'.res = <<>> /\ rd'.valid = FALSE
    BY <2>2, RdFields
  <2>4. CASE feature # "done"
    <3>1. w' = WIdle /\ w'.state = "IDLE"
      BY <1>t, <1>9, <2>4, WFields
    <3>2. ~rd_en(wready)
      BY <1>5, <1>6, <1>9, <2>1, <2>4
    <3>3. rd'.data = 0 /\ rd'.doutb = -1 /\ rd'.bin = 0 /\ rd'.start = 0 /\ rd'.addrb = 0
      BY <1>1, <2>1, <3>2
    <3>4. rd' = RdIdle
      <4>1. rd' = [addrb |-> rd'.addrb, bin |-> rd'.bin, start |-> rd'.start,
                   data |-> rd'.data, doutb |-> rd'.doutb, stitch |-> rd'.stitch,
                   res |-> rd'.res, valid |-> rd'.valid]
        BY RdFields
      <4> QED
        BY <4>1, <2>3, <3>3, Zenon DEF RdIdle
    <3>5. rd' \in RdType
      <4>1. rd'.doutb \in Int
        BY <1>8, <2>3, <3>3
      <4>4. rd'.valid \in BOOLEAN
        BY <1>8, <2>3, <3>3, Zenon
      <4>2. rd'.stitch \in {"IDLE", "WAIT", "BIN0_17", "BIN18_26", "BIN27_30"}
        BY <1>8, <2>3, <3>3
      <4>3. rd'.res \in Seq(Features)
        BY <1>8, <2>3, <3>3
      <4> QED
        BY <1>3, <4>1, <4>2, <4>3, <4>4
    <3> QED
      BY <1>1, <3>1, <3>4, <3>5 DEF ResultInv
  <2>5. CASE feature = "done"
    <3>1. w'.state = "WAIT_DATA" /\ written' = 0
      BY <1>t, <1>4, <1>9, <2>5, WFields
    <3>2. rd_en(wready) /\ rd.data < READS - 1
      BY <1>5, <1>c, <2>1, <2>5
    <3>3. rd'.data = 1 /\ rd'.doutb = 0 /\ rd'.bin = 0 /\ rd'.start = 0 /\ rd'.addrb = 1
      BY <1>1, <2>1, <3>2
    <3>4. Nth' = 0
      <4>1. STARTS * 0 + 0 = 0
        BY Sizes
      <4> QED
        BY <1>7, <3>3, <4>1
    <3>5. Filled(rd.data - 1)'
      <4>1. rd'.data - 1 = 0 /\ Len(rd'.res) = 0 /\ 4 * 0 = 0 /\ 0 \in 0 .. 4 * READS
        BY <1>8, <1>c, <2>3, <3>3
      <4>2. \A k \in 1 .. 0 : FALSE
        OBVIOUS
      <4> QED
        BY <4>1, <4>2 DEF Filled
    <3>6. Fetching'
      BY <2>3, <3>1, <3>3, <3>4, <3>5 DEF Fetching
    <3>7. rd' \in RdType
      <4>1. rd'.doutb \in Int
        BY <1>8, <2>3, <3>3
      <4>4. rd'.valid \in BOOLEAN
        BY <1>8, <2>3, <3>3, Zenon
      <4>2. rd'.stitch \in {"IDLE", "WAIT", "BIN0_17", "BIN18_26", "BIN27_30"}
        BY <1>8, <2>3, <3>3
      <4>3. rd'.res \in Seq(Features)
        BY <1>8, <2>3, <3>3
      <4> QED
        BY <1>3, <4>1, <4>2, <4>3, <4>4
    <3> QED
      BY <1>1, <3>1, <3>6, <3>7 DEF ResultInv
  <2> QED
    BY <2>4, <2>5
<1>10. CASE w.state = "WAIT_DATA" /\ Fetching
  <2>1. /\ rd'.res \in Seq(Features) /\ rd'.stitch \in Bins /\ rd'.valid \in BOOLEAN
        /\ rd'.doutb \in Int
        /\ (Fetching \/ Fetched)'
    <3>1. ~wr_done /\ written' = written
      BY <1>4, <1>6, <1>10 DEF wr_done
    <3> QED
      BY <1>t, <1>i, <1>10, <3>1, FetchStep
  <2>2. rd' \in RdType
    <3>1. rd'.doutb \in Int
      BY <2>1
    <3>4. rd'.valid \in BOOLEAN
      BY <2>1, Zenon
    <3>2. rd'.stitch \in {"IDLE", "WAIT", "BIN0_17", "BIN18_26", "BIN27_30"}
      BY <2>1 DEF Bins
    <3>3. rd'.res \in Seq(Features)
      BY <2>1
    <3> QED
      BY <1>3, <3>1, <3>2, <3>3, <3>4
  <2>3. w'.state = "WAIT_DATA"
    <3>1. ~rd.valid
      BY <1>10 DEF Fetching
    <3> QED
      BY <1>t, <1>10, <3>1, WFields
  <2> QED
    BY <1>1, <2>1, <2>2, <2>3 DEF ResultInv
<1>11. CASE w.state = "WAIT_DATA" /\ Fetched
  <2>1. /\ rd.data = 0 /\ Nth = (IF written + 1 = Beats THEN 0 ELSE written + 1) /\ rd.valid
        /\ rd.doutb = READS * written + READS - 1
        /\ rd.stitch = class(rd.doutb \div GROUPS)
        /\ Filled(READS - 1)
    BY <1>11 DEF Fetched, Read
  <2>2. w'.state \in {"QWN", "LAST"} /\ written' = written
    BY <1>t, <1>4, <1>6, <1>11, <2>1, WFields
  <2>3. ~rd_en(wready)
    BY <1>4, <1>5, <1>6, <1>11, <2>1
  <2>4. /\ rd'.data = 0 /\ rd'.doutb = -1 /\ rd'.bin = rd.bin /\ rd'.start = rd.start
    BY <1>1, <2>3
  <2>5. written \in Nat
    <3>1. written = Put /\ w.burst_count \in Nat /\ w.data_count \in Nat
      <4>1. BURST \in Nat /\ wr_burst_time \in Nat
        BY Sizes, WholeBursts
      <4> QED
        BY <1>11, <4>1 DEF IInv, BeatInv
    <3>2. w.burst_count * BURST \in Nat
      BY <3>1, Sizes
    <3> QED
      BY <3>1, <3>2 DEF Put
  <2>6. PICK q \in Nat, m \in 0 .. GROUPS - 1 :
           q = rd.doutb \div GROUPS /\ rd.doutb = q * GROUPS + m
    <3>1. PICK a \in Nat, g \in Nat : a = rd.doutb /\ g = GROUPS /\ g > 0
      <4>1. READS * written \in Nat
        BY <2>5, <1>c
      <4> QED
        BY <1>c, <2>1, <4>1, Sizes
    <3>2. a = (a \div g) * g + (a % g) /\ a \div g \in Nat /\ a % g \in 0 .. g - 1
      BY <3>1
    <3> QED
      BY <3>1, <3>2
  <2>7. stitch_nstate = class(q) /\ class(q) \in Bins
    <3>1. class(q) \in Bins
      BY DEF class, Bins
    <3>2. rd.stitch = class(q)
      BY <2>1, <2>6
    <3>3. rd.doutb # -1
      <4>1. READS * written \in Nat
        BY <2>5, <1>c
      <4> QED
        BY <1>c, <2>1, <4>1
    <3> QED
      BY <1>t, <3>1, <3>2, <3>3, StitchMoves DEF Bins
  <2>8. /\ rd'.stitch = class(q) /\ rd'.res = Newest(rd.res \o Words(class(q)))
        /\ rd'.valid = beatRead
    BY <2>7, RdFields DEF Bins
  <2>9. ~beatRead
    BY <2>1, <1>c DEF beatRead
  <2>10. PICK n \in Nat : n = READS - 1 /\ n < READS /\ READS = n + 1
    <3>1. READS - 1 \in Nat /\ READS - 1 < READS /\ READS = (READS - 1) + 1
      BY <1>c
    <3> QED
      BY <3>1
  <2>11. rd'.res \in Seq(Features) /\ Filled(n + 1)'
    <3>1. rd.doutb = READS * written + n
      <4>1. READS * written \in Int
        BY <2>5, <1>c
      <4> QED
        BY <2>1, <2>10, <1>c, <4>1
    <3>2. Filled(n)
      BY <2>1, <2>10
    <3> QED
      BY <1>8, <2>2, <2>5, <2>6, <2>8, <2>10, <3>1, <3>2, FilledGrows
  <2>12. Filled(READS)'
    BY <2>10, <2>11
  <2>13. Read'
    BY <1>7, <1>c, <2>1, <2>2, <2>4 DEF Read
  <2>14. Held'
    BY <2>4, <2>7, <2>8, <2>9, <2>12, <2>13 DEF Held, Bins
  <2>15. rd' \in RdType
    <3>1. rd'.doutb \in Int
      BY <2>4, <2>7, <2>8, <2>9, <2>11
    <3>4. rd'.valid \in BOOLEAN
      <4>1. beatRead \in BOOLEAN
        BY DEF beatRead
      <4> QED
        BY <2>8, <4>1
    <3>2. rd'.stitch \in {"IDLE", "WAIT", "BIN0_17", "BIN18_26", "BIN27_30"}
      BY <2>4, <2>7, <2>8, <2>9, <2>11 DEF Bins
    <3>3. rd'.res \in Seq(Features)
      BY <2>4, <2>7, <2>8, <2>9, <2>11
    <3> QED
      BY <1>3, <3>1, <3>2, <3>3, <3>4
  <2> QED
    BY <1>1, <2>2, <2>14, <2>15 DEF ResultInv
<1>12. CASE w.state \in {"QWN", "LAST", "WAIT"} \/ w.state = "DONE"
  <2>1. rd.doutb = -1 /\ rd.stitch # "IDLE" /\ rd.data = 0 /\ rd.valid = FALSE
    BY <1>i, <1>t, <1>12 DEF Held, Read
  <2>2. ~wr_done => stitch_nstate = "WAIT"
    BY <1>t, <2>1, StitchMoves DEF RdType
  <2>3. ~wr_done => rd'.stitch = "WAIT" /\ rd'.res = rd.res /\ rd'.valid = FALSE
    BY <2>1, <2>2, RdFields
  <2>4. feature # "done"
    BY <1>4, <1>12
  <2>5. CASE w.state \in {"QWN", "LAST", "WAIT"}
    <3>1. /\ Nth = (IF written + 1 = Beats THEN 0 ELSE written + 1)
          /\ Filled(READS)
      BY <1>i, <2>5 DEF Held, Read
    <3>2. /\ written \in 0 .. Beats - 1
          /\ w.state = "QWN" \/ w.burst_count < wr_burst_time => written + 1 < Beats
          /\ ~(w.state = "QWN" \/ w.burst_count < wr_burst_time) => written + 1 = Beats
      BY <2>5, LastBeat
    <3>3. ~wr_done /\ w.valid
      BY <1>6, <2>5 DEF wr_done
    <3>4. CASE ~wready
      <4>1. w'.state = "WAIT" /\ written' = written
        BY <1>t, <1>4, <2>4, <2>5, <3>4, WFields DEF w_handshake
      <4>2. ~rd_en(wready)
        BY <1>5, <2>1, <2>4, <3>4
      <4>3. rd'.data = 0 /\ rd'.doutb = -1 /\ rd'.bin = rd.bin /\ rd'.start = rd.start
        BY <1>1, <4>2
      <4>4. Read'
        BY <1>7, <1>c, <3>1, <4>1, <4>3 DEF Read
      <4>5. Filled(READS)'
        BY <2>3, <3>1, <3>3, <4>1 DEF Filled, FeatureAt, GROUPS
      <4>6. Held'
        BY <2>3, <3>3, <4>3, <4>4, <4>5 DEF Held
      <4>7. rd' \in RdType
        <5>1. rd'.doutb \in Int
          BY <1>8, <2>3, <3>3, <4>3
        <5>4. rd'.valid \in BOOLEAN
          BY <1>8, <2>3, <3>3, <4>3, Zenon
        <5>2. rd'.stitch \in {"IDLE", "WAIT", "BIN0_17", "BIN18_26", "BIN27_30"}
          BY <1>8, <2>3, <3>3, <4>3
        <5>3. rd'.res \in Seq(Features)
          BY <1>8, <2>3, <3>3, <4>3
        <5> QED
          BY <1>3, <5>1, <5>2, <5>3, <5>4
      <4> QED
        BY <1>1, <4>1, <4>6, <4>7 DEF ResultInv
    <3>5. CASE wready /\ written + 1 < Beats
      <4>1. w'.state = "WAIT_DATA" /\ written' = written + 1
        <5>1. w.state = "QWN" \/ w.burst_count < wr_burst_time
          BY <3>2, <3>5, <1>c, <1>t
        <5>2. w_handshake(wready)
          BY <3>3, <3>5 DEF w_handshake
        <5>3. w'.state = "WAIT_DATA"
          BY <1>t, <2>5, <5>1, <5>2, WFields
        <5> QED
          BY <1>4, <2>4, <3>3, <3>5, <5>3
      <4>2. Nth = written' /\ Nth # 0
        BY <3>1, <3>2, <3>5, <4>1
      <4>3. rd_en(wready) /\ rd.data < READS - 1
        <5>1. rd.start # 0 \/ rd.bin # 0
          BY <1>1, <4>2
        <5>2. rd_en(wready)
          BY <1>5, <3>3, <3>5, <5>1
        <5> QED
          BY <5>2, <1>c, <2>1
      <4>4. /\ rd'.data = 1 /\ rd'.doutb = rd.addrb
            /\ rd'.bin = rd.bin /\ rd'.start = rd.start
            /\ rd'.addrb = rd.addrb + 1
        BY <1>1, <2>1, <4>3
      <4>5. Nth' = written'
        BY <1>7, <4>2, <4>4
      <4>6. rd.addrb \in Int
        BY <1>t DEF RdType
      <4>7. rd'.doutb = rd'.addrb - 1
        BY <4>4, <4>6
      <4>8. Filled(rd.data - 1)'
        <5>1. rd'.data - 1 = 0 /\ Len(rd'.res) \in 0 .. 4 * READS /\ 4 * 0 = 0
          <6>1. Len(rd.res) \in 4 * READS .. 4 * READS
            BY <3>1 DEF Filled
          <6> QED
            BY <1>c, <2>3, <3>3, <4>4, <6>1
        <5>2. \A k \in 1 .. 0 : FALSE
          OBVIOUS
        <5> QED
          BY <5>1, <5>2 DEF Filled
      <4>9. Fetching'
        BY <2>3, <3>3, <4>4, <4>5, <4>7, <4>8 DEF Fetching
      <4>10. rd' \in RdType
        <5>1. rd'.doutb \in Int
          BY <1>8, <2>3, <3>3, <4>4, <4>6
        <5>4. rd'.valid \in BOOLEAN
          BY <1>8, <2>3, <3>3, <4>4, <4>6, Zenon
        <5>2. rd'.stitch \in {"IDLE", "WAIT", "BIN0_17", "BIN18_26", "BIN27_30"}
          BY <1>8, <2>3, <3>3, <4>4, <4>6
        <5>3. rd'.res \in Seq(Features)
          BY <1>8, <2>3, <3>3, <4>4, <4>6
        <5> QED
          BY <1>3, <5>1, <5>2, <5>3, <5>4
      <4> QED
        BY <1>1, <4>1, <4>9, <4>10 DEF ResultInv
    <3>6. CASE wready /\ ~(written + 1 < Beats)
      <4>1. w'.state = "DONE" /\ written + 1 = Beats
        BY <1>t, <1>4, <2>4, <2>5, <3>2, <3>3, <3>6, WFields DEF w_handshake
      <4>2. Nth = 0
        BY <3>1, <4>1
      <4>3. rd.bin = 0 /\ rd.start = 0
        BY <1>1, <4>2
      <4>4. ~rd_en(wready)
        BY <1>5, <2>1, <2>4, <4>3
      <4>5. rd'.data = 0 /\ rd'.doutb = -1 /\ rd'.bin = 0 /\ rd'.start = 0
        BY <1>1, <4>3, <4>4
      <4>6. rd' \in RdType
        <5>1. rd'.doutb \in Int
          BY <1>8, <2>3, <3>3, <4>5
        <5>4. rd'.valid \in BOOLEAN
          BY <1>8, <2>3, <3>3, <4>5, Zenon
        <5>2. rd'.stitch \in {"IDLE", "WAIT", "BIN0_17", "BIN18_26", "BIN27_30"}
          BY <1>8, <2>3, <3>3, <4>5
        <5>3. rd'.res \in Seq(Features)
          BY <1>8, <2>3, <3>3, <4>5
        <5> QED
          BY <1>3, <5>1, <5>2, <5>3, <5>4
      <4> QED
        BY <1>1, <2>3, <3>3, <4>1, <4>5, <4>6 DEF ResultInv
    <3> QED
      BY <3>4, <3>5, <3>6
  <2>6. CASE w.state = "DONE"
    <3>1. rd.bin = 0 /\ rd.start = 0 /\ rd.stitch = "WAIT" /\ ~w.valid /\ w.done
      BY <1>i, <1>6, <2>6
    <3>2. ~rd_en(wready)
      BY <1>5, <2>1, <2>4, <3>1
    <3>3. /\ rd'.data = 0 /\ rd'.doutb = -1 /\ rd'.bin = 0 /\ rd'.start = 0
      BY <1>1, <3>1, <3>2
    <3>4. CASE ~aw.done
      <4>1. w'.state = "DONE" /\ ~wr_done
        BY <1>t, <2>6, <3>4, WFields DEF wr_done
      <4>2. rd' \in RdType
        <5>1. rd'.doutb \in Int
          BY <1>8, <2>3, <3>3, <4>1
        <5>4. rd'.valid \in BOOLEAN
          BY <1>8, <2>3, <3>3, <4>1, Zenon
        <5>2. rd'.stitch \in {"IDLE", "WAIT", "BIN0_17", "BIN18_26", "BIN27_30"}
          BY <1>8, <2>3, <3>3, <4>1
        <5>3. rd'.res \in Seq(Features)
          BY <1>8, <2>3, <3>3, <4>1
        <5> QED
          BY <1>3, <5>1, <5>2, <5>3, <5>4
      <4> QED
        BY <1>1, <2>3, <3>3, <4>1, <4>2 DEF ResultInv
    <3>5. CASE aw.done
      <4>1. w'.state = "IDLE" /\ wr_done
        BY <1>t, <2>6, <3>1, <3>5, WFields DEF wr_done
      <4>2. stitch_nstate = "IDLE"
        BY <1>t, <3>1, <4>1, StitchMoves
      <4>3. rd'.stitch = "IDLE" /\ rd'.res = <<>> /\ rd'.valid = FALSE
        BY <4>2, RdFields
      <4>4. rd'.addrb = 0
        <5>1. Nth' = 0
          <6>1. STARTS * 0 + 0 = 0
            BY Sizes
          <6> QED
            BY <1>7, <3>3, <6>1
        <5>2. READS * 0 + 0 = 0
          BY <1>c
        <5> QED
          BY <1>1, <3>3, <5>1, <5>2
      <4>5. rd' = RdIdle
        <5>1. rd' = [addrb |-> rd'.addrb, bin |-> rd'.bin, start |-> rd'.start,
                     data |-> rd'.data, doutb |-> rd'.doutb, stitch |-> rd'.stitch,
                     res |-> rd'.res, valid |-> rd'.valid]
          BY RdFields
        <5> QED
          BY <5>1, <3>3, <4>3, <4>4, Zenon DEF RdIdle
      <4>6. rd' \in RdType
        <5>1. rd'.doutb \in Int
          BY <1>8, <3>3, <4>3
        <5>4. rd'.valid \in BOOLEAN
          BY <1>8, <3>3, <4>3, Zenon
        <5>2. rd'.stitch \in {"IDLE", "WAIT", "BIN0_17", "BIN18_26", "BIN27_30"}
          BY <1>8, <3>3, <4>3
        <5>3. rd'.res \in Seq(Features)
          BY <1>8, <3>3, <4>3
        <5> QED
          BY <1>3, <5>1, <5>2, <5>3, <5>4
      <4> QED
        BY <1>1, <4>1, <4>5, <4>6 DEF ResultInv
    <3> QED
      BY <3>4, <3>5
  <2> QED
    BY <1>12, <2>5, <2>6
<1> QED
  BY <1>t, <1>i, <1>9, <1>10, <1>11, <1>12 DEF WStates

-----------------------------------------------------------------------------
(* AR.                                                                     *)

ArType == [state : ArStates, valid : BOOLEAN, addr : Int, len : Int, row_count : Int,
           col_remain : Int, fst_addr : Int, done : BOOLEAN]

LEMMA ArStateMoves ==
  ASSUME NEW arready \in BOOLEAN
  PROVE  /\ ar.state = "IDLE" =>
              ar_nstate(arready) = IF hog_start THEN ArAfterRow(blk.addr) ELSE "IDLE"
         /\ ar.state = "DONE" => ar_nstate(arready) = IF r.done THEN "IDLE" ELSE "DONE"
         /\ ar.state \notin {"IDLE", "DONE"} /\ ~ar_handshake(arready) =>
              ar_nstate(arready) = "WAIT"
         /\ ar.state \notin {"IDLE", "DONE"} /\ ar_handshake(arready) =>
              /\ ar.row_count = blk.x => ar_nstate(arready) = "DONE"
              /\ ar.row_count # blk.x /\ ar.col_remain > PAGE => ar_nstate(arready) = "QWN"
              /\ ar.row_count # blk.x /\ ~(ar.col_remain > PAGE)
                 /\ ar.col_remain \in 1 .. PAGE /\ ar.col_remain # 0 =>
                   ar_nstate(arready) = "COL_END"
              /\ ar.row_count # blk.x /\ ~(ar.col_remain > PAGE)
                 /\ ~(ar.col_remain \in 1 .. PAGE) /\ ar.col_remain = 0 =>
                   ar_nstate(arready) = ArAfterRow(ar.fst_addr)
<1>1. CASE ar.state = "IDLE"
  BY <1>1, Zenon DEF ar_nstate
<1>2. CASE ar.state = "DONE"
  BY <1>2, Zenon DEF ar_nstate
<1>3. CASE ar.state \notin {"IDLE", "DONE"} /\ ~ar_handshake(arready)
  BY <1>3, Zenon DEF ar_nstate
<1>4. CASE ar.state \notin {"IDLE", "DONE"} /\ ar_handshake(arready)
  <2>1. ar_nstate(arready) =
          CASE ar.row_count = blk.x -> "DONE"
            [] ar.row_count # blk.x /\ ar.col_remain > PAGE -> "QWN"
            [] ar.row_count # blk.x /\ ar.col_remain \in 1 .. PAGE -> "COL_END"
            [] ar.row_count # blk.x /\ ar.col_remain = 0 -> ArAfterRow(ar.fst_addr)
    BY <1>4, Zenon DEF ar_nstate
  <2>2. ar.row_count = blk.x => ar_nstate(arready) = "DONE"
    BY <2>1, Zenon
  <2>3. ar.row_count # blk.x /\ ar.col_remain > PAGE /\ ar.col_remain \notin 1 .. PAGE
        /\ ar.col_remain # 0 => ar_nstate(arready) = "QWN"
    BY <2>1, Zenon
  <2>4. ar.row_count # blk.x /\ ~(ar.col_remain > PAGE)
        /\ ar.col_remain \in 1 .. PAGE /\ ar.col_remain # 0 =>
          ar_nstate(arready) = "COL_END"
    BY <2>1, Zenon
  <2>5. ar.row_count # blk.x /\ ~(ar.col_remain > PAGE)
        /\ ~(ar.col_remain \in 1 .. PAGE) /\ ar.col_remain = 0 =>
          ar_nstate(arready) = ArAfterRow(ar.fst_addr)
    BY <2>1, Zenon
  <2> QED
    BY <1>4, <2>2, <2>3, <2>4, <2>5, Sizes
<1> QED
  BY <1>1, <1>2, <1>3, <1>4

LEMMA ArFields ==
  ASSUME NEW arready \in BOOLEAN, ReadRequests(arready), Typing
  PROVE  /\ ar_nstate(arready) = "IDLE" => ar' = ArIdle
         /\ ar_nstate(arready) = "HEAD" =>
              /\ ar' \in ArType /\ ar'.state = "HEAD" /\ ar'.valid /\ ar'.done = ar.done
              /\ ar'.addr = rowStart /\ ar'.row_count = ar.row_count
              /\ ar'.len = beats(PAGE - (rowStart % PAGE) + (rowStart % BEAT))
              /\ ar'.col_remain = blk.y + (rowStart % PAGE) - PAGE
              /\ ar'.fst_addr = ar.fst_addr
         /\ ar_nstate(arready) = "QWN" =>
              /\ ar' \in ArType /\ ar'.state = "QWN" /\ ar'.valid /\ ar'.done = ar.done
              /\ ar'.addr = nextPage /\ ar'.row_count = ar.row_count
              /\ ar'.len = BURST - 1 /\ ar'.col_remain = ar.col_remain - PAGE
              /\ ar'.fst_addr = ar.fst_addr
         /\ ar_nstate(arready) = "COL_END" =>
              /\ ar' \in ArType /\ ar'.state = "COL_END" /\ ar'.valid /\ ar'.done = ar.done
              /\ ar'.addr = (IF ar.col_remain = 0 THEN rowStart ELSE nextPage)
              /\ ar'.row_count = ar.row_count + 1
              /\ ar'.len = (IF ar.col_remain = 0 THEN beats((rowStart % BEAT) + blk.y)
                            ELSE beats(ar.col_remain))
              /\ ar'.col_remain = 0
              /\ ar'.fst_addr = (IF ar.col_remain = 0 THEN rowStart ELSE ar.fst_addr)
                                + blk.stride
         /\ ar_nstate(arready) = "WAIT" =>
              /\ ar' \in ArType /\ ar'.state = "WAIT" /\ ar'.valid = ar.valid
              /\ ar'.done = ar.done /\ ar'.addr = ar.addr /\ ar'.row_count = ar.row_count
              /\ ar'.len = ar.len /\ ar'.col_remain = ar.col_remain
              /\ ar'.fst_addr = ar.fst_addr
         /\ ar_nstate(arready) = "DONE" =>
              /\ ar' \in ArType /\ ar'.state = "DONE" /\ ~ar'.valid /\ ar'.done
<1>1. /\ ar \in ArType /\ ar.addr \in Int /\ ar.len \in Int /\ ar.row_count \in Int
      /\ ar.col_remain \in Int /\ ar.fst_addr \in Int
  BY DEF Typing, ArType
<1>2. /\ BEAT \in Nat /\ BEAT > 0 /\ BURST \in Nat /\ PAGE \in Nat /\ PAGE > 0
      /\ blk.addr \in Int /\ blk.y \in Int /\ blk.stride \in Int
  BY Sizes, BlockFacts
<1>3. PICK s \in Int : s = rowStart
  BY <1>1, <1>2 DEF rowStart
<1>4. PICK np \in Int : np = nextPage
  <2>1. (ar.addr \div PAGE + 1) * PAGE \in Int
    <3>1. ar.addr \div PAGE \in Int
      BY <1>1, <1>2
    <3> QED
      BY <3>1, <1>2
  <2> QED
    BY <2>1 DEF nextPage
<1>5. \A n \in Int : beats(n) \in Int
  BY <1>2 DEF beats
<1>6. s % PAGE \in Int /\ s % BEAT \in Int
  BY <1>2
<1>7. CASE ar_nstate(arready) = "IDLE"
  BY <1>7, Zenon DEF ReadRequests
<1>8. CASE ar_nstate(arready) = "HEAD"
  <2>1. PICK l \in Int, c \in Int :
           /\ l = beats(PAGE - (s % PAGE) + (s % BEAT))
           /\ c = blk.y + (s % PAGE) - PAGE
    <3>1. PICK l \in Int : l = beats(PAGE - (s % PAGE) + (s % BEAT))
      BY <1>2, <1>5, <1>6
    <3>2. PICK c \in Int : c = blk.y + (s % PAGE) - PAGE
      BY <1>2, <1>6
    <3> QED
      BY <3>1, <3>2
  <2>2. ar' = [ar EXCEPT !.state = "HEAD", !.valid = TRUE, !.addr = s, !.len = l,
                         !.col_remain = c]
    <3>1. ar' = ArHead
      BY <1>8, Zenon DEF ReadRequests
    <3> QED
      BY <3>1, <1>3, <2>1, Zenon DEF ArHead
  <2>3. /\ ar' \in ArType /\ ar'.state = "HEAD" /\ ar'.valid /\ ar'.done = ar.done
        /\ ar'.addr = s /\ ar'.row_count = ar.row_count /\ ar'.len = l
        /\ ar'.col_remain = c /\ ar'.fst_addr = ar.fst_addr
    BY <1>1, <2>2 DEF ArType, ArStates
  <2> QED
    BY <1>3, <1>8, <2>1, <2>3
<1>9. CASE ar_nstate(arready) = "QWN"
  <2>1. PICK l \in Int, c \in Int : l = BURST - 1 /\ c = ar.col_remain - PAGE
    BY <1>1, <1>2
  <2>2. ar' = [ar EXCEPT !.state = "QWN", !.valid = TRUE, !.addr = np, !.len = l,
                         !.col_remain = c]
    <3>1. ar' = ArWholePage
      BY <1>9, Zenon DEF ReadRequests
    <3> QED
      BY <3>1, <1>4, <2>1, Zenon DEF ArWholePage
  <2>3. /\ ar' \in ArType /\ ar'.state = "QWN" /\ ar'.valid /\ ar'.done = ar.done
        /\ ar'.addr = np /\ ar'.row_count = ar.row_count /\ ar'.len = l
        /\ ar'.col_remain = c /\ ar'.fst_addr = ar.fst_addr
    BY <1>1, <2>2 DEF ArType, ArStates
  <2> QED
    BY <1>4, <1>9, <2>1, <2>3
<1>10. CASE ar_nstate(arready) = "COL_END"
  <2>1. PICK a \in Int : a = IF ar.col_remain = 0 THEN s ELSE np
    OBVIOUS
  <2>2. PICK l \in Int : l = IF ar.col_remain = 0 THEN beats((s % BEAT) + blk.y)
                             ELSE beats(ar.col_remain)
    BY <1>1, <1>2, <1>5, <1>6
  <2>3. PICK f \in Int : f = (IF ar.col_remain = 0 THEN s ELSE ar.fst_addr) + blk.stride
    BY <1>1, <1>2
  <2>4. PICK n \in Int, z \in Int : n = ar.row_count + 1 /\ z = 0
    BY <1>1
  <2>5. ar' = [ar EXCEPT !.state = "COL_END", !.valid = TRUE, !.row_count = n,
                         !.col_remain = z, !.addr = a, !.len = l, !.fst_addr = f]
    <3>1. ar' = ArRowEnd
      BY <1>10, Zenon DEF ReadRequests
    <3> QED
      BY <3>1, <1>3, <1>4, <2>1, <2>2, <2>3, <2>4, Zenon DEF ArRowEnd
  <2>6. /\ ar' \in ArType /\ ar'.state = "COL_END" /\ ar'.valid /\ ar'.done = ar.done
        /\ ar'.addr = a /\ ar'.row_count = n /\ ar'.len = l
        /\ ar'.col_remain = z /\ ar'.fst_addr = f
    BY <1>1, <2>5 DEF ArType, ArStates
  <2> QED
    BY <1>3, <1>4, <1>10, <2>1, <2>2, <2>3, <2>4, <2>6
<1>11. CASE ar_nstate(arready) = "WAIT"
  <2>1. ar' = [ar EXCEPT !.state = "WAIT"]
    BY <1>11, Zenon DEF ReadRequests
  <2>2. /\ ar' \in ArType /\ ar'.state = "WAIT" /\ ar'.valid = ar.valid
        /\ ar'.done = ar.done /\ ar'.addr = ar.addr /\ ar'.row_count = ar.row_count
        /\ ar'.len = ar.len /\ ar'.col_remain = ar.col_remain
        /\ ar'.fst_addr = ar.fst_addr
    BY <1>1, <2>1 DEF ArType, ArStates
  <2> QED
    BY <1>11, <2>2
<1>12. CASE ar_nstate(arready) = "DONE"
  <2>1. ar' = [ar EXCEPT !.state = "DONE", !.valid = FALSE, !.done = TRUE]
    BY <1>12, Zenon DEF ReadRequests
  <2>2. ar' \in ArType /\ ar'.state = "DONE" /\ ~ar'.valid /\ ar'.done
    BY <1>1, <2>1 DEF ArType, ArStates
  <2> QED
    BY <1>12, <2>2
<1> QED
  BY <1>7, <1>8, <1>9, <1>10, <1>11, <1>12

-----------------------------------------------------------------------------
(* Beats and pages.                                                        *)

LEMMA DivisionMonotonic ==
  ASSUME NEW b \in Nat, b > 0, NEW x \in Int, NEW y \in Int, x <= y
  PROVE  x \div b <= y \div b
<1>1. PICK p \in Int, m \in 0 .. b - 1 : p = x \div b /\ m = x % b /\ x = p * b + m
  BY x \div b \in Int, x % b \in 0 .. b - 1, x = (x \div b) * b + (x % b)
<1>2. PICK q \in Int, n \in 0 .. b - 1 : q = y \div b /\ n = y % b /\ y = q * b + n
  BY y \div b \in Int, y % b \in 0 .. b - 1, y = (y \div b) * b + (y % b)
<1>3. SUFFICES ASSUME q + 1 <= p PROVE FALSE
  BY <1>1, <1>2
<1>4. (q + 1) * b <= p * b /\ (q + 1) * b = q * b + b /\ p * b \in Int /\ q * b \in Int
  BY <1>3
<1> QED
  BY <1>1, <1>2, <1>4

\* A page is a whole number of beats.
LEMMA PageParts ==
  ASSUME NEW a \in Int
  PROVE  \E p \in Int, u \in 0 .. BURST - 1, e \in 0 .. BEAT - 1 :
           /\ a = p * PAGE + u * BEAT + e
           /\ a \div PAGE = p /\ a % PAGE = u * BEAT + e
           /\ a \div BEAT = p * BURST + u /\ a % BEAT = e
           /\ (a % PAGE) \div BEAT = u
<1>0. BEAT \in Nat /\ BEAT > 0 /\ BURST \in Nat /\ BURST > 0 /\ PAGE \in Nat /\ PAGE > 0
  BY Sizes
<1>1. PICK p \in Int, o \in 0 .. PAGE - 1 : p = a \div PAGE /\ o = a % PAGE /\ a = p * PAGE + o
  <2>1. a \div PAGE \in Int /\ a % PAGE \in 0 .. PAGE - 1 /\ a = (a \div PAGE) * PAGE + (a % PAGE)
    BY <1>0
  <2> QED
    BY <2>1
<1>2. PICK u \in Int, e \in 0 .. BEAT - 1 : u = o \div BEAT /\ e = o % BEAT /\ o = u * BEAT + e
  <2>1. o \div BEAT \in Int /\ o % BEAT \in 0 .. BEAT - 1 /\ o = (o \div BEAT) * BEAT + (o % BEAT)
    BY <1>0
  <2> QED
    BY <2>1
<1>3. u \in 0 .. BURST - 1
  <2>1. ~(u < 0)
    <3> SUFFICES ASSUME u + 1 <= 0 PROVE FALSE
      OBVIOUS
    <3>1. (u + 1) * BEAT <= 0 * BEAT /\ (u + 1) * BEAT = u * BEAT + BEAT /\ u * BEAT \in Int
      BY <1>0
    <3> QED
      BY <1>0, <1>1, <1>2, <3>1
  <2>2. ~(u >= BURST)
    <3> SUFFICES ASSUME u >= BURST PROVE FALSE
      OBVIOUS
    <3>1. u * BEAT >= BURST * BEAT /\ BURST * BEAT = BEAT * BURST /\ u * BEAT \in Int
      BY <1>0
    <3> QED
      BY <1>0, <1>1, <1>2, <3>1 DEF PAGE
  <2> QED
    BY <1>0, <2>1, <2>2
<1>4. a = (p * BURST + u) * BEAT + e /\ p * BURST + u \in Int
  <2>1. p * (BEAT * BURST) = (p * BURST) * BEAT
    BY <1>0
  <2>2. (p * BURST + u) * BEAT = (p * BURST) * BEAT + u * BEAT
    BY <1>0
  <2>3. (p * BURST) * BEAT \in Int /\ u * BEAT \in Int /\ p * BURST \in Int
    BY <1>0
  <2> QED
    BY <1>1, <1>2, <2>1, <2>2, <2>3 DEF PAGE
<1>5. a \div BEAT = p * BURST + u /\ a % BEAT = e
  BY <1>0, <1>4, DivisionUnique
<1>6. a = p * PAGE + u * BEAT + e
  <2>1. p * PAGE \in Int /\ u * BEAT \in Int
    BY <1>0
  <2> QED
    BY <1>1, <1>2, <2>1
<1> QED
  BY <1>1, <1>2, <1>3, <1>5, <1>6

\* A burst of n bytes from a reaches the beat of its last byte.
LEMMA BeatsReach ==
  ASSUME NEW a \in Int, NEW n \in Nat, n > 0
  PROVE  /\ beats((a % BEAT) + n) \in Nat
         /\ a \div BEAT + beats((a % BEAT) + n) + 1 = (a + n - 1) \div BEAT + 1
<1>0. BEAT \in Nat /\ BEAT > 0
  BY Sizes
<1>1. PICK k \in Int, e \in 0 .. BEAT - 1 : k = a \div BEAT /\ e = a % BEAT /\ a = k * BEAT + e
  <2>1. a \div BEAT \in Int /\ a % BEAT \in 0 .. BEAT - 1 /\ a = (a \div BEAT) * BEAT + (a % BEAT)
    BY <1>0
  <2> QED
    BY <2>1
<1>2. PICK z \in Nat : z = e + n - 1
  OBVIOUS
<1>3. PICK q \in Nat, m \in 0 .. BEAT - 1 : q = z \div BEAT /\ z = q * BEAT + m
  <2>1. z \div BEAT \in Nat /\ z % BEAT \in 0 .. BEAT - 1 /\ z = (z \div BEAT) * BEAT + (z % BEAT)
    BY <1>0
  <2> QED
    BY <2>1
<1>4. beats(e + n) = q
  <2>1. (q + 1) * BEAT + m = e + n + BEAT - 1
    <3>1. (q + 1) * BEAT = q * BEAT + BEAT /\ q * BEAT \in Int
      BY <1>0
    <3> QED
      BY <1>0, <1>2, <1>3, <3>1
  <2>2. ((q + 1) * BEAT + m) \div BEAT = q + 1
    BY <1>0, DivisionUnique
  <2>3. (e + n + BEAT - 1) \div BEAT = q + 1
    BY <2>1, <2>2
  <2> QED
    BY <2>3 DEF beats
<1>5. (a + n - 1) \div BEAT = k + q
  <2>1. (k + q) * BEAT + m = a + n - 1
    <3>1. (k + q) * BEAT = k * BEAT + q * BEAT /\ q * BEAT \in Int /\ k * BEAT \in Int
      BY <1>0
    <3> QED
      BY <1>0, <1>1, <1>2, <1>3, <3>1
  <2>2. ((k + q) * BEAT + m) \div BEAT = k + q
    BY <1>0, DivisionUnique
  <2> QED
    BY <2>1, <2>2
<1> QED
  BY <1>1, <1>4, <1>5

-----------------------------------------------------------------------------
(* The bursts between the place of AR and the place of R.                  *)

Burst == [addr : Int, len : Int]

LEMMA RowNumbers ==
  ASSUME NEW b \in Blocks, NEW i \in Int
  PROVE  Row(b, i) \in Int /\ Row(b, i + 1) = Row(b, i) + b.stride /\ RowEnd(b, i) \in Int
<1>1. b.addr \in Int /\ b.stride \in Int /\ b.y \in Int
  BY BlockAssumption
<1>2. i * b.stride \in Int /\ (i + 1) * b.stride = i * b.stride + b.stride
  BY <1>1
<1>3. Row(b, i) \in Int /\ Row(b, i + 1) = Row(b, i) + b.stride
  BY <1>1, <1>2 DEF Row
<1>4. RowEnd(b, i) \in Int
  BY <1>1, <1>3, Sizes DEF RowEnd
<1> QED
  BY <1>3, <1>4

LEMMA BurstNumbers ==
  ASSUME NEW t \in Burst
  PROVE  /\ t.addr \in Int /\ t.len \in Int
         /\ FirstBeat(t) \in Int /\ NextBeat(t) = FirstBeat(t) + t.len + 1
<1>1. t.addr \in Int /\ t.len \in Int
  BY DEF Burst
<1> QED
  BY <1>1, Sizes DEF FirstBeat, NextBeat

LEMMA LeadsAppend ==
  ASSUME NEW b \in Blocks, NEW bs \in Seq(Burst), NEW rb \in Int, NEW from,
         NEW i \in 0 .. b.x - 1, NEW t \in Burst,
         Leads(b, bs, rb, from, <<i, FirstBeat(t)>>),
         t.len >= 0, NextBeat(t) <= RowEnd(b, i)
  PROVE  Leads(b, Append(bs, t), rb, from, Place(b, i, NextBeat(t)))
<1>1. PICK n \in Nat : n = Len(bs)
  BY LenProperties
<1>2. PICK cs : cs = Append(bs, t)
  OBVIOUS
<1>3. /\ cs \in Seq(Burst) /\ Len(cs) = n + 1 /\ cs # <<>>
      /\ \A p \in 1 .. n : cs[p] = bs[p]
      /\ cs[n + 1] = t
  <2>1. /\ cs \in Seq(Burst) /\ Len(cs) = n + 1
        /\ \A p \in 1 .. n : cs[p] = bs[p]
        /\ cs[n + 1] = t
    BY <1>1, <1>2, AppendProperties
  <2>2. cs # <<>>
    <3>1. Len(<<>>) = 0
      BY EmptySeq
    <3> QED
      BY <2>1, <3>1
  <2> QED
    BY <2>1, <2>2
<1>4. ASSUME NEW row \in [1 .. n + 1 -> 0 .. b.x - 1],
             rb \in 0 .. cs[1].len,
             from = <<row[1], FirstBeat(cs[1]) + rb>>,
             \A p \in 1 .. n + 1 : cs[p].len >= 0 /\ NextBeat(cs[p]) <= RowEnd(b, row[p]),
             \A p \in 1 .. n :
               Place(b, row[p], NextBeat(cs[p])) = <<row[p + 1], FirstBeat(cs[p + 1])>>,
             row[n + 1] = i
      PROVE  Leads(b, cs, rb, from, Place(b, i, NextBeat(t)))
  <2>1. (n + 1) - 1 = n
    OBVIOUS
  <2>2. Place(b, i, NextBeat(t)) = Place(b, row[Len(cs)], NextBeat(cs[Len(cs)]))
    BY <1>3, <1>4
  <2> QED
    BY <1>3, <1>4, <2>1, <2>2 DEF Leads
<1>5. CASE bs = <<>>
  <2>1. rb = 0 /\ from = <<i, FirstBeat(t)>>
    BY <1>5 DEF Leads
  <2>2. n = 0
    BY <1>1, <1>5, EmptySeq
  <2>3. cs[1] = t
    BY <1>3, <2>2
  <2>4. PICK row \in [1 .. n + 1 -> 0 .. b.x - 1] : row = [p \in 1 .. n + 1 |-> i]
    OBVIOUS
  <2>5. row[1] = i
    BY <2>2, <2>4
  <2>6. FirstBeat(t) + 0 = FirstBeat(t)
    BY BurstNumbers
  <2>7. t.len \in Int
    BY BurstNumbers
  <2>8. \A p \in 1 .. n + 1 : p = 1
    BY <2>2
  <2>9. \A p \in 1 .. n : FALSE
    BY <2>2
  <2>10. rb \in 0 .. cs[1].len
    BY <2>1, <2>3, <2>7
  <2>11. from = <<row[1], FirstBeat(cs[1]) + rb>>
    BY <2>1, <2>3, <2>5, <2>6
  <2>12. \A p \in 1 .. n + 1 : cs[p].len >= 0 /\ NextBeat(cs[p]) <= RowEnd(b, row[p])
    BY <2>3, <2>5, <2>8
  <2>13. row[n + 1] = i
    BY <2>2, <2>5
  <2> QED
    BY <1>2, <1>4, <2>9, <2>10, <2>11, <2>12, <2>13
<1>6. CASE bs # <<>>
  <2>1. n > 0
    BY <1>1, <1>6, EmptySeq
  <2>2. PICK q \in [1 .. n -> 0 .. b.x - 1] :
           /\ rb \in 0 .. bs[1].len
           /\ from = <<q[1], FirstBeat(bs[1]) + rb>>
           /\ \A p \in 1 .. n : bs[p].len >= 0 /\ NextBeat(bs[p]) <= RowEnd(b, q[p])
           /\ \A p \in 1 .. n - 1 :
                Place(b, q[p], NextBeat(bs[p])) = <<q[p + 1], FirstBeat(bs[p + 1])>>
           /\ <<i, FirstBeat(t)>> = Place(b, q[n], NextBeat(bs[n]))
    BY <1>1, <1>6 DEF Leads
  <2>3. PICK row \in [1 .. n + 1 -> 0 .. b.x - 1] :
           row = [p \in 1 .. n + 1 |-> IF p <= n THEN q[p] ELSE i]
    <3>1. \A p \in 1 .. n + 1 : (IF p <= n THEN q[p] ELSE i) \in 0 .. b.x - 1
      OBVIOUS
    <3> QED
      BY <3>1
  <2>4. /\ \A p \in 1 .. n : row[p] = q[p]
        /\ row[n + 1] = i
    BY <2>3
  <2>5. 1 \in 1 .. n /\ cs[1] = bs[1] /\ row[1] = q[1]
    BY <1>3, <2>1, <2>4
  <2>6. ASSUME NEW p \in 1 .. n + 1
        PROVE  cs[p].len >= 0 /\ NextBeat(cs[p]) <= RowEnd(b, row[p])
    <3>1. CASE p \in 1 .. n
      BY <3>1, <1>3, <2>2, <2>4
    <3>2. CASE p = n + 1
      BY <3>2, <1>3, <2>4
    <3> QED
      BY <3>1, <3>2
  <2>7. ASSUME NEW p \in 1 .. n
        PROVE  Place(b, row[p], NextBeat(cs[p])) = <<row[p + 1], FirstBeat(cs[p + 1])>>
    <3>1. CASE p \in 1 .. n - 1
      <4>1. p \in 1 .. n /\ p + 1 \in 1 .. n
        BY <3>1
      <4> QED
        BY <3>1, <4>1, <1>3, <2>2, <2>4
    <3>2. CASE p = n
      BY <3>2, <1>3, <2>1, <2>2, <2>4
    <3> QED
      BY <3>1, <3>2
  <2> QED
    BY <1>2, <1>4, <2>2, <2>4, <2>5, <2>6, <2>7
<1> QED
  BY <1>5, <1>6

LEMMA LeadsTake ==
  ASSUME NEW b \in Blocks, NEW bs \in Seq(Burst), NEW rb \in Int, NEW i, NEW k, NEW to,
         Leads(b, bs, rb, <<i, k>>, to), bs # <<>>
  PROVE  /\ i \in 0 .. b.x - 1 /\ k \in Int
         /\ rb # bs[1].len => Leads(b, bs, rb + 1, Place(b, i, k + 1), to)
         /\ rb = bs[1].len => Leads(b, Tail(bs), 0, Place(b, i, k + 1), to)
<1>1. PICK n \in Nat : n = Len(bs) /\ n > 0
  BY LenProperties, EmptySeq
<1>2. PICK q \in [1 .. n -> 0 .. b.x - 1] :
         /\ rb \in 0 .. bs[1].len
         /\ <<i, k>> = <<q[1], FirstBeat(bs[1]) + rb>>
         /\ \A p \in 1 .. n : bs[p].len >= 0 /\ NextBeat(bs[p]) <= RowEnd(b, q[p])
         /\ \A p \in 1 .. n - 1 :
              Place(b, q[p], NextBeat(bs[p])) = <<q[p + 1], FirstBeat(bs[p + 1])>>
         /\ to = Place(b, q[n], NextBeat(bs[n]))
  BY <1>1 DEF Leads
<1>3. 1 \in 1 .. n /\ bs[1] \in Burst /\ q[1] \in 0 .. b.x - 1
  <2>1. 1 \in 1 .. n
    BY <1>1
  <2> QED
    BY <2>1, <1>1, ElementOfSeq
<1>4. /\ i = q[1] /\ k = FirstBeat(bs[1]) + rb /\ k \in Int
      /\ FirstBeat(bs[1]) \in Int /\ bs[1].len \in Int
      /\ NextBeat(bs[1]) = FirstBeat(bs[1]) + bs[1].len + 1
      /\ NextBeat(bs[1]) <= RowEnd(b, i)
  <2>1. i = q[1] /\ k = FirstBeat(bs[1]) + rb
    BY <1>2
  <2>2. /\ FirstBeat(bs[1]) \in Int /\ bs[1].len \in Int
        /\ NextBeat(bs[1]) = FirstBeat(bs[1]) + bs[1].len + 1
    BY <1>3, BurstNumbers
  <2>3. NextBeat(bs[1]) <= RowEnd(b, q[1])
    BY <1>2, <1>3
  <2> QED
    BY <2>1, <2>2, <2>3
<1>5. b.x \in Int /\ i \in 0 .. b.x - 1 /\ RowEnd(b, i) \in Int
  <2>1. b.x \in Int
    BY BlockAssumption
  <2>2. i \in 0 .. b.x - 1
    BY <1>3, <1>4
  <2>3. i \in Int
    BY <2>1, <2>2
  <2>4. RowEnd(b, i) \in Int
    BY <2>3, RowNumbers
  <2> QED
    BY <2>1, <2>2, <2>4
<1>6. ASSUME rb # bs[1].len PROVE Leads(b, bs, rb + 1, Place(b, i, k + 1), to)
  <2>1. rb + 1 \in 0 .. bs[1].len
    <3>1. PICK l \in Int : l = bs[1].len /\ rb \in 0 .. l /\ rb # l
      <4>1. bs[1].len \in Int /\ rb \in 0 .. bs[1].len
        BY <1>2, <1>4
      <4> QED
        BY <1>6, <4>1
    <3>2. rb + 1 \in 0 .. l
      BY <3>1
    <3> QED
      BY <3>1, <3>2
  <2>2. k + 1 # RowEnd(b, i) /\ k + 1 = FirstBeat(bs[1]) + (rb + 1)
    <3>0. PICK g : g = NextBeat(bs[1])
      OBVIOUS
    <3>1. PICK e \in Int, f \in Int, l \in Int :
            e = RowEnd(b, i) /\ f = FirstBeat(bs[1]) /\ l = bs[1].len /\ g = NextBeat(bs[1])
      BY <1>4, <1>5, <3>0
    <3>2. rb < l /\ g = f + l + 1 /\ g <= e /\ k = f + rb
      <4>1. rb \in 0 .. l /\ rb # l
        BY <1>2, <1>6, <3>1
      <4> QED
        BY <1>4, <3>1, <4>1
    <3>3. k + 1 # e /\ k + 1 = f + (rb + 1)
      BY <3>2
    <3> QED
      BY <3>1, <3>3
  <2>3. Place(b, i, k + 1) = <<q[1], FirstBeat(bs[1]) + (rb + 1)>>
    BY <1>4, <2>2 DEF Place
  <2> QED
    BY <1>1, <1>2, <2>1, <2>3 DEF Leads
<1>7. ASSUME rb = bs[1].len PROVE Leads(b, Tail(bs), 0, Place(b, i, k + 1), to)
  <2>1. PICK cs : cs = Tail(bs)
    OBVIOUS
  <2>2. /\ cs \in Seq(Burst) /\ Len(cs) = n - 1
        /\ \A p \in 1 .. n - 1 : cs[p] = bs[p + 1]
    BY <1>1, <2>1, HeadTailProperties
  <2>3. Place(b, i, k + 1) = Place(b, q[1], NextBeat(bs[1]))
    <3>1. k + 1 = NextBeat(bs[1])
      BY <1>4, <1>7
    <3> QED
      BY <1>4, <3>1
  <2>4. CASE n = 1
    <3>1. cs = <<>>
      BY <2>2, <2>4, EmptySeq
    <3> QED
      BY <1>2, <2>1, <2>3, <2>4, <3>1 DEF Leads
  <2>5. CASE n # 1
    <3>1. n > 1 /\ 1 \in 1 .. n - 1 /\ 1 \in 1 .. n
      BY <1>1, <2>5
    <3>2. cs # <<>>
      <4>1. Len(<<>>) = 0
        BY EmptySeq
      <4> QED
        BY <2>2, <3>1, <4>1
    <3>3. PICK row \in [1 .. n - 1 -> 0 .. b.x - 1] : row = [p \in 1 .. n - 1 |-> q[p + 1]]
      <4>1. \A p \in 1 .. n - 1 : q[p + 1] \in 0 .. b.x - 1
        <5>1. \A p \in 1 .. n - 1 : p + 1 \in 1 .. n
          OBVIOUS
        <5> QED
          BY <5>1
      <4> QED
        BY <4>1
    <3>4. \A p \in 1 .. n - 1 : row[p] = q[p + 1]
      BY <3>3
    <3>5. Place(b, i, k + 1) = <<row[1], FirstBeat(cs[1])>>
      <4>1. Place(b, q[1], NextBeat(bs[1])) = <<q[1 + 1], FirstBeat(bs[1 + 1])>>
        BY <1>2, <3>1
      <4> QED
        BY <2>2, <2>3, <3>1, <3>4, <4>1
    <3>6. ASSUME NEW p \in 1 .. n - 1
          PROVE  cs[p].len >= 0 /\ NextBeat(cs[p]) <= RowEnd(b, row[p])
      <4>1. p + 1 \in 1 .. n
        OBVIOUS
      <4> QED
        BY <1>2, <2>2, <3>4, <4>1
    <3>7. ASSUME NEW p \in 1 .. (n - 1) - 1
          PROVE  Place(b, row[p], NextBeat(cs[p])) = <<row[p + 1], FirstBeat(cs[p + 1])>>
      <4>1. p \in 1 .. n - 1 /\ p + 1 \in 1 .. n - 1
        OBVIOUS
      <4> QED
        BY <1>2, <2>2, <3>4, <4>1
    <3>8. to = Place(b, row[n - 1], NextBeat(cs[n - 1]))
      <4>1. n - 1 \in 1 .. n - 1 /\ (n - 1) + 1 = n
        BY <3>1
      <4> QED
        BY <1>2, <2>2, <3>4, <4>1
    <3>9. FirstBeat(cs[1]) + 0 = FirstBeat(cs[1]) /\ 0 \in 0 .. cs[1].len
      <4>1. cs[1] \in Burst
        BY <2>2, <3>1, ElementOfSeq
      <4>2. FirstBeat(cs[1]) \in Int /\ cs[1].len \in Int
        BY <4>1, BurstNumbers
      <4> QED
        BY <3>1, <3>6, <4>2
    <3> QED
      BY <2>1, <2>2, <3>2, <3>5, <3>6, <3>7, <3>8, <3>9 DEF Leads
  <2> QED
    BY <2>4, <2>5
<1> QED
  BY <1>4, <1>5, <1>6, <1>7

-----------------------------------------------------------------------------
(* The place of R.                                                         *)

\* The place after the beat that R has on hand.
After(b, rr) == IF rr.col_remain > 0
                THEN <<rr.row_count, (Row(b, rr.row_count) + b.y - rr.col_remain) \div BEAT>>
                ELSE <<rr.row_count + 1, Row(b, rr.row_count + 1) \div BEAT>>

\* The beat before byte s, where s begins a beat, is the one before the beat of s.
LEMMA BeatBefore ==
  ASSUME NEW s \in Int, s % BEAT = 0
  PROVE  (s - 1) \div BEAT + 1 = s \div BEAT
<1>0. BEAT \in Nat /\ BEAT > 0
  BY Sizes
<1>1. PICK m \in Int : m = s \div BEAT /\ s = m * BEAT
  <2>1. s \div BEAT \in Int /\ s = (s \div BEAT) * BEAT + (s % BEAT)
    BY <1>0
  <2> QED
    BY <1>0, <2>1
<1>2. (m - 1) * BEAT + (BEAT - 1) = s - 1
  <2>1. (m - 1) * BEAT = m * BEAT - BEAT /\ m * BEAT \in Int
    BY <1>0
  <2> QED
    BY <1>0, <1>1, <2>1
<1>3. ((m - 1) * BEAT + (BEAT - 1)) \div BEAT = m - 1
  BY <1>0, DivisionUnique
<1> QED
  BY <1>1, <1>2, <1>3

LEMMA BeatPlaces ==
  ASSUME NEW b \in Blocks, NEW i \in Int, NEW c \in Nat,
         c > 0 => (Row(b, i) + b.y - c) % BEAT = 0
  PROVE  Place(b, i, (Row(b, i) + b.y - c - 1) \div BEAT + 1) =
           IF c > 0 THEN <<i, (Row(b, i) + b.y - c) \div BEAT>>
           ELSE <<i + 1, Row(b, i + 1) \div BEAT>>
<1>0. BEAT \in Nat /\ BEAT > 0
  BY Sizes
<1>1. PICK o \in Int, y \in Int : o = Row(b, i) /\ y = b.y
  <2>1. Row(b, i) \in Int
    BY RowNumbers
  <2>2. b.y \in Int
    BY BlockAssumption
  <2> QED
    BY <2>1, <2>2, Zenon
<1>e. PICK e \in Int : e = o + y
  OBVIOUS
<1>2. RowEnd(b, i) = (e - 1) \div BEAT + 1
  BY <1>1, <1>e DEF RowEnd
<1>c. (c > 0 => (e - c) % BEAT = 0) /\ Row(b, i) + b.y - c = e - c
  BY <1>1, <1>e
<1>d. (Row(b, i) + b.y - c - 1) \div BEAT + 1 = (e - c - 1) \div BEAT + 1
  <2>1. Row(b, i) + b.y - c - 1 = e - c - 1
    BY <1>1, <1>e
  <2> QED
    BY <2>1, Zenon
<1>3. CASE c > 0
  <2>1. PICK s \in Int : s = e - c
    OBVIOUS
  <2>2. s % BEAT = 0 /\ s <= e - 1
    BY <1>c, <1>3, <2>1
  <2>3. (s - 1) \div BEAT + 1 = s \div BEAT
    BY <2>2, BeatBefore
  <2>4. s \div BEAT <= (e - 1) \div BEAT /\ s \div BEAT \in Int /\ (e - 1) \div BEAT \in Int
    BY <1>0, <2>2, DivisionMonotonic
  <2>5. s \div BEAT # RowEnd(b, i)
    BY <1>2, <2>4
  <2>6. Place(b, i, s \div BEAT) = <<i, s \div BEAT>>
    BY <2>5 DEF Place
  <2>7. Place(b, i, (s - 1) \div BEAT + 1) = <<i, s \div BEAT>>
    BY <2>3, <2>6
  <2>8. Place(b, i, (Row(b, i) + b.y - c - 1) \div BEAT + 1) = <<i, s \div BEAT>>
    BY <1>d, <2>1, <2>7, Zenon
  <2>9. s = Row(b, i) + b.y - c
    BY <1>c, <2>1
  <2> QED
    BY <1>3, <2>8, <2>9
<1>4. CASE c = 0
  <2>1. e - c - 1 = e - 1
    BY <1>4
  <2>2. Place(b, i, RowEnd(b, i)) = <<i + 1, Row(b, i + 1) \div BEAT>>
    BY DEF Place
  <2>3. Place(b, i, (Row(b, i) + b.y - c - 1) \div BEAT + 1) =
          <<i + 1, Row(b, i + 1) \div BEAT>>
    BY <1>d, <1>2, <2>1, <2>2, Zenon
  <2> QED
    BY <1>4, <2>3
<1> QED
  BY <1>3, <1>4

\* The counters of a beat, where the next d bytes are from s: n bytes of them are in
\* the beat, and c after it, which begin a beat.
InBeat(s, d, n, c) ==
    /\ n > 0 /\ c >= 0 /\ n + c = d
    /\ c > 0 => (s + d - c) % BEAT = 0
    /\ (s + d - c - 1) \div BEAT = s \div BEAT

\* The counters of the first beat of a row.
FirstCounters(a, y, n, c) ==
    /\ n = IF BEAT - (a % BEAT) <= y THEN BEAT - (a % BEAT) ELSE y
    /\ c = IF y + (a % BEAT) - BEAT <= 0 THEN 0 ELSE y + (a % BEAT) - BEAT

LEMMA RowOfBeats ==
  ASSUME NEW a \in Int, NEW y \in Nat, y > 0, NEW n \in Int, NEW c \in Int,
         FirstCounters(a, y, n, c)
  PROVE  InBeat(a, y, n, c)
<1>i. SUFFICES /\ n > 0 /\ c >= 0 /\ n + c = y
               /\ c > 0 => (a + y - c) % BEAT = 0
               /\ (a + y - c - 1) \div BEAT = a \div BEAT
  BY Zenon DEF InBeat
<1>0. BEAT \in Nat /\ BEAT > 0
  BY Sizes
<1>1. PICK q \in Int, e \in 0 .. BEAT - 1 : q = a \div BEAT /\ e = a % BEAT /\ a = q * BEAT + e
  <2>1. a \div BEAT \in Int /\ a % BEAT \in 0 .. BEAT - 1 /\ a = (a \div BEAT) * BEAT + (a % BEAT)
    BY <1>0
  <2> QED
    BY <2>1
<1>f. /\ n = IF BEAT - e <= y THEN BEAT - e ELSE y
      /\ c = IF y + e - BEAT <= 0 THEN 0 ELSE y + e - BEAT
  BY <1>1 DEF FirstCounters
<1>2. n > 0 /\ c >= 0 /\ n + c = y
  BY <1>0, <1>1, <1>f
<1>3. PICK p \in Int : p = q * BEAT
  BY <1>0
<1>4. CASE y + e - BEAT <= 0
  <2>1. c = 0
    BY <1>f, <1>4
  <2>2. PICK m \in 0 .. BEAT - 1 : m = e + y - 1
    BY <1>0, <1>4
  <2>3. q * BEAT + m = a + y - c - 1
    <3>1. p + (e + y - 1) = (p + e) + y - 0 - 1
      OBVIOUS
    <3> QED
      BY <1>1, <1>3, <2>1, <2>2, <3>1
  <2>4. (q * BEAT + m) \div BEAT = q
    BY <1>0, DivisionUnique
  <2>5. (a + y - c - 1) \div BEAT = a \div BEAT
    BY <1>1, <2>3, <2>4
  <2> QED
    BY <1>2, <2>1, <2>5
<1>5. CASE y + e - BEAT > 0
  <2>1. c = y + e - BEAT
    BY <1>0, <1>f, <1>5
  <2>2. q * BEAT + (BEAT - 1) = a + y - c - 1
    BY <1>0, <1>1, <1>3, <2>1
  <2>3. (q * BEAT + (BEAT - 1)) \div BEAT = q
    BY <1>0, DivisionUnique
  <2>4. (q + 1) * BEAT + 0 = a + y - c
    <3>1. (q + 1) * BEAT = q * BEAT + BEAT
      BY <1>0
    <3> QED
      BY <1>0, <1>1, <1>3, <2>1, <3>1
  <2>5. ((q + 1) * BEAT + 0) % BEAT = 0
    BY <1>0, DivisionUnique
  <2>6. (a + y - c) % BEAT = 0 /\ (a + y - c - 1) \div BEAT = a \div BEAT
    BY <1>1, <2>2, <2>3, <2>4, <2>5
  <2> QED
    BY <1>2, <2>6
<1> QED
  BY <1>0, <1>4, <1>5

\* The counters of the next beat of a row, of which s is the first byte.
NextCounters(s, d, n, c) ==
    /\ s % BEAT = 0
    /\ n = IF BEAT <= d THEN BEAT ELSE d
    /\ c = IF d - BEAT <= 0 THEN 0 ELSE d - BEAT

LEMMA NextOfRow ==
  ASSUME NEW s \in Int, NEW d \in Nat, d > 0, NEW n \in Int, NEW c \in Int,
         NextCounters(s, d, n, c)
  PROVE  InBeat(s, d, n, c)
<1>i. SUFFICES /\ n > 0 /\ c >= 0 /\ n + c = d
               /\ c > 0 => (s + d - c) % BEAT = 0
               /\ (s + d - c - 1) \div BEAT = s \div BEAT
  BY Zenon DEF InBeat
<1>0. BEAT \in Nat /\ BEAT > 0
  BY Sizes
<1>f. /\ s % BEAT = 0
      /\ n = IF BEAT <= d THEN BEAT ELSE d
      /\ c = IF d - BEAT <= 0 THEN 0 ELSE d - BEAT
  BY Zenon DEF NextCounters
<1>1. n > 0 /\ c >= 0 /\ n + c = d
  BY <1>0, <1>f
<1>2. PICK m \in Int : m = s \div BEAT /\ s = m * BEAT
  <2>1. s \div BEAT \in Int /\ s = (s \div BEAT) * BEAT + (s % BEAT)
    BY <1>0
  <2> QED
    BY <1>0, <1>f, <2>1
<1>3. PICK z \in 0 .. BEAT - 1 : z = n - 1
  BY <1>0, <1>f
<1>4. m * BEAT + z = s + d - c - 1
  <2>1. m * BEAT \in Int
    BY <1>0
  <2> QED
    BY <1>1, <1>2, <1>3, <2>1
<1>5. (m * BEAT + z) \div BEAT = m
  BY <1>0, DivisionUnique
<1>6. ASSUME c > 0 PROVE (s + d - c) % BEAT = 0
  <2>1. d - c = BEAT
    BY <1>0, <1>f, <1>6
  <2>2. (m + 1) * BEAT + 0 = s + d - c
    <3>1. (m + 1) * BEAT = m * BEAT + BEAT /\ m * BEAT \in Int
      BY <1>0
    <3> QED
      BY <1>0, <1>2, <2>1, <3>1
  <2>3. ((m + 1) * BEAT + 0) % BEAT = 0
    BY <1>0, DivisionUnique
  <2> QED
    BY <2>2, <2>3
<1> QED
  BY <1>1, <1>2, <1>4, <1>5, <1>6

\* R with a beat of row i to take, n bytes of it, and c bytes after it; the row
\* ends before byte o.
HasBeat(b, q, i, n, c, o) ==
    /\ o = Row(b, i) + b.y
    /\ q.row_count = i /\ i # b.x /\ q.ready /\ q.byte_count = n /\ q.col_remain = c
    /\ q.fst_addr = Row(b, i + 1) /\ n > 0 /\ c >= 0
    /\ c > 0 => (o - c) % BEAT = 0
    /\ (o - c - 1) \div BEAT = (o - (n + c)) \div BEAT

LEMMA WithBeat ==
  ASSUME NEW b \in Blocks, NEW q \in RType, NEW i \in Int, NEW n \in Int, NEW c \in Int,
         NEW o \in Int, HasBeat(b, q, i, n, c, o)
  PROVE  Taking(b, q) /\ RPlace(b, q) = <<i, (o - (n + c)) \div BEAT>>
<1>h. /\ o = Row(b, i) + b.y
      /\ q.row_count = i /\ i # b.x /\ q.ready /\ q.byte_count = n /\ q.col_remain = c
      /\ q.fst_addr = Row(b, i + 1) /\ n > 0 /\ c >= 0
      /\ c > 0 => (o - c) % BEAT = 0
      /\ (o - c - 1) \div BEAT = (o - (n + c)) \div BEAT
  BY Zenon DEF HasBeat
<1>1. Rest(q) = n + c /\ n + c > 0
  BY <1>h DEF Rest
<1>2. PICK a \in Int, y \in Int : a = Row(b, i) /\ y = b.y
  <2>1. Row(b, i) \in Int
    BY RowNumbers
  <2>2. b.y \in Int
    BY BlockAssumption
  <2> QED
    BY <2>1, <2>2
<1>3. PICK m \in Int : m = n + c
  OBVIOUS
<1>4. a + y - c = o - c /\ a + y - c - 1 = o - c - 1 /\ a + y - m = o - m
  BY <1>h, <1>2
<1>5. Taking(b, q)
  BY <1>h, <1>1, <1>2, <1>3, <1>4, Zenon DEF Taking
<1>6. RPlace(b, q) = <<i, (o - m) \div BEAT>>
  BY <1>h, <1>1, <1>2, <1>3, <1>4, Zenon DEF RPlace
<1> QED
  BY <1>3, <1>5, <1>6

\* R before the first beat of row i.
LEMMA WithRow ==
  ASSUME Typing, NEW q \in RType, NEW i \in Int, q.row_count = i, i # blk.x
  PROVE  /\ Taking(blk, RowBegin(q, Row(blk, i)))
         /\ RPlace(blk, RowBegin(q, Row(blk, i))) = <<i, Row(blk, i) \div BEAT>>
<1>1. PICK a \in Int, y \in Nat :
         a = Row(blk, i) /\ y = blk.y /\ y > 0 /\ a + blk.stride = Row(blk, i + 1)
  <2>1. blk \in Blocks
    BY DEF Typing
  <2> QED
    BY <2>1, RowNumbers, BlockFacts
<1>2. PICK p \in RType : p = RowBegin(q, a)
  BY RowBeginFacts
<1>3. PICK n \in Int, c \in Int : n = p.byte_count /\ c = p.col_remain
  BY DEF RType
<1>4. /\ p.ready /\ p.row_count = i /\ p.fst_addr = a + blk.stride
      /\ n = IF BEAT - (a % BEAT) <= y THEN BEAT - (a % BEAT) ELSE y
      /\ c = IF y + (a % BEAT) - BEAT <= 0 THEN 0 ELSE y + (a % BEAT) - BEAT
  <2>1. /\ p.ready /\ p.row_count = q.row_count /\ p.fst_addr = a + blk.stride
        /\ p.byte_count = IF BEAT - (a % BEAT) <= blk.y THEN BEAT - (a % BEAT) ELSE blk.y
        /\ p.col_remain = IF blk.y + (a % BEAT) - BEAT <= 0 THEN 0
                          ELSE blk.y + (a % BEAT) - BEAT
    BY <1>2, RowBeginFacts, Zenon
  <2> QED
    BY <1>1, <1>3, <2>1, Zenon
<1>5. PICK o \in Int : o = a + y
  OBVIOUS
<1>6. /\ n > 0 /\ c >= 0 /\ n + c = y
      /\ c > 0 => (o - c) % BEAT = 0
      /\ (o - c - 1) \div BEAT = a \div BEAT
  <2>1. /\ n > 0 /\ c >= 0 /\ n + c = y
        /\ c > 0 => (a + y - c) % BEAT = 0
        /\ (a + y - c - 1) \div BEAT = a \div BEAT
    <3>1. FirstCounters(a, y, n, c)
      BY <1>4, Zenon DEF FirstCounters
    <3> QED
      <4>1. InBeat(a, y, n, c)
        BY <1>1, <1>3, <3>1, RowOfBeats
      <4> QED
        BY <4>1, Zenon DEF InBeat
  <2> QED
    BY <1>5, <2>1
<1>7. o - (n + c) = a
  BY <1>5, <1>6
<1>8. blk \in Blocks
  BY DEF Typing
<1>9. o = Row(blk, i) + blk.y
  BY <1>1, <1>5
<1>11. (o - c - 1) \div BEAT = (o - (n + c)) \div BEAT
  BY <1>6, <1>7, Zenon
<1>10. Taking(blk, p) /\ RPlace(blk, p) = <<i, (o - (n + c)) \div BEAT>>
  <2>1. HasBeat(blk, p, i, n, c, o)
    BY <1>1, <1>3, <1>4, <1>6, <1>9, <1>11, Zenon DEF HasBeat
  <2> QED
    BY <1>2, <1>3, <1>5, <1>8, <2>1, WithBeat
<1> QED
  BY <1>1, <1>2, <1>7, <1>10

\* R after a beat.
LEMMA AfterBeat ==
  ASSUME Typing, NEW q \in RType, q.row_count \in 0 .. blk.x - 1, Taking(blk, q)
  PROVE  /\ RPlace(blk, BeatEnd(q)) = After(blk, q)
         /\ BeatEnd(q).row_count < blk.x => Taking(blk, BeatEnd(q))
<1>1. blk \in Blocks /\ blk.x \in Int
  <2>1. blk \in Blocks
    BY DEF Typing
  <2> QED
    BY <2>1, BlockFacts
<1>2. PICK i \in Int, c \in Int, f \in Int : /\ i = q.row_count /\ c = q.col_remain
                                             /\ f = q.fst_addr
  BY DEF RType
<1>3. PICK a \in Int, y \in Int : a = Row(blk, i) /\ y = blk.y
  <2>1. Row(blk, i) \in Int
    BY <1>1, RowNumbers
  <2>2. blk.y \in Int
    BY BlockFacts
  <2> QED
    BY <2>1, <2>2
<1>4. PICK o \in Int : o = a + y
  OBVIOUS
<1>5. /\ f = Row(blk, i + 1) /\ c >= 0
      /\ c > 0 => (o - c) % BEAT = 0
  <2>1. /\ f = Row(blk, i + 1) /\ c >= 0
        /\ c > 0 => (Row(blk, i) + blk.y - c) % BEAT = 0
    BY <1>2 DEF Taking
  <2> QED
    BY <1>3, <1>4, <2>1
<1>6. i < blk.x
  BY <1>1, <1>2
<1>7. CASE c # 0
  <2>1. PICK n \in Int, d \in Int, z \in Int :
           /\ n = IF BEAT <= c THEN BEAT ELSE c
           /\ d = IF c - BEAT <= 0 THEN 0 ELSE c - BEAT
           /\ z = 0
    <3>1. BEAT \in Int
      BY Sizes
    <3>2. PICK n \in Int : n = IF BEAT <= c THEN BEAT ELSE c
      BY <3>1
    <3>3. PICK d \in Int : d = IF c - BEAT <= 0 THEN 0 ELSE c - BEAT
      BY <3>1
    <3> QED
      BY <3>2, <3>3
  <2>2. PICK p : p = BeatEnd(q)
    OBVIOUS
  <2>3. p = [q EXCEPT !.ready = TRUE, !.byte_en = z, !.byte_count = n, !.col_remain = d]
    BY <1>2, <1>7, <2>1, <2>2, BeatEndFacts, Zenon
  <2>4. /\ p \in RType /\ p.ready /\ p.row_count = i /\ p.fst_addr = f
        /\ p.byte_count = n /\ p.col_remain = d
    BY <1>2, <2>3 DEF RType
  <2>5. PICK s \in Int : s = o - c /\ s % BEAT = 0
    BY <1>5, <1>7
  <2>6. /\ n > 0 /\ d >= 0 /\ n + d = c
        /\ d > 0 => (s + c - d) % BEAT = 0
        /\ (s + c - d - 1) \div BEAT = s \div BEAT
    <3>1. c \in Nat /\ c > 0
      BY <1>5, <1>7
    <3> QED
      <4>1. NextCounters(s, c, n, d)
        BY <2>1, <2>5, Zenon DEF NextCounters
      <4> QED
        <5>1. InBeat(s, c, n, d)
          BY <2>1, <2>5, <3>1, <4>1, NextOfRow
        <5> QED
          BY <5>1, Zenon DEF InBeat
  <2>7. o - (n + d) = s /\ s + c - d = o - d /\ s + c - d - 1 = o - d - 1
    BY <2>5, <2>6
  <2>8. o = Row(blk, i) + blk.y
    BY <1>3, <1>4
  <2>9. d > 0 => (o - d) % BEAT = 0
    BY <2>6, <2>7
  <2>10. (o - d - 1) \div BEAT = (o - (n + d)) \div BEAT
    BY <2>6, <2>7, Zenon
  <2>11. Taking(blk, p) /\ RPlace(blk, p) = <<i, (o - (n + d)) \div BEAT>>
    <3>1. i # blk.x
      BY <1>1, <1>2
    <3>2. HasBeat(blk, p, i, n, d, o)
      BY <1>5, <2>4, <2>6, <2>8, <2>9, <2>10, <3>1, Zenon DEF HasBeat
    <3> QED
      BY <1>1, <1>2, <1>4, <2>1, <2>4, <3>2, WithBeat
  <2>12. After(blk, q) = <<i, s \div BEAT>>
    BY <1>2, <1>3, <1>4, <1>5, <1>7, <2>5 DEF After
  <2> QED
    BY <2>2, <2>7, <2>11, <2>12
<1>8. CASE c = 0 /\ i = blk.x - 1
  <2>1. BeatEnd(q) = [q EXCEPT !.ready = FALSE, !.row_count = @ + 1]
    BY <1>2, <1>8, BeatEndFacts, Zenon
  <2>2. BeatEnd(q).row_count = i + 1
    BY <1>2, <2>1 DEF RType
  <2>3. BeatEnd(q).row_count = blk.x /\ i + 1 = blk.x
    BY <1>1, <1>8, <2>2
  <2>4. RPlace(blk, BeatEnd(q)) = <<i + 1, Row(blk, i + 1) \div BEAT>>
    BY <2>3, Zenon DEF RPlace
  <2>5. After(blk, q) = <<i + 1, Row(blk, i + 1) \div BEAT>>
    BY <1>2, <1>8 DEF After
  <2> QED
    BY <1>1, <2>3, <2>4, <2>5
<1>9. CASE c = 0 /\ i # blk.x - 1
  <2>1. BeatEnd(q) = RowBegin([q EXCEPT !.row_count = @ + 1], f)
    BY <1>2, <1>9, BeatEndFacts, Zenon
  <2>2. PICK j \in Int : j = i + 1 /\ j # blk.x
    BY <1>1, <1>9
  <2>3. PICK ss \in RType : ss = [q EXCEPT !.row_count = j]
    BY DEF RType
  <2>4. ss.row_count = j /\ BeatEnd(q) = RowBegin(ss, Row(blk, j))
    <3>1. ss.row_count = j
      BY <2>3 DEF RType
    <3>2. q.row_count + 1 = j
      BY <1>2, <2>2
    <3> QED
      BY <1>5, <2>1, <2>2, <2>3, <3>1, <3>2
  <2>5. /\ Taking(blk, RowBegin(ss, Row(blk, j)))
        /\ RPlace(blk, RowBegin(ss, Row(blk, j))) = <<j, Row(blk, j) \div BEAT>>
    BY <2>2, <2>4, WithRow
  <2>6. After(blk, q) = <<j, Row(blk, j) \div BEAT>>
    BY <1>2, <1>9, <2>2 DEF After
  <2> QED
    BY <2>4, <2>5, <2>6
<1> QED
  BY <1>7, <1>8, <1>9

\* The place of the beat on hand, and the one after it.
LEMMA BeatOnHand ==
  ASSUME NEW b \in Blocks, NEW q \in RType, q.row_count \in 0 .. b.x - 1, Taking(b, q)
  PROVE  /\ ~q.ready => RPlace(b, q) = After(b, q)
         /\ q.ready => \E k \in Int :
              RPlace(b, q) = <<q.row_count, k>> /\ After(b, q) = Place(b, q.row_count, k + 1)
<1>1. PICK i \in Int, c \in Int : i = q.row_count /\ c = q.col_remain
  BY DEF RType
<1>2. PICK a \in Int, y \in Int : a = Row(b, i) /\ y = b.y
  <2>1. Row(b, i) \in Int
    BY RowNumbers
  <2>2. b.y \in Int
    BY BlockAssumption
  <2> QED
    BY <2>1, <2>2
<1>3. PICK o \in Int : o = a + y
  OBVIOUS
<1>4. c >= 0 /\ (c > 0 => (Row(b, i) + b.y - c) % BEAT = 0) /\ q.row_count # b.x
  <2>1. q.row_count # b.x
    BY BlockAssumption
  <2> QED
    BY <1>1, <2>1 DEF Taking
<1>5. ASSUME ~q.ready PROVE RPlace(b, q) = After(b, q)
  BY <1>1, <1>4, <1>5, Zenon DEF RPlace, After, Rest
<1>6. ASSUME q.ready
      PROVE  \E k \in Int :
               RPlace(b, q) = <<q.row_count, k>> /\ After(b, q) = Place(b, q.row_count, k + 1)
  <2>1. PICK n \in Int : n = q.byte_count /\ n > 0 /\ Rest(q) = n + c /\ Rest(q) > 0
    BY <1>1, <1>4, <1>6 DEF Rest, Taking, RType
  <2>2. PICK k \in Int : k = (Row(b, i) + b.y - c - 1) \div BEAT
    <3>1. PICK z \in Int : z = Row(b, i) + b.y - c - 1
      BY <1>2
    <3>2. z \div BEAT \in Int
      BY Sizes
    <3> QED
      BY <3>1, <3>2, Zenon
  <2>3. RPlace(b, q) = <<i, k>>
    <3>1. k = (Row(b, i) + b.y - Rest(q)) \div BEAT
      BY <1>1, <1>6, <2>2, Zenon DEF Taking
    <3> QED
      BY <1>1, <1>4, <2>1, <3>1, Zenon DEF RPlace
  <2>4. Place(b, i, k + 1) = After(b, q)
    <3>1. c \in Nat
      BY <1>4
    <3> QED
      BY <1>1, <1>4, <2>2, <3>1, BeatPlaces, Zenon DEF After
  <2> QED
    BY <1>1, <2>3, <2>4
<1> QED
  BY <1>5, <1>6

LEMMA BeatEndDone ==
  ASSUME Typing, NEW q \in RType
  PROVE  BeatEnd(q).done = q.done
<1>1. /\ q.col_remain \in Int /\ q.row_count \in Int /\ q.fst_addr \in Int
  BY DEF RType
<1>2. CASE q.col_remain # 0
  <2>1. PICK z, n, m :
           BeatEnd(q) = [q EXCEPT !.ready = TRUE, !.byte_en = z, !.byte_count = n,
                                  !.col_remain = m]
    <3>1. PICK n : n = IF BEAT <= q.col_remain THEN BEAT ELSE q.col_remain
      OBVIOUS
    <3>2. PICK m : m = IF q.col_remain - BEAT <= 0 THEN 0 ELSE q.col_remain - BEAT
      OBVIOUS
    <3>3. PICK z \in Int : z = 0
      OBVIOUS
    <3>4. BeatEnd(q) = [q EXCEPT !.ready = TRUE, !.byte_en = z, !.byte_count = n,
                                 !.col_remain = m]
      BY <1>2, <3>1, <3>2, <3>3, BeatEndFacts, Zenon
    <3> QED
      BY <3>4, Zenon
  <2> QED
    BY <2>1 DEF RType
<1>3. CASE q.col_remain = 0 /\ q.row_count = blk.x - 1
  <2>1. PICK n : BeatEnd(q) = [q EXCEPT !.ready = FALSE, !.row_count = n]
    BY <1>3, BeatEndFacts, Zenon
  <2> QED
    BY <2>1 DEF RType
<1>4. CASE q.col_remain = 0 /\ q.row_count # blk.x - 1
  <2>1. PICK n \in Int : n = q.row_count + 1
    BY <1>1
  <2>2. PICK ss \in RType : ss = [q EXCEPT !.row_count = n]
    BY <2>1 DEF RType
  <2>3. BeatEnd(q) = RowBegin(ss, q.fst_addr)
    BY <1>4, <2>1, <2>2, BeatEndFacts, Zenon
  <2>4. BeatEnd(q).done = ss.done
    <3>1. PICK a \in Int : a = q.fst_addr
      BY <1>1
    <3>2. RowBegin(ss, a).done = ss.done
      BY <2>2, RowBeginFacts
    <3> QED
      BY <2>3, <3>1, <3>2
  <2> QED
    BY <2>2, <2>4 DEF RType
<1> QED
  BY <1>2, <1>3, <1>4

\* R counts the rows, and in a row what it has not taken.
LEMMA RowsLeft ==
  ASSUME IInv, NEW rvalid \in BOOLEAN, rvalid => r.ready /\ bursts # <<>>,
         r_nstate(rvalid) # "IDLE", r.state # "IDLE"
  PROVE  /\ r \in RType /\ r.row_count \in 0 .. blk.x /\ blk.x \in Nat
         /\ r_nstate(rvalid) # "END" => r.row_count < blk.x /\ Taking(blk, r)
         /\ r_nstate(rvalid) = "END" => r.row_count = blk.x /\ ~r.ready
         /\ r_nstate(rvalid) = "WAIT" => r.ready /\ r.byte_count > 0
         /\ r_nstate(rvalid) \in {"WAIT", "END"} => ~r_handshake(rvalid)
         /\ r_nstate(rvalid) \in {"PAIR", "LAST_PAIR", "LAST_ONE"} =>
              (r_handshake(rvalid) <=> r.ready)
         /\ r.state = "END" => r_nstate(rvalid) = "END"
         /\ r_nstate(rvalid) # "END" => ~r.done
<1>t. Typing /\ RowInv /\ TakingInv /\ r.state \in RStates /\ r.ready \in BOOLEAN
      /\ r \in RType /\ r.byte_count \in Int /\ r.row_count \in Int
  BY DEF IInv, Typing, RType, Flags
<1>1. /\ r.row_count \in 0 .. blk.x
      /\ r.row_count = blk.x <=>
           r.state = "END" \/ (r.state \in {"LAST_PAIR", "LAST_ONE"} /\ ~r.ready)
  BY <1>t DEF RowInv
<1>2. blk.x \in Nat
  BY <1>t, BlockFacts
<1>3. /\ r.done <=> r.state = "END"
      /\ r.state = "WAIT" => r.ready
      /\ r.state \in {"PAIR", "END"} => ~r.ready
      /\ r.row_count < blk.x => Taking(blk, r)
  BY <1>t DEF TakingInv
<1>n. PICK n : n = r_nstate(rvalid)
  OBVIOUS
<1>4. /\ r.state = "WAIT" =>
           n = IF r_handshake(rvalid) THEN Write(r.byte_count) ELSE "WAIT"
      /\ r.state = "PAIR" => n = Write(r.byte_count)
      /\ r.state \in {"LAST_PAIR", "LAST_ONE"} =>
           n = IF ~r.ready THEN "END" ELSE IF rvalid THEN Write(r.byte_count) ELSE "WAIT"
      /\ r.state = "END" => n = "END"
      /\ Write(r.byte_count) \in {"PAIR", "LAST_PAIR", "LAST_ONE"}
  <2>1. /\ r.state = "WAIT" =>
           n = IF r_handshake(rvalid) THEN Write(r.byte_count) ELSE "WAIT"
        /\ r.state = "PAIR" => n = Write(r.byte_count)
        /\ r.state \in {"LAST_PAIR", "LAST_ONE"} =>
             n = IF ~r.ready THEN "END" ELSE IF rvalid THEN Write(r.byte_count) ELSE "WAIT"
        /\ r.state = "END" => n = IF img.finish THEN "IDLE" ELSE "END"
    BY <1>t, <1>n, RStateMoves
  <2>2. n # "IDLE"
    BY <1>n
  <2> QED
    BY <1>t, <2>1, <2>2, WriteFacts
<1>5. r_handshake(rvalid) <=> rvalid
  BY <1>t DEF r_handshake
<1>6. r.state \in {"WAIT", "PAIR", "LAST_PAIR", "LAST_ONE", "END"}
  BY <1>t DEF RStates
<1>7. n = "END" <=> r.row_count = blk.x
  BY <1>1, <1>3, <1>4, <1>6
<1>8. /\ n # "END" => r.row_count < blk.x /\ Taking(blk, r)
      /\ n = "END" => r.row_count = blk.x /\ ~r.ready
  BY <1>1, <1>2, <1>3, <1>4, <1>6, <1>7
<1>9. n = "WAIT" => r.ready
  BY <1>3, <1>4, <1>6
<1>10. n = "WAIT" => r.byte_count > 0
  BY <1>8, <1>9 DEF Taking
<1>11. n \in {"WAIT", "END"} => ~r_handshake(rvalid)
  BY <1>3, <1>4, <1>5, <1>6
<1>12. n \in {"PAIR", "LAST_PAIR", "LAST_ONE"} => (r_handshake(rvalid) <=> r.ready)
  BY <1>3, <1>4, <1>5, <1>6
<1>13. (r.state = "END" => n = "END") /\ (n # "END" => ~r.done)
  BY <1>3, <1>4
<1> QED
  BY <1>n, <1>t, <1>1, <1>2, <1>8, <1>9, <1>10, <1>11, <1>12, <1>13

\* R takes a beat, or stays where it is.
LEMMA TakeStep ==
  ASSUME IInv, NEW rvalid \in BOOLEAN, ReadData(rvalid),
         rvalid => r.ready /\ bursts # <<>>,
         r_nstate(rvalid) # "IDLE", r.state # "IDLE"
  PROVE  /\ r'.row_count < blk.x => Taking(blk, r')
         /\ r_handshake(rvalid) => r.row_count < blk.x /\ \E k \in Int :
              /\ RPlace(blk, r) = <<r.row_count, k>>
              /\ RPlace(blk, r') = Place(blk, r.row_count, k + 1)
         /\ ~r_handshake(rvalid) => RPlace(blk, r') = RPlace(blk, r)
         /\ r'.done <=> r'.state = "END"
         /\ r'.state = "WAIT" => r'.ready
         /\ r'.state \in {"PAIR", "END"} => ~r'.ready
<1>t. Typing /\ r.state \in RStates /\ blk \in Blocks
  BY DEF IInv, Typing
<1>n. PICK n \in RStates : n = r_nstate(rvalid) /\ r'.state = n /\ r' \in RType
  BY RTyping
<1>1. PICK tt \in RType :
         /\ tt = Taken(rvalid) /\ tt.ready = r.ready
         /\ tt.row_count = r.row_count /\ tt.byte_count = r.byte_count
         /\ tt.col_remain = r.col_remain /\ tt.fst_addr = r.fst_addr /\ tt.done = r.done
  BY <1>t, <1>n, TakenFacts
<1>2. /\ r \in RType /\ r.row_count \in 0 .. blk.x /\ blk.x \in Nat
      /\ n # "END" => r.row_count < blk.x /\ Taking(blk, r)
      /\ n = "END" => r.row_count = blk.x /\ ~r.ready
      /\ n = "WAIT" => r.ready /\ r.byte_count > 0
      /\ n \in {"WAIT", "END"} => ~r_handshake(rvalid)
      /\ n \in {"PAIR", "LAST_PAIR", "LAST_ONE"} => (r_handshake(rvalid) <=> r.ready)
      /\ n # "END" => ~r.done
  BY <1>n, RowsLeft
<1>3. /\ Taking(blk, tt) <=> Taking(blk, r)
      /\ RPlace(blk, tt) = RPlace(blk, r) /\ After(blk, tt) = After(blk, r)
  BY <1>1, Zenon DEF Taking, RPlace, After, Rest
<1>4. n # "END" =>
        /\ ~r.ready => RPlace(blk, r) = After(blk, r)
        /\ r.ready => \E k \in Int :
             RPlace(blk, r) = <<r.row_count, k>>
             /\ After(blk, r) = Place(blk, r.row_count, k + 1)
  <2> SUFFICES ASSUME n # "END" PROVE
        /\ ~r.ready => RPlace(blk, r) = After(blk, r)
        /\ r.ready => \E k \in Int :
             RPlace(blk, r) = <<r.row_count, k>>
             /\ After(blk, r) = Place(blk, r.row_count, k + 1)
    OBVIOUS
  <2>1. r.row_count \in 0 .. blk.x - 1
    BY <1>2
  <2> QED
    BY <1>t, <1>2, <2>1, BeatOnHand
<1>5. CASE n = "WAIT"
  <2>1. r' = tt
    <3>1. r' = IF r.byte_count = 0 THEN RowBegin(tt, blk.addr) ELSE tt
      BY <1>n, <1>1, <1>5, RMoves, Zenon
    <3>2. r.byte_count # 0
      BY <1>2, <1>5
    <3> QED
      BY <3>1, <3>2
  <2> QED
    BY <1>n, <1>1, <1>2, <1>3, <1>5, <2>1
<1>6. CASE n = "PAIR"
  <2>1. PICK e \in Int, m \in Int : r' = [tt EXCEPT !.ready = FALSE, !.byte_en = e,
                                                    !.byte_count = m]
    <3>1. r' = [tt EXCEPT !.ready = FALSE, !.byte_en = @ + 2, !.byte_count = @ - 2]
      BY <1>n, <1>1, <1>6, RMoves, Zenon
    <3>2. PICK e \in Int, m \in Int : e = tt.byte_en + 2 /\ m = tt.byte_count - 2
      BY DEF RType
    <3> QED
      BY <3>1, <3>2, Zenon
  <2>2. /\ ~r'.ready /\ r'.row_count = r.row_count /\ r'.col_remain = r.col_remain
        /\ r'.fst_addr = r.fst_addr /\ r'.done = r.done
    BY <1>1, <2>1 DEF RType
  <2>3. Taking(blk, r')
    BY <1>2, <1>6, <2>2, Zenon DEF Taking
  <2>4. r'.row_count \in 0 .. blk.x - 1
    BY <1>2, <1>6, <2>2
  <2>5. RPlace(blk, r') = After(blk, r')
    BY <1>t, <1>n, <2>2, <2>3, <2>4, BeatOnHand
  <2>6. After(blk, r') = After(blk, r)
    BY <2>2, Zenon DEF After
  <2> QED
    BY <1>n, <1>2, <1>4, <1>6, <2>2, <2>3, <2>5, <2>6
<1>7. CASE n \in {"LAST_PAIR", "LAST_ONE"}
  <2>1. r' = BeatEnd(tt)
    BY <1>n, <1>1, <1>7, RMoves, Zenon
  <2>2. tt.row_count \in 0 .. blk.x - 1 /\ Taking(blk, tt)
    BY <1>1, <1>2, <1>3, <1>7
  <2>3. /\ RPlace(blk, r') = After(blk, tt)
        /\ r'.row_count < blk.x => Taking(blk, r')
    BY <1>t, <2>1, <2>2, AfterBeat
  <2>4. r'.done = r.done
    BY <1>t, <1>1, <2>1, BeatEndDone
  <2> QED
    BY <1>n, <1>2, <1>3, <1>4, <1>7, <2>3, <2>4
<1>8. CASE n = "END"
  <2>1. r' = [tt EXCEPT !.ready = FALSE, !.done = TRUE]
    BY <1>n, <1>1, <1>8, RMoves, Zenon
  <2>2. r'.row_count = r.row_count /\ ~r'.ready /\ r'.done
    BY <1>1, <2>1 DEF RType
  <2>3. r.row_count = blk.x /\ r'.row_count = blk.x
    BY <1>2, <1>8, <2>2
  <2>4. RPlace(blk, r') = RPlace(blk, r)
    BY <2>3, Zenon DEF RPlace
  <2>5. ~(r'.row_count < blk.x)
    BY <1>2, <2>3
  <2> QED
    BY <1>n, <1>2, <1>8, <2>2, <2>4, <2>5
<1> QED
  BY <1>n, <1>5, <1>6, <1>7, <1>8 DEF RStates

\* R starts at the first beat of the block.
LEMMA TakeStart ==
  ASSUME IInv, NEW rvalid \in BOOLEAN, ReadData(rvalid),
         rvalid => r.ready /\ bursts # <<>>, r_nstate(rvalid) # "IDLE", r.state = "IDLE"
  PROVE  /\ Taking(blk, r') /\ RPlace(blk, r') = <<0, Row(blk, 0) \div BEAT>>
         /\ r'.state = "WAIT" /\ r'.ready /\ ~r'.done /\ hog_start
<1>t. Typing /\ r.state \in RStates /\ blk \in Blocks /\ r = RIdle
  BY DEF IInv, Typing, RowInv
<1>1. r_nstate(rvalid) = "WAIT" /\ hog_start
  BY <1>t, RStateMoves
<1>2. PICK tt \in RType : /\ tt = Taken(rvalid) /\ tt.row_count = r.row_count
                          /\ tt.done = r.done /\ tt.state = "WAIT"
  <2>1. r_nstate(rvalid) \in RStates
    BY <1>1 DEF RStates
  <2>2. rvalid => bursts # <<>>
    OBVIOUS
  <2>3. /\ Taken(rvalid) \in RType /\ Taken(rvalid).row_count = r.row_count
        /\ Taken(rvalid).done = r.done /\ Taken(rvalid).state = r_nstate(rvalid)
    BY <1>t, <2>1, <2>2, TakenFacts, Zenon
  <2> QED
    BY <1>1, <2>3, Zenon
<1>3. tt.row_count = 0 /\ r.byte_count = 0 /\ ~tt.done
  BY <1>t, <1>2 DEF RIdle
<1>4. r' = RowBegin(tt, blk.addr)
  BY <1>1, <1>2, <1>3, RMoves, Zenon
<1>5. Row(blk, 0) = blk.addr /\ blk.addr \in Int /\ blk.x # 0
  <2>1. blk.addr \in Int /\ blk.stride \in Int /\ blk.x # 0
    BY <1>t, BlockFacts
  <2>2. 0 * blk.stride = 0
    BY <2>1
  <2> QED
    BY <2>1, <2>2 DEF Row
<1>6. /\ Taking(blk, RowBegin(tt, Row(blk, 0)))
      /\ RPlace(blk, RowBegin(tt, Row(blk, 0))) = <<0, Row(blk, 0) \div BEAT>>
  BY <1>t, <1>3, <1>5, WithRow
<1>7. r'.state = "WAIT" /\ r'.ready /\ ~r'.done
  BY <1>t, <1>2, <1>3, <1>4, <1>5, RowBeginFacts
<1> QED
  BY <1>1, <1>4, <1>5, <1>6, <1>7

-----------------------------------------------------------------------------
(* The requests of a row.                                                  *)

LEMMA Division ==
  ASSUME NEW a \in Int, NEW d \in Nat, d > 0
  PROVE  a \div d \in Int /\ a % d \in 0 .. d - 1 /\ a = (a \div d) * d + (a % d)
OBVIOUS

\* A page begins with a beat.
LEMMA PageOfBeats ==
  ASSUME NEW p \in Int
  PROVE  /\ p * PAGE \in Int /\ p * BURST \in Int
         /\ (p * PAGE) % BEAT = 0 /\ (p * PAGE) \div BEAT = p * BURST
         /\ (p * PAGE) \div PAGE = p
         /\ BEAT * (p * BURST) = p * PAGE
         /\ (p * PAGE - 1) \div BEAT + 1 = p * BURST
         /\ (p + 1) * PAGE = p * PAGE + PAGE /\ (p + 1) * BURST = p * BURST + BURST
<1>0. /\ BEAT \in Nat /\ BEAT > 0 /\ BURST \in Nat /\ BURST > 0 /\ PAGE \in Nat /\ PAGE > 0
      /\ PAGE = BEAT * BURST
  BY Sizes DEF PAGE
<1>1. p * PAGE \in Int /\ p * BURST \in Int
  BY <1>0
<1>2. p * PAGE = (p * BURST) * BEAT + 0 /\ BEAT * (p * BURST) = p * PAGE
  BY <1>0
<1>3. ((p * BURST) * BEAT + 0) % BEAT = 0 /\ ((p * BURST) * BEAT + 0) \div BEAT = p * BURST
  <2>1. 0 \in 0 .. BEAT - 1
    BY <1>0
  <2> QED
    BY <1>0, <1>1, <2>1, DivisionUnique
<1>4. (p * PAGE) % BEAT = 0 /\ (p * PAGE) \div BEAT = p * BURST
  BY <1>2, <1>3
<1>5. (p * PAGE) \div PAGE = p
  <2>1. (p * PAGE + 0) \div PAGE = p
    <3>1. 0 \in 0 .. PAGE - 1
      BY <1>0
    <3> QED
      BY <1>0, <3>1, DivisionUnique
  <2> QED
    BY <1>1, <2>1
<1>6. (p * PAGE - 1) \div BEAT + 1 = p * BURST
  <2>1. PICK s \in Int : s = p * PAGE
    BY <1>1
  <2> QED
    BY <1>4, <2>1, BeatBefore
<1>7. (p + 1) * PAGE = p * PAGE + PAGE /\ (p + 1) * BURST = p * BURST + BURST
  BY <1>0
<1> QED
  BY <1>1, <1>2, <1>4, <1>5, <1>6, <1>7

\* While bytes of the row remain after beat k - 1, beat k is of the row.
LEMMA RowGoesOn ==
  ASSUME NEW b \in Blocks, NEW i \in Int, NEW k \in Int, NEW c \in Int, c > 0,
         BEAT * k + c = Row(b, i) + b.y
  PROVE  k < RowEnd(b, i)
<1>0. BEAT \in Nat /\ BEAT > 0 /\ b.y \in Int /\ Row(b, i) \in Int
  BY Sizes, RowNumbers, BlockAssumption
<1>1. PICK z \in Int : z = BEAT * k
  BY <1>0
<1>2. PICK e \in Int : e = Row(b, i) + b.y - 1
  BY <1>0
<1>3. z <= e
  BY <1>0, <1>1, <1>2
<1>4. z \div BEAT <= e \div BEAT
  BY <1>0, <1>3, DivisionMonotonic
<1>5. z \div BEAT = k
  <2>1. (k * BEAT + 0) \div BEAT = k
    <3>1. 0 \in 0 .. BEAT - 1
      BY <1>0
    <3> QED
      BY <1>0, <3>1, DivisionUnique
  <2>2. k * BEAT + 0 = z
    BY <1>0, <1>1
  <2> QED
    BY <2>1, <2>2
<1>6. RowEnd(b, i) = e \div BEAT + 1
  BY <1>2 DEF RowEnd
<1>7. e \div BEAT \in Int
  BY <1>0
<1> QED
  BY <1>4, <1>5, <1>6, <1>7

\* Bytes up to the end of a page are in beats of the page.
LEMMA BeatsOfPage ==
  ASSUME NEW p \in Int, NEW e \in Int, e <= p * PAGE
  PROVE  (e - 1) \div BEAT + 1 <= p * BURST
<1>0. BEAT \in Nat /\ BEAT > 0
  BY Sizes
<1>1. PICK s \in Int : s = p * PAGE /\ (s - 1) \div BEAT + 1 = p * BURST
  BY PageOfBeats
<1>2. (e - 1) \div BEAT <= (s - 1) \div BEAT
  BY <1>0, <1>1, DivisionMonotonic
<1>3. (e - 1) \div BEAT \in Int /\ (s - 1) \div BEAT \in Int /\ p * BURST \in Int
  BY <1>0, PageOfBeats
<1> QED
  BY <1>1, <1>2, <1>3

LEMMA ArNumbers ==
  ASSUME NEW q \in ArType
  PROVE  /\ q.addr \in Int /\ q.len \in Int /\ q.row_count \in Int /\ q.col_remain \in Int
         /\ q.fst_addr \in Int /\ q.valid \in BOOLEAN /\ q.done \in BOOLEAN
         /\ q.state \in ArStates
  BY DEF ArType

\* The first burst of a row that goes on in the next page.
IsHead(b, q, i, a) ==
    /\ a = Row(b, i) /\ (a % PAGE) + b.y > PAGE /\ q.valid /\ ~q.done /\ q.addr = a
    /\ q.row_count = i /\ q.len = beats(PAGE - (a % PAGE) + (a % BEAT))
    /\ q.col_remain = b.y + (a % PAGE) - PAGE /\ q.fst_addr = a

LEMMA HeadOfRow ==
  ASSUME NEW b \in Blocks, NEW q \in ArType, NEW i \in 0 .. b.x - 1, NEW a \in Int,
         IsHead(b, q, i, a)
  PROVE  Requesting(b, q) /\ ArPlace(b, q) = <<i, a \div BEAT>>
<1>h. /\ a = Row(b, i) /\ (a % PAGE) + b.y > PAGE /\ q.valid /\ ~q.done /\ q.addr = a
      /\ q.row_count = i /\ q.len = beats(PAGE - (a % PAGE) + (a % BEAT))
      /\ q.col_remain = b.y + (a % PAGE) - PAGE /\ q.fst_addr = a
  BY Zenon DEF IsHead
<1>0. /\ BEAT \in Nat /\ BEAT > 0 /\ BURST \in Nat /\ BURST > 0 /\ PAGE \in Nat /\ PAGE > 0
  BY Sizes
<1>b. b.x \in Int /\ i \in Int
  <2>1. b.x \in Int
    BY BlockAssumption
  <2> QED
    BY <2>1
<1>y. PICK y \in Int : y = b.y
  BY BlockAssumption
<1>1. PICK p \in Int, o \in 0 .. PAGE - 1 :
         p = a \div PAGE /\ o = a % PAGE /\ a = p * PAGE + o
  <2>1. a \div PAGE \in Int /\ a % PAGE \in 0 .. PAGE - 1 /\ a = (a \div PAGE) * PAGE + (a % PAGE)
    BY <1>0, Division
  <2> QED
    BY <2>1
<1>2. PICK e \in Int, d \in Int, t \in Int, z \in Int :
         e = a % BEAT /\ d = a \div BEAT /\ t = p * PAGE /\ z = (p + 1) * BURST
  <2>1. a % BEAT \in Int /\ a \div BEAT \in Int
    BY <1>0
  <2>2. p * PAGE \in Int /\ (p + 1) * BURST \in Int
    BY PageOfBeats
  <2> QED
    BY <2>1, <2>2
<1>3. PICK s \in Int : /\ s = (p + 1) * PAGE /\ s = t + PAGE /\ BEAT * z = s
                       /\ (s - 1) \div BEAT + 1 = z
  <2>1. (p + 1) * PAGE = t + PAGE
    BY <1>2, PageOfBeats
  <2>2. PICK p1 \in Int : p1 = p + 1
    OBVIOUS
  <2>3. /\ p1 * PAGE \in Int /\ BEAT * (p1 * BURST) = p1 * PAGE
        /\ (p1 * PAGE - 1) \div BEAT + 1 = p1 * BURST
    BY PageOfBeats
  <2> QED
    BY <1>2, <2>1, <2>2, <2>3
<1>4. PICK n \in Nat : n = PAGE - o /\ n > 0 /\ a + n = s
  <2>1. PAGE - o \in Nat /\ PAGE - o > 0
    BY <1>0
  <2>2. a + (PAGE - o) = s
    <3>1. a = t + o
      BY <1>1, <1>2
    <3> QED
      BY <1>0, <1>3, <3>1
  <2> QED
    BY <2>1, <2>2
<1>5. q.len \in Nat /\ d + q.len + 1 = z
  <2>1. beats(e + n) \in Nat /\ d + beats(e + n) + 1 = (a + n - 1) \div BEAT + 1
    BY <1>2, <1>4, BeatsReach
  <2>2. n + e = e + n
    OBVIOUS
  <2>3. q.len = beats(e + n)
    BY <1>h, <1>1, <1>2, <1>4, <2>2
  <2> QED
    BY <1>3, <1>4, <2>1, <2>3
<1>6. PICK c \in Int : c = q.col_remain /\ c = y + o - PAGE /\ c > 0
  <2>1. o + y > PAGE /\ q.col_remain = y + o - PAGE
    BY <1>h, <1>1, <1>y
  <2> QED
    BY <1>0, <2>1
<1>7. NextBeat(q) = z /\ FirstBeat(q) = d
  BY <1>h, <1>2, <1>5 DEF NextBeat, FirstBeat
<1>8. EndOfPage(q.addr) = z
  BY <1>h, <1>1, <1>2 DEF EndOfPage
<1>9. ArRow(q) = i
  BY <1>h, <1>6 DEF ArRow
<1>10. BEAT * z + c = Row(b, i) + b.y
  <2>1. s + c = a + y
    <3>1. a = t + o
      BY <1>1, <1>2
    <3> QED
      BY <1>0, <1>3, <1>6, <3>1
  <2> QED
    BY <1>h, <1>3, <1>y, <2>1
<1>11. i \in 0 .. b.x /\ c >= 0 /\ q.len >= 0 /\ c # 0
  BY <1>b, <1>5, <1>6
<1>12. Requesting(b, q)
  BY <1>h, <1>6, <1>7, <1>8, <1>9, <1>10, <1>11, Zenon DEF Requesting
<1>13. ArPlace(b, q) = <<i, d>>
  BY <1>h, <1>7, <1>9, Zenon DEF ArPlace
<1> QED
  BY <1>2, <1>12, <1>13

\* A row that is one burst.
IsRow(b, q, i, a) ==
    /\ a = Row(b, i) /\ ~((a % PAGE) + b.y > PAGE) /\ q.valid /\ ~q.done /\ q.addr = a
    /\ q.row_count = i + 1 /\ q.len = beats((a % BEAT) + b.y)
    /\ q.col_remain = 0 /\ q.fst_addr = a + b.stride

LEMMA OneBurst ==
  ASSUME NEW b \in Blocks, NEW q \in ArType, NEW i \in 0 .. b.x - 1, NEW a \in Int,
         IsRow(b, q, i, a)
  PROVE  Requesting(b, q) /\ ArPlace(b, q) = <<i, a \div BEAT>>
<1>h. /\ a = Row(b, i) /\ ~((a % PAGE) + b.y > PAGE) /\ q.valid /\ ~q.done /\ q.addr = a
      /\ q.row_count = i + 1 /\ q.len = beats((a % BEAT) + b.y)
      /\ q.col_remain = 0 /\ q.fst_addr = a + b.stride
  BY Zenon DEF IsRow
<1>0. /\ BEAT \in Nat /\ BEAT > 0 /\ BURST \in Nat /\ BURST > 0 /\ PAGE \in Nat /\ PAGE > 0
  BY Sizes
<1>b. b.x \in Int /\ i \in Int
  <2>1. b.x \in Int
    BY BlockAssumption
  <2> QED
    BY <2>1
<1>y. PICK y \in Nat : y = b.y /\ y > 0
  BY BlockAssumption
<1>1. PICK p \in Int, o \in 0 .. PAGE - 1 :
         p = a \div PAGE /\ o = a % PAGE /\ a = p * PAGE + o
  <2>1. a \div PAGE \in Int /\ a % PAGE \in 0 .. PAGE - 1 /\ a = (a \div PAGE) * PAGE + (a % PAGE)
    BY <1>0, Division
  <2> QED
    BY <2>1
<1>2. PICK e \in Int, d \in Int, t \in Int, z \in Int :
         e = a % BEAT /\ d = a \div BEAT /\ t = p * PAGE /\ z = (p + 1) * BURST
  <2>1. a % BEAT \in Int /\ a \div BEAT \in Int
    BY <1>0
  <2>2. p * PAGE \in Int /\ (p + 1) * BURST \in Int
    BY PageOfBeats
  <2> QED
    BY <2>1, <2>2
<1>3. (p + 1) * PAGE = t + PAGE
  BY <1>2, PageOfBeats
<1>4. PICK m \in Int : m = a + y
  OBVIOUS
<1>5. (m - 1) \div BEAT + 1 <= z
  <2>1. PICK p1 \in Int : p1 = p + 1
    OBVIOUS
  <2>2. m <= p1 * PAGE
    <3>1. m <= t + PAGE
      <4>1. o + y <= PAGE
        <5>1. ~(o + y > PAGE)
          BY <1>h, <1>1, <1>y
        <5> QED
          BY <1>0, <5>1
      <4>2. a = t + o
        BY <1>1, <1>2
      <4> QED
        BY <1>0, <1>4, <4>1, <4>2
    <3> QED
      BY <1>3, <2>1, <3>1
  <2>3. (m - 1) \div BEAT + 1 <= p1 * BURST
    BY <2>2, BeatsOfPage
  <2> QED
    BY <1>2, <2>1, <2>3
<1>6. q.len \in Nat /\ d + q.len + 1 = (m - 1) \div BEAT + 1
  <2>1. beats(e + y) \in Nat /\ d + beats(e + y) + 1 = (a + y - 1) \div BEAT + 1
    BY <1>2, <1>y, BeatsReach
  <2>2. q.len = beats(e + y)
    BY <1>h, <1>2, <1>y
  <2> QED
    BY <1>4, <2>1, <2>2
<1>7. RowEnd(b, i) = (m - 1) \div BEAT + 1
  BY <1>h, <1>4, <1>y DEF RowEnd
<1>8. NextBeat(q) = RowEnd(b, i) /\ FirstBeat(q) = d
  BY <1>h, <1>2, <1>6, <1>7 DEF NextBeat, FirstBeat
<1>9. EndOfPage(q.addr) = z
  BY <1>h, <1>1, <1>2 DEF EndOfPage
<1>10. ArRow(q) = i
  BY <1>h, <1>b DEF ArRow
<1>11. i + 1 \in 0 .. b.x /\ 0 >= 0 /\ q.len >= 0
  BY <1>b, <1>6
<1>12. q.fst_addr = Row(b, i + 1)
  BY <1>h, <1>b, RowNumbers
<1>13. NextBeat(q) <= EndOfPage(q.addr)
  BY <1>5, <1>7, <1>8, <1>9
<1>14. Requesting(b, q)
  BY <1>h, <1>8, <1>10, <1>11, <1>12, <1>13, Zenon DEF Requesting
<1>15. ArPlace(b, q) = <<i, d>>
  BY <1>h, <1>8, <1>10, Zenon DEF ArPlace
<1> QED
  BY <1>2, <1>14, <1>15

\* A whole page of a row.
IsPage(b, q, i, p) ==
    /\ p * PAGE + PAGE + q.col_remain = Row(b, i) + b.y /\ q.col_remain > 0
    /\ q.valid /\ ~q.done /\ q.addr = p * PAGE /\ q.row_count = i /\ q.len = BURST - 1
    /\ q.fst_addr = Row(b, i)

LEMMA WholePage ==
  ASSUME NEW b \in Blocks, NEW q \in ArType, NEW i \in 0 .. b.x - 1, NEW p \in Int,
         IsPage(b, q, i, p)
  PROVE  Requesting(b, q) /\ ArPlace(b, q) = <<i, (p * PAGE) \div BEAT>>
<1>h. /\ p * PAGE + PAGE + q.col_remain = Row(b, i) + b.y /\ q.col_remain > 0
      /\ q.valid /\ ~q.done /\ q.addr = p * PAGE /\ q.row_count = i /\ q.len = BURST - 1
      /\ q.fst_addr = Row(b, i)
  BY Zenon DEF IsPage
<1>0. /\ BEAT \in Nat /\ BEAT > 0 /\ BURST \in Nat /\ BURST > 0 /\ PAGE \in Nat /\ PAGE > 0
      /\ b.x \in Int
  BY Sizes, BlockAssumption
<1>1. PICK s \in Int, u \in Int :
         s = p * PAGE /\ u = p * BURST /\ s \div BEAT = u /\ s \div PAGE = p
  BY PageOfBeats
<1>2. PICK p1 \in Int, z \in Int : p1 = p + 1 /\ z = p1 * BURST /\ z = u + BURST
  <2>1. (p + 1) * BURST = u + BURST /\ u + BURST \in Int
    BY <1>0, <1>1, PageOfBeats
  <2> QED
    BY <2>1
<1>3. BEAT * z = s + PAGE
  <2>1. BEAT * (p1 * BURST) = p1 * PAGE
    BY PageOfBeats
  <2>2. (p + 1) * PAGE = s + PAGE
    BY <1>1, PageOfBeats
  <2> QED
    BY <1>2, <2>1, <2>2
<1>4. FirstBeat(q) = u
  BY <1>h, <1>1 DEF FirstBeat
<1>5. NextBeat(q) = z
  <2>1. u + (BURST - 1) + 1 = z
    BY <1>0, <1>2
  <2> QED
    BY <1>h, <1>1, <2>1 DEF NextBeat
<1>6. EndOfPage(q.addr) = z
  BY <1>h, <1>1, <1>2 DEF EndOfPage
<1>7. PICK c \in Int : c = q.col_remain /\ c > 0 /\ c # 0 /\ c >= 0
  BY <1>h, ArNumbers
<1>8. ArRow(q) = i
  BY <1>h, <1>7 DEF ArRow
<1>9. BEAT * z + c = Row(b, i) + b.y
  BY <1>h, <1>1, <1>3, <1>7
<1>10. i \in 0 .. b.x /\ q.len >= 0
  BY <1>h, <1>0
<1>11. Requesting(b, q)
  BY <1>h, <1>5, <1>6, <1>7, <1>8, <1>9, <1>10, Zenon DEF Requesting
<1>12. ArPlace(b, q) = <<i, u>>
  BY <1>h, <1>4, <1>8, Zenon DEF ArPlace
<1> QED
  BY <1>1, <1>11, <1>12

\* The last burst of a row that has begun in another page.
IsRest(b, q, i, p, c) ==
    /\ p * PAGE + c = Row(b, i) + b.y
    /\ q.valid /\ ~q.done /\ q.addr = p * PAGE /\ q.row_count = i + 1 /\ q.len = beats(c)
    /\ q.col_remain = 0 /\ q.fst_addr = Row(b, i) + b.stride

LEMMA RestOfRow ==
  ASSUME NEW b \in Blocks, NEW q \in ArType, NEW i \in 0 .. b.x - 1, NEW p \in Int,
         NEW c \in 1 .. PAGE, IsRest(b, q, i, p, c)
  PROVE  Requesting(b, q) /\ ArPlace(b, q) = <<i, (p * PAGE) \div BEAT>>
<1>h. /\ p * PAGE + c = Row(b, i) + b.y
      /\ q.valid /\ ~q.done /\ q.addr = p * PAGE /\ q.row_count = i + 1 /\ q.len = beats(c)
      /\ q.col_remain = 0 /\ q.fst_addr = Row(b, i) + b.stride
  BY Zenon DEF IsRest
<1>0. /\ BEAT \in Nat /\ BEAT > 0 /\ BURST \in Nat /\ BURST > 0 /\ PAGE \in Nat /\ PAGE > 0
      /\ b.x \in Int /\ i \in Int
  <2>1. /\ BEAT \in Nat /\ BEAT > 0 /\ BURST \in Nat /\ BURST > 0 /\ PAGE \in Nat /\ PAGE > 0
        /\ b.x \in Int
    BY Sizes, BlockAssumption
  <2> QED
    BY <2>1
<1>1. PICK s \in Int, u \in Int :
         s = p * PAGE /\ u = p * BURST /\ s \div BEAT = u /\ s \div PAGE = p /\ s % BEAT = 0
  BY PageOfBeats
<1>2. PICK p1 \in Int, z \in Int : p1 = p + 1 /\ z = p1 * BURST /\ p1 * PAGE = s + PAGE
  <2>1. (p + 1) * BURST \in Int /\ (p + 1) * PAGE = s + PAGE
    BY <1>0, <1>1, PageOfBeats
  <2> QED
    BY <2>1
<1>3. PICK m \in Int : m = s + c
  BY <1>0
<1>4. (m - 1) \div BEAT + 1 <= z
  <2>1. m <= p1 * PAGE
    <3>1. m <= s + PAGE
      BY <1>0, <1>3
    <3> QED
      BY <1>2, <3>1
  <2> QED
    BY <1>2, <2>1, BeatsOfPage
<1>5. q.len \in Nat /\ u + q.len + 1 = (m - 1) \div BEAT + 1
  <2>1. PICK n \in Nat : n = c /\ n > 0
    BY <1>0
  <2>2. beats((s % BEAT) + n) \in Nat
        /\ s \div BEAT + beats((s % BEAT) + n) + 1 = (s + n - 1) \div BEAT + 1
    BY <2>1, BeatsReach
  <2>3. (s % BEAT) + n = n
    BY <1>1
  <2>4. q.len = beats(n)
    BY <1>h, <2>1
  <2> QED
    BY <1>1, <1>3, <2>1, <2>2, <2>3, <2>4
<1>6. RowEnd(b, i) = (m - 1) \div BEAT + 1
  <2>1. PICK o \in Int, y \in Int : o = Row(b, i) /\ y = b.y
    <3>1. Row(b, i) \in Int
      BY <1>0, RowNumbers
    <3>2. b.y \in Int
      BY BlockAssumption
    <3> QED
      BY <3>1, <3>2
  <2>2. m = o + y
    BY <1>h, <1>1, <1>3, <2>1
  <2> QED
    BY <2>1, <2>2 DEF RowEnd
<1>7. FirstBeat(q) = u
  BY <1>h, <1>1 DEF FirstBeat
<1>8. NextBeat(q) = RowEnd(b, i)
  BY <1>h, <1>1, <1>5, <1>6 DEF NextBeat
<1>9. EndOfPage(q.addr) = z
  BY <1>h, <1>1, <1>2 DEF EndOfPage
<1>10. ArRow(q) = i
  BY <1>h, <1>0 DEF ArRow
<1>11. i + 1 \in 0 .. b.x /\ 0 >= 0 /\ q.len >= 0
  BY <1>0, <1>5
<1>12. q.fst_addr = Row(b, i + 1)
  BY <1>h, <1>0, RowNumbers
<1>13. NextBeat(q) <= EndOfPage(q.addr)
  BY <1>4, <1>6, <1>8, <1>9
<1>14. Requesting(b, q)
  BY <1>h, <1>8, <1>10, <1>11, <1>12, <1>13, Zenon DEF Requesting
<1>15. ArPlace(b, q) = <<i, u>>
  BY <1>h, <1>7, <1>10, Zenon DEF ArPlace
<1> QED
  BY <1>1, <1>14, <1>15

\* The page after a request that does not end its row.
LEMMA PageAfter ==
  ASSUME NEW b \in Blocks, NEW q \in ArType, Requesting(b, q), q.col_remain # 0
  PROVE  /\ ArRow(q) = q.row_count /\ q.row_count \in 0 .. b.x - 1 /\ q.col_remain > 0
         /\ (q.addr \div PAGE + 1) * PAGE + q.col_remain = Row(b, q.row_count) + b.y
         /\ Place(b, ArRow(q), NextBeat(q)) =
              <<q.row_count, ((q.addr \div PAGE + 1) * PAGE) \div BEAT>>
<1>0. /\ BEAT \in Nat /\ BEAT > 0 /\ BURST \in Nat /\ BURST > 0 /\ PAGE \in Nat /\ PAGE > 0
      /\ b.x \in Int
  BY Sizes, BlockAssumption
<1>1. PICK i \in Int, c \in Int, a \in Int :
         i = q.row_count /\ c = q.col_remain /\ a = q.addr
  BY ArNumbers
<1>2. ArRow(q) = i
  BY <1>1 DEF ArRow
<1>3. /\ i \in 0 .. b.x - 1 /\ c >= 0 /\ NextBeat(q) = EndOfPage(a)
      /\ BEAT * NextBeat(q) + c = Row(b, i) + b.y
  BY <1>1, <1>2, Zenon DEF Requesting
<1>4. c > 0
  BY <1>1, <1>3
<1>5. PICK p \in Int : p = a \div PAGE + 1
  BY <1>0
<1>6. PICK z \in Int : z = p * BURST /\ BEAT * z = p * PAGE /\ (p * PAGE) \div BEAT = z
  BY PageOfBeats
<1>7. NextBeat(q) = z
  BY <1>3, <1>5, <1>6 DEF EndOfPage
<1>8. BEAT * z + c = Row(b, i) + b.y
  BY <1>3, <1>7
<1>9. z < RowEnd(b, i) /\ RowEnd(b, i) \in Int
  BY <1>4, <1>8, RowGoesOn, RowNumbers
<1>10. z # RowEnd(b, i)
  BY <1>9
<1>11. Place(b, i, z) = <<i, z>>
  BY <1>10, Zenon DEF Place
<1>12. p * PAGE + c = Row(b, i) + b.y
  BY <1>6, <1>8
<1> QED
  BY <1>1, <1>2, <1>3, <1>4, <1>5, <1>6, <1>7, <1>11, <1>12

-----------------------------------------------------------------------------
(* A step of AR.                                                           *)

\* The first burst of row i, whose first byte is rowStart.
LEMMA RowRequest ==
  ASSUME Typing, NEW arready \in BOOLEAN, ReadRequests(arready),
         NEW i \in 0 .. blk.x - 1, rowStart = Row(blk, i), ar.row_count = i,
         ar.col_remain = 0, ~ar.done,
         ar_nstate(arready) = ArAfterRow(rowStart),
         ar.fst_addr = rowStart \/ (i = 0 /\ ar.fst_addr = 0)
  PROVE  /\ Requesting(blk, ar') /\ ArPlace(blk, ar') = <<i, Row(blk, i) \div BEAT>>
         /\ ar' \in ArType /\ ar'.state \in {"HEAD", "COL_END"}
<1>1. blk \in Blocks
  BY DEF Typing
<1>2. PICK a \in Int : a = rowStart /\ a = Row(blk, i)
  <2>1. i \in Int
    <3>1. blk.x \in Int
      BY BlockFacts
    <3> QED
      BY <3>1
  <2> QED
    BY <1>1, <2>1, RowNumbers
<1>3. CASE leavesPage(a)
  <2>1. ar_nstate(arready) = "HEAD"
    BY <1>2, <1>3 DEF ArAfterRow
  <2>2. /\ ar' \in ArType /\ ar'.state = "HEAD" /\ ar'.valid /\ ar'.done = ar.done
        /\ ar'.addr = a /\ ar'.row_count = ar.row_count
        /\ ar'.len = beats(PAGE - (a % PAGE) + (a % BEAT))
        /\ ar'.col_remain = blk.y + (a % PAGE) - PAGE
        /\ ar'.fst_addr = ar.fst_addr
    BY <1>2, <2>1, ArFields
  <2>3. (a % PAGE) + blk.y > PAGE
    BY <1>3 DEF leavesPage
  <2>4. ar.fst_addr = a
    <3>1. CASE i = 0 /\ ar.fst_addr = 0
      <4>1. blk.addr \in Int /\ blk.stride \in Int
        BY BlockFacts
      <4>2. Row(blk, 0) = blk.addr
        <5>1. 0 * blk.stride = 0
          BY <4>1
        <5> QED
          BY <4>1, <5>1 DEF Row
      <4>3. blk.addr = 0 \/ (blk.addr % PAGE) + blk.y <= PAGE
        BY <1>1, BlockAssumption
      <4>4. blk.addr = a
        BY <1>2, <3>1, <4>2
      <4>5. a % PAGE \in Int /\ blk.y \in Int /\ PAGE \in Int
        BY Sizes, BlockFacts
      <4>6. PICK o \in Int : o = a % PAGE
        BY <4>5
      <4>7. ~(o + blk.y <= PAGE)
        BY <2>3, <4>5, <4>6
      <4> QED
        BY <3>1, <4>3, <4>4, <4>6, <4>7
    <3>2. CASE ar.fst_addr = rowStart
      BY <3>2, <1>2
    <3> QED
      BY <3>1, <3>2
  <2>5. IsHead(blk, ar', i, a)
    BY <1>2, <2>2, <2>3, <2>4, Zenon DEF IsHead
  <2>6. Requesting(blk, ar') /\ ArPlace(blk, ar') = <<i, a \div BEAT>>
    BY <1>1, <2>2, <2>5, HeadOfRow
  <2> QED
    BY <1>2, <2>2, <2>6
<1>4. CASE ~leavesPage(a)
  <2>1. ar_nstate(arready) = "COL_END"
    BY <1>2, <1>4 DEF ArAfterRow
  <2>2. /\ ar' \in ArType /\ ar'.state = "COL_END" /\ ar'.valid /\ ar'.done = ar.done
        /\ ar'.addr = a /\ ar'.row_count = i + 1
        /\ ar'.len = beats((a % BEAT) + blk.y)
        /\ ar'.col_remain = 0 /\ ar'.fst_addr = a + blk.stride
    BY <1>2, <2>1, ArFields
  <2>3. ~((a % PAGE) + blk.y > PAGE)
    BY <1>4 DEF leavesPage
  <2>4. IsRow(blk, ar', i, a)
    BY <1>2, <2>2, <2>3, Zenon DEF IsRow
  <2>5. Requesting(blk, ar') /\ ArPlace(blk, ar') = <<i, a \div BEAT>>
    BY <1>1, <2>2, <2>4, OneBurst
  <2> QED
    BY <1>2, <2>2, <2>5
<1> QED
  BY <1>3, <1>4

\* A request that is accepted is followed by the next, or by the end of AR.
LEMMA RequestAccepted ==
  ASSUME Typing, NEW arready \in BOOLEAN, ReadRequests(arready), ~hog_start,
         ar.state \notin {"IDLE", "DONE"}, Requesting(blk, ar), ar_handshake(arready)
  PROVE  /\ ar' \in ArType
         /\ ArPlace(blk, ar') = Place(blk, ArRow(ar), NextBeat(ar))
         /\ \/ Requesting(blk, ar') /\ ar'.state \notin {"IDLE", "DONE"}
            \/ ar'.state = "DONE" /\ ~ar'.valid /\ ar'.done
<1>0. ar \in ArType /\ blk \in Blocks
  BY DEF Typing, ArType
<1>s. PAGE \in Nat /\ PAGE > 0 /\ blk.x \in Nat
  BY Sizes, BlockFacts
<1>1. PICK n \in Int, c \in Int, f \in Int :
         n = ar.row_count /\ c = ar.col_remain /\ f = ar.fst_addr
  BY <1>0, ArNumbers
<1>2. /\ ~ar.done /\ n \in 0 .. blk.x /\ c >= 0 /\ f = Row(blk, n)
      /\ ArRow(ar) \in 0 .. blk.x - 1
  BY <1>1, Zenon DEF Requesting
<1>3. rowStart = f
  BY <1>1 DEF rowStart
<1>m. /\ n = blk.x => ar_nstate(arready) = "DONE"
      /\ n # blk.x /\ c > PAGE => ar_nstate(arready) = "QWN"
      /\ n # blk.x /\ ~(c > PAGE) /\ c \in 1 .. PAGE /\ c # 0 =>
           ar_nstate(arready) = "COL_END"
      /\ n # blk.x /\ ~(c > PAGE) /\ ~(c \in 1 .. PAGE) /\ c = 0 =>
           ar_nstate(arready) = ArAfterRow(f)
  BY <1>1, ArStateMoves
<1>4. CASE c # 0
  <2>1. /\ ArRow(ar) = n /\ n \in 0 .. blk.x - 1 /\ c > 0
        /\ (ar.addr \div PAGE + 1) * PAGE + c = Row(blk, n) + blk.y
        /\ Place(blk, ArRow(ar), NextBeat(ar)) =
             <<n, ((ar.addr \div PAGE + 1) * PAGE) \div BEAT>>
    BY <1>0, <1>1, <1>4, PageAfter
  <2>2. PICK p \in Int : p = ar.addr \div PAGE + 1
    <3>1. ar.addr \in Int
      BY <1>0, ArNumbers
    <3>2. ar.addr \div PAGE \in Int
      BY <1>s, <3>1
    <3> QED
      BY <3>2
  <2>3. /\ nextPage = p * PAGE /\ p * PAGE + c = Row(blk, n) + blk.y
        /\ Place(blk, ArRow(ar), NextBeat(ar)) = <<n, (p * PAGE) \div BEAT>>
    BY <2>1, <2>2, Zenon DEF nextPage
  <2>4. n # blk.x
    BY <1>s, <2>1
  <2>5. CASE c > PAGE
    <3>1. ar_nstate(arready) = "QWN"
      BY <1>m, <2>4, <2>5
    <3>2. /\ ar' \in ArType /\ ar'.state = "QWN" /\ ar'.valid /\ ar'.done = ar.done
          /\ ar'.addr = p * PAGE /\ ar'.row_count = n /\ ar'.len = BURST - 1
          /\ ar'.col_remain = c - PAGE /\ ar'.fst_addr = f
      BY <1>1, <2>3, <3>1, ArFields
    <3>3. p * PAGE + PAGE + ar'.col_remain = Row(blk, n) + blk.y /\ ar'.col_remain > 0
      <4>1. PICK s \in Int, d \in Int : s = p * PAGE /\ d = c - PAGE
        BY <1>s
      <4>2. s + PAGE + d = s + c /\ d > 0
        BY <1>s, <2>5, <4>1
      <4> QED
        BY <2>3, <3>2, <4>1, <4>2
    <3>4. IsPage(blk, ar', n, p)
      BY <1>2, <3>2, <3>3, Zenon DEF IsPage
    <3>5. Requesting(blk, ar') /\ ArPlace(blk, ar') = <<n, (p * PAGE) \div BEAT>>
      BY <1>0, <2>1, <3>2, <3>4, WholePage
    <3> QED
      BY <2>3, <3>2, <3>5
  <2>6. CASE ~(c > PAGE)
    <3>1. c \in 1 .. PAGE
      BY <1>s, <2>1, <2>6
    <3>2. ar_nstate(arready) = "COL_END"
      BY <1>m, <1>4, <2>4, <2>6, <3>1
    <3>3. /\ ar' \in ArType /\ ar'.state = "COL_END" /\ ar'.valid /\ ar'.done = ar.done
          /\ ar'.addr = p * PAGE /\ ar'.row_count = n + 1 /\ ar'.len = beats(c)
          /\ ar'.col_remain = 0 /\ ar'.fst_addr = f + blk.stride
      BY <1>1, <1>4, <2>3, <3>2, ArFields
    <3>4. IsRest(blk, ar', n, p, c)
      BY <1>2, <2>3, <3>3, Zenon DEF IsRest
    <3>5. Requesting(blk, ar') /\ ArPlace(blk, ar') = <<n, (p * PAGE) \div BEAT>>
      BY <1>0, <2>1, <3>1, <3>3, <3>4, RestOfRow
    <3> QED
      BY <2>3, <3>3, <3>5
  <2> QED
    BY <2>5, <2>6
<1>5. CASE c = 0
  <2>1. ArRow(ar) = n - 1 /\ NextBeat(ar) = RowEnd(blk, n - 1)
    <3>1. ArRow(ar) = n - 1
      BY <1>1, <1>5 DEF ArRow
    <3>2. NextBeat(ar) = RowEnd(blk, ArRow(ar))
      BY <1>1, <1>5, Zenon DEF Requesting
    <3> QED
      BY <3>1, <3>2
  <2>2. Place(blk, ArRow(ar), NextBeat(ar)) = <<n, Row(blk, n) \div BEAT>>
    <3>1. Place(blk, n - 1, RowEnd(blk, n - 1)) = <<(n - 1) + 1, Row(blk, (n - 1) + 1) \div BEAT>>
      BY DEF Place
    <3>2. (n - 1) + 1 = n
      OBVIOUS
    <3> QED
      BY <2>1, <3>1, <3>2
  <2>3. CASE n = blk.x
    <3>1. ar' \in ArType /\ ar'.state = "DONE" /\ ~ar'.valid /\ ar'.done
      BY <1>m, <2>3, ArFields
    <3>2. ArPlace(blk, ar') = <<n, Row(blk, n) \div BEAT>>
      BY <2>3, <3>1, Zenon DEF ArPlace
    <3> QED
      BY <2>2, <3>1, <3>2
  <2>4. CASE n # blk.x
    <3>1. n \in 0 .. blk.x - 1
      BY <1>s, <1>2, <2>4
    <3>2. ar_nstate(arready) = ArAfterRow(f)
      BY <1>m, <1>s, <1>5, <2>4
    <3>3. /\ Requesting(blk, ar') /\ ArPlace(blk, ar') = <<n, Row(blk, n) \div BEAT>>
          /\ ar' \in ArType /\ ar'.state \in {"HEAD", "COL_END"}
      <4>1. rowStart = Row(blk, n) /\ ar_nstate(arready) = ArAfterRow(rowStart)
            /\ ar.fst_addr = rowStart
        BY <1>1, <1>2, <1>3, <3>2
      <4> QED
        BY <1>1, <1>2, <1>5, <3>1, <4>1, RowRequest
    <3> QED
      BY <2>2, <3>3
  <2> QED
    BY <2>3, <2>4
<1> QED
  BY <1>4, <1>5

-----------------------------------------------------------------------------
(* A step of the two halves of the read channel and the memory.            *)

\* A request lies in its row.
LEMMA RequestInRow ==
  ASSUME NEW b \in Blocks, NEW q \in ArType, Requesting(b, q)
  PROVE  /\ NextBeat(q) <= RowEnd(b, ArRow(q)) /\ q.len >= 0
         /\ ArRow(q) \in 0 .. b.x - 1
         /\ ArPlace(b, q) = <<ArRow(q), FirstBeat(q)>>
<1>0. b.x \in Int /\ BEAT \in Nat /\ BEAT > 0
  BY BlockAssumption, Sizes
<1>1. PICK i \in Int, c \in Int : i = ArRow(q) /\ c = q.col_remain
  <2>1. q.col_remain \in Int /\ q.row_count \in Int
    BY ArNumbers
  <2> QED
    BY <2>1 DEF ArRow
<1>2. /\ i \in 0 .. b.x - 1 /\ c >= 0 /\ q.len >= 0 /\ q.valid
      /\ c = 0 => NextBeat(q) = RowEnd(b, i)
      /\ c # 0 => BEAT * NextBeat(q) + c = Row(b, i) + b.y
  BY <1>1, Zenon DEF Requesting
<1>3. NextBeat(q) \in Int /\ RowEnd(b, i) \in Int
  <2>1. q.addr \in Int /\ q.len \in Int
    BY ArNumbers
  <2>2. q.addr \div BEAT \in Int
    BY <1>0, <2>1
  <2> QED
    BY <2>1, <2>2, RowNumbers DEF NextBeat
<1>4. NextBeat(q) <= RowEnd(b, i)
  <2>1. CASE c = 0
    BY <1>2, <1>3, <2>1
  <2>2. CASE c # 0
    <3>1. c > 0
      BY <1>2, <2>2
    <3>2. NextBeat(q) < RowEnd(b, i)
      BY <1>2, <1>3, <2>2, <3>1, RowGoesOn
    <3> QED
      BY <1>3, <3>2
  <2> QED
    BY <2>1, <2>2
<1>5. ArPlace(b, q) = <<i, FirstBeat(q)>>
  BY <1>1, <1>2, Zenon DEF ArPlace
<1> QED
  BY <1>1, <1>2, <1>4, <1>5

\* Bursts lead only from rows of the block, or nowhere.
LEMMA LeadsNowhere ==
  ASSUME NEW b \in Blocks, NEW bs \in Seq(Burst), NEW rb \in Int, NEW i, NEW k, NEW to,
         Leads(b, bs, rb, <<i, k>>, to), i \notin 0 .. b.x - 1
  PROVE  bs = <<>> /\ rb = 0 /\ to = <<i, k>>
<1>1. bs = <<>>
  BY LeadsTake
<1> QED
  BY <1>1 DEF Leads

\* The bursts with the one that is accepted now, and the beats returned.
LEMMA MemoryStep ==
  ASSUME Typing, NEW arready \in BOOLEAN, NEW rvalid \in BOOLEAN, ReadMemory(arready, rvalid),
         rvalid => bursts # <<>>,
         NEW all \in Seq(Burst),
         all = IF ar_handshake(arready) THEN Append(bursts, [addr |-> ar.addr, len |-> ar.len])
               ELSE bursts
  PROVE  /\ bursts' \in Seq(Burst) /\ rbeat' \in Int
         /\ ~r_handshake(rvalid) => bursts' = all /\ rbeat' = rbeat
         /\ r_handshake(rvalid) =>
              /\ all # <<>>
              /\ rbeat # all[1].len => bursts' = all /\ rbeat' = rbeat + 1
              /\ rbeat = all[1].len => bursts' = Tail(all) /\ rbeat' = 0
<1>0. bursts \in Seq(Burst) /\ rbeat \in Int
  BY DEF Typing, Burst
<1>1. IF r_handshake(rvalid) /\ rbeat = Head(bursts).len
      THEN bursts' = Tail(all) /\ rbeat' = 0
      ELSE bursts' = all /\ rbeat' = IF r_handshake(rvalid) THEN rbeat + 1 ELSE rbeat
  BY Zenon DEF ReadMemory
<1>2. bursts # <<>> => all # <<>> /\ Head(bursts) = all[1] /\ Tail(all) \in Seq(Burst)
  <2> SUFFICES ASSUME bursts # <<>>
               PROVE  all # <<>> /\ Head(bursts) = all[1] /\ Tail(all) \in Seq(Burst)
    OBVIOUS
  <2>1. PICK n \in Nat : n = Len(bursts) /\ n > 0
    BY <1>0, LenProperties, EmptySeq
  <2>2. Head(bursts) = bursts[1]
    BY <1>0, HeadTailProperties
  <2>3. all # <<>> /\ all[1] = bursts[1]
    <3>1. CASE ~ar_handshake(arready)
      BY <3>1
    <3>2. CASE ar_handshake(arready)
      <4>1. PICK t \in Burst : t = [addr |-> ar.addr, len |-> ar.len]
        <5>1. ar.addr \in Int /\ ar.len \in Int
          BY DEF Typing
        <5> QED
          BY <5>1 DEF Burst
      <4>2. all = Append(bursts, t)
        BY <3>2, <4>1
      <4>3. Len(all) = n + 1 /\ \A p \in 1 .. n : all[p] = bursts[p]
        BY <1>0, <2>1, <4>2, AppendProperties
      <4>4. Len(<<>>) = 0
        BY EmptySeq
      <4> QED
        BY <2>1, <4>3, <4>4
    <3> QED
      BY <3>1, <3>2
  <2>4. Tail(all) \in Seq(Burst)
    BY <2>3, HeadTailProperties
  <2> QED
    BY <2>2, <2>3, <2>4
<1>3. r_handshake(rvalid) => bursts # <<>>
  BY DEF r_handshake
<1>4. CASE ~r_handshake(rvalid)
  BY <1>0, <1>1, <1>4
<1>5. CASE r_handshake(rvalid)
  <2>1. all # <<>> /\ Head(bursts) = all[1] /\ Tail(all) \in Seq(Burst)
    BY <1>2, <1>3, <1>5
  <2>2. /\ rbeat # all[1].len => bursts' = all /\ rbeat' = rbeat + 1
        /\ rbeat = all[1].len => bursts' = Tail(all) /\ rbeat' = 0
    BY <1>1, <1>5, <2>1
  <2>3. bursts' \in Seq(Burst) /\ rbeat' \in Int
    <3>1. CASE rbeat # all[1].len
      <4>1. bursts' = all /\ rbeat' = rbeat + 1
        BY <2>2, <3>1
      <4>2. rbeat + 1 \in Int
        BY <1>0
      <4> QED
        BY <4>1, <4>2, Zenon
    <3>2. CASE rbeat = all[1].len
      <4>1. bursts' = Tail(all) /\ rbeat' = 0
        BY <2>2, <3>2
      <4> QED
        BY <2>1, <4>1
    <3> QED
      BY <3>1, <3>2
  <2> QED
    BY <1>5, <2>1, <2>2, <2>3
<1> QED
  BY <1>4, <1>5

\* AR under way: its place moves on with the request it has made.
LEMMA RequestStep ==
  ASSUME Typing, NEW arready \in BOOLEAN, ReadRequests(arready), ~hog_start,
         ar.state \notin {"IDLE", "DONE"}, Requesting(blk, ar), ~r.done
  PROVE  /\ ar' \in ArType
         /\ ~ar_handshake(arready) => ArPlace(blk, ar') = ArPlace(blk, ar)
         /\ ar_handshake(arready) => ArPlace(blk, ar') = Place(blk, ArRow(ar), NextBeat(ar))
         /\ \/ Requesting(blk, ar') /\ ar'.state \notin {"IDLE", "DONE"}
            \/ ar'.state = "DONE" /\ ~ar'.valid /\ ar'.done
<1>1. CASE ar_handshake(arready)
  BY <1>1, RequestAccepted
<1>2. CASE ~ar_handshake(arready)
  <2>1. ar_nstate(arready) = "WAIT"
    BY <1>2, ArStateMoves
  <2>2. /\ ar' \in ArType /\ ar'.state = "WAIT" /\ ar'.valid = ar.valid
        /\ ar'.done = ar.done /\ ar'.addr = ar.addr /\ ar'.row_count = ar.row_count
        /\ ar'.len = ar.len /\ ar'.col_remain = ar.col_remain
        /\ ar'.fst_addr = ar.fst_addr
    BY <2>1, ArFields
  <2>3. /\ ArRow(ar') = ArRow(ar) /\ NextBeat(ar') = NextBeat(ar)
        /\ FirstBeat(ar') = FirstBeat(ar)
    BY <2>2, Zenon DEF ArRow, NextBeat, FirstBeat
  <2>4. Requesting(blk, ar')
    BY <2>2, <2>3, Zenon DEF Requesting
  <2>5. ArPlace(blk, ar') = ArPlace(blk, ar)
    BY <2>2, <2>3, Zenon DEF ArPlace
  <2> QED
    BY <1>2, <2>2, <2>4, <2>5
<1> QED
  BY <1>1, <1>2

\* The bursts lead on from the place of R to the place of AR.
LEMMA LeadsStep ==
  ASSUME IInv, NEW arready \in BOOLEAN, NEW rvalid \in BOOLEAN,
         ReadMemory(arready, rvalid), ReadData(rvalid),
         rvalid => r.ready /\ bursts # <<>>,
         r_nstate(rvalid) # "IDLE", r.state # "IDLE",
         ~ar_handshake(arready) => ArPlace(blk, ar') = ArPlace(blk, ar),
         ar_handshake(arready) =>
           Requesting(blk, ar) /\ ArPlace(blk, ar') = Place(blk, ArRow(ar), NextBeat(ar)),
         Leads(blk, bursts, rbeat, RPlace(blk, r), ArPlace(blk, ar))
  PROVE  /\ bursts' \in Seq(Burst) /\ rbeat' \in Int
         /\ Leads(blk, bursts', rbeat', RPlace(blk, r'), ArPlace(blk, ar'))
<1>0. /\ Typing /\ blk \in Blocks /\ ar \in ArType /\ bursts \in Seq(Burst) /\ rbeat \in Int
  BY DEF IInv, Typing, ArType, Burst
<1>1. PICK all \in Seq(Burst) :
         /\ all = IF ar_handshake(arready)
                  THEN Append(bursts, [addr |-> ar.addr, len |-> ar.len]) ELSE bursts
         /\ Leads(blk, all, rbeat, RPlace(blk, r), ArPlace(blk, ar'))
  <2>1. CASE ~ar_handshake(arready)
    BY <1>0, <2>1
  <2>2. CASE ar_handshake(arready)
    <3>1. PICK t \in Burst : t = [addr |-> ar.addr, len |-> ar.len]
      <4>1. ar.addr \in Int /\ ar.len \in Int
        BY <1>0, ArNumbers
      <4> QED
        BY <4>1 DEF Burst
    <3>2. t.addr = ar.addr /\ t.len = ar.len
      BY <3>1
    <3>3. NextBeat(t) = NextBeat(ar) /\ FirstBeat(t) = FirstBeat(ar)
      BY <3>2, Zenon DEF NextBeat, FirstBeat
    <3>4. /\ NextBeat(ar) <= RowEnd(blk, ArRow(ar)) /\ ar.len >= 0
          /\ ArRow(ar) \in 0 .. blk.x - 1
          /\ ArPlace(blk, ar) = <<ArRow(ar), FirstBeat(ar)>>
      BY <1>0, <2>2, RequestInRow
    <3>5. PICK i \in 0 .. blk.x - 1 : i = ArRow(ar)
      BY <3>4
    <3>6. /\ Leads(blk, bursts, rbeat, RPlace(blk, r), <<i, FirstBeat(t)>>)
          /\ t.len >= 0 /\ NextBeat(t) <= RowEnd(blk, i)
      BY <3>2, <3>3, <3>4, <3>5
    <3>7. Leads(blk, Append(bursts, t), rbeat, RPlace(blk, r), Place(blk, i, NextBeat(t)))
      BY <1>0, <3>6, LeadsAppend
    <3>8. Append(bursts, t) \in Seq(Burst)
      BY <1>0, AppendProperties
    <3> QED
      BY <2>2, <3>1, <3>3, <3>5, <3>7, <3>8
  <2> QED
    BY <2>1, <2>2
<1>2. /\ bursts' \in Seq(Burst) /\ rbeat' \in Int
      /\ ~r_handshake(rvalid) => bursts' = all /\ rbeat' = rbeat
      /\ r_handshake(rvalid) =>
           /\ all # <<>>
           /\ rbeat # all[1].len => bursts' = all /\ rbeat' = rbeat + 1
           /\ rbeat = all[1].len => bursts' = Tail(all) /\ rbeat' = 0
  BY <1>0, <1>1, MemoryStep
<1>3. CASE ~r_handshake(rvalid)
  <2>1. RPlace(blk, r') = RPlace(blk, r)
    BY <1>3, TakeStep
  <2> QED
    BY <1>1, <1>2, <1>3, <2>1
<1>4. CASE r_handshake(rvalid)
  <2>1. PICK k \in Int : /\ RPlace(blk, r) = <<r.row_count, k>>
                         /\ RPlace(blk, r') = Place(blk, r.row_count, k + 1)
    BY <1>4, TakeStep
  <2>2. Leads(blk, all, rbeat, <<r.row_count, k>>, ArPlace(blk, ar'))
    BY <1>1, <2>1
  <2>3. /\ rbeat # all[1].len =>
             Leads(blk, all, rbeat + 1, Place(blk, r.row_count, k + 1), ArPlace(blk, ar'))
        /\ rbeat = all[1].len =>
             Leads(blk, Tail(all), 0, Place(blk, r.row_count, k + 1), ArPlace(blk, ar'))
    BY <1>0, <1>2, <1>4, <2>2, LeadsTake
  <2> QED
    BY <1>2, <1>4, <2>1, <2>3
<1> QED
  BY <1>3, <1>4

\* No place of R after the last row is before a request.
LEMMA NotPast ==
  ASSUME NEW b \in Blocks, NEW bs \in Seq(Burst), NEW rb \in Int, NEW k, NEW to,
         Leads(b, bs, rb, <<b.x, k>>, to)
  PROVE  bs = <<>> /\ rb = 0 /\ to = <<b.x, k>>
<1>1. b.x \notin 0 .. b.x - 1
  BY BlockAssumption
<1> QED
  BY <1>1, LeadsNowhere

\* A step of the read channel.
LEMMA ChannelStep ==
  ASSUME IInv, NEW start \in BOOLEAN, NEW write \in BOOLEAN, Registers(start, write),
         NEW arready \in BOOLEAN, NEW rvalid \in BOOLEAN,
         ReadRequests(arready), ReadMemory(arready, rvalid), ReadData(rvalid),
         rvalid => r.ready /\ bursts # <<>>
  PROVE  /\ RequestInv' /\ TakingInv'
         /\ ar' \in ArType /\ bursts' \in Seq(Burst) /\ rbeat' \in Int
<1>t. /\ Typing /\ blk \in Blocks /\ ar \in ArType /\ bursts \in Seq(Burst) /\ rbeat \in Int
      /\ r.state \in RStates /\ ar.state \in ArStates
  BY DEF IInv, Typing, ArType, Burst
<1>a. /\ ar.state = "IDLE" => /\ ar = ArIdle /\ r.state \in {"IDLE", "END"}
                              /\ bursts = <<>> /\ rbeat = 0
      /\ ar.state = "DONE" => ~ar.valid /\ ar.done /\ r.state # "IDLE"
      /\ ar.state \notin {"IDLE", "DONE"} =>
           Requesting(blk, ar) /\ r.state \notin {"IDLE", "END"}
      /\ r.done <=> r.state = "END"
      /\ r.state # "IDLE" /\ ar.state # "IDLE" =>
           Leads(blk, bursts, rbeat, RPlace(blk, r), ArPlace(blk, ar))
  BY DEF IInv, RequestInv, TakingInv
<1>s. /\ hog_start => r.state = "IDLE" /\ ~start
      /\ start => r.state = "IDLE"
      /\ ~start => blk' = blk
  BY DEF IInv, StageInv, Quiet, Registers, hog_start
<1>q. ArIdle \in ArType /\ ArIdle.state = "IDLE" /\ ~ArIdle.valid
  BY DEF ArIdle, ArType, ArStates
<1>n. PICK n \in RStates : n = r_nstate(rvalid) /\ r'.state = n
  BY RTyping
<1>m. /\ r.state = "IDLE" => n = IF hog_start THEN "WAIT" ELSE "IDLE"
      /\ r.state = "END" => n = IF img.finish THEN "IDLE" ELSE "END"
      /\ n = "IDLE" => r.state \in {"IDLE", "END"}
      /\ n = "END" => r.state \in {"LAST_PAIR", "LAST_ONE", "END"}
  <2>1. Write(r.byte_count) \in {"PAIR", "LAST_PAIR", "LAST_ONE"}
    <3>1. r.byte_count \in Int
      BY <1>t DEF Typing
    <3> QED
      BY <3>1, WriteFacts
  <2> QED
    BY <1>t, <1>n, <2>1, RStateMoves DEF RStates
\* Nothing is under way when R has ended and AR is not requesting.
<1>e. ASSUME r.state = "END"
      PROVE  bursts = <<>> /\ rbeat = 0 /\ ar.state \in {"IDLE", "DONE"}
  <2>1. ar.state \in {"IDLE", "DONE"}
    BY <1>a, <1>e
  <2>2. CASE ar.state = "IDLE"
    BY <1>a, <2>1, <2>2
  <2>3. CASE ar.state = "DONE"
    <3>1. Leads(blk, bursts, rbeat, RPlace(blk, r), ArPlace(blk, ar))
      BY <1>a, <1>e, <2>3
    <3>2. r.row_count = blk.x
      BY <1>e DEF IInv, RowInv
    <3>3. RPlace(blk, r) = <<blk.x, Row(blk, blk.x) \div BEAT>>
      BY <3>2, Zenon DEF RPlace
    <3>4. bursts = <<>> /\ rbeat = 0
      BY <1>t, <3>1, <3>3, NotPast
    <3> QED
      BY <2>1, <3>4
  <2> QED
    BY <2>1, <2>2, <2>3
<1>f. ASSUME bursts = <<>>, rbeat = 0, ~ar.valid
      PROVE  bursts' = <<>> /\ rbeat' = 0
  <2>1. ~ar_handshake(arready) /\ ~r_handshake(rvalid)
    BY <1>f DEF ar_handshake, r_handshake
  <2>2. ~r_handshake(rvalid) => bursts' = bursts /\ rbeat' = rbeat
    BY <1>t, <2>1, MemoryStep
  <2> QED
    BY <1>f, <2>1, <2>2
<1>1. CASE n = "IDLE"
  <2>1. r' = RIdle
    BY <1>n, <1>1, RMoves, Zenon
  <2>2. ar' = ArIdle /\ bursts' = <<>> /\ rbeat' = 0
    <3>1. ar.state \in {"IDLE", "DONE"} /\ bursts = <<>> /\ rbeat = 0 /\ ~ar.valid
      <4>1. CASE r.state = "IDLE"
        BY <1>a, <1>q, <4>1
      <4>2. CASE r.state = "END"
        BY <1>a, <1>e, <1>q, <4>2
      <4> QED
        BY <1>m, <1>1, <4>1, <4>2
    <3>2. ~hog_start
      BY <1>s, <1>m, <1>1
    <3>3. ar.state = "DONE" => r.done
      BY <1>a, <1>m, <1>1
    <3>4. ar_nstate(arready) = "IDLE"
      BY <3>1, <3>2, <3>3, ArStateMoves
    <3>5. ar' = ArIdle
      BY <1>t, <3>4, ArFields
    <3> QED
      BY <1>f, <3>1, <3>5
  <2>3. r'.state = "IDLE" /\ ~r'.done
    BY <2>1 DEF RIdle
  <2>4. RequestInv'
    BY <1>q, <2>2, <2>3 DEF RequestInv
  <2>5. TakingInv'
    BY <2>3 DEF TakingInv
  <2>6. <<>> \in Seq(Burst)
    BY EmptySeq
  <2> QED
    BY <1>q, <2>2, <2>4, <2>5, <2>6
<1>2. CASE n # "IDLE" /\ r.state = "IDLE"
  <2>1. /\ Taking(blk, r') /\ RPlace(blk, r') = <<0, Row(blk, 0) \div BEAT>>
        /\ r'.state = "WAIT" /\ r'.ready /\ ~r'.done /\ hog_start
    BY <1>n, <1>2, TakeStart
  <2>2. blk' = blk
    BY <1>s, <2>1
  <2>3. ar.state = "IDLE" /\ ar = ArIdle /\ bursts = <<>> /\ rbeat = 0
    BY <1>t, <1>a, <1>2
  <2>4. bursts' = <<>> /\ rbeat' = 0
    BY <1>f, <1>q, <2>3
  <2>5. ar_nstate(arready) = ArAfterRow(blk.addr)
    BY <2>1, <2>3, ArStateMoves
  <2>6. rowStart = blk.addr /\ Row(blk, 0) = blk.addr /\ 0 \in 0 .. blk.x - 1
    <3>1. blk.addr \in Int /\ blk.stride \in Int /\ blk.x \in Nat /\ blk.x > 1
      BY <1>t, BlockFacts
    <3>2. 0 * blk.stride = 0
      BY <3>1
    <3>3. Row(blk, 0) = blk.addr
      BY <3>1, <3>2 DEF Row
    <3>4. rowStart = blk.addr
      BY <2>1 DEF rowStart
    <3>5. 0 \in 0 .. blk.x - 1
      BY <3>1
    <3> QED
      BY <3>3, <3>4, <3>5
  <2>7. ar.row_count = 0 /\ ar.col_remain = 0 /\ ~ar.done /\ ar.fst_addr = 0
    BY <2>3 DEF ArIdle
  <2>8. /\ Requesting(blk, ar') /\ ArPlace(blk, ar') = <<0, Row(blk, 0) \div BEAT>>
        /\ ar' \in ArType /\ ar'.state \in {"HEAD", "COL_END"}
    BY <1>t, <2>5, <2>6, <2>7, RowRequest
  <2>9. RequestInv'
    BY <2>1, <2>2, <2>8 DEF RequestInv
  <2>10. Leads(blk, bursts', rbeat', RPlace(blk, r'), ArPlace(blk, ar'))
    BY <2>1, <2>4, <2>8 DEF Leads
  <2>11. TakingInv'
    BY <2>1, <2>2, <2>10 DEF TakingInv
  <2>12. <<>> \in Seq(Burst)
    BY EmptySeq
  <2> QED
    BY <2>4, <2>8, <2>9, <2>11, <2>12
<1>3. CASE n # "IDLE" /\ r.state # "IDLE"
  <2>1. blk' = blk /\ ~hog_start
    BY <1>s, <1>3
  <2>2. /\ r'.row_count < blk.x => Taking(blk, r')
        /\ r'.done <=> r'.state = "END"
        /\ r'.state = "WAIT" => r'.ready
        /\ r'.state \in {"PAIR", "END"} => ~r'.ready
    BY <1>n, <1>3, TakeStep
  <2>3. CASE ar.state = "IDLE"
    <3>1. r.state = "END" /\ n = "END" /\ bursts = <<>> /\ rbeat = 0 /\ ~ar.valid
      BY <1>a, <1>m, <1>q, <1>3, <2>3
    <3>2. ar' = ArIdle
      BY <1>t, <2>1, <2>3, ArStateMoves, ArFields
    <3>3. bursts' = <<>> /\ rbeat' = 0
      BY <1>f, <3>1
    <3>4. RequestInv'
      BY <1>n, <1>q, <3>1, <3>2, <3>3 DEF RequestInv
    <3>5. TakingInv'
      BY <1>q, <2>1, <2>2, <3>2 DEF TakingInv
    <3>6. <<>> \in Seq(Burst)
      BY EmptySeq
    <3> QED
      BY <1>q, <3>2, <3>3, <3>4, <3>5, <3>6
  <2>4. CASE ar.state = "DONE" /\ r.state = "END"
    <3>1. ar' = ArIdle
      <4>1. ar_nstate(arready) = "IDLE"
        BY <1>a, <2>4, ArStateMoves
      <4> QED
        BY <1>t, <4>1, ArFields
    <3>2. bursts' = <<>> /\ rbeat' = 0
      BY <1>a, <1>e, <1>f, <2>4
    <3>3. RequestInv'
      BY <1>n, <1>m, <1>q, <1>3, <2>4, <3>1, <3>2 DEF RequestInv
    <3>4. TakingInv'
      BY <1>q, <2>1, <2>2, <3>1 DEF TakingInv
    <3>5. <<>> \in Seq(Burst)
      BY EmptySeq
    <3> QED
      BY <1>q, <3>1, <3>2, <3>3, <3>4, <3>5
  <2>5. CASE ar.state = "DONE" /\ r.state # "END"
    <3>1. ar' \in ArType /\ ar'.state = "DONE" /\ ~ar'.valid /\ ar'.done
      <4>1. ar_nstate(arready) = "DONE"
        BY <1>a, <2>5, ArStateMoves
      <4> QED
        BY <1>t, <4>1, ArFields
    <3>2. ~ar.valid /\ ~ar_handshake(arready)
      BY <1>a, <2>5 DEF ar_handshake
    <3>3. ArPlace(blk, ar') = ArPlace(blk, ar)
      BY <3>1, <3>2, Zenon DEF ArPlace
    <3>4. /\ bursts' \in Seq(Burst) /\ rbeat' \in Int
          /\ Leads(blk, bursts', rbeat', RPlace(blk, r'), ArPlace(blk, ar'))
      BY <1>a, <1>n, <1>3, <2>5, <3>2, <3>3, LeadsStep
    <3>5. RequestInv'
      BY <1>n, <1>3, <3>1 DEF RequestInv
    <3>6. TakingInv'
      BY <2>1, <2>2, <3>4 DEF TakingInv
    <3> QED
      BY <3>1, <3>4, <3>5, <3>6
  <2>6. CASE ar.state \notin {"IDLE", "DONE"}
    <3>1. Requesting(blk, ar) /\ r.state # "END" /\ ~r.done
      BY <1>a, <2>6
    <3>2. /\ ar' \in ArType
          /\ ~ar_handshake(arready) => ArPlace(blk, ar') = ArPlace(blk, ar)
          /\ ar_handshake(arready) => ArPlace(blk, ar') = Place(blk, ArRow(ar), NextBeat(ar))
          /\ \/ Requesting(blk, ar') /\ ar'.state \notin {"IDLE", "DONE"}
             \/ ar'.state = "DONE" /\ ~ar'.valid /\ ar'.done
      BY <1>t, <2>1, <2>6, <3>1, RequestStep
    <3>3. /\ bursts' \in Seq(Burst) /\ rbeat' \in Int
          /\ Leads(blk, bursts', rbeat', RPlace(blk, r'), ArPlace(blk, ar'))
      BY <1>a, <1>n, <1>3, <2>6, <3>1, <3>2, LeadsStep
    <3>4. CASE Requesting(blk, ar') /\ ar'.state \notin {"IDLE", "DONE"}
      <4>1. n # "END"
        <5> SUFFICES ASSUME n = "END" PROVE FALSE
          OBVIOUS
        <5>1. r.row_count = blk.x /\ ~r_handshake(rvalid)
          BY <1>n, <1>3, RowsLeft
        <5>2. RPlace(blk, r') = RPlace(blk, r)
          BY <1>n, <1>3, <5>1, TakeStep
        <5>3. RPlace(blk, r) = <<blk.x, Row(blk, blk.x) \div BEAT>>
          BY <5>1, Zenon DEF RPlace
        <5>4. Leads(blk, bursts', rbeat', <<blk.x, Row(blk, blk.x) \div BEAT>>,
                    ArPlace(blk, ar'))
          BY <3>3, <5>2, <5>3
        <5>5. ArPlace(blk, ar') = <<blk.x, Row(blk, blk.x) \div BEAT>>
          BY <1>t, <3>3, <5>4, NotPast
        <5>6. /\ ArRow(ar') \in 0 .. blk.x - 1
              /\ ArPlace(blk, ar') = <<ArRow(ar'), FirstBeat(ar')>>
          BY <1>t, <3>2, <3>4, RequestInRow
        <5>7. blk.x \in Nat
          BY <1>t, BlockFacts
        <5>8. blk.x \notin 0 .. blk.x - 1
          BY <5>7
        <5> QED
          BY <5>5, <5>6, <5>8
      <4>2. RequestInv'
        BY <1>n, <1>3, <2>1, <3>4, <4>1 DEF RequestInv
      <4>3. TakingInv'
        BY <2>1, <2>2, <3>3 DEF TakingInv
      <4> QED
        BY <3>2, <3>3, <4>2, <4>3
    <3>5. CASE ar'.state = "DONE" /\ ~ar'.valid /\ ar'.done
      <4>1. RequestInv'
        BY <1>n, <1>3, <3>5 DEF RequestInv
      <4>2. TakingInv'
        BY <2>1, <2>2, <3>3 DEF TakingInv
      <4> QED
        BY <3>2, <3>3, <4>1, <4>2
    <3> QED
      BY <3>2, <3>4, <3>5
  <2> QED
    BY <2>3, <2>4, <2>5, <2>6
<1> QED
  BY <1>1, <1>2, <1>3

-----------------------------------------------------------------------------
(* The invariant holds.                                                    *)

LEMMA InitIInv ==
  Init => IInv
<1> SUFFICES ASSUME Init PROVE IInv
  OBVIOUS
<1>1. /\ r = RIdle /\ ar = ArIdle /\ img = ImgAwait /\ aw = AwIdle /\ w = WIdle /\ rd = RdIdle
      /\ hog_ready = FALSE /\ feature = "none" /\ asked = 0 /\ written = 0
      /\ bursts = <<>> /\ rbeat = 0 /\ blk \in Blocks
      /\ wea = [b \in 0 .. 3 |-> <<>>]
      /\ hog = [start |-> FALSE, start_q |-> FALSE, wr_done_q |-> FALSE, done |-> FALSE,
                wrote |-> FALSE]
  BY DEF Init, RdIdle
<1>2. Typing
  <2>1. hog \in [start : BOOLEAN, start_q : BOOLEAN, wr_done_q : BOOLEAN, done : BOOLEAN,
                 wrote : BOOLEAN]
    BY <1>1
  <2>2. ar \in [state : ArStates, valid : BOOLEAN, addr : Int, len : Int, row_count : Int,
                col_remain : Int, fst_addr : Int, done : BOOLEAN]
    BY <1>1 DEF ArIdle, ArStates
  <2>3. r \in [state : RStates, ready : BOOLEAN, row_count : Int, flag : [1 .. 2 -> 0 .. 1],
               byte_en : Int, byte_count : Int, col_remain : Int, fst_addr : Int,
               done : BOOLEAN, data : Int]
    <3>1. <<0, 0>> \in [1 .. 2 -> 0 .. 1]
      OBVIOUS
    <3> QED
      BY <1>1, <3>1 DEF RIdle, RStates
  <2>4. bursts \in Seq([addr : Int, len : Int]) /\ rbeat \in Int
    BY <1>1, EmptySeq
  <2>5. img \in [state : {"await", "await1", "work"}, row : Int, column : Int, sig : Int,
                 delay : Int, finish : BOOLEAN]
    BY <1>1 DEF ImgAwait
  <2>6. aw \in [state : {"IDLE", "HEAD", "QWN", "WAIT", "DONE"}, valid : BOOLEAN,
                addr : Int, count : Int, done : BOOLEAN]
    BY <1>1 DEF AwIdle
  <2>7. w \in [state : {"IDLE", "WAIT_DATA", "QWN", "LAST", "WAIT", "DONE"},
               valid : BOOLEAN, last : BOOLEAN, data_count : Int, burst_count : Int,
               done : BOOLEAN]
    BY <1>1 DEF WIdle
  <2>8. rd \in [addrb : Int, bin : Int, start : Int, data : Int, doutb : Int,
                stitch : {"IDLE", "WAIT", "BIN0_17", "BIN18_26", "BIN27_30"},
                res : Seq(Features), valid : BOOLEAN]
    <3>1. <<>> \in Seq(Features)
      BY EmptySeq
    <3> QED
      BY <1>1, <3>1 DEF RdIdle
  <2> QED
    BY <1>1, <2>1, <2>2, <2>3, <2>4, <2>5, <2>6, <2>7, <2>8 DEF Typing
<1>b. blk.x \in Nat /\ blk.x > 1
  BY <1>2, BlockFacts
<1>3. StageInv
  BY <1>1 DEF StageInv, Quiet, hog_start, RIdle, ImgAwait, AwIdle, WIdle
<1>4. RowInv
  <2>1. r.state = "IDLE" /\ r.row_count = 0
    BY <1>1 DEF RIdle
  <2> QED
    BY <1>1, <1>b, <2>1 DEF RowInv
<1>5. ScalerInv
  <2>1. /\ img.state = "await" /\ img.row = 0 /\ img.column = -1 /\ img.delay = 0
        /\ img.finish = FALSE
    BY <1>1 DEF ImgAwait
  <2> QED
    BY <2>1, Sizes DEF ScalerInv
<1>6. AddressInv
  BY <1>1 DEF AddressInv, AwIdle
<1>7. BeatInv
  BY <1>1 DEF BeatInv, WIdle
<1>8. ResultInv
  <2>1. /\ rd.bin = 0 /\ rd.start = 0 /\ rd.data = 0 /\ rd.addrb = 0
    BY <1>1 DEF RdIdle
  <2>2. w.state = "IDLE"
    BY <1>1 DEF WIdle
  <2>3. /\ 0 \in 0 .. BinC /\ 0 \in 0 .. STARTS - 1 /\ 0 \in 0 .. READS - 1
    BY Sizes
  <2>4. READS * Nth + 0 = 0
    BY <2>1, Sizes DEF Nth
  <2> QED
    BY <1>1, <2>1, <2>2, <2>3, <2>4 DEF ResultInv
<1>9. RequestInv
  BY <1>1 DEF RequestInv, ArIdle, RIdle
<1>10. TakingInv
  BY <1>1 DEF TakingInv, RIdle
<1> QED
  BY <1>2, <1>3, <1>4, <1>5, <1>6, <1>7, <1>8, <1>9, <1>10 DEF IInv

LEMMA StepIInv ==
  ASSUME IInv, Next
  PROVE  IInv'
<1>1. PICK arready, rvalid, awready, wready, computed, cleared \in BOOLEAN :
         Edge(arready, rvalid, awready, wready, computed, cleared)
  BY NextIsStep
<1>2. PICK start, write \in BOOLEAN : Registers(start, write)
  BY NextIsStep
<1>t. Typing
  BY DEF IInv
<1>3. /\ ReadRequests(arready) /\ ReadMemory(arready, rvalid) /\ ReadData(rvalid)
      /\ Scaler /\ Histograms(computed, cleared) /\ ReadResult(wready)
      /\ WriteAddresses(awready) /\ WriteData(wready) /\ ResultMemory(awready, wready)
      /\ rvalid => r.ready /\ bursts # <<>>
  BY <1>1 DEF Edge, Clock
<1>4. StageInv'
  BY StageStep
<1>5. RowInv'
  BY <1>2, <1>3, RowStep
<1>6. ScalerInv'
  BY <1>2, <1>3, ScalerStep
<1>7. AddressInv' /\ asked' \in Int
  BY <1>3, AddressStep
<1>8. BeatInv' /\ written' \in Int
  BY <1>3, BeatStep
<1>9. ResultInv' /\ rd' \in RdType
  BY <1>3, ReadStep
<1>10. /\ RequestInv' /\ TakingInv'
       /\ ar' \in ArType /\ bursts' \in Seq(Burst) /\ rbeat' \in Int
  BY <1>2, <1>3, ChannelStep
<1>11. Typing'
  <2>1. hog' \in [start : BOOLEAN, start_q : BOOLEAN, wr_done_q : BOOLEAN, done : BOOLEAN,
                  wrote : BOOLEAN]
    BY <1>t, <1>2, ControlMoves DEF Registers
  <2>2. blk' \in Blocks
    BY <1>t, <1>2 DEF Registers, Typing
  <2>3. r' \in RType
    BY <1>3, RTyping
  <2>4. img' \in ImgType
    BY <1>t, <1>3, ImgFields
  <2>5. hog_ready' \in BOOLEAN
    BY <1>3 DEF Histograms
  <2>6. feature' \in {"none", "computing", "done"}
    BY <1>t, <1>3, FeatureMoves
  <2>7. aw' \in AwType /\ w' \in WType
    BY <1>t, <1>3, AwFields, WFields
  <2> QED
    BY <1>7, <1>8, <1>9, <1>10, <2>1, <2>2, <2>3, <2>4, <2>5, <2>6, <2>7, Zenon
       DEF Typing, ArType, Burst, RType, Flags, ImgType, AwType, AwStates, WType, WStates,
           RdType
<1> QED
  BY <1>4, <1>5, <1>6, <1>7, <1>8, <1>9, <1>10, <1>11 DEF IInv

LEMMA StutterIInv ==
  ASSUME IInv, UNCHANGED vars
  PROVE  IInv'
<1>1. /\ hog' = hog /\ blk' = blk /\ ar' = ar /\ r' = r /\ wea' = wea /\ bursts' = bursts
      /\ rbeat' = rbeat /\ img' = img /\ hog_ready' = hog_ready /\ feature' = feature
      /\ aw' = aw /\ w' = w /\ rd' = rd /\ asked' = asked /\ written' = written
  BY DEF vars
<1>2. Typing'
  <2>1. Typing
    BY DEF IInv
  <2> QED
    BY <1>1, <2>1, SMTT(30) DEF Typing
<1>3. StageInv'
  BY <1>1, Zenon DEF IInv, StageInv, Quiet, hog_start, NotEnding, Reading, Computing, Writing,
                     Ending
<1>4. RowInv' /\ ScalerInv'
  BY <1>1, Zenon DEF IInv, RowInv, ScalerInv
<1>5. AddressInv' /\ BeatInv'
  BY <1>1, Zenon DEF IInv, AddressInv, BeatInv, Put
<1>6. ResultInv'
  <2>1. Nth' = Nth /\ (\A n : Filled(n)' <=> Filled(n))
    BY <1>1, Zenon DEF Nth, Filled
  <2>2. (Fetching' <=> Fetching) /\ (Fetched' <=> Fetched) /\ (Held' <=> Held)
    BY <1>1, Zenon DEF Fetching, Fetched, Held, Filled, Read, Nth
  <2> QED
    BY <1>1, <2>1, <2>2, Zenon DEF IInv, ResultInv
<1>7. RequestInv' /\ TakingInv'
  BY <1>1, Zenon DEF IInv, RequestInv, TakingInv
<1> QED
  BY <1>2, <1>3, <1>4, <1>5, <1>6, <1>7 DEF IInv

\* For every block (BlockAssumption), sizes of the result, of beats, bursts and pages,
\* and all delays of the memory: a start goes through its stages one after the other;
\* R and the scaler count the rows of the block; the requests to come, under way and
\* taken make up its beats; and the words of the next beat of the result are read,
\* held or put on the channel in order (hog_trans.v, read_result_feature.v).
THEOREM Invariant ==
  Spec => []IInv
<1>1. IInv /\ [Next]_vars => IInv'
  BY StepIInv, StutterIInv
<1> QED
  BY <1>1, InitIInv, PTL DEF Spec

\* The features leave the module as the tracker reads them: each beat that W puts on the
\* channel holds the features of its cells, in order, though the reads of the banks run
\* ahead of the channel and stop while it waits (read_result_feature.v:77-124,
\* hog_trans.v:615-747).
THEOREM FeaturesLeaveInPlace ==
  Spec => []FeaturesInPlace
<1>1. ASSUME IInv PROVE FeaturesInPlace
  <2>t. Typing
    BY <1>1 DEF IInv
  <2>1. ASSUME w.valid
        PROVE  /\ rd.res = [k \in 1 .. 4 * READS |-> FeatureAt(4 * READS * written + k - 1)]
               /\ w.last = ((written + 1) % BURST = 0)
    <3>1. w.state \in {"QWN", "LAST", "WAIT"}
      <4>1. w.state \in {"IDLE", "WAIT_DATA", "QWN", "LAST", "WAIT", "DONE"}
        BY <2>t DEF Typing
      <4>2. w.state = "IDLE" => ~w.valid
        BY <1>1 DEF IInv, BeatInv, WIdle
      <4>3. w.state \in {"WAIT_DATA", "DONE"} => ~w.valid
        BY <1>1 DEF IInv, BeatInv
      <4> QED
        BY <2>1, <4>1, <4>2, <4>3
    <3>2. w.last \in BOOLEAN /\ (w.last <=> (written + 1) % BURST = 0)
      BY <1>1, <2>t, <3>1, LastBeat DEF Typing
    <3>3. Filled(READS)
      BY <1>1, <3>1 DEF IInv, ResultInv, Held
    <3>4. PICK m \in Nat : m = 4 * READS
      BY Sizes
    <3>5. Len(rd.res) = m /\ rd.res \in Seq(Features)
      <4>1. Len(rd.res) \in m .. m
        BY <3>3, <3>4 DEF Filled
      <4>2. rd.res \in Seq(Features)
        BY <2>t DEF Typing
      <4> QED
        BY <4>1, <4>2
    <3>6. \A k \in 1 .. m : rd.res[k] = FeatureAt(m * written + k - 1)
      <4> SUFFICES ASSUME NEW k \in 1 .. m PROVE rd.res[k] = FeatureAt(m * written + k - 1)
        OBVIOUS
      <4>1. rd.res[m - m + k] = FeatureAt(m * written + k - 1)
        BY <3>3, <3>4, <3>5, Zenon DEF Filled
      <4>2. m - m + k = k
        OBVIOUS
      <4> QED
        BY <4>1, <4>2
    <3>7. rd.res \in [1 .. m -> Features]
      BY <3>5, LenProperties
    <3>8. rd.res = [k \in 1 .. m |-> FeatureAt(m * written + k - 1)]
      BY <3>6, <3>7
    <3> QED
      BY <3>2, <3>4, <3>8
  <2>2. aw.valid => aw.addr = asked * PAGE
    <3>1. aw.state \in {"IDLE", "HEAD", "QWN", "WAIT", "DONE"}
      BY <2>t DEF Typing
    <3>2. aw.state = "IDLE" => ~aw.valid
      BY <1>1 DEF IInv, AddressInv, AwIdle
    <3> QED
      BY <1>1, <3>1, <3>2 DEF IInv, AddressInv
  <2>3. wr_done => asked = wr_burst_time /\ written = wr_burst_time * BURST
    <3> SUFFICES ASSUME wr_done PROVE asked = wr_burst_time /\ written = wr_burst_time * BURST
      OBVIOUS
    <3>1. aw.done /\ w.done
      BY DEF wr_done
    <3>2. aw.state = "DONE"
      <4>1. aw.state \in {"IDLE", "HEAD", "QWN", "WAIT", "DONE"}
        BY <2>t DEF Typing
      <4>2. aw.state = "IDLE" => ~aw.done
        BY <1>1 DEF IInv, AddressInv, AwIdle
      <4> QED
        BY <1>1, <3>1, <4>1, <4>2 DEF IInv, AddressInv
    <3>3. w.state = "DONE"
      <4>1. w.state \in {"IDLE", "WAIT_DATA", "QWN", "LAST", "WAIT", "DONE"}
        BY <2>t DEF Typing
      <4>2. w.state = "IDLE" => ~w.done
        BY <1>1 DEF IInv, BeatInv, WIdle
      <4> QED
        BY <1>1, <3>1, <4>1, <4>2 DEF IInv, BeatInv
    <3>4. asked = wr_burst_time
      BY <1>1, <3>2 DEF IInv, AddressInv
    <3>5. written = Beats
      BY <1>1, <3>3 DEF IInv, BeatInv
    <3> QED
      BY <3>4, <3>5, WholeBursts
  <2>4. feature # "none" \/ w.state # "IDLE" => \A b \in 0 .. 3 : wea[b] = <<>>
    <3> SUFFICES ASSUME feature # "none" \/ w.state # "IDLE"
                 PROVE  \A b \in 0 .. 3 : wea[b] = <<>>
      OBVIOUS
    <3>1. r.state = "IDLE"
      BY <1>1, Stages
    <3> QED
      BY <1>1, <3>1 DEF IInv, RowInv
  <2> QED
    BY <2>1, <2>2, <2>3, <2>4, Zenon DEF FeaturesInPlace
<1>2. IInv => FeaturesInPlace
  BY <1>1
<1> QED
  BY <1>2, Invariant, PTL

\* The two halves of the read channel agree on the beats of a block: no request crosses
\* a page, and when both have ended no beat is left that was asked for and not taken
\* (hog_trans.v:799-1010, 1016-1561).
THEOREM BurstsAreMatched ==
  Spec => []BurstsMatchBeats
<1>1. ASSUME IInv PROVE BurstsMatchBeats
  <2>t. Typing /\ ar \in ArType /\ blk \in Blocks
    BY <1>1 DEF IInv, Typing, ArType
  <2>0. BEAT \in Nat /\ BEAT > 0 /\ BURST \in Nat /\ BURST > 0
    BY Sizes
  <2>1. ar.state = "IDLE" => ~ar.valid /\ ~ar.done
    BY <1>1 DEF IInv, RequestInv, ArIdle
  <2>2. ar.state \notin {"IDLE", "DONE"} => Requesting(blk, ar)
    BY <1>1 DEF IInv, RequestInv
  <2>3. ASSUME ar.valid PROVE (ar.addr % PAGE) \div BEAT + ar.len < BURST
    <3>1. Requesting(blk, ar)
      BY <1>1, <2>1, <2>2, <2>3 DEF IInv, RequestInv
    <3>2. PICK a \in Int, l \in Int : a = ar.addr /\ l = ar.len
      BY <2>t, ArNumbers
    <3>3. PICK p \in Int, u \in 0 .. BURST - 1, e \in 0 .. BEAT - 1 :
             /\ a = p * PAGE + u * BEAT + e
             /\ a \div PAGE = p /\ a % PAGE = u * BEAT + e
             /\ a \div BEAT = p * BURST + u /\ a % BEAT = e
             /\ (a % PAGE) \div BEAT = u
      BY PageParts, Zenon
    <3>4. PICK t \in Int : t = p * BURST /\ (p + 1) * BURST = t + BURST
      BY PageOfBeats
    <3>5. NextBeat(ar) = t + u + l + 1
      BY <3>2, <3>3, <3>4 DEF NextBeat
    <3>6. EndOfPage(ar.addr) = t + BURST
      BY <3>2, <3>3, <3>4 DEF EndOfPage
    <3>7. NextBeat(ar) <= EndOfPage(ar.addr)
      <4>1. \/ ar.col_remain = 0 /\ NextBeat(ar) <= EndOfPage(ar.addr)
            \/ NextBeat(ar) = EndOfPage(ar.addr)
        BY <3>1, Zenon DEF Requesting
      <4> QED
        BY <2>0, <3>4, <3>6, <4>1
    <3>8. u + l < BURST
      BY <2>0, <3>3, <3>4, <3>5, <3>6, <3>7
    <3> QED
      BY <3>2, <3>3, <3>8
  <2>4. ASSUME rd_done PROVE bursts = <<>>
    <3>1. ar.done /\ r.done
      BY <2>4 DEF rd_done
    <3>2. ar.state = "DONE"
      BY <2>1, <2>2, <3>1 DEF Requesting
    <3>3. r.state = "END"
      BY <1>1, <3>1 DEF IInv, TakingInv
    <3>4. Leads(blk, bursts, rbeat, RPlace(blk, r), ArPlace(blk, ar))
      BY <1>1, <3>2, <3>3 DEF IInv, TakingInv
    <3>5. r.row_count = blk.x
      BY <1>1, <3>3 DEF IInv, RowInv
    <3>6. RPlace(blk, r) = <<blk.x, Row(blk, blk.x) \div BEAT>>
      BY <3>5, Zenon DEF RPlace
    <3>7. bursts \in Seq(Burst) /\ rbeat \in Int
      BY <2>t DEF Typing, Burst
    <3> QED
      BY <2>t, <3>4, <3>6, <3>7, NotPast
  <2> QED
    BY <2>3, <2>4 DEF BurstsMatchBeats
<1>2. IInv => BurstsMatchBeats
  BY <1>1
<1> QED
  BY <1>2, Invariant, PTL

-----------------------------------------------------------------------------
(* The bytes of the block.                                                 *)

\* Where byte j of row i lies.
Half(b) == b.y \div 2
Bank(i, j) == 2 * (i % 2) + (j % 2)
PlaceIn(b, i, j) == (i \div 2) * Half(b) + j \div 2

Holds(b, A, i, j) ==
    /\ PlaceIn(b, i, j) < Len(A[Bank(i, j)])
    /\ A[Bank(i, j)][PlaceIn(b, i, j) + 1] = Row(b, i) + j

\* The banks A hold the rows before row i, c bytes of that row, and nothing else.
Lengths(b, A, i, c) ==
    \A e \in 0 .. 1 :
      /\ Len(A[2 * (i % 2) + e]) = (i \div 2) * Half(b) + (c + 1 - e) \div 2
      /\ Len(A[2 * ((i + 1) % 2) + e]) = ((i + 1) \div 2) * Half(b)

Stored(b, A, i, c) ==
    /\ Lengths(b, A, i, c)
    /\ \A m \in 0 .. i, n \in 0 .. b.y - 1 : m < i \/ n < c => Holds(b, A, m, n)

FourBanks == [0 .. 3 -> Seq(Int)]

Extends(A, B) ==
    \A k \in 0 .. 3 : /\ Len(A[k]) <= Len(B[k])
                      /\ \A p \in 1 .. Len(A[k]) : B[k][p] = A[k][p]

Grow(A, k, v) == [a \in 0 .. 3 |-> IF a = k THEN A[a] \o <<v>> ELSE A[a]]

LEMMA Halves ==
  ASSUME NEW n \in Nat
  PROVE  /\ n \div 2 \in Nat /\ n % 2 \in 0 .. 1 /\ n = 2 * (n \div 2) + (n % 2)
         /\ (n + 1) \div 2 = IF n % 2 = 1 THEN n \div 2 + 1 ELSE n \div 2
         /\ (n + 1) % 2 = 1 - (n % 2)
         /\ (n + 2) \div 2 = n \div 2 + 1 /\ (n + 2) % 2 = n % 2
<1>1. n \div 2 \in Nat /\ n % 2 \in 0 .. 1 /\ n = 2 * (n \div 2) + (n % 2)
  <2>1. n \div 2 \in Nat
    OBVIOUS
  <2>2. n % 2 \in 0 .. 1
    OBVIOUS
  <2>3. n = 2 * (n \div 2) + (n % 2)
    OBVIOUS
  <2> QED
    BY <2>1, <2>2, <2>3
<1>2. (n + 1) \div 2 = IF n % 2 = 1 THEN n \div 2 + 1 ELSE n \div 2
  OBVIOUS
<1>3. (n + 1) % 2 = 1 - (n % 2)
  OBVIOUS
<1>4. (n + 2) \div 2 = n \div 2 + 1
  OBVIOUS
<1>5. (n + 2) % 2 = n % 2
  OBVIOUS
<1> QED
  BY <1>1, <1>2, <1>3, <1>4, <1>5

LEMMA GrowFacts ==
  ASSUME NEW A \in FourBanks, NEW k \in 0 .. 3, NEW v \in Int
  PROVE  /\ Grow(A, k, v) \in FourBanks
         /\ Len(Grow(A, k, v)[k]) = Len(A[k]) + 1
         /\ Grow(A, k, v)[k][Len(A[k]) + 1] = v
         /\ \A a \in 0 .. 3 : a # k => Grow(A, k, v)[a] = A[a]
         /\ Extends(A, Grow(A, k, v))
<1>1. \A a \in 0 .. 3 : A[a] \in Seq(Int)
  BY DEF FourBanks
<1>2. PICK s \in Seq(Int), n \in Nat : s = A[k] /\ n = Len(s)
  BY <1>1, LenProperties
<1>3. <<v>> \in Seq(Int) /\ Len(<<v>>) = 1 /\ <<v>>[1] = v
  OBVIOUS
<1>4. PICK z : z = s \o <<v>>
  OBVIOUS
<1>5. /\ z \in Seq(Int) /\ Len(z) = n + 1
      /\ z[n + 1] = v
      /\ \A p \in 1 .. n : z[p] = s[p]
  <2>1. /\ z \in Seq(Int) /\ Len(z) = n + 1
        /\ \A p \in 1 .. n + 1 : z[p] = IF p <= n THEN s[p] ELSE <<v>>[p - n]
    BY <1>2, <1>3, <1>4, ConcatProperties
  <2>2. (n + 1) - n = 1 /\ ~(n + 1 <= n) /\ n + 1 \in 1 .. n + 1
    OBVIOUS
  <2>3. z[n + 1] = v
    BY <1>3, <2>1, <2>2
  <2>4. \A p \in 1 .. n : z[p] = s[p]
    BY <2>1
  <2> QED
    BY <2>1, <2>3, <2>4
<1>6. PICK G : G = Grow(A, k, v)
  OBVIOUS
<1>7. /\ G \in FourBanks /\ G[k] = z
      /\ \A a \in 0 .. 3 : a # k => G[a] = A[a]
  BY <1>1, <1>2, <1>4, <1>5, <1>6 DEF Grow, FourBanks
<1>8. Extends(A, G)
  <2> SUFFICES ASSUME NEW a \in 0 .. 3
               PROVE  /\ Len(A[a]) <= Len(G[a])
                      /\ \A p \in 1 .. Len(A[a]) : G[a][p] = A[a][p]
    BY DEF Extends
  <2>1. CASE a = k
    BY <2>1, <1>2, <1>5, <1>7
  <2>2. CASE a # k
    <3>1. Len(A[a]) \in Nat
      BY <1>1, LenProperties
    <3> QED
      BY <2>2, <3>1, <1>7
  <2> QED
    BY <2>1, <2>2
<1> QED
  BY <1>2, <1>5, <1>6, <1>7, <1>8

LEMMA BlockShape ==
  ASSUME NEW b \in Blocks
  PROVE  /\ b.x \in Nat /\ b.x > 1 /\ b.y \in Nat /\ b.y > 0 /\ b.y % 2 = 0
         /\ Half(b) \in Nat /\ b.y = 2 * Half(b)
<1>1. b.x \in Nat /\ b.x > 1 /\ b.y \in Nat /\ b.y > 0 /\ b.y % 2 = 0
  BY BlockAssumption
<1> QED
  BY <1>1, Halves DEF Half

LEMMA PlaceFacts ==
  ASSUME NEW b \in Blocks, NEW i \in Nat, NEW j \in Nat
  PROVE  Bank(i, j) \in 0 .. 3 /\ PlaceIn(b, i, j) \in Nat /\ Row(b, i) + j \in Int
<1>1. Half(b) \in Nat
  BY BlockShape
<1>2. /\ i \div 2 \in Nat /\ i % 2 \in 0 .. 1 /\ j \div 2 \in Nat /\ j % 2 \in 0 .. 1
  BY Halves
<1>3. (i \div 2) * Half(b) \in Nat
  BY <1>1, <1>2
<1>4. Row(b, i) \in Int
  BY RowNumbers
<1> QED
  BY <1>2, <1>3, <1>4 DEF Bank, PlaceIn

LEMMA HoldsKept ==
  ASSUME NEW b \in Blocks, NEW A \in FourBanks, NEW B \in FourBanks, Extends(A, B),
         NEW i \in Nat, NEW j \in Nat, Holds(b, A, i, j)
  PROVE  Holds(b, B, i, j)
<1>1. PICK k \in 0 .. 3, p \in Nat : k = Bank(i, j) /\ p = PlaceIn(b, i, j)
  BY PlaceFacts
<1>2. Len(A[k]) \in Nat /\ Len(B[k]) \in Nat
  BY LenProperties DEF FourBanks
<1>3. p < Len(A[k]) /\ A[k][p + 1] = Row(b, i) + j
  BY <1>1 DEF Holds
<1>4. p + 1 \in 1 .. Len(A[k])
  BY <1>2, <1>3
<1>5. Len(A[k]) <= Len(B[k]) /\ B[k][p + 1] = A[k][p + 1]
  BY <1>4 DEF Extends
<1>6. p < Len(B[k])
  BY <1>2, <1>3, <1>5
<1> QED
  BY <1>1, <1>3, <1>5, <1>6 DEF Holds

\* R writes a byte to the end of its bank: there it belongs.
LEMMA StoreByte ==
  ASSUME NEW b \in Blocks, NEW A \in FourBanks, NEW i \in Nat, NEW c \in 0 .. b.y - 1,
         Stored(b, A, i, c)
  PROVE  /\ Stored(b, Grow(A, Bank(i, c), Row(b, i) + c), i, c + 1)
         /\ Grow(A, Bank(i, c), Row(b, i) + c) \in FourBanks
         /\ Extends(A, Grow(A, Bank(i, c), Row(b, i) + c))
<1>0. c \in Nat /\ b.y \in Nat
  BY BlockShape
<1>1. PICK k \in 0 .. 3, p \in Nat, v \in Int :
         k = Bank(i, c) /\ p = PlaceIn(b, i, c) /\ v = Row(b, i) + c
  BY <1>0, PlaceFacts
<1>2. PICK B : B = Grow(A, k, v)
  OBVIOUS
<1>3. /\ B \in FourBanks /\ Len(B[k]) = Len(A[k]) + 1 /\ B[k][Len(A[k]) + 1] = v
      /\ \A a \in 0 .. 3 : a # k => B[a] = A[a]
      /\ Extends(A, B)
  <2>1. k \in 0 .. 3 /\ v \in Int
    BY <1>1
  <2>2. /\ Grow(A, k, v) \in FourBanks
        /\ Len(Grow(A, k, v)[k]) = Len(A[k]) + 1
        /\ Grow(A, k, v)[k][Len(A[k]) + 1] = v
        /\ \A a \in 0 .. 3 : a # k => Grow(A, k, v)[a] = A[a]
        /\ Extends(A, Grow(A, k, v))
    BY <2>1, GrowFacts
  <2> QED
    BY <1>2, <2>2, Zenon
<1>4. PICK h \in Nat, g \in 0 .. 1, u \in Nat, e \in 0 .. 1, w1 \in Nat, w2 \in Nat :
         /\ h = i \div 2 /\ g = i % 2 /\ u = c \div 2 /\ e = c % 2 /\ c = 2 * u + e
         /\ (i + 1) % 2 = 1 - g
         /\ w1 = h * Half(b) /\ w2 = ((i + 1) \div 2) * Half(b)
  <2>1. Half(b) \in Nat
    BY BlockShape
  <2>2. /\ i \div 2 \in Nat /\ i % 2 \in 0 .. 1 /\ (i + 1) % 2 = 1 - (i % 2)
        /\ (i + 1) \div 2 \in Nat
    BY Halves
  <2>3. c \div 2 \in Nat /\ c % 2 \in 0 .. 1 /\ c = 2 * (c \div 2) + (c % 2)
    BY <1>0, Halves
  <2>4. (i \div 2) * Half(b) \in Nat /\ ((i + 1) \div 2) * Half(b) \in Nat
    BY <2>1, <2>2
  <2> QED
    BY <2>2, <2>3, <2>4
<1>5. \A f \in 0 .. 1 : Len(A[2 * g + f]) = w1 + (c + 1 - f) \div 2
                        /\ Len(A[2 * (1 - g) + f]) = w2
  BY <1>4 DEF Stored, Lengths
<1>6. k = 2 * g + e /\ p = w1 + u
  BY <1>1, <1>4 DEF Bank, PlaceIn
<1>7. Len(A[k]) = p
  <2>1. (c + 1 - e) \div 2 = u
    BY <1>4
  <2> QED
    BY <1>5, <1>6, <2>1
<1>8. Lengths(b, B, i, c + 1)
  <2>1. ASSUME NEW f \in 0 .. 1
        PROVE  Len(B[2 * g + f]) = w1 + (c + 1 + 1 - f) \div 2 /\ Len(B[2 * (1 - g) + f]) = w2
    <3>1. 2 * (1 - g) + f \in 0 .. 3 /\ 2 * (1 - g) + f # k /\ 2 * g + f \in 0 .. 3
      BY <1>6
    <3>2. CASE f = e
      <4>1. (c + 1 + 1 - e) \div 2 = u + 1
        BY <1>4
      <4>2. Len(B[2 * g + f]) = w1 + u + 1
        BY <1>3, <1>6, <1>7, <3>2
      <4>3. Len(B[2 * (1 - g) + f]) = w2
        BY <1>3, <1>5, <3>1
      <4>4. w1 + u + 1 = w1 + (u + 1)
        OBVIOUS
      <4> QED
        BY <3>2, <4>1, <4>2, <4>3, <4>4
    <3>3. CASE f # e
      <4>1. 2 * g + f # k
        BY <1>6, <3>3
      <4>2. (c + 1 + 1 - f) \div 2 = (c + 1 - f) \div 2
        BY <1>4, <3>3
      <4> QED
        BY <1>3, <1>5, <3>1, <4>1, <4>2
    <3> QED
      BY <3>2, <3>3
  <2> QED
    BY <1>4, <2>1 DEF Lengths
<1>9. Holds(b, B, i, c)
  BY <1>0, <1>1, <1>3, <1>7 DEF Holds
<1>10. ASSUME NEW m \in 0 .. i, NEW n \in 0 .. b.y - 1, m < i \/ n < c + 1
       PROVE  Holds(b, B, m, n)
  <2>1. CASE m < i \/ n < c
    <3>1. Holds(b, A, m, n)
      BY <2>1 DEF Stored
    <3>2. m \in Nat /\ n \in Nat
      BY <1>0
    <3> QED
      BY <3>1, <3>2, <1>3, HoldsKept
  <2>2. CASE ~(m < i \/ n < c)
    <3>1. m = i /\ n = c
      BY <1>0, <1>10, <2>2
    <3> QED
      BY <3>1, <1>9
  <2> QED
    BY <2>1, <2>2
<1>11. Stored(b, B, i, c + 1)
  BY <1>8, <1>10 DEF Stored
<1> QED
  BY <1>1, <1>2, <1>3, <1>11

\* A row that is complete.
LEMMA RowSwitch ==
  ASSUME NEW b \in Blocks, NEW A, NEW i \in Nat, Stored(b, A, i, b.y)
  PROVE  Stored(b, A, i + 1, 0)
<1>0. PICK H \in Nat, y \in Nat : H = Half(b) /\ y = b.y /\ y = 2 * H
  BY BlockShape
<1>1. PICK h \in Nat, g \in 0 .. 1, d \in Nat : 
         /\ h = i \div 2 /\ g = i % 2 /\ (i + 1) % 2 = 1 - g /\ d = (i + 1) \div 2
         /\ (i + 1 + 1) \div 2 = h + 1 /\ (i + 1 + 1) % 2 = g
  <2>1. i + 1 + 1 = i + 2
    OBVIOUS
  <2>2. /\ i \div 2 \in Nat /\ i % 2 \in 0 .. 1 /\ (i + 1) % 2 = 1 - (i % 2)
        /\ (i + 1) \div 2 \in Nat /\ (i + 2) \div 2 = i \div 2 + 1 /\ (i + 2) % 2 = i % 2
    BY Halves
  <2> QED
    BY <2>1, <2>2
<1>2. \A f \in 0 .. 1 : Len(A[2 * g + f]) = h * H + (y + 1 - f) \div 2
                        /\ Len(A[2 * (1 - g) + f]) = d * H
  BY <1>0, <1>1 DEF Stored, Lengths
<1>3. ASSUME NEW f \in 0 .. 1
      PROVE  Len(A[2 * (1 - g) + f]) = d * H + (0 + 1 - f) \div 2
             /\ Len(A[2 * g + f]) = (h + 1) * H
  <2>1. (0 + 1 - f) \div 2 = 0 /\ (y + 1 - f) \div 2 = H
    BY <1>0
  <2>2. PICK p \in Int, q \in Int : p = h * H /\ q = d * H /\ (h + 1) * H = p + H
    <3>1. h * H \in Int /\ d * H \in Int /\ (h + 1) * H = h * H + H
      BY <1>0, <1>1
    <3> QED
      BY <3>1
  <2>3. /\ Len(A[2 * g + f]) = h * H + (y + 1 - f) \div 2
        /\ Len(A[2 * (1 - g) + f]) = d * H
    BY <1>2
  <2>4. Len(A[2 * g + f]) = p + H
    BY <2>1, <2>2, <2>3
  <2>5. Len(A[2 * (1 - g) + f]) = q + (0 + 1 - f) \div 2
    BY <2>1, <2>2, <2>3
  <2> QED
    BY <2>2, <2>4, <2>5
<1>4. Lengths(b, A, i + 1, 0)
  BY <1>0, <1>1, <1>3 DEF Lengths
<1>5. ASSUME NEW m \in 0 .. i + 1, NEW n \in 0 .. b.y - 1, m < i + 1 \/ n < 0
      PROVE  Holds(b, A, m, n)
  <2>1. m \in 0 .. i /\ n < b.y
    BY <1>0, <1>5
  <2> QED
    BY <2>1 DEF Stored
<1> QED
  BY <1>4, <1>5 DEF Stored

LEMMA NothingStored ==
  ASSUME NEW b \in Blocks, NEW A \in FourBanks, \A k \in 0 .. 3 : A[k] = <<>>
  PROVE  Stored(b, A, 0, 0)
<1>1. Half(b) \in Nat
  BY BlockShape
<1>2. ASSUME NEW e \in 0 .. 1
      PROVE  /\ Len(A[2 * (0 % 2) + e]) = (0 \div 2) * Half(b) + (0 + 1 - e) \div 2
             /\ Len(A[2 * ((0 + 1) % 2) + e]) = ((0 + 1) \div 2) * Half(b)
  <2>1. 2 * (0 % 2) + e \in 0 .. 3 /\ 2 * ((0 + 1) % 2) + e \in 0 .. 3
    OBVIOUS
  <2>2. Len(A[2 * (0 % 2) + e]) = 0 /\ Len(A[2 * ((0 + 1) % 2) + e]) = 0
    BY <2>1, EmptySeq
  <2>3. 0 \div 2 = 0 /\ (0 + 1) \div 2 = 0 /\ (0 + 1 - e) \div 2 = 0
    OBVIOUS
  <2>4. 0 * Half(b) = 0
    BY <1>1
  <2> QED
    BY <2>2, <2>3, <2>4
<1>3. \A m \in 0 .. 0, n \in 0 .. b.y - 1 : ~(m < 0 \/ n < 0)
  BY BlockShape
<1> QED
  BY <1>2, <1>3 DEF Stored, Lengths

\* What was written, with what is written at this edge.
StoredBanks == [k \in 0 .. 3 |-> banks[k] \o wea[k]]

\* The byte of its row that R writes next.
Column(b, q) == IF q.row_count = b.x THEN 0 ELSE b.y - q.byte_count - q.col_remain

\* R knows the address of byte c, and the bank it belongs to.
AtByte(b, q, c) ==
    /\ \A p \in 1 .. 2 : q.flag[p] = IF p = (q.row_count % 2) + 1 THEN c % 2 ELSE 0
    /\ q.row_count # b.x =>
         /\ c \in 0 .. b.y - 1 /\ q.byte_count > 0
         /\ IF q.ready THEN q.byte_en = (Row(b, q.row_count) + c) % BEAT
            ELSE q.data + q.byte_en = Row(b, q.row_count) + c

BankTyping == banks \in FourBanks /\ wea \in FourBanks

BytesInv ==
    r.state # "IDLE" => /\ AtByte(blk, r, Column(blk, r))
                        /\ Stored(blk, StoredBanks, r.row_count, Column(blk, r))

\* The bytes that are written at an edge.
TwoBytes(k, l, v) ==
    [a \in 0 .. 3 |-> IF a = k THEN <<v>> ELSE IF a = l THEN <<v + 1>> ELSE <<>>]
OneByte(k, v) == [a \in 0 .. 3 |-> IF a = k THEN <<v>> ELSE <<>>]

LEMMA WeaMoves ==
  ASSUME NEW rvalid \in BOOLEAN, ReadData(rvalid)
  PROVE  /\ r_nstate(rvalid) \in {"IDLE", "WAIT", "END"} =>
              wea' = [a \in 0 .. 3 |-> <<>>]
         /\ r_nstate(rvalid) \in {"PAIR", "LAST_PAIR"} =>
              wea' = TwoBytes(2 * pair + turn, 2 * pair + 1 - turn,
                              Taken(rvalid).data + r.byte_en)
         /\ r_nstate(rvalid) = "LAST_ONE" =>
              wea' = OneByte(2 * pair + turn, Taken(rvalid).data + r.byte_en)
<1>n. PICK n : n = r_nstate(rvalid)
  OBVIOUS
<1>1. PICK v, w0, k, l : /\ v = Taken(rvalid).data + r.byte_en /\ k = 2 * pair + turn
                         /\ l = 2 * pair + 1 - turn /\ w0 = v + 1
  OBVIOUS
<1>2. wea' = [a \in 0 .. 3 |->
                IF a = k /\ n \in {"PAIR", "LAST_PAIR", "LAST_ONE"} THEN <<v>>
                ELSE IF a = l /\ n \in {"PAIR", "LAST_PAIR"} THEN <<w0>> ELSE <<>>]
  <2>1. wea' = [a \in 0 .. 3 |->
                  IF a = 2 * pair + turn
                     /\ r_nstate(rvalid) \in {"PAIR", "LAST_PAIR", "LAST_ONE"}
                  THEN <<Taken(rvalid).data + r.byte_en>>
                  ELSE IF a = 2 * pair + 1 - turn /\ r_nstate(rvalid) \in {"PAIR", "LAST_PAIR"}
                  THEN <<Taken(rvalid).data + r.byte_en + 1>> ELSE <<>>]
    BY Zenon DEF ReadData, Taken
  <2> QED
    BY <1>n, <1>1, <2>1, Zenon
<1>3. ASSUME n \in {"IDLE", "WAIT", "END"} PROVE wea' = [a \in 0 .. 3 |-> <<>>]
  BY <1>2, <1>3
<1>4. ASSUME n \in {"PAIR", "LAST_PAIR"} PROVE wea' = TwoBytes(k, l, v)
  BY <1>1, <1>2, <1>4 DEF TwoBytes
<1>5. ASSUME n = "LAST_ONE" PROVE wea' = OneByte(k, v)
  BY <1>1, <1>2, <1>5 DEF OneByte
<1> QED
  BY <1>n, <1>1, <1>3, <1>4, <1>5

LEMMA BanksMove ==
  ASSUME BankTyping, Banks, wea' \in FourBanks
  PROVE  /\ BankTyping' /\ StoredBanks \in FourBanks /\ StoredBanks' \in FourBanks
         /\ r.state = "IDLE" => \A a \in 0 .. 3 : StoredBanks'[a] = wea'[a]
         /\ r.state # "IDLE" => banks' = StoredBanks
         /\ r.state # "IDLE" => \A a \in 0 .. 3 : StoredBanks'[a] = StoredBanks[a] \o wea'[a]
<1>1. \A a \in 0 .. 3 : banks[a] \in Seq(Int) /\ wea[a] \in Seq(Int) /\ wea'[a] \in Seq(Int)
  BY DEF BankTyping, FourBanks
<1>2. StoredBanks \in FourBanks
  <2>1. \A a \in 0 .. 3 : banks[a] \o wea[a] \in Seq(Int)
    BY <1>1, ConcatProperties
  <2> QED
    BY <2>1 DEF StoredBanks, FourBanks
<1>3. \A a \in 0 .. 3 : StoredBanks'[a] = banks'[a] \o wea'[a]
  BY DEF StoredBanks
<1>4. StoredBanks' = [a \in 0 .. 3 |-> StoredBanks'[a]]
  BY DEF StoredBanks
<1>5. CASE r.state = "IDLE"
  <2>1. banks' = [a \in 0 .. 3 |-> <<>>]
    BY <1>5 DEF Banks
  <2>2. banks' \in FourBanks
    BY <2>1, EmptySeq DEF FourBanks
  <2>3. \A a \in 0 .. 3 : StoredBanks'[a] = wea'[a]
    <3> SUFFICES ASSUME NEW a \in 0 .. 3 PROVE StoredBanks'[a] = wea'[a]
      OBVIOUS
    <3>1. StoredBanks'[a] = <<>> \o wea'[a]
      BY <1>3, <2>1
    <3> QED
      BY <1>1, <3>1, ConcatEmptySeq
  <2>4. StoredBanks' \in FourBanks
    BY <1>1, <1>4, <2>3 DEF FourBanks
  <2> QED
    BY <1>2, <1>5, <2>2, <2>3, <2>4 DEF BankTyping
<1>6. CASE r.state # "IDLE"
  <2>1. banks' = StoredBanks
    BY <1>6 DEF Banks, StoredBanks
  <2>2. \A a \in 0 .. 3 : StoredBanks'[a] = StoredBanks[a] \o wea'[a]
    BY <1>3, <2>1
  <2>3. \A a \in 0 .. 3 : StoredBanks'[a] \in Seq(Int)
    <3>1. \A a \in 0 .. 3 : StoredBanks[a] \in Seq(Int)
      BY <1>2 DEF FourBanks
    <3> QED
      BY <1>1, <2>2, <3>1, ConcatProperties
  <2>4. StoredBanks' \in FourBanks
    BY <1>4, <2>3 DEF FourBanks
  <2> QED
    BY <1>2, <1>6, <2>1, <2>2, <2>4 DEF BankTyping
<1> QED
  BY <1>5, <1>6

Written(A, B, bytes) == \A a \in 0 .. 3 : B[a] = A[a] \o bytes[a]

\* Bytes written to two banks are written one after the other.
LEMMA TwoWrites ==
  ASSUME NEW A \in FourBanks, NEW B \in FourBanks, NEW k \in 0 .. 3, NEW l \in 0 .. 3,
         k # l, NEW v \in Int,
         Written(A, B, TwoBytes(k, l, v))
  PROVE  B = Grow(Grow(A, k, v), l, v + 1)
<1>1. PICK u \in Int : u = v + 1
  OBVIOUS
<1>2. PICK G : G = Grow(A, k, v)
  OBVIOUS
<1>3. \A a \in 0 .. 3 : G[a] = IF a = k THEN A[a] \o <<v>> ELSE A[a]
  BY <1>2 DEF Grow
<1>4. ASSUME NEW a \in 0 .. 3 PROVE B[a] = IF a = l THEN G[a] \o <<u>> ELSE G[a]
  <2>1. A[a] \in Seq(Int)
    BY DEF FourBanks
  <2>2. B[a] = A[a] \o (IF a = k THEN <<v>> ELSE IF a = l THEN <<u>> ELSE <<>>)
    BY <1>1 DEF TwoBytes, Written
  <2>3. CASE a = k
    BY <2>2, <2>3, <1>3
  <2>4. CASE a = l
    BY <2>2, <2>4, <1>3
  <2>5. CASE a # k /\ a # l
    <3>1. B[a] = A[a] \o <<>>
      BY <2>2, <2>5
    <3>2. B[a] = A[a]
      BY <2>1, <3>1, ConcatEmptySeq
    <3> QED
      BY <2>5, <3>2, <1>3
  <2> QED
    BY <2>3, <2>4, <2>5
<1>5. B = [a \in 0 .. 3 |-> IF a = l THEN G[a] \o <<u>> ELSE G[a]]
  BY <1>4 DEF FourBanks
<1> QED
  BY <1>1, <1>2, <1>5 DEF Grow

LEMMA OneWrite ==
  ASSUME NEW A \in FourBanks, NEW B \in FourBanks, NEW k \in 0 .. 3, NEW v \in Int,
         Written(A, B, OneByte(k, v))
  PROVE  B = Grow(A, k, v)
<1>1. ASSUME NEW a \in 0 .. 3 PROVE B[a] = IF a = k THEN A[a] \o <<v>> ELSE A[a]
  <2>1. A[a] \in Seq(Int)
    BY DEF FourBanks
  <2>2. B[a] = A[a] \o (IF a = k THEN <<v>> ELSE <<>>)
    BY DEF OneByte, Written
  <2>3. CASE a = k
    BY <2>2, <2>3
  <2>4. CASE a # k
    BY <2>1, <2>2, <2>4, ConcatEmptySeq
  <2> QED
    BY <2>3, <2>4
<1> QED
  BY <1>1 DEF FourBanks, Grow

LEMMA WritesTyping ==
  ASSUME NEW k, NEW l, NEW v \in Int
  PROVE  /\ TwoBytes(k, l, v) \in FourBanks /\ OneByte(k, v) \in FourBanks
         /\ [a \in 0 .. 3 |-> <<>>] \in FourBanks
<1>1. <<v>> \in Seq(Int) /\ <<v + 1>> \in Seq(Int) /\ <<>> \in Seq(Int)
  OBVIOUS
<1> QED
  BY <1>1 DEF FourBanks, TwoBytes, OneByte

\* The beat that is offered to R holds the byte of R's column.
LEMMA BeatOffered ==
  ASSUME IInv, BytesInv, r.state # "IDLE", r.ready, r.row_count < blk.x, bursts # <<>>
  PROVE  beat + r.byte_en = Row(blk, r.row_count) + Column(blk, r)
<1>t. /\ Typing /\ blk \in Blocks /\ r \in RType /\ bursts \in Seq(Burst) /\ rbeat \in Int
      /\ r.row_count \in Int /\ r.byte_count \in Int /\ r.col_remain \in Int /\ blk.x \in Int
      /\ blk.y \in Int
  <2>1. /\ Typing /\ blk \in Blocks /\ r \in RType /\ bursts \in Seq(Burst) /\ rbeat \in Int
    BY DEF IInv, Typing, RType, Flags, Burst
  <2>2. blk.x \in Int /\ blk.y \in Int
    BY <2>1, BlockFacts
  <2> QED
    BY <2>1, <2>2 DEF RType
<1>1. PICK i \in Int, c \in Int, n \in Int, m \in Int, o \in Int, y \in Int :
         /\ i = r.row_count /\ n = r.byte_count /\ m = r.col_remain
         /\ c = y - n - m /\ c = Column(blk, r) /\ i # blk.x
         /\ o = Row(blk, i) /\ y = blk.y
  <2>1. PICK i \in Int, n \in Int, m \in Int :
           i = r.row_count /\ n = r.byte_count /\ m = r.col_remain /\ i # blk.x
    BY <1>t
  <2>2. Column(blk, r) = blk.y - n - m
    BY <2>1 DEF Column
  <2>3. Row(blk, i) \in Int
    BY <1>t, RowNumbers
  <2>y. PICK y \in Int : y = blk.y
    BY <1>t
  <2>4. PICK c \in Int : c = y - n - m
    OBVIOUS
  <2>5. c = Column(blk, r)
    BY <2>2, <2>y, <2>4
  <2> QED
    BY <2>1, <2>3, <2>y, <2>4, <2>5
<1>2. r.byte_en = (o + c) % BEAT /\ n > 0
  BY <1>1 DEF BytesInv, AtByte
<1>3. m >= 0
  BY <1>1 DEF IInv, TakingInv, Taking
<1>4. RPlace(blk, r) = <<i, (o + c) \div BEAT>>
  <2>1. Rest(r) = n + m /\ n + m > 0
    BY <1>1, <1>2, <1>3 DEF Rest
  <2>2. RPlace(blk, r) = <<i, (Row(blk, i) + blk.y - Rest(r)) \div BEAT>>
    BY <1>1, <2>1, Zenon DEF RPlace
  <2>3. Row(blk, i) + blk.y - Rest(r) = o + c
    <3>1. o + y - (n + m) = o + c
      BY <1>1
    <3> QED
      BY <1>1, <2>1, <3>1
  <2> QED
    BY <2>2, <2>3
<1>5. Leads(blk, bursts, rbeat, RPlace(blk, r), ArPlace(blk, ar))
  BY DEF IInv, TakingInv, RequestInv
<1>6. (o + c) \div BEAT = FirstBeat(bursts[1]) + rbeat
  <2>1. \E row : RPlace(blk, r) = <<row[1], FirstBeat(bursts[1]) + rbeat>>
    BY <1>5, Zenon DEF Leads
  <2> QED
    BY <1>4, <2>1
<1>7. beat = ((o + c) \div BEAT) * BEAT
  BY <1>6 DEF beat, FirstBeat
<1>8. BEAT \in Nat /\ BEAT > 0
  BY Sizes
<1>9. PICK s \in Int : s = o + c
  OBVIOUS
<1>10. s = (s \div BEAT) * BEAT + (s % BEAT)
  BY <1>8
<1>11. beat + r.byte_en = s
  BY <1>2, <1>7, <1>9, <1>10
<1> QED
  BY <1>1, <1>9, <1>11

\* R writes n of the bytes that are left of its row, from byte c of row i; m bytes of the
\* row are not in its beat.
AtWork(rvalid, i, c, n, m) ==
    /\ i = r.row_count /\ i < blk.x /\ n = r.byte_count /\ m = r.col_remain
    /\ c = Column(blk, r) /\ c + n + m = blk.y /\ n > 0
    /\ r_nstate(rvalid) = "PAIR" => n > 2
    /\ r_nstate(rvalid) = "LAST_PAIR" => n = 2
    /\ r_nstate(rvalid) = "LAST_ONE" => n = 1

LEMMA ByteWritten ==
  ASSUME IInv, BytesInv, NEW rvalid \in BOOLEAN, rvalid => r.ready /\ bursts # <<>>,
         r_nstate(rvalid) \in {"PAIR", "LAST_PAIR", "LAST_ONE"}
  PROVE  /\ r.state # "IDLE"
         /\ \E i \in Nat, c \in Nat, n \in Nat, m \in Nat : AtWork(rvalid, i, c, n, m)
         /\ Taken(rvalid).data + r.byte_en = Row(blk, r.row_count) + Column(blk, r)
<1>t. /\ Typing /\ blk \in Blocks /\ r \in RType /\ r.state \in RStates
      /\ r.row_count \in Int /\ r.byte_count \in Int /\ r.col_remain \in Int
      /\ blk.x \in Nat /\ blk.y \in Nat /\ r.ready \in BOOLEAN
  <2>1. Typing /\ blk \in Blocks /\ r \in RType
    BY DEF IInv, Typing, RType, Flags
  <2> QED
    BY <2>1, BlockFacts DEF RType
<1>1. r.state # "IDLE" /\ r_nstate(rvalid) = Write(r.byte_count)
  BY <1>t, RStateMoves DEF RStates
<1>2. /\ r.row_count \in 0 .. blk.x /\ r.row_count < blk.x /\ Taking(blk, r)
      /\ r_handshake(rvalid) <=> r.ready
  BY <1>1, RowsLeft
<1>3. PICK i \in Nat, y \in Nat, n \in Int, m \in Int :
         i = r.row_count /\ n = r.byte_count /\ m = r.col_remain /\ i < blk.x /\ y = blk.y
  BY <1>t, <1>2
<1>4. PICK c \in Int : c = y - n - m /\ c = Column(blk, r)
  <2>1. i # blk.x
    BY <1>t, <1>3
  <2>2. PICK c \in Int : c = y - n - m
    OBVIOUS
  <2> QED
    BY <1>3, <2>1, <2>2 DEF Column
<1>5. /\ c \in 0 .. blk.y - 1 /\ n > 0
      /\ IF r.ready THEN r.byte_en = (Row(blk, i) + c) % BEAT
         ELSE r.data + r.byte_en = Row(blk, i) + c
  <2>1. AtByte(blk, r, c) /\ r.row_count # blk.x
    BY <1>t, <1>1, <1>3, <1>4 DEF BytesInv
  <2> QED
    BY <1>3, <2>1 DEF AtByte
<1>6. c \in Nat /\ n \in Nat /\ m \in Nat /\ c + n + m = y
  <2>1. m >= 0
    BY <1>2, <1>3 DEF Taking
  <2>2. c \in 0 .. y - 1 /\ n > 0 /\ c = y - n - m
    BY <1>3, <1>4, <1>5
  <2> QED
    BY <2>1, <2>2
<1>7. AtWork(rvalid, i, c, n, m)
  <2>1. /\ r_nstate(rvalid) = "PAIR" => n > 2
        /\ r_nstate(rvalid) = "LAST_PAIR" => n = 2
        /\ r_nstate(rvalid) = "LAST_ONE" => n = 1
    <3>1. /\ Write(n) = "PAIR" <=> n > 2
          /\ Write(n) = "LAST_PAIR" <=> n = 2
      BY WriteFacts
    <3> QED
      BY <1>1, <1>3, <1>5, <3>1
  <2> QED
    BY <1>3, <1>4, <1>5, <1>6, <2>1 DEF AtWork
<1>8. Taken(rvalid).data + r.byte_en = Row(blk, i) + c
  <2>1. r_nstate(rvalid) \in RStates
    BY DEF RStates
  <2>2. Taken(rvalid).data = IF r_handshake(rvalid) THEN beat ELSE r.data
    BY <1>t, <2>1, TakenFacts
  <2>3. CASE r.ready
    <3>1. beat + r.byte_en = Row(blk, i) + c
      <4>1. bursts # <<>>
        BY <1>2, <2>3 DEF r_handshake
      <4> QED
        BY <1>1, <1>2, <1>3, <1>4, <2>3, <4>1, BeatOffered
    <3> QED
      BY <1>2, <2>2, <2>3, <3>1
  <2>4. CASE ~r.ready
    BY <1>2, <1>5, <2>2, <2>4
  <2> QED
    BY <2>3, <2>4
<1>9. \E i0 \in Nat, c0 \in Nat, n0 \in Nat, m0 \in Nat : AtWork(rvalid, i0, c0, n0, m0)
  BY <1>6, <1>7
<1> QED
  BY <1>1, <1>3, <1>4, <1>8, <1>9

LEMMA TurnOfByte ==
  ASSUME NEW rvalid \in BOOLEAN, NEW i \in Nat, NEW c \in Nat, NEW n \in Nat, NEW m \in Nat,
         AtWork(rvalid, i, c, n, m), AtByte(blk, r, c)
  PROVE  /\ pair = i % 2 /\ turn = c % 2
         /\ 2 * pair + turn = Bank(i, c) /\ 2 * pair + 1 - turn = Bank(i, c + 1)
<1>1. i % 2 \in 0 .. 1 /\ c % 2 \in 0 .. 1 /\ (c + 1) % 2 = 1 - (c % 2)
  BY Halves
<1>2. pair = i % 2
  BY DEF AtWork, pair
<1>3. turn = c % 2
  <2>1. (i % 2) + 1 \in 1 .. 2
    BY <1>1
  <2>2. r.flag[(i % 2) + 1] = c % 2
    BY <2>1 DEF AtByte, AtWork
  <2> QED
    BY <1>2, <2>2 DEF turn
<1>4. PICK g \in 0 .. 1, e \in 0 .. 1 : g = i % 2 /\ e = c % 2 /\ (c + 1) % 2 = 1 - e
  BY <1>1
<1>5. 2 * g + 1 - e = 2 * g + (1 - e)
  OBVIOUS
<1> QED
  BY <1>2, <1>3, <1>4, <1>5 DEF Bank

LEMMA BytesStored ==
  ASSUME IInv, BytesInv, BankTyping, NEW rvalid \in BOOLEAN, ReadData(rvalid),
         rvalid => r.ready /\ bursts # <<>>, Banks,
         NEW i \in Nat, NEW c \in Nat, NEW n \in Nat, NEW m \in Nat,
         AtWork(rvalid, i, c, n, m)
  PROVE  /\ r_nstate(rvalid) \in {"PAIR", "LAST_PAIR"} =>
              Stored(blk, StoredBanks', i, c + 2) /\ wea' \in FourBanks
         /\ r_nstate(rvalid) = "LAST_ONE" =>
              Stored(blk, StoredBanks', i, c + 1) /\ wea' \in FourBanks
<1>t. blk \in Blocks /\ blk.y \in Nat
  <2>1. Typing
    BY DEF IInv
  <2> QED
    BY <2>1, BlockFacts DEF Typing
<1>1. SUFFICES ASSUME r_nstate(rvalid) \in {"PAIR", "LAST_PAIR", "LAST_ONE"}
               PROVE  /\ r_nstate(rvalid) \in {"PAIR", "LAST_PAIR"} =>
                           Stored(blk, StoredBanks', i, c + 2) /\ wea' \in FourBanks
                      /\ r_nstate(rvalid) = "LAST_ONE" =>
                           Stored(blk, StoredBanks', i, c + 1) /\ wea' \in FourBanks
  OBVIOUS
<1>2. r.state # "IDLE" /\ Taken(rvalid).data + r.byte_en = Row(blk, i) + c
  BY <1>1, ByteWritten DEF AtWork
<1>3. AtByte(blk, r, c) /\ Stored(blk, StoredBanks, i, c)
  BY <1>2 DEF BytesInv, AtWork
<1>4. 2 * pair + turn = Bank(i, c) /\ 2 * pair + 1 - turn = Bank(i, c + 1)
  BY <1>3, TurnOfByte
<1>5. PICK k \in 0 .. 3, l \in 0 .. 3, v \in Int :
         /\ k = Bank(i, c) /\ l = Bank(i, c + 1) /\ v = Row(blk, i) + c
         /\ v + 1 = Row(blk, i) + (c + 1) /\ k # l
  <2>1. Bank(i, c) \in 0 .. 3 /\ Bank(i, c + 1) \in 0 .. 3
    BY <1>t, PlaceFacts
  <2>2. Row(blk, i) \in Int
    BY <1>t, RowNumbers
  <2>3. Bank(i, c) # Bank(i, c + 1)
    <3>1. c % 2 \in 0 .. 1 /\ (c + 1) % 2 = 1 - (c % 2) /\ i % 2 \in 0 .. 1
      BY Halves
    <3> QED
      BY <3>1 DEF Bank
  <2>4. PICK v \in Int : v = Row(blk, i) + c /\ v + 1 = Row(blk, i) + (c + 1)
    BY <2>2
  <2> QED
    BY <2>1, <2>3, <2>4
<1>6. PICK A, G : A \in FourBanks /\ A = StoredBanks /\ G = Grow(A, k, v)
  <2>1. [a \in 0 .. 3 |-> banks[a] \o wea[a]] \in FourBanks
    <3>1. \A a \in 0 .. 3 : banks[a] \o wea[a] \in Seq(Int)
      BY ConcatProperties DEF BankTyping, FourBanks
    <3> QED
      BY <3>1 DEF FourBanks
  <2> QED
    BY <2>1 DEF StoredBanks
<1>7. c \in 0 .. blk.y - 1 /\ (n > 1 => c + 1 \in 0 .. blk.y - 1)
  <2>1. PICK y \in Nat : y = blk.y
    BY <1>t
  <2>2. c + n + m = y /\ n > 0
    BY <2>1 DEF AtWork
  <2>3. c \in 0 .. y - 1 /\ (n > 1 => c + 1 \in 0 .. y - 1)
    BY <2>2
  <2> QED
    BY <2>1, <2>3
<1>8. Stored(blk, G, i, c + 1) /\ G \in FourBanks
  BY <1>t, <1>3, <1>5, <1>6, <1>7, StoreByte
<1>9. ASSUME r_nstate(rvalid) \in {"PAIR", "LAST_PAIR"}
      PROVE  Stored(blk, StoredBanks', i, c + 2) /\ wea' \in FourBanks
  <2>1. wea' = TwoBytes(k, l, v)
    BY <1>2, <1>4, <1>5, <1>9, WeaMoves
  <2>2. wea' \in FourBanks
    BY <2>1, WritesTyping
  <2>3. StoredBanks' \in FourBanks /\ \A a \in 0 .. 3 : StoredBanks'[a] = A[a] \o wea'[a]
    BY <1>2, <1>6, <2>2, BanksMove
  <2>4. PICK B \in FourBanks : B = StoredBanks'
    BY <2>3
  <2>5. B = Grow(G, l, v + 1)
    <3>1. Written(A, B, TwoBytes(k, l, v))
      BY <2>1, <2>3, <2>4 DEF Written
    <3>2. B = Grow(Grow(A, k, v), l, v + 1)
      BY <1>5, <1>6, <2>4, <3>1, TwoWrites
    <3> QED
      BY <1>6, <3>2
  <2>6. c + 1 \in 0 .. blk.y - 1
    BY <1>7, <1>9 DEF AtWork
  <2>7. Stored(blk, B, i, c + 1 + 1)
    BY <1>t, <1>5, <1>8, <2>5, <2>6, StoreByte
  <2>8. c + 1 + 1 = c + 2
    OBVIOUS
  <2> QED
    BY <2>2, <2>4, <2>7, <2>8
<1>10. ASSUME r_nstate(rvalid) = "LAST_ONE"
       PROVE  Stored(blk, StoredBanks', i, c + 1) /\ wea' \in FourBanks
  <2>1. wea' = OneByte(k, v)
    BY <1>2, <1>4, <1>5, <1>10, WeaMoves
  <2>2. wea' \in FourBanks
    BY <2>1, WritesTyping
  <2>3. StoredBanks' \in FourBanks /\ \A a \in 0 .. 3 : StoredBanks'[a] = A[a] \o wea'[a]
    BY <1>2, <1>6, <2>2, BanksMove
  <2>4. PICK B \in FourBanks : B = StoredBanks'
    BY <2>3
  <2>5. B = G
    <3>1. Written(A, B, OneByte(k, v))
      BY <2>1, <2>3, <2>4 DEF Written
    <3> QED
      BY <1>5, <1>6, <2>4, <3>1, OneWrite
  <2> QED
    BY <1>8, <2>2, <2>4, <2>5
<1> QED
  BY <1>9, <1>10

Bytes(b, q, A) ==
    AtByte(b, q, Column(b, q)) /\ Stored(b, A, q.row_count, Column(b, q))

FlagsAt(q, c) == \A p \in 1 .. 2 : q.flag[p] = IF p = (q.row_count % 2) + 1 THEN c % 2 ELSE 0

\* R at the first byte of a row.
LEMMA RowBytes ==
  ASSUME Typing, NEW q \in RType, NEW i \in Nat, q.row_count = i, i # blk.x,
         FlagsAt(q, 0), NEW A, Stored(blk, A, i, 0)
  PROVE  Bytes(blk, RowBegin(q, Row(blk, i)), A)
<1>1. PICK a \in Int, y \in Nat : a = Row(blk, i) /\ y = blk.y /\ y > 0
  <2>1. blk \in Blocks
    BY DEF Typing
  <2>2. Row(blk, i) \in Int
    BY <2>1, RowNumbers
  <2>3. blk.y \in Nat /\ blk.y > 0
    BY BlockFacts
  <2> QED
    BY <2>2, <2>3
<1>2. PICK s \in RType : s = RowBegin(q, a)
  BY RowBeginFacts
<1>3. PICK n \in Int, m \in Int : n = s.byte_count /\ m = s.col_remain
  BY DEF RType
<1>4. /\ s.ready /\ s.row_count = i /\ s.flag = q.flag /\ s.byte_en = a % BEAT
      /\ FirstCounters(a, y, n, m)
  <2>1. /\ s.ready /\ s.row_count = i /\ s.flag = q.flag /\ s.byte_en = a % BEAT
        /\ n = IF BEAT - (a % BEAT) <= y THEN BEAT - (a % BEAT) ELSE y
        /\ m = IF y + (a % BEAT) - BEAT <= 0 THEN 0 ELSE y + (a % BEAT) - BEAT
    <3>1. /\ RowBegin(q, a).ready /\ RowBegin(q, a).row_count = q.row_count
          /\ RowBegin(q, a).flag = q.flag /\ RowBegin(q, a).byte_en = a % BEAT
          /\ RowBegin(q, a).byte_count =
               IF BEAT - (a % BEAT) <= blk.y THEN BEAT - (a % BEAT) ELSE blk.y
          /\ RowBegin(q, a).col_remain =
               IF blk.y + (a % BEAT) - BEAT <= 0 THEN 0 ELSE blk.y + (a % BEAT) - BEAT
      BY <1>1, RowBeginFacts, Zenon
    <3>2. s.row_count = i
      BY <1>2, <3>1, Zenon
    <3> QED
      BY <1>1, <1>2, <1>3, <3>1, <3>2, Zenon
  <2> QED
    BY <2>1, Zenon DEF FirstCounters
<1>5. n > 0 /\ n + m = y
  <2>1. InBeat(a, y, n, m)
    BY <1>1, <1>3, <1>4, RowOfBeats
  <2> QED
    BY <2>1, Zenon DEF InBeat
<1>6. Column(blk, s) = 0
  <2>1. y - n - m = 0
    BY <1>5
  <2> QED
    BY <1>1, <1>3, <1>4, <2>1 DEF Column
<1>7. AtByte(blk, s, 0)
  <2>1. 0 \in 0 .. blk.y - 1
    BY <1>1
  <2>2. s.byte_en = (Row(blk, i) + 0) % BEAT
    <3>1. a + 0 = a
      OBVIOUS
    <3> QED
      BY <1>1, <1>4, <3>1
  <2>3. \A p \in 1 .. 2 : s.flag[p] = IF p = (s.row_count % 2) + 1 THEN 0 % 2 ELSE 0
    BY <1>4, Zenon DEF FlagsAt
  <2>4. s.byte_count > 0
    BY <1>3, <1>5
  <2> QED
    BY <1>4, <2>1, <2>2, <2>3, <2>4, Zenon DEF AtByte
<1> QED
  BY <1>1, <1>2, <1>4, <1>6, <1>7, Zenon DEF Bytes

\* R after the last write of a beat, at byte d of row i.
LEMMA BeatBytes ==
  ASSUME Typing, NEW q \in RType, NEW i \in Nat, NEW d \in Nat, NEW m \in Nat,
         q.row_count = i, i < blk.x, q.col_remain = m, d + m = blk.y, Taking(blk, q),
         FlagsAt(q, d), NEW A, Stored(blk, A, i, d)
  PROVE  Bytes(blk, BeatEnd(q), A)
<1>1. blk \in Blocks /\ blk.x \in Nat /\ blk.y % 2 = 0
  <2>1. blk \in Blocks
    BY DEF Typing
  <2> QED
    BY <2>1, BlockAssumption
<1>2. PICK o \in Int, y \in Nat, f \in Int :
         /\ o = Row(blk, i) /\ y = blk.y /\ d + m = y /\ f = q.fst_addr
         /\ f = Row(blk, i + 1)
  <2>1. Row(blk, i) \in Int /\ blk.y \in Nat
    BY <1>1, RowNumbers, BlockFacts
  <2>2. q.fst_addr \in Int /\ q.fst_addr = Row(blk, i + 1)
    BY DEF RType, Taking
  <2> QED
    BY <2>1, <2>2
<1>3. CASE m # 0
  <2>1. PICK n \in Int, c \in Int, z \in Int :
           /\ n = IF BEAT <= m THEN BEAT ELSE m
           /\ c = IF m - BEAT <= 0 THEN 0 ELSE m - BEAT
           /\ z = 0
    <3>1. BEAT \in Int
      BY Sizes
    <3>2. PICK n \in Int : n = IF BEAT <= m THEN BEAT ELSE m
      BY <3>1
    <3>3. PICK c \in Int : c = IF m - BEAT <= 0 THEN 0 ELSE m - BEAT
      BY <3>1
    <3> QED
      BY <3>2, <3>3
  <2>2. PICK s : s = BeatEnd(q)
    OBVIOUS
  <2>3. s = [q EXCEPT !.ready = TRUE, !.byte_en = z, !.byte_count = n, !.col_remain = c]
    BY <1>3, <2>1, <2>2, BeatEndFacts, Zenon
  <2>4. /\ s \in RType /\ s.ready /\ s.row_count = i /\ s.flag = q.flag /\ s.byte_en = 0
        /\ s.byte_count = n /\ s.col_remain = c
    BY <2>1, <2>3 DEF RType
  <2>5. (o + d) % BEAT = 0
    <3>1. (Row(blk, i) + blk.y - m) % BEAT = 0
      BY <1>3 DEF Taking
    <3>2. Row(blk, i) + blk.y - m = o + d
      BY <1>2
    <3> QED
      BY <3>1, <3>2
  <2>6. n > 0 /\ n + c = m
    <3>1. NextCounters(o + d, m, n, c)
      BY <2>1, <2>5, Zenon DEF NextCounters
    <3>2. PICK t \in Int : t = o + d
      BY <1>2
    <3>4. m > 0
      BY <1>3
    <3>5. InBeat(t, m, n, c)
      BY <2>1, <3>1, <3>2, <3>4, NextOfRow
    <3> QED
      BY <3>5, Zenon DEF InBeat
  <2>7. Column(blk, s) = d
    <3>1. y - n - c = d
      BY <1>2, <2>6
    <3>2. i # blk.x
      BY <1>1
    <3> QED
      BY <1>2, <2>4, <3>1, <3>2 DEF Column
  <2>8. AtByte(blk, s, d)
    <3>1. d \in 0 .. blk.y - 1
      BY <1>2, <1>3
    <3>2. \A p \in 1 .. 2 : s.flag[p] = IF p = (s.row_count % 2) + 1 THEN d % 2 ELSE 0
      BY <2>4, Zenon DEF FlagsAt
    <3>3. s.byte_en = (Row(blk, i) + d) % BEAT
      BY <1>2, <2>4, <2>5
    <3>4. s.byte_count > 0
      BY <2>4, <2>6
    <3> QED
      BY <2>4, <3>1, <3>2, <3>3, <3>4, Zenon DEF AtByte
  <2> QED
    BY <2>2, <2>4, <2>7, <2>8, Zenon DEF Bytes
<1>4. ASSUME m = 0
      PROVE  /\ Stored(blk, A, i + 1, 0)
             /\ \A p \in 1 .. 2 : q.flag[p] = 0
  <2>1. d = blk.y /\ d % 2 = 0
    BY <1>1, <1>2, <1>4
  <2>2. Stored(blk, A, i + 1, 0)
    BY <1>1, <2>1, RowSwitch
  <2> QED
    BY <2>1, <2>2 DEF FlagsAt
<1>5. CASE m = 0 /\ i = blk.x - 1
  <2>1. BeatEnd(q) = [q EXCEPT !.ready = FALSE, !.row_count = @ + 1]
    BY <1>5, BeatEndFacts, Zenon
  <2>2. PICK s : s = BeatEnd(q)
    OBVIOUS
  <2>3. s.row_count = i + 1 /\ s.flag = q.flag /\ i + 1 = blk.x
    BY <1>1, <1>5, <2>1, <2>2 DEF RType
  <2>4. Column(blk, s) = 0
    BY <2>3 DEF Column
  <2>5. AtByte(blk, s, 0)
    <3>1. \A p \in 1 .. 2 : s.flag[p] = IF p = (s.row_count % 2) + 1 THEN 0 % 2 ELSE 0
      BY <1>4, <1>5, <2>3
    <3> QED
      BY <2>3, <3>1, Zenon DEF AtByte
  <2> QED
    BY <1>4, <1>5, <2>2, <2>3, <2>4, <2>5 DEF Bytes
<1>6. CASE m = 0 /\ i # blk.x - 1
  <2>1. BeatEnd(q) = RowBegin([q EXCEPT !.row_count = @ + 1], f)
    BY <1>2, <1>6, BeatEndFacts, Zenon
  <2>2. PICK j \in Int : j = i + 1 /\ j # blk.x /\ j \in Nat
    BY <1>1, <1>6
  <2>3. PICK s \in RType : s = [q EXCEPT !.row_count = j]
    BY <2>2 DEF RType
  <2>4. s.row_count = j /\ s.flag = q.flag /\ BeatEnd(q) = RowBegin(s, Row(blk, j))
    <3>1. s.row_count = j /\ s.flag = q.flag
      BY <2>3 DEF RType
    <3>2. q.row_count + 1 = j
      BY <2>2
    <3> QED
      BY <1>2, <2>1, <2>2, <2>3, <3>1, <3>2
  <2>5. FlagsAt(s, 0)
    BY <1>4, <1>6, <2>4 DEF FlagsAt
  <2> QED
    BY <1>4, <1>6, <2>2, <2>4, <2>5, RowBytes
<1> QED
  BY <1>3, <1>5, <1>6

LEMMA FlagAfter ==
  ASSUME Typing, NEW rvalid \in BOOLEAN, NEW c \in Nat, FlagsAt(r, c), NEW d \in Nat,
         d % 2 = IF r_nstate(rvalid) = "LAST_ONE" THEN 1 - (c % 2) ELSE c % 2,
         NEW q, q.row_count = r.row_count,
         q.flag = [r.flag EXCEPT ![pair + 1] = turnAfter(r_nstate(rvalid))]
  PROVE  FlagsAt(q, d)
<1>1. pair \in 0 .. 1 /\ pair = r.row_count % 2 /\ r.flag \in Flags
  <2>1. r \in RType /\ r.row_count \in Int
    BY DEF Typing, RType, Flags
  <2> QED
    BY <2>1 DEF pair, RType
<1>2. turn = c % 2
  BY <1>1 DEF FlagsAt, turn
<1>3. turnAfter(r_nstate(rvalid)) = d % 2
  BY <1>2 DEF turnAfter
<1>4. ASSUME NEW p \in 1 .. 2
      PROVE  q.flag[p] = IF p = (q.row_count % 2) + 1 THEN d % 2 ELSE 0
  <2>1. q.flag[p] = IF p = pair + 1 THEN d % 2 ELSE r.flag[p]
    BY <1>1, <1>3 DEF Flags
  <2>2. p # pair + 1 => r.flag[p] = 0
    BY <1>1 DEF FlagsAt
  <2> QED
    BY <1>1, <2>1, <2>2
<1> QED
  BY <1>4 DEF FlagsAt

\* R waits for a beat, or for the scaler.
LEMMA BytesWait ==
  ASSUME IInv, BytesInv, BankTyping, NEW rvalid \in BOOLEAN, ReadData(rvalid),
         rvalid => r.ready /\ bursts # <<>>, Banks,
         r_nstate(rvalid) \in {"WAIT", "END"}, r.state # "IDLE"
  PROVE  Bytes(blk, r', StoredBanks') /\ wea' \in FourBanks
<1>t. Typing /\ r \in RType
  BY DEF IInv, Typing, RType, Flags
<1>1. /\ r_nstate(rvalid) = "WAIT" => r.ready /\ r.byte_count > 0
      /\ r_nstate(rvalid) = "END" => r.row_count = blk.x
      /\ ~r_handshake(rvalid)
  BY RowsLeft
<1>2. PICK tt \in RType :
         /\ tt = Taken(rvalid) /\ tt.ready = r.ready /\ tt.row_count = r.row_count
         /\ tt.byte_en = r.byte_en /\ tt.byte_count = r.byte_count
         /\ tt.col_remain = r.col_remain /\ tt.data = r.data
         /\ tt.flag = [r.flag EXCEPT ![pair + 1] = turnAfter(r_nstate(rvalid))]
  <2>1. r_nstate(rvalid) \in RStates
    BY DEF RStates
  <2> QED
    BY <1>t, <1>1, <2>1, TakenFacts
<1>3. PICK c : c = Column(blk, r)
  OBVIOUS
<1>4. AtByte(blk, r, c) /\ Stored(blk, StoredBanks, r.row_count, c)
  BY <1>3 DEF BytesInv
<1>5. tt.flag = r.flag
  <2>1. turnAfter(r_nstate(rvalid)) = r.flag[pair + 1]
    BY DEF turnAfter, turn
  <2>2. r.flag \in [1 .. 2 -> 0 .. 1]
    BY <1>t DEF RType, Flags
  <2> QED
    BY <1>2, <2>1, <2>2
<1>6. /\ r'.row_count = r.row_count /\ r'.byte_en = r.byte_en
      /\ r'.byte_count = r.byte_count /\ r'.col_remain = r.col_remain
      /\ r'.data = r.data /\ r'.flag = r.flag
      /\ r_nstate(rvalid) = "WAIT" => r'.ready = r.ready
  <2>1. CASE r_nstate(rvalid) = "WAIT"
    <3>1. r' = IF r.byte_count = 0 THEN RowBegin(tt, blk.addr) ELSE tt
      BY <1>2, <2>1, RMoves, Zenon
    <3>2. r.byte_count # 0
      <4>1. r.byte_count \in Int
        BY <1>t DEF RType
      <4> QED
        BY <1>1, <2>1, <4>1
    <3>3. r' = tt
      BY <3>1, <3>2
    <3> QED
      BY <1>2, <1>5, <3>3
  <2>2. CASE r_nstate(rvalid) = "END"
    <3>1. r' = [tt EXCEPT !.ready = FALSE, !.done = TRUE]
      BY <1>2, <2>2, RMoves, Zenon
    <3> QED
      BY <1>2, <1>5, <2>2, <3>1 DEF RType
  <2> QED
    BY <2>1, <2>2
<1>7. Column(blk, r') = c
  BY <1>3, <1>6, Zenon DEF Column
<1>8. AtByte(blk, r', c)
  <2>1. r.row_count # blk.x => r'.ready = r.ready
    BY <1>1, <1>6
  <2> QED
    BY <1>4, <1>6, <2>1, Zenon DEF AtByte
<1>9. wea' = [a \in 0 .. 3 |-> <<>>] /\ wea' \in FourBanks
  <2>1. wea' = [a \in 0 .. 3 |-> <<>>]
    BY WeaMoves
  <2> QED
    BY <2>1, WritesTyping
<1>10. StoredBanks' = StoredBanks
  <2>1. /\ StoredBanks \in FourBanks /\ StoredBanks' \in FourBanks
        /\ \A a \in 0 .. 3 : StoredBanks'[a] = StoredBanks[a] \o wea'[a]
    BY <1>9, BanksMove
  <2>2. PICK A \in FourBanks, B \in FourBanks : A = StoredBanks /\ B = StoredBanks'
    BY <2>1
  <2>3. \A a \in 0 .. 3 : A[a] \in Seq(Int) /\ B[a] = A[a] \o <<>>
    BY <1>9, <2>1, <2>2 DEF FourBanks
  <2>4. \A a \in 0 .. 3 : B[a] = A[a]
    BY <2>3, ConcatEmptySeq
  <2>5. A = B
    <3>1. A \in [0 .. 3 -> Seq(Int)] /\ B \in [0 .. 3 -> Seq(Int)]
      BY <2>2 DEF FourBanks
    <3> QED
      BY <2>4, <3>1
  <2> QED
    BY <2>2, <2>5
<1> QED
  BY <1>4, <1>6, <1>7, <1>8, <1>9, <1>10, Zenon DEF Bytes

\* R starts with the first byte of the block.
LEMMA BytesStart ==
  ASSUME IInv, BankTyping, NEW rvalid \in BOOLEAN, ReadData(rvalid),
         rvalid => r.ready /\ bursts # <<>>, Banks,
         r_nstate(rvalid) # "IDLE", r.state = "IDLE"
  PROVE  Bytes(blk, r', StoredBanks') /\ wea' \in FourBanks
<1>t. Typing /\ r.state \in RStates /\ blk \in Blocks /\ r = RIdle
  BY DEF IInv, Typing, RowInv
<1>1. r_nstate(rvalid) = "WAIT"
  BY <1>t, RStateMoves
<1>2. PICK tt \in RType :
         /\ tt = Taken(rvalid) /\ tt.row_count = 0
         /\ tt.flag = [r.flag EXCEPT ![pair + 1] = turnAfter(r_nstate(rvalid))]
  <2>1. r_nstate(rvalid) \in RStates /\ r.row_count = 0
    BY <1>t, <1>1 DEF RStates, RIdle
  <2>2. rvalid => bursts # <<>>
    OBVIOUS
  <2>3. /\ Taken(rvalid) \in RType /\ Taken(rvalid).row_count = r.row_count
        /\ Taken(rvalid).flag = [r.flag EXCEPT ![pair + 1] = turnAfter(r_nstate(rvalid))]
    BY <1>t, <2>1, <2>2, TakenFacts, Zenon
  <2> QED
    BY <2>1, <2>3
<1>3. r.byte_count = 0 /\ r.row_count = 0 /\ r.flag = <<0, 0>>
  BY <1>t DEF RIdle
<1>4. r' = RowBegin(tt, blk.addr)
  BY <1>1, <1>2, <1>3, RMoves, Zenon
<1>5. Row(blk, 0) = blk.addr /\ 0 # blk.x
  <2>1. blk.addr \in Int /\ blk.stride \in Int /\ blk.x # 0
    BY <1>t, BlockFacts
  <2>2. 0 * blk.stride = 0
    BY <2>1
  <2> QED
    BY <2>1, <2>2 DEF Row
<1>6. FlagsAt(tt, 0)
  <2>1. FlagsAt(r, 0)
    BY <1>3 DEF FlagsAt
  <2>2. 0 % 2 = IF r_nstate(rvalid) = "LAST_ONE" THEN 1 - (0 % 2) ELSE 0 % 2
    BY <1>1
  <2> QED
    BY <1>t, <1>2, <1>3, <2>1, <2>2, FlagAfter
<1>7. wea' = [a \in 0 .. 3 |-> <<>>] /\ wea' \in FourBanks
  <2>1. wea' = [a \in 0 .. 3 |-> <<>>]
    BY <1>1, WeaMoves
  <2> QED
    BY <2>1, WritesTyping
<1>8. Stored(blk, StoredBanks', 0, 0)
  <2>1. StoredBanks' \in FourBanks /\ \A a \in 0 .. 3 : StoredBanks'[a] = wea'[a]
    BY <1>7, BanksMove
  <2>2. PICK A \in FourBanks : A = StoredBanks'
    BY <2>1
  <2>3. \A a \in 0 .. 3 : A[a] = <<>>
    BY <1>7, <2>1, <2>2
  <2>4. Stored(blk, A, 0, 0)
    BY <1>t, <2>3, NothingStored
  <2> QED
    BY <2>2, <2>4
<1>9. Bytes(blk, RowBegin(tt, Row(blk, 0)), StoredBanks')
  BY <1>t, <1>2, <1>5, <1>6, <1>8, RowBytes
<1> QED
  BY <1>4, <1>5, <1>7, <1>9

LEMMA TwoMore ==
  ASSUME NEW v \in Int, NEW b \in Int, NEW o \in Int, NEW c \in Int, v + b = o + c
  PROVE  v + (b + 2) = o + (c + 2)
  OBVIOUS

\* R writes two bytes of a beat that holds more.
LEMMA BytesPair ==
  ASSUME IInv, BytesInv, BankTyping, NEW rvalid \in BOOLEAN, ReadData(rvalid),
         rvalid => r.ready /\ bursts # <<>>, Banks, r_nstate(rvalid) = "PAIR"
  PROVE  Bytes(blk, r', StoredBanks') /\ wea' \in FourBanks
<1>t. Typing /\ blk \in Blocks /\ r \in RType /\ blk.x \in Nat /\ blk.y \in Nat
  <2>1. Typing
    BY DEF IInv
  <2> QED
    BY <2>1, BlockFacts DEF Typing, RType, Flags
<1>1. /\ r.state # "IDLE"
      /\ \E i \in Nat, c \in Nat, n \in Nat, m \in Nat : AtWork(rvalid, i, c, n, m)
      /\ Taken(rvalid).data + r.byte_en = Row(blk, r.row_count) + Column(blk, r)
  BY ByteWritten
<1>2. PICK i \in Nat, c \in Nat, n \in Nat, m \in Nat : AtWork(rvalid, i, c, n, m)
  BY <1>1, Zenon
<1>3. /\ i = r.row_count /\ i < blk.x /\ n = r.byte_count /\ m = r.col_remain
      /\ c = Column(blk, r) /\ c + n + m = blk.y /\ n > 2
  BY <1>2 DEF AtWork
<1>4. Stored(blk, StoredBanks', i, c + 2) /\ wea' \in FourBanks
  BY <1>2, BytesStored
<1>5. PICK tt \in RType :
         /\ tt = Taken(rvalid) /\ tt.row_count = i
         /\ tt.byte_en = r.byte_en /\ tt.byte_count = n /\ tt.col_remain = m
         /\ tt.flag = [r.flag EXCEPT ![pair + 1] = turnAfter(r_nstate(rvalid))]
  <2>1. r_nstate(rvalid) \in RStates
    BY DEF RStates
  <2> QED
    BY <1>t, <1>3, <2>1, TakenFacts
<1>6. PICK e \in Int, k \in Int, v \in Int, o \in Int :
         /\ e = tt.byte_en + 2 /\ k = n - 2 /\ v = tt.data /\ o = Row(blk, i)
  <2>1. tt.byte_en \in Int /\ tt.data \in Int
    BY DEF RType
  <2>2. Row(blk, i) \in Int
    BY <1>t, RowNumbers
  <2>3. PICK e \in Int : e = tt.byte_en + 2
    BY <2>1
  <2> QED
    BY <2>1, <2>2, <2>3
<1>7. r' = [tt EXCEPT !.ready = FALSE, !.byte_en = e, !.byte_count = k]
  <2>1. r' = [tt EXCEPT !.ready = FALSE, !.byte_en = @ + 2, !.byte_count = @ - 2]
    BY <1>5, RMoves, Zenon
  <2> QED
    BY <1>5, <1>6, <2>1, Zenon
<1>8. /\ ~r'.ready /\ r'.row_count = i /\ r'.byte_en = e /\ r'.byte_count = k
      /\ r'.col_remain = m /\ r'.data = v /\ r'.flag = tt.flag
  BY <1>5, <1>6, <1>7 DEF RType
<1>9. v + e = o + (c + 2)
  <2>1. v + r.byte_en = o + c
    BY <1>1, <1>3, <1>5, <1>6, Zenon
  <2>2. r.byte_en \in Int
    BY <1>t DEF RType
  <2>3. PICK b \in Int : b = r.byte_en /\ v + b = o + c
    BY <2>1, <2>2
  <2>4. e = b + 2
    BY <1>5, <1>6, <2>3
  <2>5. v + (b + 2) = o + (c + 2)
    <3>1. v \in Int /\ b \in Int /\ o \in Int /\ c \in Int /\ v + b = o + c
      BY <1>2, <1>6, <2>3
    <3> QED
      BY <3>1, TwoMore
  <2> QED
    BY <2>4, <2>5, Zenon
<1>10. Column(blk, r') = c + 2 /\ c + 2 \in 0 .. blk.y - 1 /\ k > 0
  <2>1. PICK y \in Nat : y = blk.y /\ c + n + m = y
    BY <1>t, <1>3
  <2>2. y - k - m = c + 2 /\ c + 2 \in 0 .. y - 1 /\ k > 0
    <3>1. n > 2 /\ k = n - 2
      BY <1>3, <1>6
    <3> QED
      BY <2>1, <3>1
  <2>3. i # blk.x
    BY <1>t, <1>3
  <2> QED
    BY <1>8, <2>1, <2>2, <2>3 DEF Column
<1>11. FlagsAt(r', c + 2)
  <2>1. FlagsAt(r, c)
    BY <1>1, <1>3, Zenon DEF BytesInv, AtByte, FlagsAt
  <2>2. (c + 2) % 2 = IF r_nstate(rvalid) = "LAST_ONE" THEN 1 - (c % 2) ELSE c % 2
    BY Halves
  <2>3. /\ r'.row_count = r.row_count
        /\ r'.flag = [r.flag EXCEPT ![pair + 1] = turnAfter(r_nstate(rvalid))]
    BY <1>3, <1>5, <1>8
  <2>4. c + 2 \in Nat
    OBVIOUS
  <2> QED
    BY <1>t, <2>1, <2>2, <2>3, <2>4, FlagAfter
<1>12. AtByte(blk, r', c + 2)
  <2>1. r'.data + r'.byte_en = Row(blk, r'.row_count) + (c + 2)
    BY <1>6, <1>8, <1>9
  <2>2. r'.byte_count > 0
    BY <1>8, <1>10
  <2> QED
    BY <1>8, <1>10, <1>11, <2>1, <2>2, Zenon DEF AtByte, FlagsAt
<1> QED
  BY <1>4, <1>8, <1>10, <1>12, Zenon DEF Bytes

\* R writes the last bytes of a beat.
LEMMA BytesLast ==
  ASSUME IInv, BytesInv, BankTyping, NEW rvalid \in BOOLEAN, ReadData(rvalid),
         rvalid => r.ready /\ bursts # <<>>, Banks,
         r_nstate(rvalid) \in {"LAST_PAIR", "LAST_ONE"}
  PROVE  Bytes(blk, r', StoredBanks') /\ wea' \in FourBanks
<1>t. Typing /\ blk \in Blocks /\ r \in RType /\ blk.x \in Nat /\ blk.y \in Nat
  <2>1. Typing
    BY DEF IInv
  <2> QED
    BY <2>1, BlockFacts DEF Typing, RType, Flags
<1>1. /\ r.state # "IDLE"
      /\ \E i \in Nat, c \in Nat, n \in Nat, m \in Nat : AtWork(rvalid, i, c, n, m)
  BY ByteWritten
<1>2. PICK i \in Nat, c \in Nat, n \in Nat, m \in Nat : AtWork(rvalid, i, c, n, m)
  BY <1>1, Zenon
<1>3. /\ i = r.row_count /\ i < blk.x /\ n = r.byte_count /\ m = r.col_remain
      /\ c = Column(blk, r) /\ c + n + m = blk.y
      /\ r_nstate(rvalid) = "LAST_PAIR" => n = 2
      /\ r_nstate(rvalid) = "LAST_ONE" => n = 1
  BY <1>2 DEF AtWork
<1>4. PICK d \in Nat : d = c + n
  OBVIOUS
<1>5. Stored(blk, StoredBanks', i, d) /\ wea' \in FourBanks
  BY <1>2, <1>3, <1>4, BytesStored
<1>6. PICK tt \in RType :
         /\ tt = Taken(rvalid) /\ tt.row_count = i /\ tt.col_remain = m
         /\ tt.ready = r.ready /\ tt.byte_count = r.byte_count /\ tt.fst_addr = r.fst_addr
         /\ tt.flag = [r.flag EXCEPT ![pair + 1] = turnAfter(r_nstate(rvalid))]
  <2>1. r_nstate(rvalid) \in RStates
    BY DEF RStates
  <2> QED
    BY <1>t, <1>3, <2>1, TakenFacts
<1>7. Taking(blk, tt)
  <2>1. Taking(blk, r)
    BY <1>1, RowsLeft
  <2>2. /\ tt.row_count = r.row_count /\ tt.col_remain = r.col_remain
        /\ tt.ready = r.ready /\ tt.byte_count = r.byte_count /\ tt.fst_addr = r.fst_addr
    BY <1>3, <1>6
  <2> QED
    BY <2>1, <2>2, Zenon DEF Taking, Rest
<1>8. FlagsAt(tt, d)
  <2>1. FlagsAt(r, c)
    BY <1>1, <1>3, Zenon DEF BytesInv, AtByte, FlagsAt
  <2>2. d % 2 = IF r_nstate(rvalid) = "LAST_ONE" THEN 1 - (c % 2) ELSE c % 2
    <3>1. (c + 1) % 2 = 1 - (c % 2) /\ (c + 2) % 2 = c % 2
      BY Halves
    <3> QED
      BY <1>3, <1>4, <3>1
  <2> QED
    BY <1>t, <1>3, <1>4, <1>6, <2>1, <2>2, FlagAfter
<1>9. d + m = blk.y
  BY <1>3, <1>4
<1>10. Bytes(blk, BeatEnd(tt), StoredBanks')
  BY <1>t, <1>3, <1>4, <1>5, <1>6, <1>7, <1>8, <1>9, BeatBytes
<1>11. r' = BeatEnd(tt)
  BY <1>6, RMoves, Zenon
<1> QED
  BY <1>5, <1>10, <1>11

\* A start changes the registers while nothing is under way.
LEMMA BlockKept ==
  ASSUME IInv, NEW start \in BOOLEAN, NEW write \in BOOLEAN, Registers(start, write)
  PROVE  \/ blk' = blk
         \/ r.state = "IDLE" /\ img.state = "await" /\ ~hog_start
<1>1. CASE start
  <2>1. ~hog.start
    BY <1>1 DEF Registers
  <2>2. Quiet
    BY <2>1 DEF IInv, StageInv
  <2> QED
    BY <2>1, <2>2 DEF Quiet, hog_start
<1>2. CASE ~start
  BY <1>2 DEF Registers
<1> QED
  BY <1>1, <1>2

LEMMA BytesStep ==
  ASSUME IInv, BytesInv, BankTyping, NEW rvalid \in BOOLEAN, ReadData(rvalid),
         rvalid => r.ready /\ bursts # <<>>, Banks,
         NEW start \in BOOLEAN, NEW write \in BOOLEAN, Registers(start, write)
  PROVE  BytesInv' /\ BankTyping'
<1>t. Typing /\ r.state \in RStates
  BY DEF IInv, Typing
<1>1. r_nstate(rvalid) \in RStates /\ r'.state = r_nstate(rvalid)
  BY RTyping
<1>2. CASE r_nstate(rvalid) = "IDLE"
  <2>1. BytesInv'
    BY <1>1, <1>2 DEF BytesInv
  <2>2. wea' \in FourBanks
    BY <1>2, WeaMoves, WritesTyping
  <2> QED
    BY <2>1, <2>2, BanksMove
<1>3. CASE r_nstate(rvalid) # "IDLE"
  <2>1. blk' = blk
    <3>1. r.state = "IDLE" => hog_start
      BY <1>t, <1>3, RStateMoves
    <3> QED
      BY <3>1, BlockKept
  <2>2. Bytes(blk, r', StoredBanks') /\ wea' \in FourBanks
    <3>1. CASE r.state = "IDLE"
      BY <3>1, <1>3, BytesStart
    <3>2. CASE r.state # "IDLE" /\ r_nstate(rvalid) \in {"WAIT", "END"}
      BY <3>2, BytesWait
    <3>3. CASE r_nstate(rvalid) = "PAIR"
      BY <3>3, BytesPair
    <3>4. CASE r_nstate(rvalid) \in {"LAST_PAIR", "LAST_ONE"}
      BY <3>4, BytesLast
    <3> QED
      BY <1>1, <1>3, <3>1, <3>2, <3>3, <3>4 DEF RStates
  <2>3. BytesInv'
    BY <2>1, <2>2, Zenon DEF BytesInv, Bytes
  <2> QED
    BY <2>2, <2>3, BanksMove
<1> QED
  BY <1>2, <1>3

-----------------------------------------------------------------------------
(* The rows that the scaler waits for are those it interpolates.           *)

LEMMA ScaleNumbers ==
  ASSUME Typing
  PROVE  /\ t_x \in Nat /\ t_y \in Nat
         /\ 2^scale_n \in Nat /\ 2^scale_n > 0 /\ 2^(scale_n + 1) = 2 * 2^scale_n
<1>t. blk \in Blocks /\ blk.x \in Nat /\ blk.x > 1 /\ blk.y \in Nat /\ blk.y > 0
  BY BlockFacts DEF Typing
<1>0. OUT \in Nat /\ OUT > 1
  BY Sizes
<1>1. PICK d \in 0 .. BITS, e \in 0 .. BITS : d = digits(blk.x) /\ e = digits(blk.y)
  <2>1. digits(blk.x) \in 0 .. BITS
    BY <1>t, ScaleAssumption, Digits
  <2>2. digits(blk.y) \in 0 .. BITS
    BY <1>t, ScaleAssumption, Digits
  <2> QED
    BY <2>1, <2>2
<1>2. PICK n \in 0 .. BITS : n = scale_n /\ n >= d /\ n >= e
  <2>1. d \in Int /\ e \in Int
    BY DEF BITS
  <2>2. Max({d, e}) = IF d >= e THEN d ELSE e
    BY <2>1, MinMax
  <2> QED
    BY <1>1, <2>1, <2>2 DEF scale_n
<1>3. ASSUME NEW m \in Nat, m > 0, NEW c \in 0 .. BITS, c = digits(m), n >= c
      PROVE  scaleOf(m) \in Nat
  <2>1. n - c \in 0 .. BITS
    BY <1>2, <1>3 DEF BITS
  <2>2. PICK P \in Nat, Q \in Nat : P = 2^c /\ Q = 2^(n - c)
    <3>1. 2^c \in Nat \ {0}
      BY PowerAssumption, Zenon
    <3>2. 2^(n - c) \in Nat \ {0}
      BY <2>1, PowerAssumption, Zenon
    <3> QED
      BY <3>1, <3>2
  <2>3. PICK L \in Nat : L = length(m)
    BY <1>3 DEF length
  <2>4. (L * P) \div OUT \in Nat
    <3>1. PICK x \in Nat : x = L * P
      <4>1. L * P \in Nat
        OBVIOUS
      <4> QED
        BY <4>1
    <3>2. x \div OUT \in Nat
      BY <1>0
    <3> QED
      BY <3>1, <3>2
  <2>5. ((L * P) \div OUT) * Q \in Nat
    <3>1. PICK q \in Nat : q = (L * P) \div OUT
      BY <2>4
    <3>2. q * Q \in Nat
      OBVIOUS
    <3> QED
      BY <3>1, <3>2
  <2> QED
    BY <1>2, <1>3, <2>2, <2>3, <2>5 DEF scaleOf
<1>4. t_x \in Nat /\ t_y \in Nat
  BY <1>t, <1>1, <1>2, <1>3 DEF t_x, t_y
<1>5. 2^n \in Nat \ {0}
  BY PowerAssumption, Zenon
<1>6. 2^(n + 1) = 2 * 2^n
  BY PowerAssumption, Zenon
<1> QED
  BY <1>2, <1>4, <1>5, <1>6

LEMMA Half2 ==
  ASSUME NEW x \in Int, NEW S \in Nat, S > 0
  PROVE  (2 * x) \div (2 * S) = x \div S
<1>1. PICK q \in Int, m \in 0 .. S - 1 : q = x \div S /\ x = q * S + m
  BY x \div S \in Int, x % S \in 0 .. S - 1, x = (x \div S) * S + (x % S)
<1>2. PICK T \in Nat : T = 2 * S /\ T > 0
  OBVIOUS
<1>3. PICK p \in Int, k \in 0 .. T - 1 : p = (2 * x) \div T /\ 2 * x = p * T + k
  <2>1. PICK z \in Int : z = 2 * x
    OBVIOUS
  <2>2. PICK p \in Int, k \in 0 .. T - 1 : p = z \div T /\ z = p * T + k
    BY <1>2, z \div T \in Int, z % T \in 0 .. T - 1, z = (z \div T) * T + (z % T)
  <2> QED
    BY <2>1, <2>2
<1>4. q * T + 2 * m = p * T + k
  <2>1. q * T = 2 * (q * S) /\ q * S \in Int /\ p * T \in Int /\ q * T \in Int
    BY <1>2
  <2> QED
    BY <1>1, <1>3, <2>1
<1>5. (q - p) * T = k - 2 * m
  <2>1. (q - p) * T = q * T - p * T /\ p * T \in Int /\ q * T \in Int
    BY <1>2
  <2> QED
    BY <1>4, <2>1
<1>6. q = p
  <2>1. k - 2 * m < T /\ k - 2 * m > -T
    BY <1>2
  <2>2. ~(q - p >= 1)
    <3> SUFFICES ASSUME q - p >= 1 PROVE FALSE
      OBVIOUS
    <3>1. (q - p) * T >= 1 * T
      BY <1>2
    <3>2. (q - p) * T \in Int
      BY <1>2
    <3> QED
      BY <1>2, <1>5, <2>1, <3>1, <3>2
  <2>3. ~(q - p <= -1)
    <3> SUFFICES ASSUME q - p <= -1 PROVE FALSE
      OBVIOUS
    <3>1. (q - p) * T <= (-1) * T
      BY <1>2
    <3>2. (q - p) * T \in Int
      BY <1>2
    <3> QED
      BY <1>2, <1>5, <2>1, <3>1, <3>2
  <2> QED
    BY <2>2, <2>3
<1> QED
  BY <1>1, <1>2, <1>3, <1>6

LEMMA RowNeeded ==
  ASSUME NEW S \in Nat, S > 0, NEW t \in Nat, NEW i \in Nat, NEW k \in i .. i + 1
  PROVE  ((2 * k + 1) * t - S) \div (2 * S) <= ((i + 2) * t) \div S
<1>1. PICK x \in Nat : x = (i + 2) * t
  <2>1. (i + 2) * t \in Nat
    OBVIOUS
  <2> QED
    BY <2>1
<1>2. PICK c \in Nat : c = 2 * k + 1 /\ c <= 2 * (i + 2)
  OBVIOUS
<1>3. c * t <= (2 * (i + 2)) * t
  BY <1>2
<1>4. (2 * (i + 2)) * t = 2 * x
  BY <1>1
<1>5. PICK y \in Int : y = c * t - S
  <2>1. c * t - S \in Int
    OBVIOUS
  <2> QED
    BY <2>1
<1>6. y <= 2 * x
  <2>1. c * t \in Int
    OBVIOUS
  <2> QED
    BY <1>3, <1>4, <1>5, <2>1
<1>7. PICK T \in Nat : T = 2 * S /\ T > 0
  OBVIOUS
<1>8. y \div T <= (2 * x) \div T
  BY <1>6, <1>7, DivisionMonotonic
<1>9. (2 * x) \div T = x \div S
  BY <1>7, Half2
<1> QED
  BY <1>1, <1>2, <1>5, <1>7, <1>8, <1>9

LEMMA Fractional ==
  ASSUME Typing, NEW k \in Nat, NEW t \in Nat
  PROVE  fractional(k, t) \in Nat
<1>1. PICK S \in Nat : S = 2^scale_n /\ S > 0 /\ 2^(scale_n + 1) = 2 * S
  BY ScaleNumbers
<1>2. PICK y \in Int : y = ((2 * k + 1) * t - S) \div (2 * S)
  <2>1. PICK a \in Int : a = (2 * k + 1) * t - S
    <3>1. (2 * k + 1) * t \in Int
      OBVIOUS
    <3> QED
      BY <3>1
  <2>2. PICK T \in Nat : T = 2 * S /\ T > 0
    BY <1>1
  <2>3. a \div T \in Int
    BY <2>2
  <2> QED
    BY <2>1, <2>2, <2>3
<1>3. fractional(k, t) = Max({0, y})
  BY <1>1, <1>2 DEF fractional
<1> QED
  BY <1>3, MaxZero

\* The signal lies above the rows of this row of the result and of the next.
LEMMA NeedCovers ==
  ASSUME Typing, img.row \in Nat, NEW k \in img.row .. img.row + 1
  PROVE  fractional(k, t_x) \in Nat /\ fractional(k, t_x) + 1 <= row_signal_need
<1>1. PICK S \in Nat : S = 2^scale_n /\ S > 0 /\ 2^(scale_n + 1) = 2 * S
  BY ScaleNumbers
<1>2. PICK t \in Nat : t = t_x
  BY ScaleNumbers
<1>3. k \in Nat
  OBVIOUS
<1>4. PICK z \in Nat : z = ((img.row + 2) * t) \div S
  <2>1. PICK x \in Nat : x = (img.row + 2) * t
    <3>1. (img.row + 2) * t \in Nat
      OBVIOUS
    <3> QED
      BY <3>1
  <2>2. x \div S \in Nat
    BY <1>1
  <2> QED
    BY <2>1, <2>2
<1>5. PICK y \in Int : y = ((2 * k + 1) * t - S) \div (2 * S)
  <2>1. PICK a \in Int : a = (2 * k + 1) * t - S
    <3>1. (2 * k + 1) * t \in Int
      BY <1>3
    <3> QED
      BY <3>1
  <2>2. PICK T \in Nat : T = 2 * S /\ T > 0
    BY <1>1
  <2>3. a \div T \in Int
    BY <2>2
  <2> QED
    BY <2>1, <2>2, <2>3
<1>6. y <= z
  BY <1>1, <1>4, <1>5, RowNeeded
<1>7. fractional(k, t) = Max({0, y})
  BY <1>1, <1>5 DEF fractional
<1>8. fractional(k, t) \in Nat /\ fractional(k, t) <= z
  BY <1>6, <1>7, MaxZero
<1>9. row_signal_need = z + 1
  BY <1>1, <1>2, <1>4 DEF row_signal_need
<1> QED
  BY <1>2, <1>8, <1>9

-----------------------------------------------------------------------------
(* The rows that the scaler sees.                                          *)

\* The signal is the one of the row, except at the first place of a row.
SignalInv == img.state # "await" /\ img.column # 0 => img.sig = row_signal_need

\* Every byte of the rows the scaler interpolates is in the banks.
Seen(b, A, last) ==
    \A m \in 0 .. b.x - 1, n \in 0 .. b.y - 1 : m <= last => Holds(b, A, m, n)

SeenInv == img.column >= 0 => Seen(blk, banks, fractional(img.row, t_x) + 1)

ImageInv == BankTyping /\ BytesInv /\ SignalInv /\ SeenInv

LEMMA SameScale ==
  ASSUME blk' = blk
  PROVE  /\ t_x' = t_x /\ t_y' = t_y /\ scale_n' = scale_n
         /\ \A k, t : fractional(k, t)' = fractional(k, t)
<1>1. \A n : digits(n)' = digits(n) /\ length(n)' = length(n)
  OBVIOUS
<1>2. scale_n' = scale_n
  BY DEF scale_n
<1> QED
  BY <1>2, Zenon DEF t_x, t_y, scaleOf, fractional

\* While the scaler is at work the registers stay and R is not idle.
LEMMA AtTheScaler ==
  ASSUME IInv, img.state # "await", NEW start \in BOOLEAN, NEW write \in BOOLEAN,
         Registers(start, write)
  PROVE  blk' = blk /\ r.state # "IDLE"
<1>1. hog.start \in BOOLEAN /\ hog.start_q \in BOOLEAN /\ StageInv
  BY DEF IInv, Typing
<1>2. Quiet \/ Reading \/ Computing \/ Writing
  BY <1>1 DEF StageInv, Ending, hog_start
<1>3. r.state # "IDLE"
  BY <1>2 DEF Quiet, Reading, Computing, Writing
<1>4. blk' = blk
  BY BlockKept
<1> QED
  BY <1>3, <1>4

LEMMA SignalStep ==
  ASSUME IInv, SignalInv, Scaler, NEW start \in BOOLEAN, NEW write \in BOOLEAN,
         Registers(start, write)
  PROVE  SignalInv'
<1> SUFFICES ASSUME img'.state # "await", img'.column # 0
             PROVE  img'.sig = row_signal_need'
  BY DEF SignalInv
<1>t. Typing /\ ScalerInv /\ OUT \in Nat /\ OUT > 1
  BY Sizes DEF IInv
<1>1. img'.sig = row_signal_need
  BY <1>t, ImgFields
<1>2. blk' = blk
  <2>1. img.state # "await" \/ hog_start
    BY <1>t, ImgFields
  <2> QED
    BY <2>1, BlockKept
<1>3. img'.row = img.row
  <2>1. img.row \in Int /\ img.column \in Int /\ img.delay \in Int
    BY <1>t DEF Typing
  <2>2. \/ img'.row = img.row
        \/ img'.row = ScalerWork.row /\ img'.column = ScalerWork.column
    BY <1>t, ImgFields
  <2>3. \/ ScalerWork.row = img.row
        \/ /\ ScalerWork.row = (IF img.column = OUT - 1 THEN img.row + 1 ELSE img.row)
           /\ ScalerWork.column = (img.column + 1) % OUT
    BY <1>t, WorkFields
  <2>4. CASE img.column = OUT - 1
    <3>1. (img.column + 1) % OUT = 0
      BY <1>t, <2>4
    <3> QED
      BY <2>2, <2>3, <3>1
  <2>5. CASE img.column # OUT - 1
    BY <2>2, <2>3, <2>5
  <2> QED
    BY <2>4, <2>5
<1>4. row_signal_need' = row_signal_need
  BY <1>2, <1>3, SameScale, Zenon DEF row_signal_need
<1> QED
  BY <1>1, <1>4

\* The rows the scaler waited for have been written.
LEMMA RowsArrived ==
  ASSUME IInv, BankTyping, BytesInv, r.state # "IDLE", rowsReady, NEW last \in Int,
         last <= img.sig
  PROVE  Seen(blk, StoredBanks, last)
<1>t. /\ blk.x \in Int /\ r.row_count \in Int /\ img.sig \in Int
  <2>1. Typing
    BY DEF IInv
  <2>2. blk.x \in Int
    BY <2>1, BlockFacts
  <2> QED
    BY <2>1, <2>2 DEF Typing
<1>1. Stored(blk, StoredBanks, r.row_count, Column(blk, r))
  BY DEF BytesInv
<1>2. ASSUME NEW m \in 0 .. blk.x - 1, NEW n \in 0 .. blk.y - 1, m <= last
      PROVE  Holds(blk, StoredBanks, m, n)
  <2>1. m < r.row_count /\ m \in 0 .. r.row_count
    BY <1>t, <1>2 DEF rowsReady
  <2> QED
    BY <1>1, <2>1 DEF Stored
<1> QED
  BY <1>2 DEF Seen

LEMMA SeenKept ==
  ASSUME NEW b \in Blocks, NEW A \in FourBanks, NEW B \in FourBanks, Extends(A, B),
         NEW last, Seen(b, A, last)
  PROVE  Seen(b, B, last)
<1>1. ASSUME NEW m \in 0 .. b.x - 1, NEW n \in 0 .. b.y - 1, m <= last
      PROVE  Holds(b, B, m, n)
  <2>1. Holds(b, A, m, n)
    BY <1>1 DEF Seen
  <2>2. m \in Nat /\ n \in Nat
    BY BlockShape
  <2> QED
    BY <2>1, <2>2, HoldsKept
<1> QED
  BY <1>1 DEF Seen

LEMMA BanksExtend ==
  ASSUME BankTyping
  PROVE  StoredBanks \in FourBanks /\ Extends(banks, StoredBanks)
<1>1. \A a \in 0 .. 3 : banks[a] \in Seq(Int) /\ wea[a] \in Seq(Int)
  BY DEF BankTyping, FourBanks
<1>2. ASSUME NEW a \in 0 .. 3
      PROVE  /\ banks[a] \o wea[a] \in Seq(Int)
             /\ Len(banks[a]) <= Len(banks[a] \o wea[a])
             /\ \A p \in 1 .. Len(banks[a]) : (banks[a] \o wea[a])[p] = banks[a][p]
  <2>1. PICK s \in Seq(Int), u \in Seq(Int) : s = banks[a] /\ u = wea[a]
    BY <1>1
  <2>2. PICK k \in Nat, l \in Nat : k = Len(s) /\ l = Len(u)
    BY LenProperties
  <2>3. PICK z : z = s \o u
    OBVIOUS
  <2>4. /\ z \in Seq(Int) /\ Len(z) = k + l
        /\ \A p \in 1 .. k + l : z[p] = IF p <= k THEN s[p] ELSE u[p - k]
    BY <2>2, <2>3, ConcatProperties
  <2>5. k <= Len(z) /\ \A p \in 1 .. k : z[p] = s[p]
    BY <2>2, <2>4
  <2> QED
    BY <2>1, <2>2, <2>3, <2>4, <2>5
<1> QED
  BY <1>2 DEF StoredBanks, FourBanks, Extends

LEMMA SeenStep ==
  ASSUME IInv, ImageInv, Scaler, Banks, wea' \in FourBanks,
         NEW start \in BOOLEAN, NEW write \in BOOLEAN, Registers(start, write)
  PROVE  SeenInv'
<1> SUFFICES ASSUME img'.column >= 0
             PROVE  Seen(blk, banks, fractional(img.row, t_x) + 1)'
  BY DEF SeenInv
<1>t. /\ Typing /\ ScalerInv /\ OUT \in Nat /\ OUT > 1 /\ blk \in Blocks
      /\ img.row \in Nat /\ img.column \in Int /\ img.delay \in Int /\ img.sig \in Int
      /\ BankTyping /\ BytesInv /\ SignalInv /\ SeenInv
  <2>1. Typing /\ ScalerInv
    BY DEF IInv
  <2>2. img.row \in Nat
    BY <2>1, Sizes DEF ScalerInv
  <2> QED
    BY <2>1, <2>2, Sizes DEF Typing, ImageInv
<1>1. /\ img.state \in {"await1", "work"}
      /\ \/ img'.row = img.row /\ img'.column = img.column
         \/ img'.row = ScalerWork.row /\ img'.column = ScalerWork.column
  <2>1. img.state = "await" => img.column = -1
    BY <1>t DEF ScalerInv
  <2> QED
    BY <1>t, <2>1, ImgFields
<1>2. blk' = blk /\ r.state # "IDLE"
  BY <1>1, AtTheScaler
<1>3. banks' = StoredBanks /\ StoredBanks \in FourBanks /\ Extends(banks, StoredBanks)
  BY <1>t, <1>2, BanksMove, BanksExtend
<1>4. fractional(img.row, t_x)' = fractional(img'.row, t_x)
  BY <1>2, SameScale, Zenon DEF fractional
<1>5. SUFFICES Seen(blk, StoredBanks, fractional(img'.row, t_x) + 1)
  <2>1. ASSUME Seen(blk, StoredBanks, fractional(img'.row, t_x) + 1)
        PROVE  Seen(blk, banks, fractional(img.row, t_x) + 1)'
    BY <1>2, <1>3, <1>4, <2>1, Zenon DEF Seen, Holds, PlaceIn, Half, Row
  <2> QED
    BY <2>1
<1>6. ASSUME img.column >= 0, img'.row = img.row
      PROVE  Seen(blk, StoredBanks, fractional(img'.row, t_x) + 1)
  <2>1. Seen(blk, banks, fractional(img.row, t_x) + 1)
    BY <1>t, <1>6 DEF SeenInv
  <2>2. Seen(blk, StoredBanks, fractional(img.row, t_x) + 1)
    BY <1>t, <1>3, <2>1, SeenKept DEF BankTyping
  <2> QED
    BY <1>6, <2>2, Zenon
<1>7. \/ img'.row = img.row /\ img'.column = img.column
      \/ /\ rowsReady /\ img'.column = (img.column + 1) % OUT
         /\ img'.row = IF img.column = OUT - 1 THEN img.row + 1 ELSE img.row
  BY <1>t, <1>1, WorkFields
<1>8. CASE img.column # 0 /\ rowsReady /\ img'.row \in img.row .. img.row + 1
  <2>1. img.sig = row_signal_need
    BY <1>t, <1>1, <1>8 DEF SignalInv
  <2>2. PICK k \in img.row .. img.row + 1 : k = img'.row
    BY <1>8
  <2>3. fractional(k, t_x) \in Nat /\ fractional(k, t_x) + 1 <= img.sig
    BY <1>t, <2>1, <2>2, NeedCovers
  <2>4. PICK f \in Nat : f = fractional(k, t_x) /\ f + 1 <= img.sig
    BY <2>3
  <2>5. Seen(blk, StoredBanks, f + 1)
    BY <1>t, <1>2, <1>8, <2>4, RowsArrived
  <2> QED
    BY <2>2, <2>4, <2>5, Zenon
<1>9. CASE img.column = 0
  <2>1. img'.row = img.row
    BY <1>t, <1>7, <1>9
  <2> QED
    BY <1>6, <1>9, <2>1
<1> QED
  <2>1. CASE img'.row = img.row /\ img'.column = img.column
    BY <2>1, <1>6
  <2>2. CASE rowsReady /\ img'.row \in img.row .. img.row + 1
    BY <2>2, <1>8, <1>9
  <2>3. img.row \in img.row .. img.row + 1 /\ img.row + 1 \in img.row .. img.row + 1
    BY <1>t
  <2> QED
    BY <1>7, <2>1, <2>2, <2>3

-----------------------------------------------------------------------------
(* The image is in place.                                                  *)

LEMMA InitImage ==
  Init => ImageInv
<1> SUFFICES ASSUME Init PROVE ImageInv
  OBVIOUS
<1>1. /\ wea = [b \in 0 .. 3 |-> <<>>] /\ banks = [b \in 0 .. 3 |-> <<>>]
      /\ r.state = "IDLE" /\ img.state = "await" /\ img.column = -1
  BY DEF Init, RIdle, ImgAwait
<1>2. BankTyping
  BY <1>1, EmptySeq DEF BankTyping, FourBanks
<1>3. BytesInv /\ SignalInv /\ SeenInv
  BY <1>1 DEF BytesInv, SignalInv, SeenInv
<1> QED
  BY <1>2, <1>3 DEF ImageInv

LEMMA StepImage ==
  ASSUME IInv, ImageInv, Next
  PROVE  ImageInv'
<1>1. PICK arready, rvalid, awready, wready, computed, cleared \in BOOLEAN :
         Edge(arready, rvalid, awready, wready, computed, cleared)
  BY NextIsStep
<1>2. PICK start, write \in BOOLEAN : Registers(start, write)
  BY NextIsStep
<1>3. ReadData(rvalid) /\ Banks /\ Scaler /\ (rvalid => r.ready /\ bursts # <<>>)
  BY <1>1 DEF Edge, Clock
<1>4. BytesInv /\ BankTyping /\ SignalInv
  BY DEF ImageInv
<1>5. BytesInv' /\ BankTyping'
  BY <1>2, <1>3, <1>4, BytesStep
<1>6. SignalInv'
  BY <1>2, <1>3, <1>4, SignalStep
<1>7. wea' \in FourBanks
  BY <1>5 DEF BankTyping
<1>8. SeenInv'
  BY <1>2, <1>3, <1>7, SeenStep
<1> QED
  BY <1>5, <1>6, <1>8 DEF ImageInv

LEMMA StutterImage ==
  ASSUME ImageInv, UNCHANGED vars
  PROVE  ImageInv'
<1>1. blk' = blk /\ r' = r /\ wea' = wea /\ banks' = banks /\ img' = img
  BY DEF vars
<1>2. BankTyping'
  BY <1>1, Zenon DEF ImageInv, BankTyping
<1>3. BytesInv'
  <2>1. StoredBanks' = StoredBanks
    BY <1>1, Zenon DEF StoredBanks
  <2> QED
    BY <1>1, <2>1, Zenon DEF ImageInv, BytesInv
<1>4. SignalInv'
  <2>1. row_signal_need' = row_signal_need
    BY <1>1, SameScale, Zenon DEF row_signal_need
  <2> QED
    BY <1>1, <2>1, Zenon DEF ImageInv, SignalInv
<1>5. SeenInv'
  <2>1. fractional(img.row, t_x)' = fractional(img.row, t_x)
    BY <1>1, SameScale, Zenon DEF fractional
  <2>2. SeenInv
    BY DEF ImageInv
  <2> QED
    BY <1>1, <2>1, <2>2, Zenon DEF SeenInv
<1> QED
  BY <1>2, <1>3, <1>4, <1>5 DEF ImageInv

\* For the same blocks, sizes and delays: the banks hold the rows that have come and the
\* part of the row that R is writing, each byte at its place and nothing else; and
\* the rows that the scaler interpolates are among them (hog_trans.v:1563-2140,
\* IMG.v:106-200, 256-648).
THEOREM ImageInvariant ==
  Spec => [](IInv /\ ImageInv)
<1>1. (IInv /\ ImageInv) /\ [Next]_vars => (IInv /\ ImageInv)'
  <2>1. IInv /\ ImageInv /\ Next => ImageInv'
    BY StepImage
  <2>2. IInv /\ ImageInv /\ UNCHANGED vars => ImageInv'
    BY StutterImage
  <2> QED
    BY <2>1, <2>2, StepIInv, StutterIInv
<1>2. Init => IInv /\ ImageInv
  BY InitIInv, InitImage
<1> QED
  BY <1>1, <1>2, PTL DEF Spec

LEMMA SameBanks ==
  ASSUME NEW A \in FourBanks, NEW B \in FourBanks, \A b \in 0 .. 3 : A[b] = B[b]
  PROVE  A = B
<1>1. A = [b \in 0 .. 3 |-> A[b]] /\ B = [b \in 0 .. 3 |-> B[b]]
  BY DEF FourBanks
<1> QED
  BY <1>1, Zenon

LEMMA PixelHeld ==
  ASSUME Typing, NEW i \in Nat, NEW j \in Nat, Holds(blk, banks, i, j)
  PROVE  Pixel(i, j) = blk.addr + i * blk.stride + j
<1>1. blk \in Blocks
  BY DEF Typing
<1>2. (blk.y + 1 - (j % 2)) \div 2 = Half(blk)
  <2>1. PICK h \in Nat, y \in Nat : h = Half(blk) /\ y = blk.y /\ y = 2 * h
    BY <1>1, BlockShape
  <2>2. PICK e \in 0 .. 1 : e = j % 2
    BY Halves
  <2>3. (y + 1 - e) \div 2 = h
    BY <2>1, <2>2
  <2> QED
    BY <2>1, <2>2, <2>3, Zenon
<1>3. PICK k, b : k = PlaceIn(blk, i, j) /\ b = Bank(i, j)
  OBVIOUS
<1>4. Pixel(i, j) = IF k < Len(banks[b]) THEN banks[b][k + 1] ELSE -1
  BY <1>2, <1>3, Zenon DEF Pixel, PlaceIn, Bank
<1>5. k < Len(banks[b]) /\ banks[b][k + 1] = Row(blk, i) + j
  BY <1>3, Zenon DEF Holds
<1> QED
  BY <1>4, <1>5, Zenon DEF Row

LEMMA Clamped ==
  ASSUME NEW f \in Nat, NEW d \in 0 .. 1, NEW n \in Nat, n > 0
  PROVE  Min({f + d, n - 1}) \in 0 .. n - 1 /\ Min({f + d, n - 1}) <= f + 1
<1>1. Min({f + d, n - 1}) = IF f + d <= n - 1 THEN f + d ELSE n - 1
  BY MinMax
<1> QED
  BY <1>1

\* The scaler never reads a pixel before it has been written, and never one of another
\* row or column, although it starts on the first rows while the last are still to come;
\* when R ends, the block is in the banks (IMG.v:106-200, 256-648,
\* hog_trans.v:1563-2140).
THEOREM BlockIsInPlace ==
  Spec => []BlockInPlace
<1>1. ASSUME IInv, ImageInv PROVE BlockInPlace
  <2>t. /\ Typing /\ blk \in Blocks /\ blk.x \in Nat /\ blk.x > 0 /\ blk.y \in Nat
        /\ blk.y > 0
    <3>1. Typing
      BY <1>1 DEF IInv
    <3>2. blk \in Blocks
      BY <3>1 DEF Typing
    <3> QED
      BY <3>1, <3>2, BlockFacts
  <2>1. ASSUME img.column >= 0, NEW di \in 0 .. 1, NEW dj \in 0 .. 1
        PROVE  LET i == Min({fractional(img.row, t_x) + di, blk.x - 1})
                   j == Min({fractional(img.column, t_y) + dj, blk.y - 1})
               IN  Pixel(i, j) = blk.addr + i * blk.stride + j
    <3>0. PICK i, j : /\ i = Min({fractional(img.row, t_x) + di, blk.x - 1})
                      /\ j = Min({fractional(img.column, t_y) + dj, blk.y - 1})
      OBVIOUS
    <3>1. img.row \in Nat /\ img.column \in Nat
      BY <1>1, <2>1, <2>t, Sizes DEF IInv, ScalerInv
    <3>2. PICK f \in Nat, g \in Nat :
             f = fractional(img.row, t_x) /\ g = fractional(img.column, t_y)
      BY <2>t, <3>1, ScaleNumbers, Fractional
    <3>3. i \in 0 .. blk.x - 1 /\ i <= f + 1
      BY <2>t, <3>0, <3>2, Clamped
    <3>4. j \in 0 .. blk.y - 1
      BY <2>t, <3>0, <3>2, Clamped
    <3>5. Seen(blk, banks, f + 1)
      BY <1>1, <2>1, <3>2 DEF ImageInv, SeenInv
    <3>6. Holds(blk, banks, i, j)
      BY <3>3, <3>4, <3>5 DEF Seen
    <3>7. i \in Nat /\ j \in Nat
      BY <2>t, <3>3, <3>4
    <3>8. Pixel(i, j) = blk.addr + i * blk.stride + j
      BY <2>t, <3>6, <3>7, PixelHeld
    <3> QED
      BY <3>0, <3>8, Zenon
  <2>2. ASSUME r.state = "END", NEW i \in 0 .. blk.x - 1, NEW j \in 0 .. blk.y - 1
        PROVE  Pixel(i, j) = blk.addr + i * blk.stride + j
    <3>1. r.row_count = blk.x /\ \A b \in 0 .. 3 : wea[b] = <<>>
      BY <1>1, <2>2 DEF IInv, RowInv
    <3>2. banks \in FourBanks /\ StoredBanks \in FourBanks
      BY <1>1, BanksExtend DEF ImageInv, BankTyping
    <3>3. StoredBanks = banks
      <4>1. ASSUME NEW b \in 0 .. 3 PROVE StoredBanks[b] = banks[b]
        <5>1. StoredBanks[b] = banks[b] \o <<>>
          BY <3>1 DEF StoredBanks
        <5>2. banks[b] \in Seq(Int)
          BY <3>2 DEF FourBanks
        <5> QED
          BY <5>1, <5>2, ConcatEmptySeq
      <4> QED
        BY <3>2, <4>1, SameBanks
    <3>4. Stored(blk, banks, blk.x, Column(blk, r))
      BY <1>1, <2>2, <3>1, <3>3 DEF ImageInv, BytesInv
    <3>5. Holds(blk, banks, i, j)
      <4>1. i \in 0 .. blk.x /\ i < blk.x
        BY <2>t
      <4> QED
        BY <3>4, <4>1 DEF Stored
    <3>6. i \in Nat /\ j \in Nat
      BY <2>t
    <3> QED
      BY <2>t, <3>5, <3>6, PixelHeld
  <2> QED
    BY <2>1, <2>2, Zenon DEF BlockInPlace
<1>2. IInv /\ ImageInv => BlockInPlace
  BY <1>1
<1> QED
  BY <1>2, ImageInvariant, PTL

===============================================================================
