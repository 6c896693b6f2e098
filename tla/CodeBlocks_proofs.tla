------------------------- MODULE CodeBlocks_proofs -------------------------
(***************************************************************************)
(* Segmentation, for transport blocks of every size, any number of layers  *)
(* and every MAX_SYMBOL_NUM and MAX_CQI_MOD that satisfy                   *)
(* RecordsAssumption: the code blocks of a layer tile its transport block  *)
(* and its symbols, and the offsets derm_crc is given are those crc_mod    *)
(* works out by itself.                                                    *)
(*                                                                         *)
(* The invariant says where the loops of the two schedulers stand: s is    *)
(* the sum of the shares of the blocks behind them (Shared), c the start   *)
(* of the next piece (Start), both sides have segmented the same sizes,    *)
(* and every block behind them, and no other, has its record.  That is not *)
(* visible in the properties, which compare complete records only.  The    *)
(* rest is arithmetic: the table of block lengths leaves no gap wider than *)
(* 64 bits, so the filler bits fit the first block, and the last piece     *)
(* ends where the transport block ends.                                    *)
(***************************************************************************)
EXTENDS CodeBlocks, TLAPS

-----------------------------------------------------------------------------
(* Arithmetic *)

\* Division rounds down.
LEMMA Div ==
  \A x \in Int, d \in Nat \ {0} :
    /\ x \div d \in Int
    /\ d * (x \div d) <= x /\ x < d * (x \div d) + d
  OBVIOUS

\* x is a multiple of d.
Multiple(x, d) == \E q \in Int : x = d * q

\* k is the smallest multiple of d from len on.
IsNext(k, len, d) ==
  /\ Multiple(k, d) /\ k >= len /\ k < len + d
  /\ \A m \in Int : Multiple(m, d) /\ m >= len => k <= m

\* Rounding up to a multiple gives the next one.
LEMMA NextMultiple ==
  ASSUME NEW d \in {8, 16, 32, 64}, NEW len \in Int
  PROVE  \E k \in Int : IsNext(k, len, d)
  <1> DEFINE q == (len + d - 1) \div d
  <1>1. q \in Int /\ d * q <= len + d - 1 /\ len - 1 < d * q
    <2>1. d \in Nat \ {0} /\ len + d - 1 \in Int
      OBVIOUS
    <2> QED
      BY <2>1, Div
  <1> HIDE DEF q
  <1>2. d * q \in Int /\ Multiple(d * q, d)
    BY <1>1 DEF Multiple
  <1>3. ASSUME NEW p \in Int, d * p >= len PROVE d * q <= d * p
    BY <1>1, <1>3
  <1> QED
    BY <1>1, <1>2, <1>3 DEF IsNext, Multiple

-----------------------------------------------------------------------------
(* The table tc_cb_sizes *)

\* Its sizes are multiples of 8 and lie further apart the larger they are.
LEMMA Steps ==
  \A k \in CbSizes :
    /\ k \in Int /\ 40 <= k /\ k <= 6144 /\ Multiple(k, 8)
    /\ k > 512 => k >= 528 /\ Multiple(k, 16)
    /\ k > 1024 => k >= 1056 /\ Multiple(k, 32)
    /\ k > 2048 => k >= 2112 /\ Multiple(k, 64)
  <1> SUFFICES ASSUME NEW k \in CbSizes
               PROVE  /\ k \in Int /\ 40 <= k /\ k <= 6144 /\ Multiple(k, 8)
                      /\ k > 512 => k >= 528 /\ Multiple(k, 16)
                      /\ k > 1024 => k >= 1056 /\ Multiple(k, 32)
                      /\ k > 2048 => k >= 2112 /\ Multiple(k, 64)
    OBVIOUS
  <1>1. CASE k \in {8 * j : j \in 5 .. 64}
    <2>1. PICK j \in 5 .. 64 : k = 8 * j
      BY <1>1
    <2>2. k = 8 * (1 * j)
      BY <2>1
    <2> QED
      BY <2>1, <2>2 DEF Multiple
  <1>2. CASE k \in {16 * j : j \in 33 .. 64}
    <2>1. PICK j \in 33 .. 64 : k = 16 * j
      BY <1>2
    <2>2. k = 16 * (1 * j) /\ k = 8 * (2 * j)
      BY <2>1
    <2> QED
      BY <2>1, <2>2 DEF Multiple
  <1>3. CASE k \in {32 * j : j \in 33 .. 64}
    <2>1. PICK j \in 33 .. 64 : k = 32 * j
      BY <1>3
    <2>2. k = 32 * (1 * j) /\ k = 16 * (2 * j) /\ k = 8 * (4 * j)
      BY <2>1
    <2> QED
      BY <2>1, <2>2 DEF Multiple
  <1>4. CASE k \in {64 * j : j \in 33 .. 96}
    <2>1. PICK j \in 33 .. 96 : k = 64 * j
      BY <1>4
    <2>2. k = 64 * (1 * j) /\ k = 32 * (2 * j) /\ k = 16 * (4 * j) /\ k = 8 * (8 * j)
      BY <2>1
    <2> QED
      BY <2>1, <2>2 DEF Multiple
  <1> QED
    BY <1>1, <1>2, <1>3, <1>4 DEF CbSizes

\* From 40 to 512 every multiple of 8 is in it.
LEMMA Covers8 ==
  \A k \in Int : 40 <= k /\ k <= 512 /\ Multiple(k, 8) => k \in CbSizes
  <1> SUFFICES ASSUME NEW k \in Int, 40 <= k, k <= 512, Multiple(k, 8) PROVE k \in CbSizes
    OBVIOUS
  <1>1. PICK q \in Int : k = 8 * q
    BY DEF Multiple
  <1>2. q \in 5 .. 64
    BY <1>1
  <1> QED
    BY <1>1, <1>2 DEF CbSizes

\* From 528 to 1024 every multiple of 16 is in it.
LEMMA Covers16 ==
  \A k \in Int : 528 <= k /\ k <= 1024 /\ Multiple(k, 16) => k \in CbSizes
  <1> SUFFICES ASSUME NEW k \in Int, 528 <= k, k <= 1024, Multiple(k, 16) PROVE k \in CbSizes
    OBVIOUS
  <1>1. PICK q \in Int : k = 16 * q
    BY DEF Multiple
  <1>2. q \in 33 .. 64
    BY <1>1
  <1> QED
    BY <1>1, <1>2 DEF CbSizes

\* From 1056 to 2048 every multiple of 32 is in it.
LEMMA Covers32 ==
  \A k \in Int : 1056 <= k /\ k <= 2048 /\ Multiple(k, 32) => k \in CbSizes
  <1> SUFFICES ASSUME NEW k \in Int, 1056 <= k, k <= 2048, Multiple(k, 32) PROVE k \in CbSizes
    OBVIOUS
  <1>1. PICK q \in Int : k = 32 * q
    BY DEF Multiple
  <1>2. q \in 33 .. 64
    BY <1>1
  <1> QED
    BY <1>1, <1>2 DEF CbSizes

\* From 2112 to 6144 every multiple of 64 is in it.
LEMMA Covers64 ==
  \A k \in Int : 2112 <= k /\ k <= 6144 /\ Multiple(k, 64) => k \in CbSizes
  <1> SUFFICES ASSUME NEW k \in Int, 2112 <= k, k <= 6144, Multiple(k, 64) PROVE k \in CbSizes
    OBVIOUS
  <1>1. PICK q \in Int : k = 64 * q
    BY DEF Multiple
  <1>2. q \in 33 .. 96
    BY <1>1
  <1> QED
    BY <1>1, <1>2 DEF CbSizes

\* srslte_cbsegm_cbindex finds the smallest size of the table that is large
\* enough, for every length up to the largest size.
LEMMA SizeForFits ==
  ASSUME NEW len \in Int, len <= 6144
  PROVE  /\ SizeFor(len) \in CbSizes
         /\ SizeFor(len) >= len
         /\ \A m \in CbSizes : m >= len => SizeFor(len) <= m
  <1> DEFINE P(k) == k >= len /\ \A m \in CbSizes : m >= len => k <= m
  <1>1. \E k \in CbSizes : P(k)
    <2>1. CASE len <= 40
      <3>1. Multiple(40, 8)
        <4>1. 40 = 8 * 5
          OBVIOUS
        <4> QED
          BY <4>1 DEF Multiple
      <3>2. 40 \in CbSizes
        BY <3>1, Covers8
      <3> QED
        BY <2>1, <3>2, Steps
    <2>2. CASE 40 < len /\ len <= 512
      <3>1. PICK k \in Int : IsNext(k, len, 8)
        BY NextMultiple
      <3>2. Multiple(k, 8) /\ k >= len /\ k < len + 8
        BY <3>1 DEF IsNext
      <3>3. 40 <= k /\ k <= 512
        BY <2>2, <3>2 DEF Multiple
      <3>4. k \in CbSizes
        BY <3>2, <3>3, Covers8
      <3>5. ASSUME NEW m \in CbSizes, m >= len PROVE k <= m
        <4>1. m \in Int /\ m > 40
          BY <2>2, <3>5, Steps
        <4>2. Multiple(m, 8)
          BY <4>1, Steps
        <4> QED
          BY <3>1, <3>5, <4>1, <4>2 DEF IsNext
      <3> QED
        BY <3>2, <3>4, <3>5
    <2>3. CASE 512 < len /\ len <= 1024
      <3>1. PICK k \in Int : IsNext(k, len, 16)
        BY NextMultiple
      <3>2. Multiple(k, 16) /\ k >= len /\ k < len + 16
        BY <3>1 DEF IsNext
      <3>3. 528 <= k /\ k <= 1024
        BY <2>3, <3>2 DEF Multiple
      <3>4. k \in CbSizes
        BY <3>2, <3>3, Covers16
      <3>5. ASSUME NEW m \in CbSizes, m >= len PROVE k <= m
        <4>1. m \in Int /\ m > 512
          BY <2>3, <3>5, Steps
        <4>2. Multiple(m, 16)
          BY <4>1, Steps
        <4> QED
          BY <3>1, <3>5, <4>1, <4>2 DEF IsNext
      <3> QED
        BY <3>2, <3>4, <3>5
    <2>4. CASE 1024 < len /\ len <= 2048
      <3>1. PICK k \in Int : IsNext(k, len, 32)
        BY NextMultiple
      <3>2. Multiple(k, 32) /\ k >= len /\ k < len + 32
        BY <3>1 DEF IsNext
      <3>3. 1056 <= k /\ k <= 2048
        BY <2>4, <3>2 DEF Multiple
      <3>4. k \in CbSizes
        BY <3>2, <3>3, Covers32
      <3>5. ASSUME NEW m \in CbSizes, m >= len PROVE k <= m
        <4>1. m \in Int /\ m > 1024
          BY <2>4, <3>5, Steps
        <4>2. Multiple(m, 32)
          BY <4>1, Steps
        <4> QED
          BY <3>1, <3>5, <4>1, <4>2 DEF IsNext
      <3> QED
        BY <3>2, <3>4, <3>5
    <2>5. CASE 2048 < len /\ len <= 6144
      <3>1. PICK k \in Int : IsNext(k, len, 64)
        BY NextMultiple
      <3>2. Multiple(k, 64) /\ k >= len /\ k < len + 64
        BY <3>1 DEF IsNext
      <3>3. 2112 <= k /\ k <= 6144
        BY <2>5, <3>2 DEF Multiple
      <3>4. k \in CbSizes
        BY <3>2, <3>3, Covers64
      <3>5. ASSUME NEW m \in CbSizes, m >= len PROVE k <= m
        <4>1. m \in Int /\ m > 2048
          BY <2>5, <3>5, Steps
        <4>2. Multiple(m, 64)
          BY <4>1, Steps
        <4> QED
          BY <3>1, <3>5, <4>1, <4>2 DEF IsNext
      <3> QED
        BY <3>2, <3>4, <3>5
    <2> QED
      BY <2>1, <2>2, <2>3, <2>4, <2>5
  <1>2. SizeFor(len) = CHOOSE k \in CbSizes : P(k)
    BY DEF SizeFor
  <1> HIDE DEF P
  <1>3. SizeFor(len) \in CbSizes /\ P(SizeFor(len))
    BY <1>1, <1>2
  <1> QED
    BY <1>3 DEF P

\* The size before another one is smaller by no more than 64 bits.
LEMMA SizeBeforeFits ==
  ASSUME NEW k1 \in CbSizes, k1 > 40
  PROVE  /\ SizeBefore(k1) \in CbSizes
         /\ SizeBefore(k1) < k1 /\ k1 - SizeBefore(k1) <= 64
  <1> DEFINE P(k) == k < k1 /\ \A m \in CbSizes : m < k1 => m <= k
  <1>1. k1 \in Int /\ k1 <= 6144
    BY Steps
  <1>2. \E k \in CbSizes : P(k) /\ k1 - k <= 64
    <2>1. CASE 40 < k1 /\ k1 <= 512
      <3>1. PICK q \in Int : k1 = 8 * q
        BY <1>1, <2>1, Steps DEF Multiple
      <3>2. /\ k1 - 8 = 8 * (q - 1) /\ q - 1 \in Int
            /\ 40 <= k1 - 8 /\ k1 - 8 <= 512
        BY <1>1, <2>1, <3>1
      <3>3. k1 - 8 \in CbSizes
        BY <1>1, <3>2, Covers8 DEF Multiple
      <3>4. ASSUME NEW m \in CbSizes, m < k1 PROVE m <= k1 - 8
        <4>1. CASE m <= 40
          BY <1>1, <3>2, <4>1, Steps
        <4>2. CASE m > 40
          <5>1. PICK p \in Int : m = 8 * p
            BY <4>2, Steps DEF Multiple
          <5> QED
            BY <3>1, <3>4, <5>1
        <4> QED
          BY <4>1, <4>2, Steps
      <3> QED
        BY <1>1, <3>2, <3>3, <3>4
    <2>2. CASE 512 < k1 /\ k1 <= 1024
      <3>1. PICK q \in Int : k1 = 16 * q
        BY <1>1, <2>2, Steps DEF Multiple
      <3>2. /\ k1 - 16 = 16 * (q - 1) /\ q - 1 \in Int
            /\ 512 <= k1 - 16 /\ k1 - 16 <= 1024
        BY <1>1, <2>2, <3>1
      <3>3. k1 - 16 \in CbSizes
        <4>1. CASE k1 - 16 = 512
          <5>1. 512 = 8 * 64
            OBVIOUS
          <5> QED
            BY <4>1, <5>1, Covers8 DEF Multiple
        <4>2. CASE k1 - 16 # 512
          <5>1. 528 <= k1 - 16
            BY <1>1, <3>1, <3>2, <4>2
          <5> QED
            BY <1>1, <3>2, <5>1, Covers16 DEF Multiple
        <4> QED
          BY <4>1, <4>2
      <3>4. ASSUME NEW m \in CbSizes, m < k1 PROVE m <= k1 - 16
        <4>1. CASE m <= 512
          BY <1>1, <3>2, <4>1, Steps
        <4>2. CASE m > 512
          <5>1. PICK p \in Int : m = 16 * p
            BY <4>2, Steps DEF Multiple
          <5> QED
            BY <3>1, <3>4, <5>1
        <4> QED
          BY <4>1, <4>2, Steps
      <3> QED
        BY <1>1, <3>2, <3>3, <3>4
    <2>3. CASE 1024 < k1 /\ k1 <= 2048
      <3>1. PICK q \in Int : k1 = 32 * q
        BY <1>1, <2>3, Steps DEF Multiple
      <3>2. /\ k1 - 32 = 32 * (q - 1) /\ q - 1 \in Int
            /\ 1024 <= k1 - 32 /\ k1 - 32 <= 2048
        BY <1>1, <2>3, <3>1
      <3>3. k1 - 32 \in CbSizes
        <4>1. CASE k1 - 32 = 1024
          <5>1. 1024 = 16 * 64
            OBVIOUS
          <5> QED
            BY <4>1, <5>1, Covers16 DEF Multiple
        <4>2. CASE k1 - 32 # 1024
          <5>1. 1056 <= k1 - 32
            BY <1>1, <3>1, <3>2, <4>2
          <5> QED
            BY <1>1, <3>2, <5>1, Covers32 DEF Multiple
        <4> QED
          BY <4>1, <4>2
      <3>4. ASSUME NEW m \in CbSizes, m < k1 PROVE m <= k1 - 32
        <4>1. CASE m <= 1024
          BY <1>1, <3>2, <4>1, Steps
        <4>2. CASE m > 1024
          <5>1. PICK p \in Int : m = 32 * p
            BY <4>2, Steps DEF Multiple
          <5> QED
            BY <3>1, <3>4, <5>1
        <4> QED
          BY <4>1, <4>2, Steps
      <3> QED
        BY <1>1, <3>2, <3>3, <3>4
    <2>4. CASE 2048 < k1 /\ k1 <= 6144
      <3>1. PICK q \in Int : k1 = 64 * q
        BY <1>1, <2>4, Steps DEF Multiple
      <3>2. /\ k1 - 64 = 64 * (q - 1) /\ q - 1 \in Int
            /\ 2048 <= k1 - 64 /\ k1 - 64 <= 6144
        BY <1>1, <2>4, <3>1
      <3>3. k1 - 64 \in CbSizes
        <4>1. CASE k1 - 64 = 2048
          <5>1. 2048 = 32 * 64
            OBVIOUS
          <5> QED
            BY <4>1, <5>1, Covers32 DEF Multiple
        <4>2. CASE k1 - 64 # 2048
          <5>1. 2112 <= k1 - 64
            BY <1>1, <3>1, <3>2, <4>2
          <5> QED
            BY <1>1, <3>2, <5>1, Covers64 DEF Multiple
        <4> QED
          BY <4>1, <4>2
      <3>4. ASSUME NEW m \in CbSizes, m < k1 PROVE m <= k1 - 64
        <4>1. CASE m <= 2048
          BY <1>1, <3>2, <4>1, Steps
        <4>2. CASE m > 2048
          <5>1. PICK p \in Int : m = 64 * p
            BY <4>2, Steps DEF Multiple
          <5> QED
            BY <3>1, <3>4, <5>1
        <4> QED
          BY <4>1, <4>2, Steps
      <3> QED
        BY <1>1, <3>2, <3>3, <3>4
    <2> QED
      BY <1>1, <2>1, <2>2, <2>3, <2>4
  <1>3. SizeBefore(k1) = CHOOSE k \in CbSizes : P(k)
    BY DEF SizeBefore
  <1>4. SizeBefore(k1) \in CbSizes /\ P(SizeBefore(k1))
    <2> HIDE DEF P
    <2> QED
      BY <1>2, <1>3
  <1>5. SizeBefore(k1) \in Int
    BY <1>4, Steps
  <1> QED
    BY <1>1, <1>2, <1>4, <1>5, Steps

-----------------------------------------------------------------------------
(* Segmentation *)

\* Products with a common factor.
LEMMA Product ==
  \A d, x, y \in Int : /\ d >= 0 /\ x <= y => d * x <= d * y
                       /\ d > 0 /\ d * x < d * y => x < y
                       /\ d * (x + y) = d * x + d * y
                       /\ d * (x - y) = d * x - d * y
                       /\ d * x \in Int /\ x * d = d * x
  OBVIOUS

\* Sums and differences of multiples are multiples.
LEMMA Sums ==
  ASSUME NEW x \in Int, NEW y \in Int, Multiple(x, 8), Multiple(y, 8)
  PROVE  Multiple(x + y, 8) /\ Multiple(x - y, 8)
  <1>1. PICK p \in Int : x = 8 * p
    BY DEF Multiple
  <1>2. PICK q \in Int : y = 8 * q
    BY DEF Multiple
  <1>3. x + y = 8 * (p + q) /\ x - y = 8 * (p - q)
    BY <1>1, <1>2
  <1>4. p + q \in Int /\ p - q \in Int
    OBVIOUS
  <1> QED
    BY <1>3, <1>4, Zenon DEF Multiple

\* So are products.
LEMMA Times ==
  ASSUME NEW x \in Int, NEW z \in Int, Multiple(x, 8)
  PROVE  Multiple(z * x, 8) /\ z * x \in Int
  <1>1. PICK p \in Int : x = 8 * p
    BY DEF Multiple
  <1>2. z * x = 8 * (z * p) /\ z * p \in Int
    BY <1>1
  <1> QED
    BY <1>2, Product DEF Multiple

\* What the segmentation of a block of b bits promises: no more blocks than
\* records and symbols; sizes from the table; fewer null bits than the sizes
\* differ, a whole number of bytes; and blocks that hold the bits of the
\* transport block, the null bits and the checksums, neither more nor less.
WellFormed(cb, b) ==
  /\ cb \in [C : Int, K1 : Int, K2 : Int, C1 : Int, C2 : Int, F : Int]
  /\ 1 <= cb.C /\ cb.C <= cbNum /\ cb.C <= MAX_SYMBOL_NUM
  /\ cb.K1 \in CbSizes
  /\ cb.C = 1 => cb.K2 = 0 /\ cb.C2 = 0 /\ cb.C1 = 1 /\ cb.K1 = b + CRC_LENGTH + cb.F
  /\ cb.C > 1 => /\ cb.K2 \in CbSizes /\ cb.K1 > 3000 /\ cb.K2 > 3000
                 /\ 0 <= cb.C2 /\ cb.C2 < cb.C /\ cb.C1 = cb.C - cb.C2
                 /\ cb.C1 * cb.K1 + cb.C2 * cb.K2 = b + CRC_LENGTH + 24 * cb.C + cb.F
  /\ 0 <= cb.F /\ cb.F <= 63 /\ Multiple(cb.F, 8)

\* The sizes of transport blocks.
LEMMA SizeOfBlock ==
  \A b \in Sizes : /\ b \in Int /\ 1 <= b /\ Multiple(b, 8)
                   /\ b + CRC_LENGTH <= MAX_SYMBOL_NUM * MAX_CQI_MOD
  <1> SUFFICES ASSUME NEW b \in Sizes
               PROVE  /\ b \in Int /\ 1 <= b /\ Multiple(b, 8)
                      /\ b + CRC_LENGTH <= MAX_SYMBOL_NUM * MAX_CQI_MOD
    OBVIOUS
  <1>1. /\ b \in 1 .. MAX_SYMBOL_NUM * MAX_CQI_MOD - 24 /\ b % 8 = 0
        /\ MAX_SYMBOL_NUM * MAX_CQI_MOD \in Int
    BY CodeBlocksAssumption DEF CodeBlocksAssumption
  <1>2. b = 8 * (b \div 8) /\ b \div 8 \in Int
    BY <1>1
  <1> QED
    BY <1>1, <1>2 DEF Multiple, CRC_LENGTH

\* There are as many records as blocks, and no fewer symbols.
LEMMA EnoughRecords ==
  ASSUME NEW b \in Sizes
  PROVE  LET C == BlocksFor(b + CRC_LENGTH)
         IN C \in Int /\ 1 <= C /\ C <= cbNum /\ C <= MAX_SYMBOL_NUM
  <1> DEFINE M == MAX_SYMBOL_NUM * MAX_CQI_MOD
             B == b + CRC_LENGTH
             q == (B - 1) \div 6120
             p == (M - 1) \div 6120
             n == M \div 6144
  <1>1. /\ M \in Int /\ B \in Int /\ B >= 25 /\ B <= M
        /\ MAX_SYMBOL_NUM \in Int /\ 1 <= MAX_SYMBOL_NUM /\ M <= 6120 * MAX_SYMBOL_NUM
    <2>1. /\ MAX_SYMBOL_NUM \in Int /\ 1 <= MAX_SYMBOL_NUM
          /\ MAX_CQI_MOD \in Int /\ MAX_CQI_MOD <= 6120
      BY CodeBlocksAssumption, RecordsAssumption DEF CodeBlocksAssumption, RecordsAssumption
    <2>2. M \in Int /\ M <= MAX_SYMBOL_NUM * 6120
      BY <2>1, Product
    <2> QED
      BY <2>1, <2>2, SizeOfBlock DEF CRC_LENGTH
  <1>2. p <= n
    BY RecordsAssumption DEF RecordsAssumption
  <1> HIDE DEF M, B
  <1>3. q \in Int /\ 6120 * q <= B - 1 /\ B - 1 < 6120 * q + 6120
    BY <1>1, Div
  <1>4. p \in Int /\ 6120 * p <= M - 1 /\ M - 1 < 6120 * p + 6120
    BY <1>1, Div
  <1>5. n \in Int /\ 6144 * n <= M /\ M < 6144 * n + 6144
    BY <1>1, Div
  <1>6. cbNum = n + 1
    BY DEF cbNum, n, M, SRSLTE_TCOD_MAX_LEN_CB
  <1>7. BlocksFor(B) = IF B <= 6144 THEN 1 ELSE q + 1
    BY DEF BlocksFor, q, SRSLTE_TCOD_MAX_LEN_CB, CRC_LENGTH
  <1> HIDE DEF q, p, n
  <1>8. 0 <= q /\ q <= p /\ 0 <= n /\ q < MAX_SYMBOL_NUM
    BY <1>1, <1>3, <1>4, <1>5
  <1>9. /\ BlocksFor(B) \in Int /\ 1 <= BlocksFor(B)
        /\ BlocksFor(B) <= cbNum /\ BlocksFor(B) <= MAX_SYMBOL_NUM
    BY <1>1, <1>2, <1>3, <1>4, <1>5, <1>6, <1>7, <1>8
  <1> QED
    BY <1>9 DEF B

\* One block: the smallest size of the table that holds it.
LEMMA OneBlock ==
  ASSUME NEW b \in Sizes, BlocksFor(b + CRC_LENGTH) = 1
  PROVE  WellFormed(Segmentation(b), b)
  <1> DEFINE B == b + CRC_LENGTH
             K == SizeFor(B)
  <1>1. B \in Int /\ 25 <= B /\ B <= 6144 /\ Multiple(B, 8)
    <2>1. B \in Int /\ 25 <= B /\ b \in Int
      BY SizeOfBlock DEF CRC_LENGTH
    <2>2. B <= 6144
      <3> SUFFICES ASSUME B > 6144 PROVE FALSE
        BY <2>1
      <3>1. BlocksFor(B) = (B - 1) \div 6120 + 1
        BY <2>1 DEF BlocksFor, SRSLTE_TCOD_MAX_LEN_CB, CRC_LENGTH
      <3>2. BlocksFor(B) = 1
        OBVIOUS
      <3> HIDE DEF B
      <3>3. (B - 1) \div 6120 \in Int /\ B - 1 < 6120 * ((B - 1) \div 6120) + 6120
        BY <2>1, Div
      <3> QED
        BY <2>1, <3>1, <3>2, <3>3
    <2>3. PICK q \in Int : b = 8 * q
      BY SizeOfBlock DEF Multiple
    <2>4. B = 8 * (q + 3) /\ q + 3 \in Int
      BY <2>3 DEF CRC_LENGTH
    <2> HIDE DEF B
    <2> QED
      BY <2>1, <2>2, <2>4 DEF Multiple
  <1>2. (B - 1) \div 1 + 1 = B
    <2>1. (B - 1) \div 1 = B - 1
      BY <1>1
    <2> QED
      BY <1>1, <2>1
  <1>3. Segmentation(b) = [C |-> 1, K1 |-> K, K2 |-> 0, C1 |-> 1 - 0, C2 |-> 0,
                           F |-> (1 - 0) * K + 0 * 0 - B]
    BY <1>2 DEF Segmentation, Segment
  <1>4. K \in CbSizes /\ K >= B
    BY <1>1, SizeForFits
  <1>5. K \in Int /\ K - B <= 63
    <2>1. K \in Int /\ Multiple(K, 8)
      BY <1>4, Steps
    <2>2. CASE B <= 40
      <3>1. 40 = 8 * 5
        OBVIOUS
      <3>2. 40 \in CbSizes
        BY <3>1, Covers8 DEF Multiple
      <3> QED
        BY <1>1, <2>1, <2>2, <3>2, SizeForFits
    <2>3. CASE K > 40
      <3>1. SizeBefore(K) \in CbSizes /\ SizeBefore(K) < K /\ K - SizeBefore(K) <= 64
        BY <1>4, <2>3, SizeBeforeFits
      <3>2. SizeBefore(K) \in Int
        BY <3>1, Steps
      <3>3. SizeBefore(K) < B
        BY <1>1, <2>1, <3>1, <3>2, SizeForFits
      <3> QED
        BY <1>1, <2>1, <3>1, <3>2, <3>3
    <2> QED
      BY <1>1, <1>4, <2>1, <2>2, <2>3
  <1>6. Multiple(K - B, 8)
    BY <1>1, <1>4, <1>5, Steps, Sums
  <1> HIDE DEF K
  <1>7. (1 - 0) * K + 0 * 0 - B = K - B /\ 1 - 0 = 1
    BY <1>1, <1>5
  <1>8. 1 <= cbNum /\ 1 <= MAX_SYMBOL_NUM
    BY EnoughRecords
  <1>9. B = b + CRC_LENGTH /\ b \in Int /\ K = b + CRC_LENGTH + (K - B)
    BY <1>1, <1>5, SizeOfBlock DEF CRC_LENGTH
  <1> HIDE DEF B
  <1> QED
    BY <1>1, <1>3, <1>4, <1>5, <1>6, <1>7, <1>8, <1>9 DEF WellFormed

\* Several blocks of two lengths.
LEMMA SeveralBlocks ==
  ASSUME NEW b \in Sizes, BlocksFor(b + CRC_LENGTH) # 1
  PROVE  WellFormed(Segmentation(b), b)
  <1> DEFINE B == b + CRC_LENGTH
             C == BlocksFor(B)
             q == (B - 1) \div 6120
             Bp == B + 24 * C
             t == (Bp - 1) \div C
             K1 == SizeFor(t + 1)
             K2 == SizeBefore(K1)
             D == K1 - K2
             C2 == (C * K1 - Bp) \div D
             F == (C - C2) * K1 + C2 * K2 - Bp
  <1>1. /\ b \in Int /\ B \in Int /\ B > 6144 /\ B = b + 24 /\ Multiple(b, 8)
        /\ C \in Int /\ C > 1 /\ C <= cbNum /\ C <= MAX_SYMBOL_NUM
    <2>1. b \in Int /\ B = b + 24 /\ Multiple(b, 8)
      BY SizeOfBlock DEF CRC_LENGTH
    <2>2. B > 6144
      BY <2>1 DEF BlocksFor, SRSLTE_TCOD_MAX_LEN_CB
    <2> QED
      BY <2>1, <2>2, EnoughRecords
  <1>2. C = q + 1
    BY <1>1 DEF BlocksFor, SRSLTE_TCOD_MAX_LEN_CB, CRC_LENGTH
  <1>3. q \in Int /\ 6120 * q <= B - 1 /\ B - 1 < 6120 * q + 6120
    BY <1>1, Div
  <1>4. Segmentation(b) = [C |-> C, K1 |-> K1, K2 |-> K2, C1 |-> C - C2, C2 |-> C2, F |-> F]
    BY DEF Segmentation, Segment
  <1> HIDE DEF q, B, C
  <1>5. /\ Bp \in Int /\ Bp = b + 24 + 24 * C /\ Bp <= 6144 * C /\ Bp > 3072 * C
    BY <1>1, <1>2, <1>3
  <1> HIDE DEF Bp
  <1>6. t \in Int /\ C * t <= Bp - 1 /\ Bp - 1 < C * t + C
    BY <1>1, <1>5, Div
  <1> HIDE DEF t
  <1>7. t < 6144 /\ t + 1 > 3072
    <2>1. C * t < C * 6144 /\ C * 3072 < C * (t + 1)
      BY <1>1, <1>5, <1>6, Product
    <2> QED
      BY <1>1, <1>6, <2>1, Product
  <1>8. /\ K1 \in CbSizes /\ K1 \in Int /\ K1 >= t + 1
        /\ \A m \in CbSizes : m >= t + 1 => K1 <= m
    <2>1. t + 1 \in Int /\ t + 1 <= 6144
      BY <1>6, <1>7
    <2>2. /\ K1 \in CbSizes /\ K1 >= t + 1
          /\ \A m \in CbSizes : m >= t + 1 => K1 <= m
      BY <2>1, SizeForFits
    <2> QED
      BY <2>2, Steps
  <1> HIDE DEF K1
  <1>9. K2 \in CbSizes /\ K2 \in Int /\ K2 < K1 /\ K1 - K2 <= 64
    <2>1. K1 > 40
      BY <1>6, <1>7, <1>8
    <2>2. K2 \in CbSizes /\ K2 < K1 /\ K1 - K2 <= 64
      BY <1>8, <2>1, SizeBeforeFits
    <2> QED
      BY <2>2, Steps
  <1>10. K2 <= t
    <2> SUFFICES ASSUME K2 >= t + 1 PROVE FALSE
      BY <1>6, <1>9
    <2> QED
      BY <1>8, <1>9
  <1> HIDE DEF K2
  <1>11. /\ D \in Int /\ 0 < D /\ D <= 64
         /\ C * K1 \in Int /\ C * K1 >= Bp /\ C * K1 - Bp < D * C
    <2>1. C * (t + 1) <= C * K1 /\ C * K2 <= C * t /\ C * (t + 1) = C * t + C
      BY <1>1, <1>6, <1>8, <1>9, <1>10, Product
    <2>2. C * K1 \in Int /\ C * K2 \in Int /\ C * t \in Int /\ D * C = C * K1 - C * K2
      BY <1>1, <1>6, <1>8, <1>9, Product
    <2>3. D \in Int /\ 0 < D /\ D <= 64
      BY <1>8, <1>9
    <2>4. C * (t + 1) \in Int
      BY <1>1, <1>6, Product
    <2> HIDE DEF D
    <2> QED
      BY <1>5, <1>6, <2>1, <2>2, <2>3, <2>4
  <1>12. C2 \in Int /\ D * C2 <= C * K1 - Bp /\ C * K1 - Bp < D * C2 + D
    <2>1. D \in Nat \ {0} /\ C * K1 - Bp \in Int
      BY <1>5, <1>11
    <2> HIDE DEF D
    <2> QED
      BY <2>1, Div
  <1> HIDE DEF C2
  <1>13. 0 <= C2 /\ C2 < C
    <2> HIDE DEF D
    <2>1. D * C2 < D * C /\ D * 0 < D * (C2 + 1)
      <3>1. D * (C2 + 1) = D * C2 + D /\ D * 0 = 0 /\ D * C2 \in Int /\ D * C \in Int
        BY <1>1, <1>11, <1>12, Product
      <3> QED
        BY <1>5, <1>11, <1>12, <3>1
    <2>2. C2 < C /\ 0 < C2 + 1
      <3>1. C2 + 1 \in Int /\ 0 \in Int
        BY <1>12
      <3> QED
        BY <1>1, <1>11, <1>12, <2>1, <3>1, Product
    <2> QED
      BY <1>1, <1>12, <2>2
  <1>14. /\ F \in Int /\ F = C * K1 - Bp - D * C2
         /\ (C - C2) * K1 + C2 * K2 = b + CRC_LENGTH + 24 * C + F
    <2>1. (C - C2) * K1 = C * K1 - C2 * K1 /\ D * C2 = C2 * K1 - C2 * K2
      BY <1>1, <1>8, <1>9, <1>12, Product
    <2>2. C * K1 \in Int /\ C2 * K1 \in Int /\ C2 * K2 \in Int
      BY <1>1, <1>8, <1>9, <1>12, Product
    <2> HIDE DEF D
    <2> QED
      BY <1>1, <1>5, <2>1, <2>2 DEF CRC_LENGTH
  <1>15. 0 <= F /\ F <= 63
    <2> HIDE DEF D, F
    <2>1. D * C2 \in Int
      BY <1>11, <1>12, Product
    <2> QED
      BY <1>5, <1>11, <1>12, <1>14, <2>1
  <1>16. Multiple(F, 8)
    <2>1. PICK p \in Int : K1 = 8 * p
      BY <1>8, Steps DEF Multiple
    <2>2. PICK o \in Int : K2 = 8 * o
      BY <1>9, Steps DEF Multiple
    <2>3. PICK n \in Int : b = 8 * n
      BY <1>1 DEF Multiple
    <2>4. (C - C2) * K1 = 8 * ((C - C2) * p) /\ C2 * K2 = 8 * (C2 * o)
      BY <1>1, <1>12, <2>1, <2>2
    <2>5. (C - C2) * p \in Int /\ C2 * o \in Int
      BY <1>1, <1>12
    <2>6. F = 8 * ((C - C2) * p + C2 * o - n - 3 - 3 * C)
      BY <1>1, <1>5, <2>3, <2>4, <2>5
    <2>7. (C - C2) * p + C2 * o - n - 3 - 3 * C \in Int
      BY <1>1, <2>5
    <2> HIDE DEF F
    <2> QED
      BY <2>6, <2>7 DEF Multiple
  <1> HIDE DEF F, D
  <1>17. K1 > 3000 /\ K2 > 3000
    BY <1>6, <1>7, <1>8, <1>9
  <1> QED
    BY <1>1, <1>4, <1>8, <1>9, <1>12, <1>13, <1>14, <1>15, <1>16, <1>17 DEF WellFormed

\* The segmentation of every block is well formed.
LEMMA Segmented ==
  \A b \in Sizes : WellFormed(Segmentation(b), b)
  BY OneBlock, SeveralBlocks

-----------------------------------------------------------------------------
(* The inductive invariant *)

\* The segmentation of layer l.
Seg(l) == Segmentation(tbs[l])

\* The code blocks of the frame: layer and number.
Blocks == {p \in Layers \X (0 .. cbNum - 1) : p[2] < Seg(p[1]).C}

\* The symbols before block n of C: those of n equal shares, and one more for
\* each of the last Lamda blocks among them.
Shared(C, n) ==
  LET plain == C - (MAX_SYMBOL_NUM % C)
  IN n * (MAX_SYMBOL_NUM \div C) + (IF n <= plain THEN 0 ELSE n - plain)

\* The bits of the transport block before block n.
Start(cb, n) ==
  IF n = 0 THEN 0
  ELSE IF n <= cb.C2 THEN n * (cb.K2 - CRC_LENGTH) - cb.F
  ELSE cb.C2 * (cb.K2 - CRC_LENGTH) + (n - cb.C2) * (cb.K1 - CRC_LENGTH) - cb.F

\* What both loops put into the records.
ModRecords ==
  [p \in Blocks |->
    [cbindex |-> p[2], cb |-> Seg(p[1]),
     package |-> p[1] * MAX_SYMBOL_NUM + Shared(Seg(p[1]).C, p[2]),
     modSymNum |-> SymNum(Seg(p[1]).C, p[2])]]

DermRecords ==
  [p \in Blocks |->
    [r |-> p[2], cbnum |-> Seg(p[1]).C, Kr |-> Kr(Seg(p[1]), p[2]), F |-> Seg(p[1]).F,
     symindex |-> p[1] * MAX_SYMBOL_NUM + Shared(Seg(p[1]).C, p[2]),
     modSymNum |-> SymNum(Seg(p[1]).C, p[2]),
     conindex |-> Start(Seg(p[1]), p[2])]]

\* The blocks a loop has gone through.
Passed == {p \in Blocks : p[1] < i \/ (p[1] = i /\ p[2] < r)}

\* The blocks that have a record on either side.
ModDone  == IF pc = "segm" THEN {} ELSE IF pc = "mod" THEN Passed ELSE Blocks
DermDone == IF pc \in {"segm", "mod", "take"} THEN {} ELSE IF pc = "derm" THEN Passed ELSE Blocks

\* The records are those of the blocks in done, and hold what Rec says.
Filled(args, done, Rec) ==
  /\ DOMAIN args = {jp(p[1], p[2]) : p \in done}
  /\ \A p \in done : args[jp(p[1], p[2])] = Rec[p]

\* No segmentation yet.
None == [l \in Layers |-> Segment(0, 0, 0, 0, 0)]

Loops ==
  /\ pc \in {"segm", "mod", "take", "derm", "done"}
  /\ i \in Layers /\ r \in Nat
  /\ pc \in {"mod", "derm"} => /\ r < Seg(i).C
                              /\ s = i * MAX_SYMBOL_NUM + Shared(Seg(i).C, r)
  /\ pc \in {"segm", "take", "done"} => i = 0 /\ r = 0
  /\ pc = "segm" => s = 0
  /\ pc \in {"take", "done"} => s = LayerNum * MAX_SYMBOL_NUM
  /\ c = IF pc = "derm" THEN Start(Seg(i), r) ELSE 0

Sides ==
  /\ tbs \in [Layers -> Sizes]
  /\ cb_tx = IF pc = "segm" THEN None ELSE [l \in Layers |-> Seg(l)]
  /\ cb_rx = IF pc \in {"segm", "mod", "take"} THEN None ELSE [l \in Layers |-> Seg(l)]

CbInv ==
  /\ Loops
  /\ Sides
  /\ Filled(crc_mod_args, ModDone, ModRecords)
  /\ Filled(derm_crc_args, DermDone, DermRecords)

-----------------------------------------------------------------------------
(* The arithmetic of the loops *)

\* The shares of the code blocks follow one upon another and use up the symbols
\* of the layer; each block has at least one.
LEMMA Shares ==
  ASSUME NEW C \in Int, 1 <= C, C <= MAX_SYMBOL_NUM
  PROVE  /\ Shared(C, 0) = 0
         /\ Shared(C, C) = MAX_SYMBOL_NUM
         /\ \A n \in Int : 0 <= n /\ n < C =>
              /\ SymNum(C, n) \in Int /\ SymNum(C, n) > 0
              /\ Shared(C, n) \in Int /\ Shared(C, n + 1) = Shared(C, n) + SymNum(C, n)
              /\ 0 <= Shared(C, n) /\ Shared(C, n) <= MAX_SYMBOL_NUM
  <1> DEFINE q == MAX_SYMBOL_NUM \div C
             rest == MAX_SYMBOL_NUM % C
  <1>1. MAX_SYMBOL_NUM \in Int /\ MAX_SYMBOL_NUM > 0
    BY CodeBlocksAssumption DEF CodeBlocksAssumption
  <1>2. q \in Int /\ C * q <= MAX_SYMBOL_NUM /\ MAX_SYMBOL_NUM < C * q + C
    <2>1. C \in Nat \ {0}
      OBVIOUS
    <2> QED
      BY <1>1, <2>1, Div
  <1>3. rest = MAX_SYMBOL_NUM - C * q
    BY <1>1
  <1>4. rest \in Int /\ 0 <= rest /\ rest < C
    <2>1. C * q \in Int
      BY <1>2, Product
    <2> HIDE DEF q, rest
    <2> QED
      BY <1>1, <1>2, <1>3, <2>1
  <1>5. q >= 1
    <2>1. C * 0 < C * (q + 1) => 0 < q + 1
      BY <1>2, Product
    <2> SUFFICES ASSUME q <= 0 PROVE FALSE
      BY <1>2
    <2>2. C * q <= C * 0
      BY <1>2, Product
    <2>3. C * q \in Int /\ C * 0 = 0
      BY <1>2, Product
    <2> HIDE DEF q
    <2> QED
      BY <1>1, <1>2, <2>2, <2>3
  <1>6. rest > 0 => (MAX_SYMBOL_NUM - 1) \div C = q
    <2> SUFFICES ASSUME rest > 0 PROVE (MAX_SYMBOL_NUM - 1) \div C = q
      OBVIOUS
    <2> DEFINE p == (MAX_SYMBOL_NUM - 1) \div C
    <2>1. p \in Int /\ C * p <= MAX_SYMBOL_NUM - 1 /\ MAX_SYMBOL_NUM - 1 < C * p + C
      <3>1. C \in Nat \ {0} /\ MAX_SYMBOL_NUM - 1 \in Int
        BY <1>1
      <3> QED
        BY <3>1, Div
    <2> HIDE DEF p, q, rest
    <2>2. C * q \in Int /\ C * p \in Int /\ C * (p + 1) = C * p + C /\ C * (q + 1) = C * q + C
      BY <1>2, <2>1, Product
    <2>3. C * q < C * (p + 1) /\ C * p < C * (q + 1)
      BY <1>1, <1>2, <1>3, <2>1, <2>2
    <2>4. q < p + 1 /\ p < q + 1
      <3>1. p + 1 \in Int /\ q + 1 \in Int
        BY <1>2, <2>1
      <3> QED
        BY <1>2, <2>1, <2>3, <3>1, Product
    <2>5. p = q
      BY <1>2, <2>1, <2>4
    <2> QED
      BY <2>5 DEF p
  <1>7. \A n : Shared(C, n) = n * q + (IF n <= C - rest THEN 0 ELSE n - (C - rest))
    BY DEF Shared
  <1>8. \A n : SymNum(C, n) = IF n < C - rest THEN q ELSE (MAX_SYMBOL_NUM - 1) \div C + 1
    BY DEF SymNum
  <1> HIDE DEF q, rest
  <1>9. Shared(C, 0) = 0
    BY <1>2, <1>4, <1>7
  <1>10. Shared(C, C) = MAX_SYMBOL_NUM
    <2>1. C * q \in Int
      BY <1>2, Product
    <2> QED
      BY <1>1, <1>3, <1>4, <1>7, <2>1
  <1>11. ASSUME NEW n \in Int, 0 <= n, n < C
         PROVE  /\ SymNum(C, n) \in Int /\ SymNum(C, n) > 0
                /\ Shared(C, n) \in Int /\ Shared(C, n + 1) = Shared(C, n) + SymNum(C, n)
                /\ 0 <= Shared(C, n) /\ Shared(C, n) <= MAX_SYMBOL_NUM
    <2>1. (n + 1) * q = n * q + q /\ n * q \in Int
      BY <1>2, Product
    <2>2. SymNum(C, n) = IF n < C - rest THEN q ELSE q + 1
      BY <1>4, <1>6, <1>8, <1>11
    <2>3. 0 <= n * q /\ n * q <= C * q /\ C * q \in Int
      <3>1. q * 0 <= q * n /\ q * n <= q * C /\ q * 0 = 0
        BY <1>2, <1>5, <1>11, Product
      <3> QED
        BY <1>2, <3>1, Product
    <2>4. 0 <= Shared(C, n) /\ Shared(C, n) <= MAX_SYMBOL_NUM
      BY <1>1, <1>2, <1>3, <1>4, <1>7, <1>11, <2>1, <2>3
    <2>5. /\ SymNum(C, n) \in Int /\ SymNum(C, n) > 0
          /\ Shared(C, n) \in Int /\ Shared(C, n + 1) = Shared(C, n) + SymNum(C, n)
      <3> HIDE <2>3, <2>4
      <3> QED
        BY <1>2, <1>4, <1>5, <1>7, <1>11, <2>1, <2>2
    <2> QED
      BY <2>4, <2>5
  <1> QED
    BY <1>9, <1>10, <1>11

\* The bits of the code blocks follow one upon another, in whole bytes, and the
\* last one ends with the checksum of the transport block.
LEMMA Starts ==
  ASSUME NEW b \in Sizes, NEW cb, WellFormed(cb, b), cb.C > 1
  PROVE  /\ Start(cb, cb.C) = b + CRC_LENGTH
         /\ \A n \in Int : 0 <= n /\ n < cb.C =>
              /\ Kr(cb, n) \in Int /\ Kr(cb, n) > 3000 /\ Multiple(Kr(cb, n), 8)
              /\ Start(cb, n) \in Int /\ Start(cb, n) >= 0 /\ Multiple(Start(cb, n), 8)
              /\ Start(cb, n + 1) =
                   Start(cb, n) + Kr(cb, n) - CRC_LENGTH - (IF n = 0 THEN cb.F ELSE 0)
  <1>1. /\ cb.C \in Int /\ cb.K1 \in Int /\ cb.K2 \in Int /\ cb.C2 \in Int /\ cb.F \in Int
        /\ 0 <= cb.C2 /\ cb.C2 < cb.C /\ cb.K1 > 3000 /\ cb.K2 > 3000
        /\ (cb.C - cb.C2) * cb.K1 + cb.C2 * cb.K2 = b + 24 + 24 * cb.C + cb.F
        /\ Multiple(cb.F, 8) /\ Multiple(cb.K1, 8) /\ Multiple(cb.K2, 8)
    <2>1. cb.K1 \in CbSizes /\ cb.K2 \in CbSizes
      BY DEF WellFormed
    <2>2. Multiple(cb.K1, 8) /\ Multiple(cb.K2, 8)
      BY <2>1, Steps
    <2> QED
      BY <2>2 DEF WellFormed, CRC_LENGTH
  <1> DEFINE D2 == cb.K2 - 24
             D1 == cb.K1 - 24
  <1>2. \A n : Start(cb, n) = IF n = 0 THEN 0
                             ELSE IF n <= cb.C2 THEN n * D2 - cb.F
                             ELSE cb.C2 * D2 + (n - cb.C2) * D1 - cb.F
    BY DEF Start, CRC_LENGTH
  <1>3. D1 \in Int /\ D2 \in Int /\ Multiple(D1, 8) /\ Multiple(D2, 8)
    <2>1. PICK p \in Int : cb.K1 = 8 * p
      BY <1>1 DEF Multiple
    <2>2. PICK q \in Int : cb.K2 = 8 * q
      BY <1>1 DEF Multiple
    <2>3. /\ D1 = 8 * (p - 3) /\ D2 = 8 * (q - 3)
          /\ D1 \in Int /\ D2 \in Int /\ p - 3 \in Int /\ q - 3 \in Int
      BY <1>1, <2>1, <2>2
    <2> HIDE DEF D1, D2
    <2> QED
      BY <2>3 DEF Multiple
  <1>4. Start(cb, cb.C) = b + CRC_LENGTH
    <2>1. /\ (cb.C - cb.C2) * D1 = (cb.C - cb.C2) * cb.K1 - 24 * (cb.C - cb.C2)
          /\ cb.C2 * D2 = cb.C2 * cb.K2 - 24 * cb.C2
      BY <1>1, Product
    <2>2. (cb.C - cb.C2) * cb.K1 \in Int /\ cb.C2 * cb.K2 \in Int /\ b \in Int
      BY <1>1, SizeOfBlock, Product
    <2>3. Start(cb, cb.C) = cb.C2 * D2 + (cb.C - cb.C2) * D1 - cb.F
      BY <1>1, <1>2
    <2> HIDE DEF D1, D2
    <2> QED
      BY <1>1, <2>1, <2>2, <2>3 DEF CRC_LENGTH
  <1>5. \A n \in Int : Kr(cb, n) = (IF n < cb.C2 THEN D2 ELSE D1) + 24
    BY <1>1 DEF Kr
  <1>6. ASSUME NEW n \in Int, 0 <= n, n < cb.C
        PROVE  /\ Kr(cb, n) \in Int /\ Kr(cb, n) > 3000 /\ Multiple(Kr(cb, n), 8)
               /\ Start(cb, n) \in Int /\ Start(cb, n) >= 0 /\ Multiple(Start(cb, n), 8)
               /\ Start(cb, n + 1) =
                    Start(cb, n) + Kr(cb, n) - CRC_LENGTH - (IF n = 0 THEN cb.F ELSE 0)
    <2>1. Kr(cb, n) \in Int /\ Kr(cb, n) > 3000 /\ Multiple(Kr(cb, n), 8)
      BY <1>1 DEF Kr
    <2> HIDE DEF D1, D2
    <2>2. /\ n * D2 \in Int /\ cb.C2 * D2 \in Int /\ (n - cb.C2) * D1 \in Int
          /\ (n + 1) * D2 = n * D2 + D2
          /\ (n + 1 - cb.C2) * D1 = (n - cb.C2) * D1 + D1
      <3>1. n + 1 - cb.C2 = (n - cb.C2) + 1 /\ n - cb.C2 \in Int
        BY <1>1
      <3>2. ((n - cb.C2) + 1) * D1 = (n - cb.C2) * D1 + 1 * D1 /\ (n + 1) * D2 = n * D2 + 1 * D2
        BY <1>3, <3>1, Product
      <3>3. n * D2 \in Int /\ cb.C2 * D2 \in Int /\ (n - cb.C2) * D1 \in Int
        BY <1>1, <1>3, <3>1, Product
      <3> QED
        BY <1>3, <3>1, <3>2, <3>3
    <2>3. Start(cb, n) \in Int
      BY <1>1, <1>2, <2>2
    <2>4. Multiple(Start(cb, n), 8)
      <3>1. CASE n = 0
        <4>1. 0 = 8 * 0
          OBVIOUS
        <4> QED
          BY <1>2, <3>1, <4>1 DEF Multiple
      <3>2. CASE n # 0 /\ n <= cb.C2
        <4> DEFINE x == n * D2
        <4>1. Multiple(x, 8) /\ x \in Int
          BY <1>3, Times, Zenon
        <4>2. Start(cb, n) = x - cb.F
          BY <1>2, <3>2
        <4> HIDE DEF x
        <4>3. Multiple(x - cb.F, 8)
          <5>1. cb.F \in Int /\ Multiple(cb.F, 8)
            BY <1>1
          <5> QED
            BY <4>1, <5>1, Sums, Zenon
        <4> QED
          BY <4>2, <4>3
      <3>3. CASE n # 0 /\ ~(n <= cb.C2)
        <4>6. Start(cb, n) = cb.C2 * D2 + (n - cb.C2) * D1 - cb.F
          <5> HIDE <2>2
          <5> QED
            BY <1>2, <3>3
        <4> DEFINE x == cb.C2 * D2
                   m == n - cb.C2
                   y == m * D1
                   z == x + y
        <4>1. Multiple(x, 8) /\ x \in Int
          <5>1. D2 \in Int /\ cb.C2 \in Int /\ Multiple(D2, 8)
            BY <1>1, <1>3
          <5> QED
            BY <5>1, Times, Zenon
        <4>2. Multiple(y, 8) /\ y \in Int
          <5>1. m \in Int
            BY <1>1
          <5> HIDE DEF m
          <5> QED
            BY <1>3, <5>1, Times, Zenon
        <4>3. Start(cb, n) = z - cb.F
          BY <1>1, <2>2, <4>6
        <4> HIDE DEF x, y
        <4>4. Multiple(z, 8) /\ z \in Int
          BY <4>1, <4>2, Sums
        <4> HIDE DEF z
        <4>5. Multiple(z - cb.F, 8)
          <5>1. cb.F \in Int /\ Multiple(cb.F, 8)
            BY <1>1
          <5> QED
            BY <4>4, <5>1, Sums, Zenon
        <4> QED
          BY <4>3, <4>5
      <3> QED
        BY <3>1, <3>2, <3>3
    <2>5. /\ Kr(cb, n) - 24 = (IF n < cb.C2 THEN D2 ELSE D1)
          /\ Kr(cb, n) - 24 \in Int
      BY <1>3, <1>5
    <2>6. Start(cb, n + 1) = Start(cb, n) + (Kr(cb, n) - 24) - (IF n = 0 THEN cb.F ELSE 0)
      <3>1. CASE n + 1 <= cb.C2
        <4>1. Start(cb, n + 1) = n * D2 + D2 - cb.F /\ Kr(cb, n) - 24 = D2
          BY <1>1, <1>2, <1>6, <2>2, <2>5, <3>1
        <4>2. Start(cb, n) = IF n = 0 THEN 0 ELSE n * D2 - cb.F
          BY <1>1, <1>2, <1>6, <3>1
        <4>3. n = 0 => n * D2 = 0
          BY <1>3
        <4> QED
          BY <1>1, <1>3, <2>2, <4>1, <4>2, <4>3
      <3>2. CASE n = cb.C2
        <4>1. (n - cb.C2) * D1 = 0 /\ (n = 0 => cb.C2 * D2 = 0)
          BY <1>1, <1>3, <3>2
        <4>2. Start(cb, n + 1) = cb.C2 * D2 + (n + 1 - cb.C2) * D1 - cb.F
          BY <1>1, <1>2, <1>6, <3>2
        <4>5. Kr(cb, n) - 24 = D1
          BY <2>5, <3>2
        <4>3. Start(cb, n) = IF n = 0 THEN 0 ELSE n * D2 - cb.F
          BY <1>1, <1>2, <1>6, <3>2
        <4>4. n * D2 = cb.C2 * D2
          BY <3>2
        <4>6. (n + 1 - cb.C2) * D1 = D1
          BY <1>3, <2>2, <4>1
        <4>7. Start(cb, n + 1) = cb.C2 * D2 + D1 - cb.F
          BY <4>2, <4>6
        <4>8. CASE n = 0
          <5>1. Start(cb, n) = 0 /\ Start(cb, n + 1) = 0 + D1 - cb.F
            BY <4>1, <4>3, <4>7, <4>8
          <5> QED
            BY <1>1, <1>3, <4>5, <4>8, <5>1
        <4>9. CASE n # 0
          <5>1. Start(cb, n) = cb.C2 * D2 - cb.F
            BY <4>3, <4>4, <4>9
          <5> QED
            BY <1>1, <1>3, <2>2, <4>5, <4>7, <4>9, <5>1
        <4> QED
          BY <4>8, <4>9
      <3>3. CASE n > cb.C2
        BY <1>1, <1>2, <1>3, <1>6, <2>2, <2>5, <3>3
      <3> QED
        BY <1>1, <3>1, <3>2, <3>3
    <2>7. Start(cb, n) >= 0
      <3>1. D1 > 63 /\ D2 > 63 /\ cb.F <= 63
        BY <1>1 DEF WellFormed, D1, D2
      <3>2. \A m \in Int : /\ m >= 0 => m * D1 >= 0 /\ m * D2 >= 0
                           /\ m >= 1 => m * D1 >= D1 /\ m * D2 >= D2
        <4> SUFFICES ASSUME NEW m \in Int
                     PROVE  /\ m >= 0 => m * D1 >= 0 /\ m * D2 >= 0
                            /\ m >= 1 => m * D1 >= D1 /\ m * D2 >= D2
          OBVIOUS
        <4>1. /\ m >= 0 => D1 * 0 <= D1 * m /\ D2 * 0 <= D2 * m
              /\ m >= 1 => D1 * 1 <= D1 * m /\ D2 * 1 <= D2 * m
          BY <1>3, <3>1, Product
        <4>2. /\ D1 * 0 = 0 /\ D2 * 0 = 0 /\ D1 * 1 = D1 /\ D2 * 1 = D2
              /\ D1 * m = m * D1 /\ D2 * m = m * D2
          BY <1>3
        <4> QED
          BY <4>1, <4>2
      <3>3. CASE n <= cb.C2
        <4>1. Start(cb, n) = IF n = 0 THEN 0 ELSE n * D2 - cb.F
          BY <1>2, <3>3
        <4>2. n # 0 => n * D2 >= D2
          BY <1>6, <3>2
        <4> QED
          BY <1>1, <1>3, <2>2, <3>1, <4>1, <4>2
      <3>4. CASE n > cb.C2
        <4>1. /\ cb.C2 * D2 >= 0 /\ (n - cb.C2) * D1 >= D1
          BY <1>1, <3>2, <3>4
        <4>2. Start(cb, n) = cb.C2 * D2 + (n - cb.C2) * D1 - cb.F
          BY <1>1, <1>2, <3>4
        <4> QED
          BY <1>1, <1>3, <2>2, <3>1, <4>1, <4>2
      <3> QED
        BY <1>1, <3>3, <3>4
    <2> QED
      BY <1>1, <2>1, <2>3, <2>4, <2>6, <2>7 DEF CRC_LENGTH
  <1> QED
    BY <1>4, <1>6

\* The bytes of the transport block in block n: where they begin in the code
\* block, where in the transport block, and how many they are.
Piece(cb, n) ==
  LET nulls == IF n = 0 THEN cb.F \div 8 ELSE 0
  IN [at |-> nulls, from |-> Start(cb, n) \div 8,
      count |-> (IF cb.C > 1 THEN Kr(cb, n) - CRC_LENGTH ELSE Kr(cb, n)) \div 8 - nulls]

\* Both sides place this piece, each in its own way.
LEMMA BothPieces ==
  ASSUME NEW b \in Sizes, NEW cb, WellFormed(cb, b), NEW n \in Int, 0 <= n, n < cb.C
  PROVE  /\ \A a : a.cbindex = n /\ a.cb = cb => Read(a) = Piece(cb, n)
         /\ \A a : /\ a.r = n /\ a.cbnum = cb.C /\ a.Kr = Kr(cb, n)
                  /\ a.F = cb.F /\ a.conindex = Start(cb, n)
                  => Write(a) = Piece(cb, n)
  <1>1. ASSUME NEW a, a.cbindex = n, a.cb = cb PROVE Read(a) = Piece(cb, n)
    <2>1. /\ cb.C \in Int /\ cb.K1 \in Int /\ cb.K2 \in Int /\ cb.C2 \in Int /\ cb.F \in Int
          /\ 0 <= cb.C2
      <3>1. 0 <= cb.C2
        BY DEF WellFormed
      <3> QED
        BY <3>1 DEF WellFormed
    <2> DEFINE nulls == IF n = 0 THEN cb.F \div 8 ELSE 0
               start == IF n < cb.C2
                          THEN (Kr(cb, n) - 24) * n - cb.F
                          ELSE (cb.K2 - 24) * cb.C2 + (Kr(cb, n) - 24) * (n - cb.C2) - cb.F
    <2>2. Read(a) = [at |-> nulls, from |-> start \div 8 + nulls,
                     count |-> (IF cb.C > 1 THEN Kr(cb, n) - 24 ELSE Kr(cb, n)) \div 8 - nulls]
      BY <1>1 DEF Read, CRC_LENGTH
    <2>3. start \div 8 + nulls = Start(cb, n) \div 8
      <3>1. CASE n = 0
        <4>1. start = -cb.F
          <5>1. CASE cb.C2 = 0
            BY <2>1, <3>1, <5>1 DEF Kr
          <5>2. CASE cb.C2 > 0
            BY <2>1, <3>1, <5>2 DEF Kr
          <5> QED
            BY <2>1, <5>1, <5>2
        <4>2. PICK f \in Int : cb.F = 8 * f
          BY DEF WellFormed, Multiple
        <4>3. (-cb.F) \div 8 = -f /\ cb.F \div 8 = f
          BY <4>2
        <4>4. Start(cb, n) \div 8 = 0
          BY <3>1 DEF Start
        <4> HIDE DEF start
        <4> QED
          BY <3>1, <4>1, <4>3, <4>4
      <3>2. CASE n # 0
        <4>1. start = Start(cb, n)
          <5>1. CASE n < cb.C2
            BY <2>1, <3>2, <5>1 DEF Kr, Start, CRC_LENGTH
          <5>2. CASE n = cb.C2
            <6>1. start = (cb.K2 - 24) * cb.C2 + (cb.K1 - 24) * (n - cb.C2) - cb.F
              BY <2>1, <5>2 DEF Kr
            <6>2. (cb.K1 - 24) * (n - cb.C2) = 0
              BY <2>1, <5>2
            <6>3. Start(cb, n) = n * (cb.K2 - 24) - cb.F
              BY <2>1, <3>2, <5>2 DEF Start, CRC_LENGTH
            <6>4. (cb.K2 - 24) * cb.C2 = n * (cb.K2 - 24) /\ n * (cb.K2 - 24) \in Int
              BY <2>1, <5>2, Product
            <6> HIDE DEF start
            <6> QED
              BY <2>1, <6>1, <6>2, <6>3, <6>4
          <5>3. CASE n > cb.C2
            BY <2>1, <3>2, <5>3 DEF Kr, Start, CRC_LENGTH
          <5> QED
            BY <2>1, <5>1, <5>2, <5>3
        <4>2. Start(cb, n) \in Int
          BY <2>1, <3>2 DEF Start, CRC_LENGTH
        <4> HIDE DEF start
        <4> QED
          BY <3>2, <4>1, <4>2
      <3> QED
        BY <3>1, <3>2
    <2> QED
      BY <2>2, <2>3 DEF Piece, CRC_LENGTH
  <1>2. ASSUME NEW a, a.r = n, a.cbnum = cb.C, a.Kr = Kr(cb, n), a.F = cb.F,
               a.conindex = Start(cb, n)
        PROVE  Write(a) = Piece(cb, n)
    BY <1>2 DEF Write, Piece
  <1> QED
    BY <1>1, <1>2

\* The pieces tile the transport block and its checksum.
LEMMA Tiles ==
  ASSUME NEW b \in Sizes, NEW cb, WellFormed(cb, b), NEW n \in Int, 0 <= n, n < cb.C
  PROVE  /\ Piece(cb, n).count > 0 /\ Piece(cb, n).at >= 0
         /\ n = 0 => Piece(cb, n).from = 0
         /\ n > 0 => Piece(cb, n).from = Piece(cb, n - 1).from + Piece(cb, n - 1).count
         /\ n = cb.C - 1 => Piece(cb, n).from + Piece(cb, n).count = (b + CRC_LENGTH) \div 8
  <1> DEFINE next(m) == IF m + 1 = cb.C THEN b + CRC_LENGTH ELSE Start(cb, m + 1)
  <1>1. cb.C \in Int /\ cb.F \in Int /\ 0 <= cb.F /\ cb.F <= 63 /\ b \in Int /\ 1 <= b
    BY SizeOfBlock DEF WellFormed
  <1>2. PICK f \in Int : cb.F = 8 * f
    BY DEF WellFormed, Multiple
  <1>3. PICK e \in Int : b = 8 * e
    BY SizeOfBlock DEF Multiple
  <1>4. ASSUME NEW m \in Int, 0 <= m, m < cb.C
        PROVE  /\ Piece(cb, m).from \in Int /\ Piece(cb, m).count \in Int
               /\ Piece(cb, m).count > 0 /\ Piece(cb, m).at >= 0
               /\ m = 0 => Piece(cb, m).from = 0
               /\ Piece(cb, m).from = Start(cb, m) \div 8
               /\ Piece(cb, m).from + Piece(cb, m).count = next(m) \div 8
    <2>1. cb.F \div 8 = f
      BY <1>2
    <2>2. /\ Piece(cb, m).at = IF m = 0 THEN f ELSE 0
          /\ Piece(cb, m).from = Start(cb, m) \div 8
          /\ Piece(cb, m).count =
               (IF cb.C > 1 THEN Kr(cb, m) - 24 ELSE Kr(cb, m)) \div 8 - (IF m = 0 THEN f ELSE 0)
      BY <2>1 DEF Piece, CRC_LENGTH
    <2>3. CASE cb.C = 1
      <3>1. m = 0 /\ Start(cb, m) = 0 /\ Kr(cb, m) = b + 24 + cb.F
        BY <1>4, <2>3 DEF Start, Kr, WellFormed, CRC_LENGTH
      <3>2. Kr(cb, m) = 8 * (e + 3 + f) /\ e + 3 + f \in Int
        BY <1>2, <1>3, <3>1
      <3>3. Kr(cb, m) \div 8 = e + 3 + f /\ 0 \div 8 = 0
        BY <3>2
      <3>4. next(m) = 8 * (e + 3) /\ e + 3 \in Int
        BY <1>3, <2>3, <3>1 DEF CRC_LENGTH
      <3>5. next(m) \div 8 = e + 3
        <4> HIDE DEF next
        <4> QED
          BY <3>4
      <3> HIDE DEF next
      <3> QED
        BY <1>1, <1>2, <1>3, <2>2, <2>3, <3>1, <3>3, <3>5
    <2>4. CASE cb.C > 1
      <3>1. /\ Kr(cb, m) \in Int /\ Kr(cb, m) > 3000 /\ Multiple(Kr(cb, m), 8)
            /\ Start(cb, m) \in Int /\ Multiple(Start(cb, m), 8)
            /\ Start(cb, m + 1) = Start(cb, m) + Kr(cb, m) - 24 - (IF m = 0 THEN cb.F ELSE 0)
            /\ Start(cb, cb.C) = b + CRC_LENGTH
        BY <1>4, <2>4, Starts DEF CRC_LENGTH
      <3>2. next(m) = Start(cb, m + 1)
        BY <3>1
      <3>3. PICK k \in Int : Kr(cb, m) = 8 * k
        BY <3>1 DEF Multiple
      <3>4. PICK a \in Int : Start(cb, m) = 8 * a
        BY <3>1 DEF Multiple
      <3>5. Kr(cb, m) - 24 = 8 * (k - 3) /\ k - 3 \in Int
        BY <3>3
      <3>6. (Kr(cb, m) - 24) \div 8 = k - 3 /\ Start(cb, m) \div 8 = a
        BY <3>4, <3>5
      <3>7. /\ next(m) = 8 * (a + k - 3 - (IF m = 0 THEN f ELSE 0))
            /\ a + k - 3 - (IF m = 0 THEN f ELSE 0) \in Int
        BY <1>2, <3>1, <3>2, <3>3, <3>4
      <3> HIDE DEF next
      <3>8. next(m) \div 8 = a + k - 3 - (IF m = 0 THEN f ELSE 0)
        BY <3>7
      <3>9. m = 0 => Start(cb, m) = 0
        BY DEF Start
      <3> QED
        BY <1>1, <1>2, <2>2, <2>4, <3>1, <3>3, <3>4, <3>6, <3>8, <3>9
    <2> QED
      BY <1>1, <1>4, <2>3, <2>4
  <1>5. n > 0 => Piece(cb, n).from = Piece(cb, n - 1).from + Piece(cb, n - 1).count
    <2> SUFFICES ASSUME n > 0
                 PROVE  Piece(cb, n).from = Piece(cb, n - 1).from + Piece(cb, n - 1).count
      OBVIOUS
    <2>1. n - 1 \in Int /\ 0 <= n - 1 /\ n - 1 < cb.C /\ (n - 1) + 1 = n
      BY <1>1
    <2>2. next(n - 1) = Start(cb, n)
      BY <1>1, <2>1
    <2> HIDE DEF next
    <2> QED
      BY <1>4, <2>1, <2>2
  <1>6. n = cb.C - 1 => Piece(cb, n).from + Piece(cb, n).count = (b + CRC_LENGTH) \div 8
    BY <1>1, <1>4
  <1> HIDE DEF next
  <1> QED
    BY <1>4, <1>5, <1>6

-----------------------------------------------------------------------------
(* The loops keep the invariant *)

\* The segmentation of a layer is that of its size.
LEMMA SegOf ==
  ASSUME tbs \in [Layers -> Sizes], NEW l \in Layers
  PROVE  tbs[l] \in Sizes /\ WellFormed(Seg(l), tbs[l])
  BY Segmented DEF Seg

\* cbNum records for every layer: no two blocks share one.
LEMMA OwnRecord ==
  ASSUME NEW l \in Layers, NEW m \in Layers,
         NEW n \in 0 .. cbNum - 1, NEW k \in 0 .. cbNum - 1, jp(l, n) = jp(m, k)
  PROVE  l = m /\ n = k
  <1>1. cbNum \in Int /\ cbNum >= 1
    <2>1. MAX_SYMBOL_NUM * MAX_CQI_MOD \in Int /\ MAX_SYMBOL_NUM * MAX_CQI_MOD >= 0
      BY CodeBlocksAssumption, Product DEF CodeBlocksAssumption
    <2>2. /\ (MAX_SYMBOL_NUM * MAX_CQI_MOD) \div 6144 \in Int
          /\ MAX_SYMBOL_NUM * MAX_CQI_MOD < 6144 * ((MAX_SYMBOL_NUM * MAX_CQI_MOD) \div 6144) + 6144
      BY <2>1, Div
    <2> QED
      BY <2>1, <2>2 DEF cbNum, SRSLTE_TCOD_MAX_LEN_CB
  <1>2. l \in Int /\ m \in Int
    BY CodeBlocksAssumption DEF CodeBlocksAssumption, Layers
  <1>3. /\ cbNum * l + n = cbNum * m + k
        /\ 0 <= n /\ n < cbNum /\ n \in Int /\ 0 <= k /\ k < cbNum /\ k \in Int
        /\ cbNum * l \in Int /\ cbNum * m \in Int
    BY <1>1, <1>2, Product DEF jp
  <1>4. ASSUME NEW x \in Int, NEW y \in Int, x < y
        PROVE  cbNum * x + cbNum <= cbNum * y
    <2>1. x + 1 \in Int /\ x + 1 <= y
      BY <1>4
    <2>2. cbNum * (x + 1) <= cbNum * y
      BY <1>1, <2>1, Product
    <2>3. cbNum * (x + 1) = cbNum * x + cbNum
      BY <1>1
    <2> QED
      BY <2>2, <2>3
  <1>5. ~(l < m)
    <2>1. l < m => cbNum * l + cbNum <= cbNum * m
      BY <1>2, <1>4
    <2> QED
      BY <1>1, <1>3, <2>1
  <1>6. ~(m < l)
    <2>1. m < l => cbNum * m + cbNum <= cbNum * l
      BY <1>2, <1>4
    <2> QED
      BY <1>1, <1>3, <2>1
  <1>7. l = m
    BY <1>2, <1>5, <1>6
  <1> QED
    BY <1>3, <1>7

\* Setting the record of one more block.
LEMMA PutFills ==
  ASSUME NEW args, NEW done \in SUBSET Blocks, NEW Rec, NEW rec,
         <<i, r>> \in Blocks, Filled(args, done, Rec), rec = Rec[<<i, r>>]
  PROVE  Filled(Put(args, rec), done \union {<<i, r>>}, Rec)
  <1> DEFINE q == <<i, r>>
  <1>1. /\ DOMAIN args = {jp(p[1], p[2]) : p \in done}
        /\ \A p \in done : args[jp(p[1], p[2])] = Rec[p]
    BY DEF Filled
  <1>2. q[1] = i /\ q[2] = r
    OBVIOUS
  <1>3. DOMAIN Put(args, rec) = {jp(p[1], p[2]) : p \in done \union {q}}
    BY <1>1, <1>2 DEF Put
  <1>4. ASSUME NEW p \in done \union {q}
        PROVE  Put(args, rec)[jp(p[1], p[2])] = Rec[p]
    <2>1. CASE p = q
      BY <1>2, <2>1 DEF Put
    <2>2. CASE p # q
      <3>1. p \in done
        BY <1>4, <2>2
      <3>2. jp(p[1], p[2]) # jp(i, r)
        <4>1. /\ p[1] \in Layers /\ p[2] \in 0 .. cbNum - 1 /\ p = <<p[1], p[2]>>
              /\ i \in Layers /\ r \in 0 .. cbNum - 1
          BY <3>1 DEF Blocks
        <4> QED
          BY <2>2, <4>1, OwnRecord
      <3>3. jp(p[1], p[2]) \in DOMAIN args
        BY <1>1, <3>1
      <3> QED
        BY <1>1, <3>1, <3>2, <3>3 DEF Put
    <2> QED
      BY <2>1, <2>2
  <1> QED
    BY <1>3, <1>4 DEF Filled

\* The block of the loops is the next one to pass.
LEMMA Current ==
  ASSUME Loops, Sides, pc \in {"mod", "derm"}
  PROVE  <<i, r>> \in Blocks /\ <<i, r>> \notin Passed /\ Passed \in SUBSET Blocks
  <1>1. i \in Layers /\ r \in Nat /\ r < Seg(i).C
    BY DEF Loops
  <1>2. Seg(i).C \in Int /\ Seg(i).C <= cbNum
    BY <1>1, SegOf DEF Sides, WellFormed
  <1>3. cbNum \in Int
    <2>1. MAX_SYMBOL_NUM * MAX_CQI_MOD \in Int
      BY CodeBlocksAssumption DEF CodeBlocksAssumption
    <2>2. (MAX_SYMBOL_NUM * MAX_CQI_MOD) \div 6144 \in Int
      BY <2>1, Div
    <2> QED
      BY <2>2 DEF cbNum, SRSLTE_TCOD_MAX_LEN_CB
  <1>4. r \in 0 .. cbNum - 1
    BY <1>1, <1>2, <1>3
  <1>5. <<i, r>> \in Blocks
    BY <1>1, <1>4 DEF Blocks
  <1>6. i \in Int
    BY <1>1, CodeBlocksAssumption DEF Layers, CodeBlocksAssumption
  <1>7. <<i, r>> \notin Passed
    BY <1>1, <1>6 DEF Passed
  <1> QED
    BY <1>5, <1>7 DEF Passed

\* A step of the loops passes the current block; after the last one of the last
\* layer all are passed.
LEMMA Advanced ==
  ASSUME Loops, Sides, pc \in {"mod", "derm"}, NEW cb, cb[i] = Seg(i),
         NEW here, NEW next, Advance(cb, here, next), tbs' = tbs
  PROVE  /\ i' \in Layers /\ r' \in Nat
         /\ \/ /\ r + 1 < Seg(i).C /\ i' = i /\ r' = r + 1 /\ pc' = here
               /\ Passed' = Passed \union {<<i, r>>}
            \/ /\ r + 1 = Seg(i).C /\ i + 1 < LayerNum /\ i' = i + 1 /\ r' = 0 /\ pc' = here
               /\ Passed' = Passed \union {<<i, r>>}
            \/ /\ r + 1 = Seg(i).C /\ i + 1 = LayerNum /\ i' = 0 /\ r' = 0 /\ pc' = next
               /\ Blocks = Passed \union {<<i, r>>}
  <1>1. i \in Layers /\ i \in Int /\ 0 <= i /\ i < LayerNum /\ r \in Nat /\ r < Seg(i).C
    BY CodeBlocksAssumption DEF Loops, Layers, CodeBlocksAssumption
  <1>2. LayerNum \in Int /\ LayerNum >= 1 /\ cbNum \in Int
    <2>1. LayerNum \in Int /\ LayerNum >= 1 /\ MAX_SYMBOL_NUM * MAX_CQI_MOD \in Int
      BY CodeBlocksAssumption DEF CodeBlocksAssumption
    <2>2. (MAX_SYMBOL_NUM * MAX_CQI_MOD) \div 6144 \in Int
      BY <2>1, Div
    <2> QED
      BY <2>1, <2>2 DEF cbNum, SRSLTE_TCOD_MAX_LEN_CB
  <1>3. Seg(i).C \in Int
    BY <1>1, SegOf DEF Sides, WellFormed
  <1>4. <<i, r>> \in Blocks
    BY Current
  <1>5. Blocks' = Blocks
    BY DEF Blocks, Seg
  <1>6. \A p \in Blocks : /\ p = <<p[1], p[2]>> /\ p[1] \in Int /\ p[1] < LayerNum
                          /\ p[2] \in Nat /\ p[2] < Seg(p[1]).C
    BY <1>2 DEF Blocks, Layers
  <1>7. CASE r + 1 < Seg(i).C
    <2>1. i' = i /\ r' = r + 1 /\ pc' = here
      BY <1>7 DEF Advance
    <2>2. Passed' = Passed \union {<<i, r>>}
      <3>1. Passed' = {p \in Blocks : p[1] < i \/ (p[1] = i /\ p[2] < r + 1)}
        BY <1>5, <2>1 DEF Passed
      <3>2. ASSUME NEW p \in Blocks
            PROVE  (p[1] < i \/ (p[1] = i /\ p[2] < r + 1)) <=> (p \in Passed \/ p = <<i, r>>)
        BY <1>1, <1>6 DEF Passed
      <3> QED
        BY <1>4, <3>1, <3>2 DEF Passed
    <2> QED
      BY <1>1, <1>7, <2>1, <2>2
  <1>8. CASE ~(r + 1 < Seg(i).C)
    <2>1. r + 1 = Seg(i).C
      BY <1>1, <1>3, <1>8
    <2>2. ASSUME NEW p \in Blocks
          PROVE  p[1] < i + 1 <=> (p \in Passed \/ p = <<i, r>>)
      BY <1>1, <1>6, <2>1 DEF Passed
    <2>3. CASE i + 1 < LayerNum
      <3>1. i' = i + 1 /\ r' = 0 /\ pc' = here
        BY <1>8, <2>3 DEF Advance
      <3>2. Passed' = {p \in Blocks : p[1] < i + 1}
        BY <1>5, <1>6, <3>1 DEF Passed
      <3>3. Passed' = Passed \union {<<i, r>>}
        BY <1>4, <2>2, <3>2 DEF Passed
      <3>4. i' \in Layers
        BY <1>1, <1>2, <2>3, <3>1 DEF Layers
      <3> QED
        BY <2>1, <2>3, <3>1, <3>3, <3>4
    <2>4. CASE ~(i + 1 < LayerNum)
      <3>1. i + 1 = LayerNum
        BY <1>1, <1>2, <2>4
      <3>2. i' = 0 /\ r' = 0 /\ pc' = next
        BY <1>8, <2>4 DEF Advance
      <3>3. Blocks = Passed \union {<<i, r>>}
        BY <1>4, <1>6, <2>2, <3>1 DEF Passed
      <3>4. i' \in Layers
        BY <1>2, <3>2 DEF Layers
      <3> QED
        BY <2>1, <3>1, <3>2, <3>3, <3>4
    <2> QED
      BY <2>3, <2>4
  <1> QED
    BY <1>7, <1>8

\* Before the first frame there are no records and nothing is segmented.
LEMMA InitCbInv == Init => CbInv
  <1> SUFFICES ASSUME Init PROVE CbInv
    OBVIOUS
  <1>1. /\ tbs \in [Layers -> Sizes] /\ pc = "segm" /\ i = 0 /\ r = 0 /\ s = 0 /\ c = 0
        /\ cb_tx = None /\ cb_rx = None
        /\ DOMAIN crc_mod_args = {} /\ DOMAIN derm_crc_args = {}
    BY DEF Init, Idle, None
  <1>2. 0 \in Layers
    BY CodeBlocksAssumption DEF CodeBlocksAssumption, Layers
  <1>3. Loops
    BY <1>1, <1>2 DEF Loops
  <1>4. Sides
    BY <1>1 DEF Sides
  <1>5. ModDone = {} /\ DermDone = {}
    BY <1>1 DEF ModDone, DermDone
  <1>6. Filled(crc_mod_args, ModDone, ModRecords) /\ Filled(derm_crc_args, DermDone, DermRecords)
    BY <1>1, <1>5 DEF Filled
  <1> QED
    BY <1>3, <1>4, <1>6 DEF CbInv

\* The symbols given out when a loop goes on: the shares follow one another,
\* and a layer begins where the one before it ends.
LEMMA SymbolsGoOn ==
  ASSUME Loops, Sides, pc \in {"mod", "derm"}
  PROVE  LET n == SymNum(Seg(i).C, r)
         IN /\ s + n = i * MAX_SYMBOL_NUM + Shared(Seg(i).C, r + 1)
            /\ r + 1 = Seg(i).C => s + n = (i + 1) * MAX_SYMBOL_NUM
            /\ \A l \in Layers : /\ 0 < Seg(l).C
                                 /\ l * MAX_SYMBOL_NUM + Shared(Seg(l).C, 0) = l * MAX_SYMBOL_NUM
  <1> DEFINE n == SymNum(Seg(i).C, r)
             C == Seg(i).C
  <1>1. /\ i \in Layers /\ i \in Int /\ r \in Nat /\ r < C
        /\ s = i * MAX_SYMBOL_NUM + Shared(C, r) /\ MAX_SYMBOL_NUM \in Int
    BY CodeBlocksAssumption DEF Loops, Layers, CodeBlocksAssumption
  <1>2. \A l \in Layers : Seg(l).C \in Int /\ 1 <= Seg(l).C /\ Seg(l).C <= MAX_SYMBOL_NUM
    BY SegOf DEF Sides, WellFormed
  <1>3. /\ n \in Int /\ Shared(C, r) \in Int /\ Shared(C, r + 1) = Shared(C, r) + n
        /\ Shared(C, C) = MAX_SYMBOL_NUM
    BY <1>1, <1>2, Shares
  <1>4. /\ (i + 1) * MAX_SYMBOL_NUM = i * MAX_SYMBOL_NUM + MAX_SYMBOL_NUM
        /\ i * MAX_SYMBOL_NUM \in Int
    BY <1>1
  <1> HIDE DEF n
  <1>5. /\ s + n = i * MAX_SYMBOL_NUM + Shared(C, r + 1)
        /\ r + 1 = C => s + n = (i + 1) * MAX_SYMBOL_NUM
    BY <1>1, <1>3, <1>4
  <1>6. ASSUME NEW l \in Layers
        PROVE  /\ 0 < Seg(l).C
               /\ l * MAX_SYMBOL_NUM + Shared(Seg(l).C, 0) = l * MAX_SYMBOL_NUM
    <2>1. Shared(Seg(l).C, 0) = 0 /\ 0 < Seg(l).C
      BY <1>2, Shares
    <2>2. l * MAX_SYMBOL_NUM \in Int
      BY CodeBlocksAssumption DEF Layers, CodeBlocksAssumption
    <2> QED
      BY <2>1, <2>2
  <1> QED
    BY <1>5, <1>6 DEF n

\* The tasks crc_cbsegm segment every layer.
LEMMA CrcCbsegmCbInv == CbInv /\ CrcCbsegm => CbInv'
  <1> SUFFICES ASSUME CbInv, CrcCbsegm PROVE CbInv'
    OBVIOUS
  <1>1. /\ pc = "segm" /\ pc' = "mod" /\ tbs' = tbs /\ i' = 0 /\ r' = 0 /\ s' = 0 /\ c' = 0
        /\ crc_mod_args' = crc_mod_args /\ derm_crc_args' = derm_crc_args
        /\ tbs \in [Layers -> Sizes] /\ cb_rx' = None
        /\ cb_tx' = [l \in Layers |-> Seg(l)]
    BY DEF CrcCbsegm, CbInv, Loops, Sides, Seg
  <1>2. 0 \in Layers /\ MAX_SYMBOL_NUM \in Int
    BY CodeBlocksAssumption DEF CodeBlocksAssumption, Layers
  <1>3. \A l : Seg(l)' = Seg(l)
    BY <1>1 DEF Seg
  <1>4. Seg(0).C \in Int /\ 0 < Seg(0).C /\ Shared(Seg(0).C, 0) = 0
    <2>1. Seg(0).C \in Int /\ 1 <= Seg(0).C /\ Seg(0).C <= MAX_SYMBOL_NUM
      BY <1>1, <1>2, SegOf DEF WellFormed
    <2> QED
      BY <2>1, Shares
  <1>5. Loops'
    BY <1>1, <1>2, <1>3, <1>4 DEF Loops
  <1>6. Sides'
    BY <1>1, <1>3 DEF Sides, None
  <1>7. Blocks' = Blocks /\ ModRecords' = ModRecords /\ DermRecords' = DermRecords
    BY <1>3 DEF Blocks, ModRecords, DermRecords
  <1>8. ModDone = {} /\ DermDone = {} /\ DermDone' = {}
    BY <1>1 DEF ModDone, DermDone
  <1>9. ModDone' = {}
    <2>1. ModDone' = {p \in Blocks : p[1] < 0 \/ (p[1] = 0 /\ p[2] < 0)}
      BY <1>1, <1>7 DEF ModDone, Passed
    <2>2. \A p \in Blocks : p[1] \in 0 .. LayerNum - 1 /\ p[2] \in 0 .. cbNum - 1
      BY DEF Blocks, Layers
    <2> QED
      BY <2>1, <2>2
  <1>10. Filled(crc_mod_args, {}, ModRecords) /\ Filled(derm_crc_args, {}, DermRecords)
    BY <1>8 DEF CbInv
  <1> QED
    BY <1>1, <1>5, <1>6, <1>7, <1>8, <1>9, <1>10 DEF CbInv

\* One round of the loop of TaskScheduler_tx: the record of the next block.
LEMMA AddModCbInv == CbInv /\ AddMod => CbInv'
  <1> SUFFICES ASSUME CbInv, AddMod PROVE CbInv'
    OBVIOUS
  <1> USE DEF CbInv
  <1> DEFINE n == SymNum(Seg(i).C, r)
             rec == [cbindex |-> r, cb |-> Seg(i), package |-> s, modSymNum |-> n]
  <1>1. /\ pc = "mod" /\ i \in Layers /\ cb_tx = [l \in Layers |-> Seg(l)] /\ cb_rx = None
        /\ s = i * MAX_SYMBOL_NUM + Shared(Seg(i).C, r) /\ c = 0
    BY DEF AddMod, Loops, Sides
  <1>2. cb_tx[i] = Seg(i)
    BY <1>1
  <1>3. /\ tbs' = tbs /\ cb_tx' = cb_tx /\ cb_rx' = cb_rx /\ c' = c
        /\ derm_crc_args' = derm_crc_args
        /\ crc_mod_args' = Put(crc_mod_args, rec) /\ s' = s + n
        /\ Advance(cb_tx, "mod", "take")
    BY <1>2 DEF AddMod
  <1>4. \A l : Seg(l)' = Seg(l)
    BY <1>3 DEF Seg
  <1>5. Blocks' = Blocks /\ ModRecords' = ModRecords /\ DermRecords' = DermRecords
    BY <1>4 DEF Blocks, ModRecords, DermRecords
  <1>6. /\ i' \in Layers /\ r' \in Nat
        /\ \/ /\ r + 1 < Seg(i).C /\ i' = i /\ r' = r + 1 /\ pc' = "mod"
              /\ Passed' = Passed \union {<<i, r>>}
           \/ /\ r + 1 = Seg(i).C /\ i + 1 < LayerNum /\ i' = i + 1 /\ r' = 0 /\ pc' = "mod"
              /\ Passed' = Passed \union {<<i, r>>}
           \/ /\ r + 1 = Seg(i).C /\ i + 1 = LayerNum /\ i' = 0 /\ r' = 0 /\ pc' = "take"
              /\ Blocks = Passed \union {<<i, r>>}
    BY <1>1, <1>2, <1>3, Advanced
  <1>7. /\ s' = i * MAX_SYMBOL_NUM + Shared(Seg(i).C, r + 1)
        /\ r + 1 = Seg(i).C => s' = (i + 1) * MAX_SYMBOL_NUM
        /\ \A l \in Layers : /\ 0 < Seg(l).C
                             /\ l * MAX_SYMBOL_NUM + Shared(Seg(l).C, 0) = l * MAX_SYMBOL_NUM
    BY <1>1, <1>3, SymbolsGoOn
  <1> HIDE DEF n, rec
  <1>8. Loops'
    <2>1. CASE r + 1 < Seg(i).C /\ i' = i /\ r' = r + 1 /\ pc' = "mod"
      BY <1>1, <1>3, <1>4, <1>6, <1>7, <2>1 DEF Loops
    <2>2. CASE r + 1 = Seg(i).C /\ i' = i + 1 /\ r' = 0 /\ pc' = "mod"
      BY <1>1, <1>3, <1>4, <1>6, <1>7, <2>2 DEF Loops
    <2>3. CASE r + 1 = Seg(i).C /\ i + 1 = LayerNum /\ i' = 0 /\ r' = 0 /\ pc' = "take"
      BY <1>1, <1>3, <1>4, <1>6, <1>7, <2>3 DEF Loops
    <2> QED
      BY <1>6, <2>1, <2>2, <2>3
  <1>9. Sides'
    <2>1. pc' \in {"mod", "take"}
      BY <1>6
    <2> QED
      BY <1>1, <1>3, <1>4, <2>1 DEF Sides, None
  <1>10. Filled(crc_mod_args', ModDone', ModRecords')
    <2>1. ModDone = Passed
      BY <1>1 DEF ModDone
    <2>2. ModDone' = Passed \union {<<i, r>>}
      BY <1>5, <1>6 DEF ModDone
    <2>3. <<i, r>> \in Blocks /\ Passed \in SUBSET Blocks
      BY <1>1, Current
    <2>4. rec = ModRecords[<<i, r>>]
      BY <1>1, <2>3 DEF ModRecords, rec, n
    <2>5. Filled(Put(crc_mod_args, rec), Passed \union {<<i, r>>}, ModRecords)
      BY <2>1, <2>3, <2>4, PutFills
    <2> QED
      BY <1>3, <1>5, <2>2, <2>5
  <1>11. Filled(derm_crc_args', DermDone', DermRecords')
    <2>1. DermDone = {} /\ DermDone' = {}
      BY <1>1, <1>6 DEF DermDone
    <2> QED
      BY <1>3, <1>5, <2>1
  <1> QED
    BY <1>8, <1>9, <1>10, <1>11

\* The receiver takes the frame and segments the sizes of its header again.
LEMMA TakeFrameCbInv == CbInv /\ TakeFrame => CbInv'
  <1> SUFFICES ASSUME CbInv, TakeFrame PROVE CbInv'
    OBVIOUS
  <1>1. /\ pc = "take" /\ pc' = "derm" /\ tbs' = tbs /\ i' = 0 /\ r' = 0 /\ s' = 0 /\ c' = 0
        /\ crc_mod_args' = crc_mod_args /\ derm_crc_args' = derm_crc_args
        /\ tbs \in [Layers -> Sizes] /\ cb_tx' = [l \in Layers |-> Seg(l)]
        /\ cb_rx' = [l \in Layers |-> Seg(l)]
    BY DEF TakeFrame, CbInv, Loops, Sides, Seg
  <1>2. 0 \in Layers /\ MAX_SYMBOL_NUM \in Int
    BY CodeBlocksAssumption DEF CodeBlocksAssumption, Layers
  <1>3. \A l : Seg(l)' = Seg(l)
    BY <1>1 DEF Seg
  <1>4. /\ Seg(0).C \in Int /\ 0 < Seg(0).C /\ Shared(Seg(0).C, 0) = 0
        /\ Start(Seg(0), 0) = 0
    <2>1. Seg(0).C \in Int /\ 1 <= Seg(0).C /\ Seg(0).C <= MAX_SYMBOL_NUM
      BY <1>1, <1>2, SegOf DEF WellFormed
    <2> QED
      BY <2>1, Shares DEF Start
  <1>5. Loops'
    BY <1>1, <1>2, <1>3, <1>4 DEF Loops
  <1>6. Sides'
    BY <1>1, <1>3 DEF Sides, None
  <1>7. Blocks' = Blocks /\ ModRecords' = ModRecords /\ DermRecords' = DermRecords
    BY <1>3 DEF Blocks, ModRecords, DermRecords
  <1>8. ModDone = Blocks /\ ModDone' = Blocks /\ DermDone = {}
    BY <1>1, <1>7 DEF ModDone, DermDone
  <1>9. DermDone' = {}
    <2>1. DermDone' = {p \in Blocks : p[1] < 0 \/ (p[1] = 0 /\ p[2] < 0)}
      BY <1>1, <1>7 DEF DermDone, Passed
    <2>2. \A p \in Blocks : p[1] \in 0 .. LayerNum - 1 /\ p[2] \in 0 .. cbNum - 1
      BY DEF Blocks, Layers
    <2> QED
      BY <2>1, <2>2
  <1>10. Filled(crc_mod_args, Blocks, ModRecords) /\ Filled(derm_crc_args, {}, DermRecords)
    BY <1>8 DEF CbInv
  <1> QED
    BY <1>1, <1>5, <1>6, <1>7, <1>8, <1>9, <1>10 DEF CbInv

\* One round of the loop of TaskScheduler_rx: the offsets move on by one block.
LEMMA AddDermCbInv == CbInv /\ AddDerm => CbInv'
  <1> SUFFICES ASSUME CbInv, AddDerm PROVE CbInv'
    OBVIOUS
  <1> USE DEF CbInv
  <1> DEFINE n == SymNum(Seg(i).C, r)
             rec == [r |-> r, cbnum |-> Seg(i).C, Kr |-> Kr(Seg(i), r), F |-> Seg(i).F,
                     symindex |-> s, modSymNum |-> n, conindex |-> c]
  <1>1. /\ pc = "derm" /\ i \in Layers
        /\ cb_tx = [l \in Layers |-> Seg(l)] /\ cb_rx = [l \in Layers |-> Seg(l)]
        /\ s = i * MAX_SYMBOL_NUM + Shared(Seg(i).C, r) /\ c = Start(Seg(i), r)
        /\ r \in Nat /\ r < Seg(i).C
    BY DEF AddDerm, Loops, Sides
  <1>2. cb_rx[i] = Seg(i)
    BY <1>1
  <1>3. /\ tbs' = tbs /\ cb_tx' = cb_tx /\ cb_rx' = cb_rx
        /\ crc_mod_args' = crc_mod_args
        /\ derm_crc_args' = Put(derm_crc_args, rec) /\ s' = s + n
        /\ c' = IF r + 1 < Seg(i).C THEN c + Placed(Seg(i)) ELSE 0
        /\ Advance(cb_rx, "derm", "done")
    BY <1>2 DEF AddDerm
  <1>4. \A l : Seg(l)' = Seg(l)
    BY <1>3 DEF Seg
  <1>5. Blocks' = Blocks /\ ModRecords' = ModRecords /\ DermRecords' = DermRecords
    BY <1>4 DEF Blocks, ModRecords, DermRecords
  <1>6. /\ i' \in Layers /\ r' \in Nat
        /\ \/ /\ r + 1 < Seg(i).C /\ i' = i /\ r' = r + 1 /\ pc' = "derm"
              /\ Passed' = Passed \union {<<i, r>>}
           \/ /\ r + 1 = Seg(i).C /\ i + 1 < LayerNum /\ i' = i + 1 /\ r' = 0 /\ pc' = "derm"
              /\ Passed' = Passed \union {<<i, r>>}
           \/ /\ r + 1 = Seg(i).C /\ i + 1 = LayerNum /\ i' = 0 /\ r' = 0 /\ pc' = "done"
              /\ Blocks = Passed \union {<<i, r>>}
    BY <1>1, <1>2, <1>3, Advanced
  <1>7. /\ s' = i * MAX_SYMBOL_NUM + Shared(Seg(i).C, r + 1)
        /\ r + 1 = Seg(i).C => s' = (i + 1) * MAX_SYMBOL_NUM
        /\ \A l \in Layers : /\ 0 < Seg(l).C
                             /\ l * MAX_SYMBOL_NUM + Shared(Seg(l).C, 0) = l * MAX_SYMBOL_NUM
    BY <1>1, <1>3, SymbolsGoOn
  <1>8. r + 1 < Seg(i).C => c' = Start(Seg(i), r + 1)
    <2> SUFFICES ASSUME r + 1 < Seg(i).C PROVE c' = Start(Seg(i), r + 1)
      OBVIOUS
    <2>1. tbs[i] \in Sizes /\ WellFormed(Seg(i), tbs[i]) /\ Seg(i).C \in Int /\ Seg(i).F \in Int
      BY <1>1, SegOf DEF Sides, WellFormed
    <2>2. Seg(i).C > 1
      BY <1>1, <2>1
    <2>3. /\ Start(Seg(i), r) \in Int /\ Kr(Seg(i), r) \in Int
          /\ Start(Seg(i), r + 1) =
               Start(Seg(i), r) + Kr(Seg(i), r) - CRC_LENGTH - (IF r = 0 THEN Seg(i).F ELSE 0)
      BY <1>1, <2>1, <2>2, Starts
    <2>4. Placed(Seg(i)) = Kr(Seg(i), r) - CRC_LENGTH - (IF r = 0 THEN Seg(i).F ELSE 0)
      BY <2>2 DEF Placed
    <2> QED
      BY <1>1, <1>3, <2>1, <2>3, <2>4 DEF CRC_LENGTH
  <1>9. ~(r + 1 < Seg(i).C) => c' = 0
    BY <1>3
  <1> HIDE DEF n, rec
  <1>10. Loops'
    <2>1. CASE r + 1 < Seg(i).C /\ i' = i /\ r' = r + 1 /\ pc' = "derm"
      BY <1>1, <1>3, <1>4, <1>6, <1>7, <1>8, <2>1 DEF Loops
    <2>2. CASE r + 1 = Seg(i).C /\ i' = i + 1 /\ r' = 0 /\ pc' = "derm"
      <3>1. Start(Seg(i'), r') = 0 /\ c' = 0
        BY <1>1, <1>9, <2>2 DEF Start
      <3> QED
        BY <1>1, <1>3, <1>4, <1>6, <1>7, <2>2, <3>1 DEF Loops
    <2>3. CASE r + 1 = Seg(i).C /\ i + 1 = LayerNum /\ i' = 0 /\ r' = 0 /\ pc' = "done"
      <3>1. c' = 0
        BY <1>1, <1>9, <2>3
      <3> QED
        BY <1>1, <1>3, <1>4, <1>6, <1>7, <2>3, <3>1 DEF Loops
    <2> QED
      BY <1>6, <2>1, <2>2, <2>3
  <1>11. Sides'
    <2>1. pc' \in {"derm", "done"}
      BY <1>6
    <2> QED
      BY <1>1, <1>3, <1>4, <2>1 DEF Sides, None
  <1>12. Filled(derm_crc_args', DermDone', DermRecords')
    <2>1. DermDone = Passed
      BY <1>1 DEF DermDone
    <2>2. DermDone' = Passed \union {<<i, r>>}
      BY <1>5, <1>6 DEF DermDone
    <2>3. <<i, r>> \in Blocks /\ Passed \in SUBSET Blocks
      BY <1>1, Current
    <2>4. rec = DermRecords[<<i, r>>]
      BY <1>1, <2>3 DEF DermRecords, rec, n
    <2>5. Filled(Put(derm_crc_args, rec), Passed \union {<<i, r>>}, DermRecords)
      BY <2>1, <2>3, <2>4, PutFills
    <2> QED
      BY <1>3, <1>5, <2>2, <2>5
  <1>13. Filled(crc_mod_args', ModDone', ModRecords')
    <2>1. ModDone = Blocks /\ ModDone' = Blocks
      BY <1>1, <1>5, <1>6 DEF ModDone
    <2> QED
      BY <1>3, <1>5, <2>1
  <1> QED
    BY <1>10, <1>11, <1>12, <1>13

\* Both schedulers and the tasks that segment keep the loops, the
\* segmentations and the records in step, for blocks of every size.
THEOREM Invariance == Spec => []CbInv
  <1>1. CbInv /\ UNCHANGED vars => CbInv'
    <2> SUFFICES ASSUME CbInv, UNCHANGED vars PROVE CbInv'
      OBVIOUS
    <2>1. /\ tbs' = tbs /\ cb_tx' = cb_tx /\ cb_rx' = cb_rx /\ pc' = pc /\ i' = i /\ r' = r
          /\ s' = s /\ c' = c /\ crc_mod_args' = crc_mod_args /\ derm_crc_args' = derm_crc_args
      BY DEF vars
    <2>2. \A l : Seg(l)' = Seg(l)
      BY <2>1 DEF Seg
    <2>3. Loops'
      BY <2>1, <2>2 DEF CbInv, Loops
    <2>4. Sides'
      BY <2>1, <2>2 DEF CbInv, Sides, None
    <2>5. Blocks' = Blocks /\ ModRecords' = ModRecords /\ DermRecords' = DermRecords
      BY <2>2 DEF Blocks, ModRecords, DermRecords
    <2>6. ModDone' = ModDone /\ DermDone' = DermDone
      BY <2>1, <2>5 DEF ModDone, DermDone, Passed
    <2> QED
      BY <2>1, <2>3, <2>4, <2>5, <2>6 DEF CbInv
  <1>2. CbInv /\ [Next]_vars => CbInv'
    BY <1>1, CrcCbsegmCbInv, AddModCbInv, TakeFrameCbInv, AddDermCbInv DEF Next
  <1> QED
    BY <1>2, InitCbInv, PTL DEF Spec
-----------------------------------------------------------------------------
(* The properties *)

\* A block of a layer that has a record has the one of its own.
LEMMA OwnModRecord ==
  ASSUME CbInv, NEW l \in Layers, NEW n \in Added(l)
  PROVE  /\ pc # "segm" /\ n \in Int /\ 0 <= n /\ n < Seg(l).C /\ cb_tx[l] = Seg(l)
         /\ <<l, n>> \in ModDone
         /\ crc_mod_args[jp(l, n)] = ModRecords[<<l, n>>]
         /\ n > 0 => crc_mod_args[jp(l, n - 1)] = ModRecords[<<l, n - 1>>] /\ <<l, n - 1>> \in Blocks
  <1>1. /\ n \in 0 .. cb_tx[l].C - 1 /\ jp(l, n) \in DOMAIN crc_mod_args
    BY DEF Added
  <1>2. PICK p \in ModDone : jp(l, n) = jp(p[1], p[2])
    BY <1>1 DEF CbInv, Filled
  <1>3. pc # "segm"
    BY <1>2 DEF ModDone
  <1>4. cb_tx[l] = Seg(l) /\ Seg(l).C \in Int /\ Seg(l).C <= cbNum
    BY <1>3, SegOf DEF CbInv, Sides, WellFormed
  <1>5. n \in Int /\ 0 <= n /\ n < Seg(l).C
    BY <1>1, <1>4
  <1>6. cbNum \in Int
    BY CodeBlocksAssumption, Div DEF CodeBlocksAssumption, cbNum, SRSLTE_TCOD_MAX_LEN_CB
  <1>7. <<l, n>> \in Blocks /\ (n > 0 => <<l, n - 1>> \in Blocks)
    BY <1>4, <1>5, <1>6 DEF Blocks
  <1>8. p \in Blocks /\ ModDone \in SUBSET Blocks
    BY <1>2 DEF ModDone, Passed
  <1>9. /\ p[1] \in Layers /\ p[2] \in 0 .. cbNum - 1 /\ p = <<p[1], p[2]>>
        /\ n \in 0 .. cbNum - 1
    BY <1>7, <1>8 DEF Blocks
  <1>10. p = <<l, n>>
    BY <1>2, <1>9, OwnRecord
  <1>11. <<l, n>> \in ModDone
    BY <1>2, <1>10
  <1>12. n > 0 => <<l, n - 1>> \in ModDone
    <2>1. i \in Int /\ r \in Int /\ l \in Int
      BY CodeBlocksAssumption DEF CbInv, Loops, Layers, CodeBlocksAssumption
    <2> QED
      BY <1>3, <1>5, <1>7, <1>11, <2>1 DEF ModDone, Passed
  <1>13. \A q \in ModDone : crc_mod_args[jp(q[1], q[2])] = ModRecords[q]
    BY DEF CbInv, Filled
  <1>14. crc_mod_args[jp(l, n)] = ModRecords[<<l, n>>]
    BY <1>11, <1>13
  <1>15. n > 0 => crc_mod_args[jp(l, n - 1)] = ModRecords[<<l, n - 1>>]
    BY <1>12, <1>13
  <1> QED
    BY <1>3, <1>4, <1>5, <1>7, <1>11, <1>14, <1>15

\* The receiver mirrors the sender for every size, every number of layers and
\* every macro that satisfies RecordsAssumption: the offsets accumulated by the
\* loop of TaskScheduler_rx are those crc_mod computes.
THEOREM Mirrored == Spec => []BlocksReturn
  <1>1. CbInv => BlocksReturn
    <2> SUFFICES ASSUME CbInv, NEW j \in DOMAIN derm_crc_args
                 PROVE  /\ j \in DOMAIN crc_mod_args
                        /\ Write(derm_crc_args[j]) = Read(crc_mod_args[j])
                        /\ derm_crc_args[j].symindex = crc_mod_args[j].package
                        /\ derm_crc_args[j].modSymNum = crc_mod_args[j].modSymNum
                        /\ derm_crc_args[j].Kr = Kr(crc_mod_args[j].cb, crc_mod_args[j].cbindex)
      BY DEF BlocksReturn
    <2>1. PICK p \in DermDone : j = jp(p[1], p[2]) /\ derm_crc_args[j] = DermRecords[p]
      BY DEF CbInv, Filled
    <2>2. p \in Blocks /\ p \in ModDone
      BY <2>1 DEF CbInv, Loops, DermDone, ModDone, Passed
    <2>3. j \in DOMAIN crc_mod_args /\ crc_mod_args[j] = ModRecords[p]
      BY <2>1, <2>2 DEF CbInv, Filled
    <2> DEFINE cb == Seg(p[1])
               n == p[2]
               a == ModRecords[p]
               d == DermRecords[p]
    <2>4. p[1] \in Layers /\ n \in Int /\ 0 <= n /\ n < cb.C
      BY <2>2, CodeBlocksAssumption, Div
      DEF Blocks, cbNum, SRSLTE_TCOD_MAX_LEN_CB, CodeBlocksAssumption
    <2>5. tbs[p[1]] \in Sizes /\ WellFormed(cb, tbs[p[1]])
      BY <2>4, SegOf DEF CbInv, Sides
    <2>6. /\ a.cbindex = n /\ a.cb = cb
          /\ a.package = p[1] * MAX_SYMBOL_NUM + Shared(cb.C, n)
          /\ a.modSymNum = SymNum(cb.C, n)
      BY <2>2 DEF ModRecords
    <2>7. /\ d.r = n /\ d.cbnum = cb.C /\ d.Kr = Kr(cb, n) /\ d.F = cb.F
          /\ d.symindex = p[1] * MAX_SYMBOL_NUM + Shared(cb.C, n)
          /\ d.modSymNum = SymNum(cb.C, n) /\ d.conindex = Start(cb, n)
      BY <2>2 DEF DermRecords
    <2> HIDE DEF a, d, cb
    <2>8. Read(a) = Piece(cb, n) /\ Write(d) = Piece(cb, n)
      BY <2>4, <2>5, <2>6, <2>7, BothPieces
    <2> QED
      BY <2>1, <2>3, <2>6, <2>7, <2>8 DEF a, d
  <1> QED
    BY <1>1, Invariance, PTL

\* The modulation symbols of a layer are used once each, and every code block
\* has some, whatever the remainder of the division.
THEOREM SymbolsUsedOnce == Spec => []SymbolsTile
  <1>1. CbInv => SymbolsTile
    <2> SUFFICES ASSUME CbInv, NEW l \in Layers, NEW n \in Added(l)
                 PROVE  LET a == crc_mod_args[jp(l, n)]
                        IN /\ a.modSymNum > 0
                           /\ a.package = IF n = 0 THEN l * MAX_SYMBOL_NUM
                                          ELSE LET b == crc_mod_args[jp(l, n - 1)]
                                               IN b.package + b.modSymNum
                           /\ n = cb_tx[l].C - 1 =>
                                a.package + a.modSymNum = (l + 1) * MAX_SYMBOL_NUM
      BY DEF SymbolsTile
    <2> DEFINE C == Seg(l).C
               a == crc_mod_args[jp(l, n)]
               b == crc_mod_args[jp(l, n - 1)]
    <2>1. /\ n \in Int /\ 0 <= n /\ n < C /\ cb_tx[l].C = C
          /\ <<l, n>> \in Blocks
          /\ a = ModRecords[<<l, n>>]
          /\ n > 0 => b = ModRecords[<<l, n - 1>>] /\ <<l, n - 1>> \in Blocks
      BY OwnModRecord DEF ModDone, Passed
    <2>2. C \in Int /\ 1 <= C /\ C <= MAX_SYMBOL_NUM
      BY SegOf DEF CbInv, Sides, WellFormed
    <2>3. a.package = l * MAX_SYMBOL_NUM + Shared(C, n) /\ a.modSymNum = SymNum(C, n)
      BY <2>1 DEF ModRecords
    <2>4. n > 0 => /\ b.package = l * MAX_SYMBOL_NUM + Shared(C, n - 1)
                   /\ b.modSymNum = SymNum(C, n - 1)
      BY <2>1 DEF ModRecords
    <2>5. /\ l * MAX_SYMBOL_NUM \in Int /\ MAX_SYMBOL_NUM \in Int
          /\ (l + 1) * MAX_SYMBOL_NUM = l * MAX_SYMBOL_NUM + MAX_SYMBOL_NUM
      BY CodeBlocksAssumption DEF CodeBlocksAssumption, Layers
    <2> HIDE DEF a, b, C
    <2>6. /\ SymNum(C, n) \in Int /\ SymNum(C, n) > 0 /\ Shared(C, n) \in Int
          /\ Shared(C, n + 1) = Shared(C, n) + SymNum(C, n)
          /\ Shared(C, 0) = 0 /\ Shared(C, C) = MAX_SYMBOL_NUM
      BY <2>1, <2>2, Shares
    <2>7. a.package = IF n = 0 THEN l * MAX_SYMBOL_NUM ELSE b.package + b.modSymNum
      <3>1. CASE n = 0
        BY <2>3, <2>5, <2>6, <3>1
      <3>2. CASE n > 0
        <4>1. n - 1 \in Int /\ 0 <= n - 1 /\ n - 1 < C /\ (n - 1) + 1 = n
          BY <2>1, <2>2, <3>2
        <4>2. /\ SymNum(C, n - 1) \in Int /\ Shared(C, n - 1) \in Int
              /\ Shared(C, (n - 1) + 1) = Shared(C, n - 1) + SymNum(C, n - 1)
          BY <2>2, <4>1, Shares
        <4> QED
          BY <2>1, <2>3, <2>4, <2>5, <3>2, <4>1, <4>2
      <3> QED
        BY <2>1, <3>1, <3>2
    <2>8. n = C - 1 => a.package + a.modSymNum = (l + 1) * MAX_SYMBOL_NUM
      <3> SUFFICES ASSUME n = C - 1 PROVE a.package + a.modSymNum = (l + 1) * MAX_SYMBOL_NUM
        OBVIOUS
      <3>1. n + 1 = C
        BY <2>2
      <3>2. Shared(C, n) + SymNum(C, n) = MAX_SYMBOL_NUM
        BY <2>6, <3>1
      <3> QED
        BY <2>3, <2>5, <2>6, <3>2
    <2> QED
      BY <2>1, <2>3, <2>6, <2>7, <2>8 DEF a, b
  <1> QED
    BY <1>1, Invariance, PTL

\* The code blocks of a layer hold each byte of the transport block and of its
\* checksum once, for every size.
THEOREM BytesTaken == Spec => []BlocksTile
  <1>1. CbInv => BlocksTile
    <2> SUFFICES ASSUME CbInv, NEW l \in Layers, NEW n \in Added(l)
                 PROVE  LET a == Read(crc_mod_args[jp(l, n)])
                        IN /\ a.count > 0 /\ a.at >= 0
                           /\ a.from = IF n = 0 THEN 0
                                       ELSE LET b == Read(crc_mod_args[jp(l, n - 1)])
                                            IN b.from + b.count
                           /\ n = cb_tx[l].C - 1 =>
                                a.from + a.count = (tbs[l] + CRC_LENGTH) \div 8
      BY DEF BlocksTile
    <2> DEFINE cb == Seg(l)
    <2>1. /\ n \in Int /\ 0 <= n /\ n < cb.C /\ cb_tx[l] = cb
          /\ <<l, n>> \in Blocks
          /\ crc_mod_args[jp(l, n)] = ModRecords[<<l, n>>]
          /\ n > 0 => /\ crc_mod_args[jp(l, n - 1)] = ModRecords[<<l, n - 1>>]
                      /\ <<l, n - 1>> \in Blocks
      BY OwnModRecord DEF ModDone, Passed
    <2>2. tbs[l] \in Sizes /\ WellFormed(cb, tbs[l]) /\ cb.C \in Int
      BY SegOf DEF CbInv, Sides, WellFormed
    <2>3. Read(crc_mod_args[jp(l, n)]) = Piece(cb, n)
      <3>1. ModRecords[<<l, n>>].cbindex = n /\ ModRecords[<<l, n>>].cb = cb
        BY <2>1 DEF ModRecords
      <3> QED
        BY <2>1, <2>2, <3>1, BothPieces
    <2>4. n > 0 => Read(crc_mod_args[jp(l, n - 1)]) = Piece(cb, n - 1)
      <3> SUFFICES ASSUME n > 0 PROVE Read(crc_mod_args[jp(l, n - 1)]) = Piece(cb, n - 1)
        OBVIOUS
      <3>1. ModRecords[<<l, n - 1>>].cbindex = n - 1 /\ ModRecords[<<l, n - 1>>].cb = cb
        BY <2>1 DEF ModRecords
      <3>2. n - 1 \in Int /\ 0 <= n - 1 /\ n - 1 < cb.C
        BY <2>1, <2>2
      <3> QED
        BY <2>1, <2>2, <3>1, <3>2, BothPieces
    <2> HIDE DEF cb
    <2>5. /\ Piece(cb, n).count > 0 /\ Piece(cb, n).at >= 0
          /\ n = 0 => Piece(cb, n).from = 0
          /\ n > 0 => Piece(cb, n).from = Piece(cb, n - 1).from + Piece(cb, n - 1).count
          /\ n = cb.C - 1 => Piece(cb, n).from + Piece(cb, n).count = (tbs[l] + CRC_LENGTH) \div 8
      BY <2>1, <2>2, Tiles
    <2> QED
      BY <2>1, <2>3, <2>4, <2>5
  <1> QED
    BY <1>1, Invariance, PTL

\* No transport block is cut into more blocks than a layer has records, the
\* loops stay inside the layers, and the records inside the arrays.
THEOREM TypeCorrect == Spec => []TypeOK
  <1>1. CbInv => TypeOK
    <2> SUFFICES ASSUME CbInv PROVE TypeOK
      OBVIOUS
    <2> USE DEF CbInv
    <2>1. /\ cbNum \in Int /\ cbNum >= 1 /\ LayerNum \in Int /\ LayerNum >= 1
          /\ MAX_SYMBOL_NUM \in Int /\ MAX_SYMBOL_NUM >= 1
      <3>1. /\ MAX_SYMBOL_NUM * MAX_CQI_MOD \in Int /\ MAX_SYMBOL_NUM * MAX_CQI_MOD >= 0
            /\ MAX_SYMBOL_NUM \in Int /\ MAX_SYMBOL_NUM >= 1 /\ LayerNum \in Int /\ LayerNum >= 1
        BY CodeBlocksAssumption, Product DEF CodeBlocksAssumption
      <3>2. /\ (MAX_SYMBOL_NUM * MAX_CQI_MOD) \div 6144 \in Int
            /\ MAX_SYMBOL_NUM * MAX_CQI_MOD < 6144 * ((MAX_SYMBOL_NUM * MAX_CQI_MOD) \div 6144) + 6144
        BY <3>1, Div
      <3> QED
        BY <3>1, <3>2 DEF cbNum, SRSLTE_TCOD_MAX_LEN_CB
    <2>2. \A l \in Layers : Seg(l) \in Segmentations
      <3> SUFFICES ASSUME NEW l \in Layers PROVE Seg(l) \in Segmentations
        OBVIOUS
      <3>1. tbs[l] \in Sizes /\ WellFormed(Seg(l), tbs[l])
        BY SegOf DEF Sides
      <3>2. /\ Seg(l) \in [C : Int, K1 : Int, K2 : Int, C1 : Int, C2 : Int, F : Int]
            /\ Seg(l).C \in 0 .. cbNum /\ Seg(l).K1 \in CbSizes \union {0}
            /\ Seg(l).K2 \in CbSizes \union {0} /\ Seg(l).C1 \in 0 .. cbNum
            /\ Seg(l).C2 \in 0 .. cbNum /\ Seg(l).F \in 0 .. 63
        <4>1. CASE Seg(l).C = 1
          BY <2>1, <3>1, <4>1 DEF WellFormed
        <4>2. CASE Seg(l).C > 1
          BY <2>1, <3>1, <4>2 DEF WellFormed
        <4> QED
          BY <3>1, <4>1, <4>2 DEF WellFormed
      <3> QED
        BY <3>2 DEF Segmentations
    <2>3. None \in [Layers -> Segmentations]
      <3>1. Segment(0, 0, 0, 0, 0) \in Segmentations
        BY <2>1 DEF Segment, Segmentations
      <3> QED
        BY <3>1 DEF None
    <2>4. cb_tx \in [Layers -> Segmentations] /\ cb_rx \in [Layers -> Segmentations]
      BY <2>2, <2>3 DEF Sides
    <2>5. pc \in {"mod", "derm"} =>
             r < cbNum /\ s \in 0 .. LayerNum * MAX_SYMBOL_NUM /\ Start(Seg(i), r) \in Nat
      <3> SUFFICES ASSUME pc \in {"mod", "derm"}
                   PROVE  r < cbNum /\ s \in 0 .. LayerNum * MAX_SYMBOL_NUM /\ Start(Seg(i), r) \in Nat
        OBVIOUS
      <3>1. /\ i \in Layers /\ i \in Int /\ 0 <= i /\ i + 1 <= LayerNum
            /\ r \in Nat /\ r < Seg(i).C
            /\ s = i * MAX_SYMBOL_NUM + Shared(Seg(i).C, r)
        BY <2>1 DEF Loops, Layers
      <3>2. /\ tbs[i] \in Sizes /\ WellFormed(Seg(i), tbs[i]) /\ Seg(i).C \in Int
            /\ 1 <= Seg(i).C /\ Seg(i).C <= cbNum /\ Seg(i).C <= MAX_SYMBOL_NUM
        BY <3>1, SegOf DEF Sides, WellFormed
      <3>3. /\ Shared(Seg(i).C, r) \in Int
            /\ 0 <= Shared(Seg(i).C, r) /\ Shared(Seg(i).C, r) <= MAX_SYMBOL_NUM
        BY <3>1, <3>2, Shares
      <3>4. /\ MAX_SYMBOL_NUM * 0 <= MAX_SYMBOL_NUM * i
            /\ MAX_SYMBOL_NUM * (i + 1) <= MAX_SYMBOL_NUM * LayerNum
        BY <2>1, <3>1, Product
      <3>5. /\ i * MAX_SYMBOL_NUM \in Int /\ i * MAX_SYMBOL_NUM >= 0
            /\ i * MAX_SYMBOL_NUM + MAX_SYMBOL_NUM <= LayerNum * MAX_SYMBOL_NUM
            /\ LayerNum * MAX_SYMBOL_NUM \in Int
        BY <2>1, <3>1, <3>4
      <3>6. s \in 0 .. LayerNum * MAX_SYMBOL_NUM
        BY <2>1, <3>1, <3>3, <3>5
      <3>7. Start(Seg(i), r) \in Nat
        <4>1. CASE r = 0
          BY <4>1 DEF Start
        <4>2. CASE r > 0
          <5>1. Seg(i).C > 1
            BY <3>1, <3>2, <4>2
          <5>2. Start(Seg(i), r) \in Int /\ Start(Seg(i), r) >= 0
            BY <3>1, <3>2, <5>1, Starts
          <5> QED
            BY <5>2
        <4> QED
          BY <3>1, <4>1, <4>2
      <3> QED
        BY <2>1, <3>1, <3>2, <3>6, <3>7
    <2>6. i \in Layers /\ r \in 0 .. cbNum - 1
      BY <2>1, <2>5 DEF Loops
    <2>7. s \in 0 .. LayerNum * MAX_SYMBOL_NUM
      <3>1. LayerNum * MAX_SYMBOL_NUM \in Int /\ LayerNum * MAX_SYMBOL_NUM >= 0
        BY <2>1
      <3> QED
        BY <2>5, <3>1 DEF Loops
    <2>8. c \in Nat
      BY <2>5 DEF Loops
    <2>9. \A p \in Blocks : jp(p[1], p[2]) \in Records
      <3> SUFFICES ASSUME NEW p \in Blocks PROVE jp(p[1], p[2]) \in Records
        OBVIOUS
      <3>1. /\ p[1] \in Int /\ 0 <= p[1] /\ p[1] + 1 <= LayerNum
            /\ p[2] \in Int /\ 0 <= p[2] /\ p[2] < cbNum
        BY <2>1 DEF Blocks, Layers
      <3>2. cbNum * 0 <= cbNum * p[1] /\ cbNum * (p[1] + 1) <= cbNum * LayerNum
        BY <2>1, <3>1, Product
      <3>3. /\ p[1] * cbNum \in Int /\ p[1] * cbNum >= 0 /\ LayerNum * cbNum \in Int
            /\ p[1] * cbNum + cbNum <= LayerNum * cbNum
        BY <2>1, <3>1, <3>2
      <3> QED
        BY <2>1, <3>1, <3>3 DEF jp, Records
    <2>10. DOMAIN crc_mod_args \in SUBSET Records /\ DOMAIN derm_crc_args \in SUBSET Records
      <3>1. ModDone \in SUBSET Blocks /\ DermDone \in SUBSET Blocks
        BY DEF ModDone, DermDone, Passed
      <3> QED
        BY <2>9, <3>1 DEF Filled
    <2>11. tbs \in [Layers -> Sizes] /\ pc \in {"segm", "mod", "take", "derm", "done"}
      BY DEF Sides, Loops
    <2> QED
      BY <2>4, <2>6, <2>7, <2>8, <2>10, <2>11 DEF TypeOK
  <1> QED
    BY <1>1, Invariance, PTL

=============================================================================
