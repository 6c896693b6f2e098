---------------------------- MODULE CodeBlocks ----------------------------
(***************************************************************************)
(* How a transport block is cut into code blocks and how its pieces come   *)
(* back together.  The sender's tasks crc_cbsegm segment the block of each *)
(* layer (srslte_cbsegm); the loop of TaskScheduler_tx then gives every    *)
(* code block a crc_mod task, whose record says which modulation symbols   *)
(* it fills; crc_mod computes by itself which bytes of the block it reads. *)
(* The receiver segments the size it finds in the header again, and its    *)
(* loop accumulates the offsets by which derm_crc reads symbols and writes *)
(* bytes.  Neither side tells the other an offset: two independent         *)
(* computations have to agree, for every size.                             *)
(*                                                                         *)
(* One slot is modelled; the records of the slots do not overlap.  Sizes   *)
(* are in bits, as in the code, offsets into blocks in bytes.              *)
(***************************************************************************)
EXTENDS Integers, FiniteSets

CONSTANTS
  LayerNum,        \* layers of a frame
  MAX_SYMBOL_NUM,  \* modulation symbols of a layer (14400)
  MAX_CQI_MOD,     \* bits of a symbol, at most (6)
  Sizes            \* the sizes of transport blocks, in bits

ASSUME CodeBlocksAssumption ==
  /\ LayerNum \in Nat \ {0}
  /\ MAX_SYMBOL_NUM \in Nat \ {0} /\ MAX_CQI_MOD \in Nat \ {0}
  /\ \A b \in Sizes : b \in 1 .. MAX_SYMBOL_NUM * MAX_CQI_MOD - 24 /\ b % 8 = 0

VARIABLES
  tbs,             \* layer -> size of its transport block
  cb_tx, cb_rx,    \* layer -> its segmentation, on either side
  pc,              \* "segm", "mod", "take", "derm", "done"
  i, r,            \* the loops: layer and code block
  s,               \* symbols given out so far in this stage
  c,               \* bits of this layer's block placed so far (receiver)
  crc_mod_args,    \* the sender's task records
  derm_crc_args    \* the receiver's task records

vars == <<tbs, cb_tx, cb_rx, pc, i, r, s, c, crc_mod_args, derm_crc_args>>

Layers == 0 .. LayerNum - 1

-----------------------------------------------------------------------------
(* srslte_cbsegm *)

CRC_LENGTH             == 24
SRSLTE_TCOD_MAX_LEN_CB == 6144

\* tc_cb_sizes
CbSizes ==
  {8 * k : k \in 5 .. 64} \union {16 * k : k \in 33 .. 64} \union
  {32 * k : k \in 33 .. 64} \union {64 * k : k \in 33 .. 96}

\* The size srslte_cbsegm_cbindex finds, and the one before it in the table.
SizeFor(len)   == CHOOSE k \in CbSizes : k >= len /\ \A m \in CbSizes : m >= len => k <= m
SizeBefore(k1) == CHOOSE k \in CbSizes : k < k1 /\ \A m \in CbSizes : m < k1 => m <= k

\* (float) B / 6120, rounded up
BlocksFor(B) == IF B <= SRSLTE_TCOD_MAX_LEN_CB
                  THEN 1
                  ELSE (B - 1) \div (SRSLTE_TCOD_MAX_LEN_CB - CRC_LENGTH) + 1

\* C blocks with K1 or K2 bits, the first C2 of them with K2; F null bits.
Segment(C, Bp, K1, K2, C2) ==
  [C |-> C, K1 |-> K1, K2 |-> K2, C1 |-> C - C2, C2 |-> C2,
   F |-> (C - C2) * K1 + C2 * K2 - Bp]

Segmentation(size) ==
  LET B  == size + CRC_LENGTH
      C  == BlocksFor(B)
      Bp == IF C = 1 THEN B ELSE B + 24 * C
      K1 == SizeFor((Bp - 1) \div C + 1)
      K2 == IF C = 1 THEN 0 ELSE SizeBefore(K1)
  IN Segment(C, Bp, K1, K2, IF C = 1 THEN 0 ELSE (C * K1 - Bp) \div (K1 - K2))

\* Bits of code block n, with its checksum.
Kr(cb, n) == IF n < cb.C2 THEN cb.K2 ELSE cb.K1

-----------------------------------------------------------------------------
(* The loops of both schedulers *)

CbNumRoundedDown ==               \* mutant: + 1 is missing
  (MAX_SYMBOL_NUM * MAX_CQI_MOD) \div SRSLTE_TCOD_MAX_LEN_CB

\* Task records of a layer.
cbNum == (MAX_SYMBOL_NUM * MAX_CQI_MOD) \div SRSLTE_TCOD_MAX_LEN_CB + 1

\* What the macros have to satisfy for these records to suffice: records are
\* counted by 6144 bits, blocks are cut by 6120.  14400 symbols of 6 bits do,
\* 12244 bits would not; and a symbol is shorter than a block.
ASSUME RecordsAssumption ==
  /\ (MAX_SYMBOL_NUM * MAX_CQI_MOD - 1) \div 6120 <= (MAX_SYMBOL_NUM * MAX_CQI_MOD) \div 6144
  /\ MAX_CQI_MOD <= 6120

jp(l, n) == l * cbNum + n
Records  == 0 .. LayerNum * cbNum - 1

SymNumRoundedDown(C, n) ==        \* mutant: the symbols left over are given to nobody
  MAX_SYMBOL_NUM \div C

\* Symbols of code block n of C: Lamda blocks get one more than the others.
SymNum(C, n) ==
  LET Lamda == MAX_SYMBOL_NUM % C
  IN IF n < C - Lamda THEN MAX_SYMBOL_NUM \div C ELSE (MAX_SYMBOL_NUM - 1) \div C + 1

\* args with the record of (i, r) set.
Put(args, rec) ==
  [j \in DOMAIN args \union {jp(i, r)} |-> IF j = jp(i, r) THEN rec ELSE args[j]]

\* The loops go on with the next block, or the first of the next layer, or
\* the next stage.
Advance(cb, here, next) ==
  IF r + 1 < cb[i].C
    THEN r' = r + 1 /\ i' = i /\ pc' = here
    ELSE /\ r' = 0
         /\ IF i + 1 < LayerNum THEN i' = i + 1 /\ pc' = here
                                ELSE i' = 0 /\ pc' = next

-----------------------------------------------------------------------------
(* The sender *)

\* Everything except the sizes.
Idle ==
  /\ cb_tx = [l \in Layers |-> Segment(0, 0, 0, 0, 0)]
  /\ cb_rx = [l \in Layers |-> Segment(0, 0, 0, 0, 0)]
  /\ pc = "segm" /\ i = 0 /\ r = 0 /\ s = 0 /\ c = 0
  /\ crc_mod_args = [j \in {} |-> 0] /\ derm_crc_args = [j \in {} |-> 0]

\* The sizes follow from the channel qualities.
Init == tbs \in [Layers -> Sizes] /\ Idle

\* The tasks crc_cbsegm of all layers.
CrcCbsegm ==
  /\ pc = "segm"
  /\ cb_tx' = [l \in Layers |-> Segmentation(tbs[l])]
  /\ pc' = "mod"
  /\ UNCHANGED <<tbs, cb_rx, i, r, s, c, crc_mod_args, derm_crc_args>>

\* One crc_mod task: its block and where its symbols go.
AddMod ==
  /\ pc = "mod"
  /\ LET n == SymNum(cb_tx[i].C, r)
     IN /\ crc_mod_args' = Put(crc_mod_args,
             [cbindex |-> r, cb |-> cb_tx[i], package |-> s, modSymNum |-> n])
        /\ s' = s + n
  /\ Advance(cb_tx, "mod", "take")
  /\ UNCHANGED <<tbs, cb_tx, cb_rx, c, derm_crc_args>>

ReadAsIfEqual(a) ==               \* mutant: all blocks before this one as large as it is
  LET kr    == Kr(a.cb, a.cbindex)
      nulls == IF a.cbindex = 0 THEN a.cb.F \div 8 ELSE 0
      start == (kr - CRC_LENGTH) * a.cbindex - a.cb.F
  IN [at |-> nulls, from |-> start \div 8 + nulls,
      count |-> (IF a.cb.C > 1 THEN kr - CRC_LENGTH ELSE kr) \div 8 - nulls]

\* The bytes of the transport block crc_mod reads, and the byte of its code
\* block where they begin.
Read(a) ==
  LET kr    == Kr(a.cb, a.cbindex)
      nulls == IF a.cbindex = 0 THEN a.cb.F \div 8 ELSE 0
      start == IF a.cbindex < a.cb.C2
                 THEN (kr - CRC_LENGTH) * a.cbindex - a.cb.F
                 ELSE (a.cb.K2 - CRC_LENGTH) * a.cb.C2
                        + (kr - CRC_LENGTH) * (a.cbindex - a.cb.C2) - a.cb.F
  IN [at |-> nulls, from |-> start \div 8 + nulls,
      count |-> (IF a.cb.C > 1 THEN kr - CRC_LENGTH ELSE kr) \div 8 - nulls]

-----------------------------------------------------------------------------
(* The receiver *)

\* A slot takes the frame and segments the sizes of its header.
TakeFrame ==
  /\ pc = "take"
  /\ cb_rx' = [l \in Layers |-> Segmentation(tbs[l])]
  /\ pc' = "derm" /\ s' = 0 /\ c' = 0
  /\ UNCHANGED <<tbs, cb_tx, i, r, crc_mod_args, derm_crc_args>>

PlacedWithNulls(cb) ==            \* mutant: the null bits of the first block are counted
  IF cb.C > 1 THEN Kr(cb, r) - CRC_LENGTH ELSE 0

\* What code block r adds to conindex.
Placed(cb) ==
  IF cb.C > 1
    THEN Kr(cb, r) - CRC_LENGTH - (IF r = 0 THEN cb.F ELSE 0)
    ELSE 0

\* One derm_crc task: where its symbols are and where its bytes go.
AddDerm ==
  /\ pc = "derm"
  /\ LET n == SymNum(cb_rx[i].C, r)
     IN /\ derm_crc_args' = Put(derm_crc_args,
             [r |-> r, cbnum |-> cb_rx[i].C, Kr |-> Kr(cb_rx[i], r), F |-> cb_rx[i].F,
              symindex |-> s, modSymNum |-> n, conindex |-> c])
        /\ s' = s + n
        /\ c' = IF r + 1 < cb_rx[i].C THEN c + Placed(cb_rx[i]) ELSE 0
  /\ Advance(cb_rx, "derm", "done")
  /\ UNCHANGED <<tbs, cb_tx, cb_rx, crc_mod_args>>

\* The bytes of the transport block derm_crc writes, and the byte of its code
\* block where they begin.
Write(a) ==
  LET nulls == IF a.r = 0 THEN a.F \div 8 ELSE 0
  IN [at |-> nulls, from |-> a.conindex \div 8,
      count |-> (IF a.cbnum > 1 THEN a.Kr - CRC_LENGTH ELSE a.Kr) \div 8 - nulls]

-----------------------------------------------------------------------------
Next == CrcCbsegm \/ AddMod \/ TakeFrame \/ AddDerm

Spec == Init /\ [][Next]_vars

-----------------------------------------------------------------------------
Segmentations == [C : 0 .. cbNum, K1 : CbSizes \union {0}, K2 : CbSizes \union {0},
                  C1 : 0 .. cbNum, C2 : 0 .. cbNum, F : 0 .. 63]

\* No transport block needs more code blocks than there are task records,
\* so a record is never reused for a second task of the same subframe.
TypeOK ==
  /\ tbs \in [Layers -> Sizes]
  /\ cb_tx \in [Layers -> Segmentations] /\ cb_rx \in [Layers -> Segmentations]
  /\ pc \in {"segm", "mod", "take", "derm", "done"}
  /\ i \in Layers /\ r \in 0 .. cbNum - 1
  /\ s \in 0 .. LayerNum * MAX_SYMBOL_NUM /\ c \in Nat
  /\ DOMAIN crc_mod_args \in SUBSET Records /\ DOMAIN derm_crc_args \in SUBSET Records

\* The blocks of layer l that have a crc_mod task.
Added(l) == {n \in 0 .. cb_tx[l].C - 1 : jp(l, n) \in DOMAIN crc_mod_args}

\* The receiver mirrors the sender: derm_crc demodulates the symbols crc_mod
\* filled and puts each byte of its code block where crc_mod found it, although
\* one accumulates offsets in a loop and the other computes its own.
BlocksReturn ==
  \A j \in DOMAIN derm_crc_args :
    /\ j \in DOMAIN crc_mod_args
    /\ Write(derm_crc_args[j]) = Read(crc_mod_args[j])
    /\ derm_crc_args[j].symindex = crc_mod_args[j].package
    /\ derm_crc_args[j].modSymNum = crc_mod_args[j].modSymNum
    /\ derm_crc_args[j].Kr = Kr(crc_mod_args[j].cb, crc_mod_args[j].cbindex)

\* The code blocks of a layer cover its transport block and its checksum
\* byte for byte, without a gap or an overlap, and hold at least one of them.
BlocksTile ==
  \A l \in Layers : \A n \in Added(l) :
    LET a == Read(crc_mod_args[jp(l, n)])
    IN /\ a.count > 0 /\ a.at >= 0
       /\ a.from = IF n = 0 THEN 0
                   ELSE LET b == Read(crc_mod_args[jp(l, n - 1)]) IN b.from + b.count
       /\ n = cb_tx[l].C - 1 => a.from + a.count = (tbs[l] + CRC_LENGTH) \div 8

\* The symbols of the code blocks cover the symbols of their layer, which
\* begin where the previous layer's end.
SymbolsTile ==
  \A l \in Layers : \A n \in Added(l) :
    LET a == crc_mod_args[jp(l, n)]
    IN /\ a.modSymNum > 0
       /\ a.package = IF n = 0 THEN l * MAX_SYMBOL_NUM
                      ELSE LET b == crc_mod_args[jp(l, n - 1)] IN b.package + b.modSymNum
       /\ n = cb_tx[l].C - 1 => a.package + a.modSymNum = (l + 1) * MAX_SYMBOL_NUM

=============================================================================
