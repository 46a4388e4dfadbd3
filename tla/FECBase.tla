------------------------------ MODULE FECBase ------------------------------
(***************************************************************************)
(* The arithmetic of forward error correction: lib/fec/gf_simple and         *)
(* lib/fec/gf_optimized (a Galois field and regions of its elements),        *)
(* lib/fec/fec_base.cpp (encoding and decoding a block) and the calls of it  *)
(* in fec/FEC.h.  Pure functions.                                           *)
(*                                                                         *)
(* A region is a sequence of field elements, a block a sequence of regions.  *)
(* Numbers of fragments start at 0 as in the code, so fragment n is          *)
(* blocks[n + 1].                                                           *)
(***************************************************************************)
EXTENDS Integers, Sequences, FiniteSets, SequencesExt, Bitwise

CONSTANTS
  GF_BITS,       \* 8 in the code
  min_poly,      \* 0b11101 in the code: x^8 + x^4 + x^3 + x^2 + 1
  Lane           \* elements multiplied at once: 16 with SSSE3, 8 with NEON

Size == 2 ^ GF_BITS
Half == Size \div 2     \* 128: the most primary, and secondary, fragments
Field == 0..Size - 1

gal_add == [a \in Field |-> [b \in Field |-> a ^^ b]]

\* gal_mul: shift and add, reducing a by the minimal polynomial.
gal_mul(a, b) ==
  LET shifted[bit \in 0..GF_BITS] ==
        IF bit = 0 THEN a
        ELSE LET x == shifted[bit - 1]
             IN IF x >= Half THEN gal_add[(2 * x) % Size][min_poly] ELSE 2 * x
      res[bits \in 0..GF_BITS] ==
        IF bits = 0 THEN 0
        ELSE IF (b \div 2 ^ (bits - 1)) % 2 = 0 THEN res[bits - 1]
        ELSE gal_add[res[bits - 1]][shifted[bits - 1]]
  IN res[GF_BITS]

\* The generated multiplication table, of the same polynomial.
mult == [a \in Field |-> [b \in Field |-> gal_mul(a, b)]]

\* The generated table of inverses; 0 has the entry 0.
gf256_inverse ==
  [a \in Field |-> IF a = 0 THEN 0 ELSE CHOOSE b \in Field : mult[a][b] = 1]

\* Every element but 0 has an inverse: the polynomial is irreducible.
ASSUME FECBaseAssumption ==
  /\ GF_BITS \in Nat \ {0} /\ GF_BITS % 2 = 0 /\ min_poly \in Field /\ Lane \in Nat \ {0}
  /\ \A a \in Field \ {0} : \E b \in Field : mult[a][b] = 1

-----------------------------------------------------------------------------
(* Regions.  A whole number of lanes goes through the shuffle of two tables  *)
(* of 16 products, by the low and the high half of the element; what is left *)
(* goes through the multiplication table.                                   *)

LowMask == 2 ^ (GF_BITS \div 2)
Nibble == 0..LowMask - 1
NibbleOf(x) == <<x % LowMask, x \div LowMask>>    \* low, high

\* The generated tables of products by a low and by a high half.
shuffle_low == [c \in Field |-> [n \in Nibble |-> mult[c][n]]]
shuffle_high == [c \in Field |-> [n \in Nibble |-> mult[c][LowMask * n]]]

\* The same for NEON, laid out so that the load of every second entry gives the
\* two halves of the table.
Second(n) == (n \div 2) + (LowMask \div 2) * (n % 2)
shuffle_low_arm == [c \in Field |-> [n \in Nibble |-> mult[c][Second(n)]]]
shuffle_high_arm == [c \in Field |-> [n \in Nibble |-> mult[c][LowMask * Second(n)]]]

\* vld2_u8, then vtbl2_u8
LookedUp(table, n) ==
  LET half == LowMask \div 2
      loaded == [h \in 0..1 |-> [i \in 0..half - 1 |-> table[2 * i + h]]]
  IN loaded[n \div half][n % half]

\* A multiple of an element, with SSSE3 and with NEON.
Shuffled(c, x) == gal_add[shuffle_low[c][NibbleOf(x)[1]]][shuffle_high[c][NibbleOf(x)[2]]]
ShuffledNeon(c, x) ==
  gal_add[LookedUp(shuffle_low_arm[c], NibbleOf(x)[1])]
         [LookedUp(shuffle_high_arm[c], NibbleOf(x)[2])]

\* All three ways to multiply agree, as test_gf checks at run time.
ASSUME ShuffleAssumption ==
  \A c, x \in Field : Shuffled(c, x) = mult[c][x] /\ ShuffledNeon(c, x) = mult[c][x]

Product(c, x, i, size) == IF i <= size - (size % Lane) THEN Shuffled(c, x) ELSE mult[c][x]

gf256_mul_optimized(src, c) ==
  [i \in 1..Len(src) |-> Product(c, src[i], i, Len(src))]

gf256_madd_optimized(dst, src, c) ==
  [i \in 1..Len(src) |-> gal_add[dst[i]][Product(c, src[i], i, Len(src))]]

\* The entry of the encoding matrix: secondary fragment row, primary fragment col.
Coefficient(row, col) == gf256_inverse[gal_add[Half + row][col]]

\* The sum of coefficients[j] * blocks[j]: a product, then products added to it.
Combined(blocks, coefficients) ==
  LET sum[j \in 1..Len(blocks)] ==
        IF j = 1 THEN gf256_mul_optimized(blocks[1], coefficients[1])
        ELSE gf256_madd_optimized(sum[j - 1], blocks[j], coefficients[j])
  IN sum[Len(blocks)]

-----------------------------------------------------------------------------
(* Encoding *)

\* Mutant: the column of the second data block is 128 again, not 129.
fec_encodeOffByOne(data_blocks, nrFecBlocks) ==
  [row \in 1..nrFecBlocks |->
     Combined(data_blocks, [j \in 1..Len(data_blocks) |->
                              Coefficient(row - 1, IF j = 1 THEN 0 ELSE j - 2)])]

\* Asserts that there are at most Half blocks of each kind.
fec_encode(data_blocks, nrFecBlocks) ==
  [row \in 1..nrFecBlocks |->
     Combined(data_blocks, [j \in 1..Len(data_blocks) |-> Coefficient(row - 1, j - 1)])]

-----------------------------------------------------------------------------
(* Inverting a matrix (Gauss-Jordan).  used holds the columns that were      *)
(* pivots, indx the row and column of each pivot; None when it is singular.  *)

None == <<>>

\* The diagonal if it can be the pivot, else the first entry, row by row, in
\* neither a row nor a column used before.
Pivot(m, used, col) ==
  LET free == {rc \in (DOMAIN m \ used) \X (DOMAIN m \ used) : m[rc[1]][rc[2]] # 0}
  IN IF <<col, col>> \in free THEN <<col, col>>
     ELSE IF free = {} THEN None
     ELSE CHOOSE rc \in free : \A o \in free :
            rc[1] < o[1] \/ (rc[1] = o[1] /\ rc[2] <= o[2])

Swapped(f, i, j) == [f EXCEPT ![i] = f[j], ![j] = f[i]]

\* The pivot entry becomes 1 before the row is divided by it.
PivotRow(row, icol) ==
  IF row[icol] = 1 THEN row
  ELSE LET c == gf256_inverse[row[icol]]
       IN [ix \in DOMAIN row |-> mult[c][IF ix = icol THEN 1 ELSE row[ix]]]

\* The pivot's column becomes 0 before the multiple of its row is taken off.
Eliminated(m, icol) ==
  LET pivot_row == PivotRow(m[icol], icol)
  IN [r \in DOMAIN m |->
        IF r = icol THEN pivot_row
        ELSE gf256_madd_optimized([m[r] EXCEPT ![icol] = 0], pivot_row, m[r][icol])]

invert_mat(src) ==
  LET k == Len(src)
      after[col \in 0..k] ==
        IF col = 0 THEN [m |-> src, used |-> {}, indx |-> <<>>]
        ELSE LET s == after[col - 1]
                 p == IF s.m = None THEN None ELSE Pivot(s.m, s.used, col)
             IN IF p = None THEN [s EXCEPT !.m = None]
                ELSE [m |-> Eliminated(Swapped(s.m, p[1], p[2]), p[2]),
                      used |-> s.used \cup {p[2]}, indx |-> Append(s.indx, p)]
      done == after[k]
      \* the columns swapped back, the last pivot first
      undone[n \in 0..k] ==
        IF n = 0 THEN done.m
        ELSE LET p == done.indx[k + 1 - n]
             IN [r \in 1..k |-> Swapped(undone[n - 1][r], p[1], p[2])]
  IN IF done.m = None THEN None ELSE undone[k]

-----------------------------------------------------------------------------
(* Decoding: nos are the numbers of the received secondary fragments, erased *)
(* those of the missing primary ones, both ascending.                       *)

\* What is left of the secondary fragments without the received primary ones.
reduce(data_blocks, fec_blocks, nos, erased) ==
  LET left[j \in 1..Len(nos), col \in 0..Len(data_blocks)] ==
        IF col = 0 THEN fec_blocks[j]
        ELSE IF col - 1 \in Range(erased) THEN left[j, col - 1]
        ELSE gf256_madd_optimized(left[j, col - 1], data_blocks[col],
                                  Coefficient(nos[j], col - 1))
      rows[j \in 0..Len(nos)] ==
        IF j = 0 THEN <<>> ELSE Append(rows[j - 1], left[j, Len(data_blocks)])
  IN rows[Len(nos)]

\* The missing primary fragments, or None (assert(0)) if the matrix is singular.
resolve(fec_blocks, nos, erased) ==
  LET matrix == [r \in 1..Len(nos) |-> [c \in 1..Len(nos) |-> Coefficient(nos[r], erased[c])]]
      inverse == invert_mat(matrix)
  IN IF inverse = None THEN None
     ELSE [r \in 1..Len(nos) |-> Combined(fec_blocks, inverse[r])]

\* fec_decode: the data blocks with the erased ones replaced.
fec_decode(data_blocks, fec_blocks, nos, erased) ==
  LET solved == resolve(reduce(data_blocks, fec_blocks, nos, erased), nos, erased)
  IN IF solved = None THEN None
     ELSE [i \in 1..Len(data_blocks) |->
             IF i - 1 \notin Range(erased) THEN data_blocks[i]
             ELSE solved[CHOOSE r \in 1..Len(erased) : erased[r] = i - 1]]

\* fecDecode: the buffers of a block, those at fragment_map received.
fecDecode(blockBuffer, nPrimary, fragment_map) ==
  LET erased == SelectSeq([i \in 1..nPrimary |-> i - 1], LAMBDA i : i \notin fragment_map)
      nos == SelectSeq([i \in 1..Len(blockBuffer) - nPrimary |-> i - 1],
                       LAMBDA i : nPrimary + i \in fragment_map)
  IN IF Len(erased) # Len(nos) THEN None
     ELSE fec_decode(SubSeq(blockBuffer, 1, nPrimary),
                     [j \in 1..Len(nos) |-> blockBuffer[nPrimary + nos[j] + 1]], nos, erased)
=============================================================================
