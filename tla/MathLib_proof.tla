---------------------------- MODULE MathLib_proof ----------------------------
(* Theorems about MathLib, for every width of the registers, every tile,   *)
(* all sizes of matrices, bands and vectors, and any number of calls.      *)
EXTENDS MathLib, NatFacts

-----------------------------------------------------------------------------
(* The inductive invariant.                                                *)

MaxRows == Largest(RowCounts)
MaxBand == Largest(BandWidths)

(* Scalars and histories.                                                  *)
Scalars ==
  /\ call \in {"none", "fault", "matrix_multiply", "generate_banded_matrix", "spmv_csr"}
  /\ calls \in 0 .. MaxCalls
  /\ n \in Nat /\ band \in Nat /\ i \in Nat /\ k \in Nat /\ j \in Nat /\ nnz \in Nat
  /\ dot \in [count : Nat, result : Int]
  /\ rows \in [num_rows : 0 .. MaxRows, band_width : Nat]

(* Arrays keep their places and hold numbers; indices stay indices.        *)
Arrays ==
  /\ a \in [Below(MatrixRoom) -> Int] /\ b \in [Below(MatrixRoom) -> Int]
  /\ out \in [Below(MatrixRoom) -> Int]
  /\ values \in [Below(SparseRoom) -> Int]
  /\ col_idx \in [Below(SparseRoom) -> Below(MaxRows)]
  /\ row_ptr \in [0 .. MaxRows -> 0 .. SparseRoom]
  /\ x \in [Below(VectorRoom) -> Int] /\ y \in [Below(VectorRoom) -> Int]

(* Where the loops of each function are.                                   *)
Idle == n = 0 /\ band = 0 /\ i = 0 /\ k = 0 /\ j = 0 /\ nnz = 0
Running ==
  /\ call = "none" => Idle
  /\ call = "matrix_multiply" =>
       /\ n \in MatrixSizes
       /\ i % TILE_SIZE = 0 /\ k % TILE_SIZE = 0 /\ j % TILE_SIZE = 0
       /\ IF i < n THEN k < n ELSE k = 0 /\ j = 0
       /\ band = 0 /\ nnz = 0
  /\ call = "generate_banded_matrix" =>
       /\ n \in RowCounts /\ band \in BandWidths /\ i <= n
       /\ nnz <= i * (2 * band + 1)
  /\ call = "spmv_csr" => n <= rows.num_rows /\ i <= n

(* The columns of row r, and a row stored from place s up to place e.      *)
First(r, width) == Largest({r - width})
Last(r, num, width) == Smaller(r + width, num - 1)
RowStored(r, num, width, s, e) ==
  /\ e = s + (Last(r, num, width) - First(r, width) + 1)
  /\ \A d \in Below(e - s) :
       /\ col_idx[s + d] = First(r, width) + d
       /\ values[s + d] = One \div (1 + Distance(r, First(r, width) + d))

(* Rows made so far end where the next begins; in the middle of            *)
(* generate_banded_matrix the last one ends at nnz.                        *)
Start(r) == IF r = i THEN nnz ELSE row_ptr[r]
SparseStored ==
  IF call = "generate_banded_matrix"
  THEN \A r \in Below(i) : RowStored(r, n, band, row_ptr[r], Start(r + 1)) /\ Start(r + 1) <= nnz
  ELSE \A r \in Below(rows.num_rows) :
         RowStored(r, rows.num_rows, rows.band_width, row_ptr[r], row_ptr[r + 1])

IInv == Scalars /\ Arrays /\ Running /\ SparseStored /\ ProductSoFar /\ BandedProduct

-----------------------------------------------------------------------------
(* Sizes.                                                                  *)

LEMMA LargestFact ==
  ASSUME NEW S \in SUBSET Nat, IsFiniteSet(S)
  PROVE  Largest(S) \in Nat /\ Largest(S) \in S \cup {0} /\ \A s \in S : s <= Largest(S)
<1>1. PICK B \in Nat : S \subseteq 0 .. B
  BY FiniteBound
<1> DEFINE T == S \cup {0}
<1>2. T \in SUBSET (0 .. B) /\ T # {}
  BY <1>1
<1>3. Max(T) \in T /\ \A s \in T : s <= Max(T)
  <2> HIDE DEF T
  <2> QED BY <1>2, MaxFact
<1>4. Max(T) \in Nat
  <2>1. T \subseteq Nat
    OBVIOUS
  <2> HIDE DEF T
  <2> QED BY <2>1, <1>3
<1> QED
  BY <1>3, <1>4 DEF Largest

(* What generate_banded_matrix cuts a column range with.                   *)
LEMMA CutFact ==
  ASSUME NEW p \in Int
  PROVE  Largest({p}) = IF p > 0 THEN p ELSE 0
<1>1. \A s \in {p} \cup {0} : (\A t \in {p} \cup {0} : s >= t) <=> s = IF p > 0 THEN p ELSE 0
  OBVIOUS
<1>2. (IF p > 0 THEN p ELSE 0) \in {p} \cup {0}
  OBVIOUS
<1> QED
  BY <1>1, <1>2 DEF Largest, Max

(* A multiple, written as one.                                             *)
LEMMA Multiple ==
  ASSUME NEW m \in Nat \ {0}, NEW c \in Int, c % m = 0
  PROVE  \E q \in Int : c = m * q /\ (c >= 0 => q \in Nat)
<1> DEFINE q == c \div m
<1>1. q \in Int /\ c = m * q + (c % m)
  BY DivMod
<1>2. c >= 0 => q \in Nat
  <2>1. c >= 0 => c \in Nat
    OBVIOUS
  <2> QED BY <2>1, DivNat
<1> HIDE DEF q
<1>3. m * q \in Int
  BY <1>1
<1>4. c = m * q
  BY <1>1, <1>3
<1> QED
  BY <1>1, <1>2, <1>4

LEMMA Sizes ==
  /\ Lanes \in Nat \ {0} /\ TILE_SIZE \in Nat \ {0} /\ One \in Nat \ {0}
  /\ TILE_SIZE % Lanes = 0 /\ MaxCalls \in Nat
  /\ Largest(MatrixSizes) \in Nat /\ \A m \in MatrixSizes : m \in Nat /\ m <= Largest(MatrixSizes)
  /\ MaxRows \in Nat /\ MaxRows \in RowCounts \cup {0}
  /\ \A m \in RowCounts : m \in Nat /\ m <= MaxRows
  /\ MaxBand \in Nat /\ \A m \in BandWidths : m \in Nat /\ m <= MaxBand
  /\ Largest(Counts \cup RowCounts) \in Nat
  /\ \A m \in Counts \cup RowCounts : m \in Nat /\ m <= Largest(Counts \cup RowCounts)
<1> DEFINE All == MatrixSizes \cup RowCounts \cup BandWidths \cup Counts
<1>1. All \in SUBSET Nat /\ IsFiniteSet(All)
  BY MathAssumption
<1>2. \A S \in SUBSET All : /\ Largest(S) \in Nat /\ Largest(S) \in S \cup {0}
                            /\ \A m \in S : m \in Nat /\ m <= Largest(S)
  <2> SUFFICES ASSUME NEW S \in SUBSET All
               PROVE  /\ Largest(S) \in Nat /\ Largest(S) \in S \cup {0}
                      /\ \A m \in S : m \in Nat /\ m <= Largest(S)
    OBVIOUS
  <2>1. IsFiniteSet(S) /\ S \in SUBSET Nat
    <3> HIDE DEF All
    <3> QED BY <1>1, FS_Subset
  <2> QED BY <2>1, LargestFact
<1>3. MatrixSizes \in SUBSET All /\ RowCounts \in SUBSET All /\ BandWidths \in SUBSET All
      /\ Counts \cup RowCounts \in SUBSET All
  OBVIOUS
<1> HIDE DEF All
<1> QED
  BY <1>2, <1>3, MathAssumption DEF MaxRows, MaxBand

(* RoundUp goes to whole registers and keeps the order.                    *)
LEMMA RoundUpFact ==
  ASSUME NEW m \in Nat
  PROVE  /\ RoundUp(m) \in Nat /\ m <= RoundUp(m)
         /\ \E q \in Nat : RoundUp(m) = q * Lanes
         /\ \A l \in Nat : m <= l => RoundUp(m) <= RoundUp(l)
<1>1. Lanes \in Nat \ {0}
  BY Sizes
<1> DEFINE q(c) == (c + Lanes - 1) \div Lanes
<1>2. \A c \in Nat : c + Lanes - 1 \in Nat
  BY <1>1
<1>3. \A c \in Nat : /\ q(c) \in Nat /\ c + Lanes - 1 < Lanes * q(c) + Lanes
                      /\ Lanes * q(c) = q(c) * Lanes
  <2> SUFFICES ASSUME NEW c \in Nat
               PROVE  /\ q(c) \in Nat /\ c + Lanes - 1 < Lanes * q(c) + Lanes
                      /\ Lanes * q(c) = q(c) * Lanes
    OBVIOUS
  <2>1. q(c) \in Nat /\ c + Lanes - 1 < Lanes * q(c) + Lanes
    BY <1>1, <1>2, DivNat
  <2> HIDE DEF q
  <2> QED BY <2>1, <1>1
<1>4. ASSUME NEW l \in Nat, m <= l PROVE q(m) * Lanes <= q(l) * Lanes
  <2>1. q(m) <= q(l)
    <3>1. m + Lanes - 1 \in Nat /\ l + Lanes - 1 \in Nat /\ m + Lanes - 1 <= l + Lanes - 1
      BY <1>1, <1>2, <1>4
    <3> QED BY <1>1, <3>1, DivMonotone
  <2>2. q(m) \in Nat /\ q(l) \in Nat
    BY <1>3
  <2> HIDE DEF q
  <2> QED BY <1>1, <2>1, <2>2
<1>5. \A c \in Nat : RoundUp(c) = q(c) * Lanes
  BY DEF RoundUp
<1> HIDE DEF q
<1>6. q(m) * Lanes \in Nat /\ m <= q(m) * Lanes
  BY <1>1, <1>3
<1> QED
  BY <1>3, <1>4, <1>5, <1>6

(* A place in a matrix of w columns is within one of r by r.               *)
LEMMA PlaceFact ==
  ASSUME NEW r \in Nat, NEW w \in 0 .. r, NEW p \in 0 .. (r - 1), NEW q \in 0 .. (w - 1)
  PROVE  /\ p * w + q \in 0 .. (r * r - 1)
         /\ (p * w + q) \div w = p /\ (p * w + q) % w = q
<1>1. w \in Nat \ {0}
  OBVIOUS
<1>2. (p * w + q) \div w = p /\ (p * w + q) % w = q
  BY <1>1, DivModOf
<1>3. p * w \in Nat /\ (p + 1) * w <= (p + 1) * r /\ (p + 1) * r <= r * r
  BY <1>1
<1>4. (p + 1) * w = p * w + w
  BY <1>1
<1>5. p * w + q < (p + 1) * w
  BY <1>3, <1>4
<1>6. (p + 1) * r \in Nat /\ r * r \in Nat /\ (p + 1) * w \in Nat
  BY <1>1
<1> QED
  BY <1>2, <1>3, <1>5, <1>6

(* Which tile a row or column is in.                                       *)
LEMMA TileFact ==
  ASSUME NEW t \in Nat, t % TILE_SIZE = 0, NEW m \in Nat
  PROVE  /\ m - (m % TILE_SIZE) < t <=> m < t
         /\ m - (m % TILE_SIZE) > t <=> m >= t + TILE_SIZE
<1> DEFINE z == TILE_SIZE
           p == t \div z
           q == m \div z
<1>1. z \in Nat \ {0}
  BY Sizes
<1>2. p \in Nat /\ t = z * p
  BY <1>1, DivMod, DivNat
<1>3. q \in Nat /\ m = z * q + (m % z)
  BY <1>1, DivMod, DivNat
<1>4. m < p * z <=> q < p
  BY <1>1, <1>2, DivBelow
<1>5. m < (p + 1) * z <=> q < p + 1
  BY <1>1, <1>2, DivBelow
<1> HIDE DEF z, p, q
<1>6. (q * z < p * z <=> q < p) /\ (p * z < q * z <=> p < q)
  <2>1. \A c, d \in Nat : c < d => c * z < d * z
    BY <1>1
  <2> QED BY <2>1, <1>1, <1>2, <1>3
<1>7. q * z = z * q /\ p * z = z * p /\ (p + 1) * z = z * p + z /\ z * p \in Nat /\ z * q \in Nat
  BY <1>1, <1>2, <1>3
<1>8. m - (m % z) = q * z
  <2>1. m % z \in Int
    BY <1>1, DivMod
  <2> QED BY <1>3, <1>7, <2>1
<1>9. m - (m % z) < t <=> m < t
  BY <1>2, <1>4, <1>6, <1>7, <1>8
<1>10. m - (m % z) > t <=> m >= t + z
  BY <1>1, <1>2, <1>3, <1>5, <1>6, <1>7, <1>8
<1> QED
  BY <1>9, <1>10 DEF z

-----------------------------------------------------------------------------
(* matrix_multiply.                                                        *)

(* Registers that start in a tile cover its columns and no others: the     *)
(* rows are padded to whole registers, and so are the tiles.               *)
LEMMA ColumnsAre ==
  ASSUME n \in Nat, j \in Nat, j % TILE_SIZE = 0
  PROVE  Columns = j .. (Smaller(j + TILE_SIZE, n_padded) - 1)
<1> DEFINE e == Smaller(j + TILE_SIZE, n_padded)
           starts == {s \in j .. (e - 1) : (s - j) % Lanes = 0}
<1>1. Lanes \in Nat \ {0} /\ TILE_SIZE \in Nat \ {0} /\ TILE_SIZE % Lanes = 0
  BY Sizes
<1>2. PICK w \in Int : TILE_SIZE = Lanes * w
  <2>1. TILE_SIZE \in Int
    BY <1>1
  <2> QED BY <2>1, <1>1, Multiple
<1>3. PICK p \in Int : j = TILE_SIZE * p
  <2>1. j \in Int
    OBVIOUS
  <2> QED BY <2>1, <1>1, Multiple
<1>4. PICK q \in Nat : n_padded = q * Lanes
  BY RoundUpFact DEF n_padded
<1>5. \E v \in Int : e - j = Lanes * v
  <2>1. CASE j + TILE_SIZE < n_padded
    <3>1. e - j = Lanes * w
      BY <2>1, <1>1, <1>2 DEF Smaller
    <3> QED BY <3>1
  <2>2. CASE ~(j + TILE_SIZE < n_padded)
    <3>1. e - j = q * Lanes - (Lanes * w) * p
      BY <2>2, <1>2, <1>3, <1>4 DEF Smaller
    <3>2. q * Lanes - (Lanes * w) * p = Lanes * (q - w * p) /\ q - w * p \in Int
      BY <1>1
    <3> QED BY <3>1, <3>2
  <2> QED BY <2>1, <2>2
<1>6. PICK v \in Int : e - j = Lanes * v
  BY <1>5
<1>7. e \in Int
  BY <1>1, <1>4 DEF Smaller
<1>8. Columns = UNION {s .. (s + Lanes - 1) : s \in starts}
  BY DEF Columns
<1> HIDE DEF e
<1>9. ASSUME NEW c \in Columns PROVE c \in j .. (e - 1)
  <2>1. PICK s \in starts : c \in s .. (s + Lanes - 1)
    BY <1>8, <1>9
  <2>2. s \in Int /\ j <= s /\ s < e /\ (s - j) % Lanes = 0
    BY <1>7
  <2>3. PICK u \in Int : s - j = Lanes * u
    <3>1. s - j \in Int
      BY <2>2
    <3> QED BY <3>1, <2>2, <1>1, Multiple
  <2>4. Lanes * u < Lanes * v
    BY <2>2, <2>3, <1>6, <1>7
  <2>5. u < v
    BY <2>4, <1>1
  <2>6. Lanes * (u + 1) <= Lanes * v /\ Lanes * (u + 1) = Lanes * u + Lanes
    BY <2>5, <1>1
  <2>7. Lanes * u \in Int /\ Lanes * v \in Int
    BY <1>1
  <2> QED BY <2>1, <2>2, <2>3, <2>6, <2>7, <1>1, <1>6, <1>7
<1>10. ASSUME NEW c \in j .. (e - 1) PROVE c \in Columns
  <2> DEFINE r == (c - j) % Lanes
             u == (c - j) \div Lanes
             s == c - r
  <2>1. r \in 0 .. (Lanes - 1) /\ u \in Nat /\ c - j = Lanes * u + r
    <3>1. c - j \in Nat /\ c - j \in Int
      BY <1>7
    <3>2. u \in Nat
      BY <3>1, <1>1, DivNat
    <3>3. r \in 0 .. (Lanes - 1) /\ c - j = Lanes * u + r
      BY <3>1, <1>1, DivMod
    <3> QED BY <3>2, <3>3
  <2> HIDE DEF r, u
  <2>2. s - j = u * Lanes + 0 /\ u \in Int /\ 0 \in 0 .. (Lanes - 1) /\ u * Lanes \in Nat
    <3>1. u * Lanes \in Nat /\ Lanes * u = u * Lanes
      BY <2>1, <1>1
    <3> QED BY <3>1, <2>1, <1>1, <1>7
  <2>3. (u * Lanes + 0) % Lanes = 0
    BY <2>2, <1>1, DivModOf
  <2>4. s \in j .. (e - 1) /\ c \in s .. (s + Lanes - 1)
    BY <2>1, <2>2, <1>1, <1>7
  <2>5. s \in starts
    <3>1. (s - j) % Lanes = 0
      BY <2>2, <2>3
    <3> HIDE DEF s
    <3> QED BY <2>4, <3>1
  <2> HIDE DEF s, starts
  <2> QED BY <2>4, <2>5, <1>8
<1> QED
  BY <1>9, <1>10 DEF e

(* Terms, as a function of where the loops are.                            *)
TermsAt(I, K, J, N, ii, jj) ==
  IF ii < I THEN N
  ELSE IF ii >= I + TILE_SIZE THEN 0
  ELSE IF jj < J THEN Smaller(K + TILE_SIZE, N) ELSE K

LEMMA TermsIs ==
  ASSUME NEW I \in Nat, NEW K \in Nat, NEW J \in Nat, NEW N \in Nat,
         I % TILE_SIZE = 0, J % TILE_SIZE = 0, NEW ii \in Nat, NEW jj \in Nat
  PROVE  LET tile(m) == m - (m % TILE_SIZE)
         IN  (CASE tile(ii) < I -> N
                [] tile(ii) > I -> 0
                [] OTHER -> IF tile(jj) < J THEN Smaller(K + TILE_SIZE, N) ELSE K)
             = TermsAt(I, K, J, N, ii, jj)
<1> DEFINE tile(m) == m - (m % TILE_SIZE)
<1>1. (tile(ii) < I <=> ii < I) /\ (tile(ii) > I <=> ii >= I + TILE_SIZE)
  BY TileFact
<1>2. tile(jj) < J <=> jj < J
  BY TileFact
<1>3. TILE_SIZE \in Nat \ {0}
  BY Sizes
<1>4. ~(ii < I /\ ii >= I + TILE_SIZE)
  BY <1>3
<1> HIDE DEF tile
<1>5. (CASE tile(ii) < I -> N
         [] tile(ii) > I -> 0
         [] OTHER -> IF tile(jj) < J THEN Smaller(K + TILE_SIZE, N) ELSE K)
      = TermsAt(I, K, J, N, ii, jj)
  BY <1>1, <1>2, <1>4 DEF TermsAt
<1> QED
  BY <1>5 DEF tile

(* NextTile, likewise.                                                     *)
TurnsTo(I, K, J, N, P, I1, K1, J1) ==
  \/ J + TILE_SIZE < P /\ J1 = J + TILE_SIZE /\ K1 = K /\ I1 = I
  \/ /\ ~(J + TILE_SIZE < P) /\ J1 = 0
     /\ \/ K + TILE_SIZE < N /\ K1 = K + TILE_SIZE /\ I1 = I
        \/ ~(K + TILE_SIZE < N) /\ K1 = 0 /\ I1 = I + TILE_SIZE

(* A tile adds the next terms of its own elements and of no others.        *)
AddsTerms(I, K, J, N, P, I1, K1, J1) ==
  \A ii \in 0 .. (N - 1), jj \in 0 .. (P - 1) :
    IF /\ ii \in I .. (Smaller(I + TILE_SIZE, N) - 1)
       /\ jj \in J .. (Smaller(J + TILE_SIZE, P) - 1)
    THEN /\ TermsAt(I, K, J, N, ii, jj) = K
         /\ TermsAt(I1, K1, J1, N, ii, jj) = Smaller(K + TILE_SIZE, N)
    ELSE TermsAt(I1, K1, J1, N, ii, jj) = TermsAt(I, K, J, N, ii, jj)

LEMMA TermsStep ==
  ASSUME NEW N \in Nat, NEW P \in Nat, N <= P,
         NEW I \in Nat, NEW K \in Nat, NEW J \in Nat, I < N, K < N,
         I % TILE_SIZE = 0, K % TILE_SIZE = 0, J % TILE_SIZE = 0,
         NEW I1, NEW K1, NEW J1, TurnsTo(I, K, J, N, P, I1, K1, J1)
  PROVE  /\ I1 \in Nat /\ K1 \in Nat /\ J1 \in Nat
         /\ I1 % TILE_SIZE = 0 /\ K1 % TILE_SIZE = 0 /\ J1 % TILE_SIZE = 0
         /\ IF I1 < N THEN K1 < N ELSE K1 = 0 /\ J1 = 0
         /\ AddsTerms(I, K, J, N, P, I1, K1, J1)
<1> DEFINE z == TILE_SIZE
<1>1. z \in Nat \ {0}
  BY Sizes
<1>2. \A m \in Nat : m % z = 0 => (m + z) % z = 0
  <2> SUFFICES ASSUME NEW m \in Nat, m % z = 0 PROVE (m + z) % z = 0
    OBVIOUS
  <2>1. PICK p \in Int : m = z * p
    <3>1. m \in Int
      OBVIOUS
    <3> HIDE DEF z
    <3> QED BY <3>1, <1>1, Multiple
  <2>2. m + z = (p + 1) * z + 0 /\ p + 1 \in Int /\ 0 \in 0 .. (z - 1)
    BY <2>1, <1>1
  <2>3. ((p + 1) * z + 0) % z = 0
    BY <2>2, <1>1, DivModOf
  <2> HIDE DEF z
  <2> QED BY <2>2, <2>3
<1>3. 0 % z = 0
  BY <1>1
<1> HIDE DEF z
<1>4. /\ I1 \in Nat /\ K1 \in Nat /\ J1 \in Nat
      /\ I1 % z = 0 /\ K1 % z = 0 /\ J1 % z = 0
  BY <1>1, <1>2, <1>3 DEF z, TurnsTo
<1>5. IF I1 < N THEN K1 < N ELSE K1 = 0 /\ J1 = 0
  BY <1>1 DEF z, TurnsTo
<1>6. ASSUME NEW ii \in 0 .. (N - 1), NEW jj \in 0 .. (P - 1),
             ii \in I .. (Smaller(I + z, N) - 1), jj \in J .. (Smaller(J + z, P) - 1)
      PROVE  /\ TermsAt(I, K, J, N, ii, jj) = K
             /\ TermsAt(I1, K1, J1, N, ii, jj) = Smaller(K + z, N)
  BY <1>1, <1>6 DEF z, TermsAt, Smaller, TurnsTo
<1>7. ASSUME NEW ii \in 0 .. (N - 1), NEW jj \in 0 .. (P - 1),
             ~(ii \in I .. (Smaller(I + z, N) - 1) /\ jj \in J .. (Smaller(J + z, P) - 1))
      PROVE  TermsAt(I1, K1, J1, N, ii, jj) = TermsAt(I, K, J, N, ii, jj)
  BY <1>1, <1>7 DEF z, TermsAt, Smaller, TurnsTo
<1> QED
  BY <1>4, <1>5, <1>6, <1>7 DEF z, AddsTerms

(* The products that out[ii][jj] is the sum of.                            *)
Factors(ii, jj) == [kk \in Below(n) |-> a[ii * n + kk] * b[kk * n_padded + jj]]

LEMMA PaddedFact ==
  ASSUME n \in MatrixSizes
  PROVE  /\ n \in Nat /\ n_padded \in Nat /\ n <= n_padded
         /\ RoundUp(Largest(MatrixSizes)) \in Nat
         /\ n_padded <= RoundUp(Largest(MatrixSizes))
         /\ MatrixRoom = RoundUp(Largest(MatrixSizes)) * RoundUp(Largest(MatrixSizes))
<1>1. n \in Nat /\ n <= Largest(MatrixSizes) /\ Largest(MatrixSizes) \in Nat
  BY Sizes
<1> QED
  BY <1>1, RoundUpFact DEF n_padded, MatrixRoom

(* A matrix of one row per row of the padded one.                          *)
LEMMA OutPlace ==
  ASSUME n \in MatrixSizes, NEW ii \in Below(n_padded), NEW jj \in Below(n_padded)
  PROVE  /\ ii * n_padded + jj \in Below(MatrixRoom)
         /\ (ii * n_padded + jj) \div n_padded = ii /\ (ii * n_padded + jj) % n_padded = jj
<1> DEFINE r == RoundUp(Largest(MatrixSizes))
           w == n_padded
<1>1. r \in Nat /\ w \in Nat /\ w <= r /\ MatrixRoom = r * r
  BY PaddedFact
<1>2. ii \in 0 .. (w - 1) /\ jj \in 0 .. (w - 1)
  BY DEF Below
<1> HIDE DEF r, w
<1>3. w \in 0 .. r /\ ii \in 0 .. (r - 1)
  BY <1>1, <1>2
<1>4. ii * w + jj \in 0 .. (r * r - 1) /\ (ii * w + jj) \div w = ii /\ (ii * w + jj) % w = jj
  BY <1>1, <1>2, <1>3, PlaceFact
<1> QED
  BY <1>1, <1>4 DEF w, Below

LEMMA FactorsFact ==
  ASSUME Arrays, n \in MatrixSizes, NEW ii \in Below(n), NEW jj \in Below(n_padded),
         NEW kk \in Below(n)
  PROVE  /\ Factors(ii, jj)[kk] = a[ii * n + kk] * b[kk * n_padded + jj]
         /\ Factors(ii, jj)[kk] \in Int
<1> DEFINE r == RoundUp(Largest(MatrixSizes))
           w == n_padded
<1>1. r \in Nat /\ w \in Nat /\ w <= r /\ MatrixRoom = r * r /\ n \in Nat /\ n <= w
  BY PaddedFact
<1>2. ii \in 0 .. (n - 1) /\ jj \in 0 .. (w - 1) /\ kk \in 0 .. (n - 1)
  BY DEF Below
<1>3. Factors(ii, jj)[kk] = a[ii * n + kk] * b[kk * w + jj]
  BY DEF Factors
<1> HIDE DEF r, w
<1>4. /\ n \in 0 .. r /\ w \in 0 .. r
      /\ ii \in 0 .. (r - 1) /\ kk \in 0 .. (r - 1)
  BY <1>1, <1>2
<1>5. ii * n + kk \in 0 .. (r * r - 1)
  BY <1>1, <1>2, <1>4, PlaceFact
<1>6. kk * w + jj \in 0 .. (r * r - 1)
  BY <1>1, <1>2, <1>4, PlaceFact
<1>7. a[ii * n + kk] \in Int /\ b[kk * w + jj] \in Int
  BY <1>1, <1>5, <1>6 DEF Arrays, Below
<1>8. a[ii * n + kk] * b[kk * w + jj] \in Int
  BY <1>7
<1> QED
  BY <1>3, <1>8 DEF w

(* A sum over some kk, as the code takes it for a tile and the invariant   *)
(* for all tiles so far.                                                   *)
LEMMA PartialSum ==
  ASSUME Arrays, n \in MatrixSizes, NEW ii \in Below(n), NEW jj \in Below(n_padded),
         NEW S \in SUBSET Below(n)
  PROVE  /\ SumFunction([kk \in S |-> a[ii * n + kk] * b[kk * n_padded + jj]])
               = SumFunctionOnSet(Factors(ii, jj), S)
         /\ SumFunctionOnSet(Factors(ii, jj), S) \in Int
<1> DEFINE f == [kk \in S |-> a[ii * n + kk] * b[kk * n_padded + jj]]
           g == Factors(ii, jj)
<1>1. IsFiniteSet(S)
  <2>1. n \in Nat
    BY PaddedFact
  <2>2. IsFiniteSet(Below(n))
    BY <2>1, FS_Interval DEF Below
  <2> QED BY <2>2, FS_Subset
<1>2. DOMAIN f = S /\ \A kk \in S : f[kk] = g[kk] /\ g[kk] \in Int
  <2>1. \A kk \in S : f[kk] = a[ii * n + kk] * b[kk * n_padded + jj]
    OBVIOUS
  <2>2. \A kk \in S : g[kk] = a[ii * n + kk] * b[kk * n_padded + jj] /\ g[kk] \in Int
    BY FactorsFact
  <2> HIDE DEF g
  <2> QED BY <2>1, <2>2
<1> HIDE DEF f, g
<1>3. SumFunction(f) = SumFunctionOnSet(g, S)
  BY <1>1, <1>2, SumPart
<1>4. SumFunctionOnSet(g, S) \in Int
  BY <1>1, <1>2, SumType
<1> QED
  BY <1>3, <1>4 DEF f, g

-----------------------------------------------------------------------------
(* Each action keeps the invariant.                                        *)

LEMMA SparseKept ==
  ASSUME SparseStored, UNCHANGED sparse,
         call # "generate_banded_matrix", call' # "generate_banded_matrix"
  PROVE  SparseStored'
BY DEF SparseStored, RowStored, sparse

LEMMA InitVectorKeeps ==
  ASSUME IInv, NEW count \in Counts, init_vector_deterministic(count)
  PROVE  IInv'
<1> USE DEF IInv, init_vector_deterministic, Call, loops, dense, sparse
<1>1. Scalars' /\ Running'
  BY Sizes DEF Scalars, Running, Idle
<1>2. Arrays'
  <2>1. \A e \in Nat : Parabola(e) \in Int
    BY DEF Parabola
  <2>2. \A e \in Below(VectorRoom) : e \in Nat /\ x[e] \in Int
    BY DEF Arrays, Below
  <2>3. x' \in [Below(VectorRoom) -> Int]
    <3>1. DOMAIN x = Below(VectorRoom)
      BY DEF Arrays
    <3> QED BY <3>1, <2>1, <2>2
  <2> QED BY <2>3 DEF Arrays
<1>3. SparseStored'
  BY SparseKept
<1> QED
  BY <1>1, <1>2, <1>3 DEF ProductSoFar, BandedProduct

(* The vectors reach as far as a register that starts in the arguments.    *)
LEMMA VectorReach ==
  ASSUME NEW count \in Counts \cup RowCounts
  PROVE  /\ count \in Nat /\ RoundUp(count) \in Nat /\ count <= RoundUp(count)
         /\ VectorRoom \in Nat /\ RoundUp(count) <= VectorRoom
<1> DEFINE most == Largest(Counts \cup RowCounts)
<1>1. count \in Nat /\ most \in Nat /\ count <= most
  BY Sizes
<1>2. VectorRoom = RoundUp(most)
  BY DEF VectorRoom
<1> QED
  BY <1>1, <1>2, RoundUpFact

LEMMA DotKeeps ==
  ASSUME IInv, NEW count \in Counts, dot_product(count)
  PROVE  IInv'
<1> USE DEF IInv, dot_product, Call, loops, dense, sparse, vectors
<1>1. dot' \in [count : Nat, result : Int]
  <2> DEFINE f == [e \in Below(RoundUp(count)) |-> x[e] * y[e]]
  <2>1. count \in Nat /\ RoundUp(count) \in Nat /\ VectorRoom \in Nat /\ RoundUp(count) <= VectorRoom
    BY VectorReach
  <2>2. IsFiniteSet(DOMAIN f) /\ \A e \in DOMAIN f : f[e] \in Int
    <3>1. IsFiniteSet(Below(RoundUp(count)))
      BY <2>1, FS_Interval DEF Below
    <3>2. \A e \in Below(RoundUp(count)) : x[e] \in Int /\ y[e] \in Int
      BY <2>1 DEF Arrays, Below
    <3> QED BY <3>1, <3>2
  <2>3. SumFunction(f) \in Int
    <3> HIDE DEF f
    <3> QED BY <2>2, SumType DEF SumFunction
  <2> QED BY <2>1, <2>3
<1>2. Scalars' /\ Running'
  BY <1>1, Sizes DEF Scalars, Running, Idle
<1>3. Arrays'
  BY DEF Arrays
<1>4. SparseStored'
  BY SparseKept
<1> QED
  BY <1>2, <1>3, <1>4 DEF ProductSoFar, BandedProduct

LEMMA InitMatrixKeeps ==
  ASSUME IInv, NEW size \in MatrixSizes, init_matrix_deterministic(size)
  PROVE  IInv'
<1> USE DEF IInv, init_matrix_deterministic, Call, loops, sparse, vectors
<1>1. Scalars' /\ Running'
  BY Sizes DEF Scalars, Running, Idle
<1>2. ASSUME NEW m \in [Below(MatrixRoom) -> Int], NEW h \in Nat, NEW w \in Nat
      PROVE  Filled(m, h, w) \in [Below(MatrixRoom) -> Int]
  <2>1. ASSUME NEW e \in Below(MatrixRoom)
        PROVE  (IF e < h * w THEN Element(e, w) ELSE m[e]) \in Int
    <3>1. e \in Nat /\ h * w \in Nat
      BY DEF Below
    <3>2. CASE e < h * w
      <4>1. w \in Nat \ {0}
        BY <3>1, <3>2
      <4>2. e \div w \in Int /\ e % w \in Int
        BY <3>1, <4>1, DivMod
      <4>3. (e \div w) * 7 + (e % w) * 13 \in Int
        BY <4>2
      <4>4. Element(e, w) \in Int
        BY <4>3 DEF Element
      <4> QED BY <3>2, <4>4
    <3>3. CASE ~(e < h * w)
      BY <3>3
    <3> QED BY <3>2, <3>3
  <2>2. DOMAIN m = Below(MatrixRoom)
    OBVIOUS
  <2> QED BY <2>1, <2>2 DEF Filled
<1>3. Arrays'
  <2>1. size \in Nat /\ RoundUp(size) \in Nat
    BY Sizes, RoundUpFact
  <2>2. a \in [Below(MatrixRoom) -> Int] /\ b \in [Below(MatrixRoom) -> Int]
    BY DEF Arrays
  <2>3. a' \in [Below(MatrixRoom) -> Int]
    BY <1>2, <2>1, <2>2
  <2>4. b' \in [Below(MatrixRoom) -> Int]
    BY <1>2, <2>1, <2>2
  <2> QED BY <2>3, <2>4 DEF Arrays
<1>4. SparseStored'
  BY SparseKept
<1> QED
  BY <1>1, <1>3, <1>4 DEF ProductSoFar, BandedProduct

(* out starts at zero over all of the padded rows, and so do the terms.    *)
LEMMA MultiplyKeeps ==
  ASSUME IInv, NEW size \in MatrixSizes, matrix_multiply(size)
  PROVE  IInv'
<1> USE DEF IInv, matrix_multiply, Call, loops, sparse, vectors
<1>1. n' = size /\ i' = 0 /\ k' = 0 /\ j' = 0 /\ nnz' = 0 /\ band' = 0
  BY DEF Running, Idle
<1>2. size \in Nat /\ TILE_SIZE \in Nat \ {0}
  BY Sizes
<1>3. 0 % TILE_SIZE = 0
  BY <1>2
<1>4. Scalars' /\ Running'
  BY <1>1, <1>2, <1>3, Sizes DEF Scalars, Running, Idle
<1>5. Arrays'
  BY DEF Arrays
<1>6. SparseStored'
  BY SparseKept
<1>7. ProductSoFar'
  <2> SUFFICES ASSUME NEW ii \in Below(n_padded)', NEW jj \in Below(n_padded)'
               PROVE  (out[ii * n_padded + jj] =
                         IF ii < n
                         THEN SumFunction([kk \in Below(Terms(ii, jj)) |->
                                             a[ii * n + kk] * b[kk * n_padded + jj]])
                         ELSE 0)'
    BY DEF ProductSoFar
  <2>1. ii \in Nat /\ jj \in Nat
    BY DEF Below
  <2>2. Terms(ii, jj)' = TermsAt(0, 0, 0, size, ii, jj)
    <3>1. 0 \in Nat
      OBVIOUS
    <3> QED BY <3>1, <1>1, <1>2, <1>3, <2>1, TermsIs DEF Terms
  <2>3. TermsAt(0, 0, 0, size, ii, jj) = 0
    BY <1>2, <2>1 DEF TermsAt
  <2>4. Below(0) = {}
    BY DEF Below
  <2>5. \A f : DOMAIN f = {} => SumFunction(f) = 0
    BY SumUnfold, FS_EmptySet DEF SumFunction
  <2>6. (ii * n_padded + jj)' \in Below(MatrixRoom)
        /\ (ii * n_padded + jj)' < n_padded' * n_padded'
    <3> DEFINE w == RoundUp(size)
               r == RoundUp(Largest(MatrixSizes))
    <3>1. n_padded' = w
      BY DEF n_padded
    <3>2. w \in Nat /\ r \in Nat /\ w <= r /\ MatrixRoom = r * r
      BY <1>2, Sizes, RoundUpFact DEF MatrixRoom
    <3>3. ii \in 0 .. (w - 1) /\ jj \in 0 .. (w - 1)
      BY <3>1 DEF Below
    <3> HIDE DEF w, r
    <3>4. w \in 0 .. r /\ w \in 0 .. w /\ ii \in 0 .. (r - 1)
      BY <3>2, <3>3
    <3>5. ii * w + jj \in 0 .. (r * r - 1)
      BY <3>2, <3>3, <3>4, PlaceFact
    <3>6. ii * w + jj \in 0 .. (w * w - 1)
      BY <3>2, <3>3, <3>4, PlaceFact
    <3>7. ii * w + jj < w * w
      BY <3>2, <3>6
    <3> QED BY <3>1, <3>2, <3>5, <3>7 DEF Below
  <2>7. out'[(ii * n_padded + jj)'] = 0
    BY <2>6 DEF Arrays, n_padded
  <2>8. DOMAIN [kk \in Below(Terms(ii, jj)') |->
                  a'[ii * n' + kk] * b'[kk * n_padded' + jj]] = {}
    BY <2>2, <2>3, <2>4
  <2> QED BY <2>5, <2>7, <2>8
<1> QED
  BY <1>4, <1>5, <1>6, <1>7 DEF BandedProduct

(* A tile adds to its own elements the products of kk from k on.           *)
LEMMA TileKeeps ==
  ASSUME IInv, Tile
  PROVE  IInv'
<1>0. /\ Scalars /\ Arrays /\ Running /\ SparseStored /\ ProductSoFar
      /\ call = "matrix_multiply" /\ i < n /\ NextTile
      /\ UNCHANGED <<call, calls, n, band, nnz, a, b, dot>> /\ UNCHANGED sparse /\ UNCHANGED vectors
  BY DEF IInv, Tile
<1> DEFINE hi == Smaller(k + TILE_SIZE, n)
           In(ii, jj) == /\ ii \in i .. (Smaller(i + TILE_SIZE, n) - 1)
                         /\ jj \in j .. (Smaller(j + TILE_SIZE, n_padded) - 1)
           Added(ii, jj) == SumFunction([kk \in k .. (hi - 1) |->
                                           a[ii * n + kk] * b[kk * n_padded + jj]])
<1>1. /\ n \in MatrixSizes /\ n \in Nat /\ n_padded \in Nat /\ n <= n_padded
      /\ i \in Nat /\ k \in Nat /\ j \in Nat /\ i < n /\ k < n
      /\ i % TILE_SIZE = 0 /\ k % TILE_SIZE = 0 /\ j % TILE_SIZE = 0
      /\ TILE_SIZE \in Nat \ {0}
  BY <1>0, PaddedFact, Sizes DEF Scalars, Running
<1>2. Columns = j .. (Smaller(j + TILE_SIZE, n_padded) - 1)
  BY <1>1, ColumnsAre
<1>3. /\ i' \in Nat /\ k' \in Nat /\ j' \in Nat
      /\ i' % TILE_SIZE = 0 /\ k' % TILE_SIZE = 0 /\ j' % TILE_SIZE = 0
      /\ IF i' < n THEN k' < n ELSE k' = 0 /\ j' = 0
      /\ \A ii \in 0 .. (n - 1), jj \in 0 .. (n_padded - 1) :
           IF In(ii, jj)
           THEN TermsAt(i, k, j, n, ii, jj) = k /\ TermsAt(i', k', j', n, ii, jj) = hi
           ELSE TermsAt(i', k', j', n, ii, jj) = TermsAt(i, k, j, n, ii, jj)
  <2>1. TurnsTo(i, k, j, n, n_padded, i', k', j')
    BY <1>0 DEF NextTile, TurnsTo
  <2>2. /\ i' \in Nat /\ k' \in Nat /\ j' \in Nat
        /\ i' % TILE_SIZE = 0 /\ k' % TILE_SIZE = 0 /\ j' % TILE_SIZE = 0
        /\ IF i' < n THEN k' < n ELSE k' = 0 /\ j' = 0
    BY <1>1, <2>1, TermsStep
  <2>3. AddsTerms(i, k, j, n, n_padded, i', k', j')
    BY <1>1, <2>1, TermsStep
  <2> QED BY <2>2, <2>3 DEF AddsTerms
<1>4. k <= hi /\ hi <= n /\ hi \in Nat
  BY <1>1 DEF Smaller
<1> HIDE DEF hi
<1>5. \A ii \in Nat : \A jj \in Nat :
        In(ii, jj) => ii \in Below(n) /\ jj \in Below(n_padded)
  BY <1>1 DEF Smaller, Below
<1>6. ASSUME NEW ii \in Below(n), NEW jj \in Below(n_padded)
      PROVE  /\ Added(ii, jj) = SumFunctionOnSet(Factors(ii, jj), k .. (hi - 1))
             /\ Added(ii, jj) \in Int
  <2>1. k .. (hi - 1) \in SUBSET Below(n)
    BY <1>1, <1>4 DEF Below
  <2> QED BY <1>0, <1>1, <2>1, PartialSum
<1>7. \A e \in Below(MatrixRoom) :
        out'[e] = IF In(e \div n_padded, e % n_padded)
                  THEN out[e] + Added(e \div n_padded, e % n_padded) ELSE out[e]
  <2>1. DOMAIN out = Below(MatrixRoom)
    BY <1>0 DEF Arrays
  <2> QED BY <2>1, <1>2 DEF hi, Tile
<1>8. Arrays'
  <2>1. ASSUME NEW e \in Below(MatrixRoom) PROVE out'[e] \in Int
    <3>1. e \in Nat /\ n_padded \in Nat \ {0} /\ out[e] \in Int
      BY <1>0, <1>1 DEF Below, Arrays
    <3>2. e \div n_padded \in Nat /\ e % n_padded \in Nat
      <4>1. e \div n_padded \in Nat
        BY <3>1, DivNat
      <4>2. e \in Int /\ \A m \in 0 .. (n_padded - 1) : m \in Nat
        BY <3>1
      <4>3. e % n_padded \in 0 .. (n_padded - 1)
        BY <3>1, <4>2, DivMod
      <4> QED BY <4>1, <4>2, <4>3
    <3>3. In(e \div n_padded, e % n_padded) => Added(e \div n_padded, e % n_padded) \in Int
      BY <3>2, <1>5, <1>6
    <3> HIDE DEF In, Added
    <3> QED BY <3>1, <3>3, <1>7
  <2>2. out' = [e \in Below(MatrixRoom) |-> out'[e]]
    BY <1>0 DEF Arrays, Tile
  <2>3. out' \in [Below(MatrixRoom) -> Int]
    BY <2>1, <2>2
  <2> QED BY <2>3, <1>0 DEF Arrays, sparse, vectors
<1>9. Scalars' /\ Running'
  <2> HIDE DEF In
  <2> QED BY <1>0, <1>1, <1>3 DEF Scalars, Running, sparse
<1>10. SparseStored'
  BY <1>0, SparseKept
<1>11. ProductSoFar'
  <2> SUFFICES ASSUME NEW ii \in Below(n_padded), NEW jj \in Below(n_padded)
               PROVE  out'[ii * n_padded + jj] =
                        IF ii < n
                        THEN SumFunction([kk \in Below(Terms(ii, jj)') |->
                                            a[ii * n + kk] * b[kk * n_padded + jj]])
                        ELSE 0
    BY <1>0 DEF ProductSoFar, n_padded
  <2> DEFINE e == ii * n_padded + jj
  <2>1. ii \in Nat /\ jj \in Nat /\ jj \in 0 .. (n_padded - 1)
    BY <1>1 DEF Below
  <2>2. e \in Below(MatrixRoom) /\ e \div n_padded = ii /\ e % n_padded = jj
    BY <1>1, OutPlace
  <2>3. out'[e] = IF In(ii, jj) THEN out[e] + Added(ii, jj) ELSE out[e]
    <3> HIDE DEF e, In, Added
    <3> QED BY <2>2, <1>7
  <2>4. out[e] = IF ii < n
                 THEN SumFunction([kk \in Below(Terms(ii, jj)) |->
                                     a[ii * n + kk] * b[kk * n_padded + jj]])
                 ELSE 0
    BY <1>0 DEF ProductSoFar
  <2>5. Terms(ii, jj) = TermsAt(i, k, j, n, ii, jj)
    BY <1>1, <2>1, TermsIs DEF Terms
  <2>6. Terms(ii, jj)' = TermsAt(i', k', j', n, ii, jj)
    <3>1. n' = n /\ n \in Nat
      BY <1>0, <1>1
    <3>2. i' \in Nat /\ k' \in Nat /\ j' \in Nat /\ i' % TILE_SIZE = 0 /\ j' % TILE_SIZE = 0
      BY <1>3
    <3> HIDE DEF In
    <3> QED BY <3>1, <3>2, <2>1, TermsIs DEF Terms
  <2> HIDE DEF e
  <2>7. CASE ~(ii < n)
    <3>1. ~In(ii, jj)
      BY <2>7, <1>5, <2>1, <1>1 DEF Below
    <3> HIDE DEF In, Added
    <3> QED BY <2>3, <2>4, <2>7, <3>1 DEF e
  <2>8. CASE ii < n /\ ~In(ii, jj)
    <3>1. ii \in 0 .. (n - 1)
      BY <2>8, <2>1, <1>1
    <3>2. Terms(ii, jj)' = Terms(ii, jj)
      <4> HIDE DEF In
      <4> QED BY <1>3, <2>1, <2>5, <2>6, <2>8, <3>1
    <3> HIDE DEF In, Added
    <3> QED BY <2>3, <2>4, <2>8, <3>2 DEF e
  <2>9. CASE ii < n /\ In(ii, jj)
    <3> DEFINE h == Factors(ii, jj)
    <3>1. ii \in 0 .. (n - 1) /\ ii \in Below(n)
      BY <2>9, <2>1, <1>1 DEF Below
    <3>2. Terms(ii, jj) = k /\ Terms(ii, jj)' = hi
      <4> HIDE DEF In
      <4> QED BY <1>3, <2>1, <2>5, <2>6, <2>9, <3>1
    <3>3. Below(k) \in SUBSET Below(n) /\ Below(hi) \in SUBSET Below(n)
      BY <1>1, <1>4 DEF Below
    <3>4. out[e] = SumFunctionOnSet(h, Below(k))
      BY <2>4, <2>9, <3>1, <3>2, <3>3, <1>0, <1>1, PartialSum
    <3>5. SumFunction([kk \in Below(hi) |-> a[ii * n + kk] * b[kk * n_padded + jj]])
            = SumFunctionOnSet(h, Below(hi))
      BY <3>1, <3>3, <1>0, <1>1, PartialSum
    <3>6. \A kk \in 0 .. (hi - 1) : h[kk] \in Int
      BY <3>1, <3>3, <1>0, <1>1, FactorsFact DEF Below
    <3>7. SumFunctionOnSet(h, Below(hi))
            = SumFunctionOnSet(h, Below(k)) + SumFunctionOnSet(h, k .. (hi - 1))
      <4> HIDE DEF h
      <4> QED BY <3>6, <1>1, <1>4, SumNext DEF Below
    <3>8. Added(ii, jj) = SumFunctionOnSet(h, k .. (hi - 1))
      BY <1>6, <3>1
    <3>9. out'[e] = out[e] + Added(ii, jj)
      BY <2>3, <2>9
    <3> HIDE DEF h, In, Added
    <3>10. out'[e] = SumFunctionOnSet(h, Below(hi))
      BY <3>4, <3>7, <3>8, <3>9
    <3> QED BY <3>2, <3>5, <3>10, <2>9 DEF e
  <2> QED BY <2>7, <2>8, <2>9
<1> QED
  BY <1>0, <1>8, <1>9, <1>10, <1>11 DEF BandedProduct, IInv

LEMMA MatrixDoneKeeps ==
  ASSUME IInv, MatrixDone
  PROVE  IInv'
<1> USE DEF IInv, MatrixDone, Return, dense, sparse, vectors
<1>1. Scalars' /\ Running'
  BY DEF Scalars, Running, Idle
<1>2. Arrays'
  BY DEF Arrays
<1>3. SparseStored'
  BY SparseKept
<1> QED
  BY <1>1, <1>2, <1>3 DEF ProductSoFar, BandedProduct

-----------------------------------------------------------------------------
(* The sparse matrix.                                                      *)

(* A row of the band has as many columns as it stores, the right ones.     *)
BandOf(r, num, width) == {c \in Below(num) : Distance(r, c) <= width}

LEMMA BandFact ==
  ASSUME NEW num \in Nat, NEW r \in Below(num), NEW width \in Nat
  PROVE  /\ First(r, width) \in Nat /\ First(r, width) <= r
         /\ Last(r, num, width) \in Nat /\ r <= Last(r, num, width) /\ Last(r, num, width) <= num - 1
         /\ Last(r, num, width) - First(r, width) + 1 \in 1 .. (2 * width + 1)
         /\ BandOf(r, num, width) = First(r, width) .. Last(r, num, width)
<1>1. r \in 0 .. (num - 1) /\ r - width \in Int
  BY DEF Below
<1>2. First(r, width) = IF r - width > 0 THEN r - width ELSE 0
  BY <1>1, CutFact DEF First
<1>3. Last(r, num, width) = IF r + width < num - 1 THEN r + width ELSE num - 1
  BY DEF Last, Smaller
<1>4. ASSUME NEW c \in Below(num)
      PROVE  Distance(r, c) <= width <=> c \in First(r, width) .. Last(r, num, width)
  BY <1>1, <1>2, <1>3 DEF Distance, Below
<1>5. First(r, width) .. Last(r, num, width) \subseteq Below(num)
  BY <1>1, <1>2, <1>3 DEF Below
<1>6. {c \in Below(num) : Distance(r, c) <= width} = First(r, width) .. Last(r, num, width)
  BY <1>4, <1>5
<1> QED
  BY <1>1, <1>2, <1>3, <1>6 DEF BandOf

(* The workload's arrays have room for all rows.                           *)
LEMMA RoomFact ==
  ASSUME NEW r \in 0 .. MaxRows, NEW width \in 0 .. MaxBand
  PROVE  r * (2 * width + 1) \in 0 .. SparseRoom /\ SparseRoom \in Nat
<1>1. MaxRows \in Nat /\ MaxBand \in Nat
  BY Sizes
<1>2. r * (2 * width + 1) <= MaxRows * (2 * width + 1)
  BY <1>1
<1>3. MaxRows * (2 * width + 1) <= MaxRows * (2 * MaxBand + 1)
  BY <1>1
<1>4. r * (2 * width + 1) \in Nat /\ MaxRows * (2 * width + 1) \in Nat
      /\ MaxRows * (2 * MaxBand + 1) \in Nat
  BY <1>1
<1> QED
  BY <1>2, <1>3, <1>4 DEF SparseRoom, MaxRows, MaxBand

LEMMA GenerateKeeps ==
  ASSUME IInv, NEW num \in RowCounts, NEW width \in BandWidths,
         generate_banded_matrix(num, width)
  PROVE  IInv'
<1> USE DEF IInv, generate_banded_matrix, Call, loops, dense, sparse, vectors
<1>1. Scalars' /\ Running'
  BY Sizes DEF Scalars, Running, Idle
<1>2. Arrays'
  BY DEF Arrays
<1>3. SparseStored'
  BY DEF SparseStored, Running, Idle, Below
<1> QED
  BY <1>1, <1>2, <1>3 DEF ProductSoFar, BandedProduct

(* The columns of row i go where the last row ended, and disturb none      *)
(* before it.                                                              *)
LEMMA BandRowKeeps ==
  ASSUME IInv, BandRow
  PROVE  IInv'
<1> DEFINE s == First(i, band)
           l == Last(i, n, band)
           w == l - s + 1
           written == nnz .. (nnz + w - 1)
<1>0. /\ Scalars /\ Arrays /\ Running /\ SparseStored
      /\ call = "generate_banded_matrix" /\ i < n /\ i' = i + 1
      /\ UNCHANGED <<call, calls, n, band, k, j, rows, dot>> /\ UNCHANGED dense /\ UNCHANGED vectors
  BY DEF IInv, BandRow
<1>1. /\ n \in Nat /\ n \in RowCounts /\ band \in BandWidths /\ band \in Nat /\ i \in Nat /\ nnz \in Nat
      /\ n \in 0 .. MaxRows /\ band \in 0 .. MaxBand /\ MaxRows \in Nat
      /\ nnz <= i * (2 * band + 1) /\ i \in Below(n)
  BY <1>0, Sizes DEF Scalars, Running, Below
<1>2. /\ s \in Nat /\ s <= i /\ l \in Nat /\ i <= l /\ l <= n - 1 /\ w \in 1 .. (2 * band + 1)
  BY <1>1, BandFact
<1>3. /\ nnz' = nnz + w /\ row_ptr' = [row_ptr EXCEPT ![i] = nnz]
      /\ col_idx' = [e \in DOMAIN col_idx |-> IF e \in written THEN s + (e - nnz) ELSE col_idx[e]]
      /\ values' = [e \in DOMAIN values |-> IF e \in written
                                            THEN One \div (1 + Distance(i, s + (e - nnz)))
                                            ELSE values[e]]
  BY DEF BandRow, First, Last
<1> HIDE DEF s, l
<1>4. nnz' <= (i + 1) * (2 * band + 1) /\ nnz' \in 0 .. SparseRoom /\ SparseRoom \in Nat
      /\ nnz \in 0 .. SparseRoom
  <2>1. (i + 1) * (2 * band + 1) = i * (2 * band + 1) + (2 * band + 1)
        /\ i * (2 * band + 1) \in Nat
    BY <1>1
  <2>2. nnz' <= (i + 1) * (2 * band + 1)
    BY <1>1, <1>2, <1>3, <2>1
  <2>3. i + 1 \in 0 .. MaxRows
    BY <1>1 DEF Below
  <2>4. (i + 1) * (2 * band + 1) \in 0 .. SparseRoom /\ SparseRoom \in Nat
    BY <1>1, <2>3, RoomFact
  <2>5. nnz' \in Nat /\ nnz <= nnz'
    BY <1>1, <1>2, <1>3
  <2> QED BY <1>1, <2>2, <2>4, <2>5
<1>5. written \subseteq Below(SparseRoom)
  BY <1>1, <1>2, <1>3, <1>4 DEF Below
<1>6. Scalars' /\ Running'
  BY <1>0, <1>1, <1>3, <1>4 DEF Scalars, Running, dense
<1>7. Arrays'
  <2>1. col_idx' \in [Below(SparseRoom) -> Below(MaxRows)]
    <3>1. ASSUME NEW e \in written PROVE s + (e - nnz) \in Below(MaxRows)
      BY <1>1, <1>2 DEF Below
    <3>2. col_idx \in [Below(SparseRoom) -> Below(MaxRows)]
      BY <1>0 DEF Arrays
    <3> HIDE DEF written
    <3> QED BY <1>3, <3>1, <3>2
  <2>2. values' \in [Below(SparseRoom) -> Int]
    <3>1. ASSUME NEW e \in written PROVE One \div (1 + Distance(i, s + (e - nnz))) \in Int
      <4>1. s + (e - nnz) \in Nat
        BY <1>1, <1>2
      <4>2. 1 + Distance(i, s + (e - nnz)) \in Nat \ {0}
        BY <4>1, <1>1 DEF Distance
      <4>3. One \in Int
        BY Sizes
      <4> QED BY <4>2, <4>3, DivMod
    <3>2. values \in [Below(SparseRoom) -> Int]
      BY <1>0 DEF Arrays
    <3> HIDE DEF written
    <3> QED BY <1>3, <3>1, <3>2
  <2>3. row_ptr' \in [0 .. MaxRows -> 0 .. SparseRoom]
    <3>1. row_ptr \in [0 .. MaxRows -> 0 .. SparseRoom]
      BY <1>0 DEF Arrays
    <3> QED BY <3>1, <1>3, <1>4
  <2> QED BY <1>0, <2>1, <2>2, <2>3 DEF Arrays, dense, vectors
<1>8. ASSUME NEW r \in Below(i)
      PROVE  RowStored(r, n, band, row_ptr[r], Start(r + 1))' /\ Start(r + 1)' <= nnz'
  <2>1. RowStored(r, n, band, row_ptr[r], Start(r + 1)) /\ Start(r + 1) <= nnz
    BY <1>0 DEF SparseStored
  <2>2. r \in Nat /\ r < i /\ r \in 0 .. MaxRows /\ r + 1 \in 0 .. MaxRows /\ r \in Below(n)
    BY <1>1 DEF Below
  <2>3. row_ptr \in [0 .. MaxRows -> 0 .. SparseRoom]
    BY <1>0 DEF Arrays
  <2>4. row_ptr'[r] = row_ptr[r]
    BY <2>2, <2>3, <1>1, <1>3
  <2>5. Start(r + 1)' = Start(r + 1)
    <3>1. i' = i + 1 /\ r + 1 # i + 1
      BY <1>0, <1>1, <2>2
    <3>2. Start(r + 1)' = row_ptr'[r + 1]
      BY <3>1 DEF Start
    <3>3. row_ptr'[r + 1] = IF r + 1 = i THEN nnz ELSE row_ptr[r + 1]
      BY <2>2, <2>3, <1>1, <1>3
    <3> QED BY <3>2, <3>3 DEF Start
  <2>6. Start(r + 1) \in Nat /\ row_ptr[r] \in Nat
    BY <2>2, <2>3, <1>1 DEF Start
  <2>7. ASSUME NEW d \in Below(Start(r + 1) - row_ptr[r])
        PROVE  /\ col_idx'[row_ptr[r] + d] = col_idx[row_ptr[r] + d]
               /\ values'[row_ptr[r] + d] = values[row_ptr[r] + d]
    <3>1. row_ptr[r] + d \in Nat /\ row_ptr[r] + d < nnz
      BY <2>1, <2>6, <1>1 DEF Below
    <3>2. row_ptr[r] + d \in Below(SparseRoom) /\ row_ptr[r] + d \notin written
      BY <3>1, <1>1, <1>4 DEF Below
    <3>3. DOMAIN col_idx = Below(SparseRoom) /\ DOMAIN values = Below(SparseRoom)
      BY <1>0 DEF Arrays
    <3> HIDE DEF written
    <3> QED BY <3>2, <3>3, <1>3
  <2>8. nnz <= nnz' /\ nnz' \in Nat
    BY <1>1, <1>2, <1>3
  <2>9. n' = n /\ band' = band
    BY <1>0
  <2>10. RowStored(r, n, band, row_ptr[r], Start(r + 1))'
    BY <2>1, <2>4, <2>5, <2>7, <2>9 DEF RowStored
  <2>11. Start(r + 1)' <= nnz'
    BY <2>1, <2>5, <2>6, <2>8, <1>1
  <2> QED BY <2>10, <2>11
<1>9. /\ nnz' = row_ptr'[i] + (Last(i, n', band') - First(i, band') + 1)
      /\ \A d \in Below(nnz' - row_ptr'[i]) :
           /\ col_idx'[row_ptr'[i] + d] = First(i, band') + d
           /\ values'[row_ptr'[i] + d] = One \div (1 + Distance(i, First(i, band') + d))
  <2>1. row_ptr'[i] = nnz /\ n' = n /\ band' = band
    <3>1. row_ptr \in [0 .. MaxRows -> 0 .. SparseRoom] /\ i \in 0 .. MaxRows
      BY <1>0, <1>1 DEF Arrays, Below
    <3> QED BY <3>1, <1>0, <1>3
  <2>2. nnz' = nnz + w /\ Below(nnz' - nnz) = 0 .. (w - 1)
    BY <1>1, <1>2, <1>3 DEF Below
  <2>3. ASSUME NEW d \in 0 .. (w - 1)
        PROVE  /\ col_idx'[nnz + d] = s + d
               /\ values'[nnz + d] = One \div (1 + Distance(i, s + d))
    <3>1. nnz + d \in written /\ (nnz + d) - nnz = d
      BY <1>1, <1>2
    <3>2. DOMAIN col_idx = Below(SparseRoom) /\ DOMAIN values = Below(SparseRoom)
      BY <1>0 DEF Arrays
    <3>3. nnz + d \in Below(SparseRoom)
      BY <3>1, <1>5
    <3> HIDE DEF written
    <3> QED BY <3>1, <3>2, <3>3, <1>3
  <2>4. /\ nnz' = nnz + (Last(i, n, band) - First(i, band) + 1)
        /\ \A d \in Below(nnz' - nnz) :
             /\ col_idx'[nnz + d] = First(i, band) + d
             /\ values'[nnz + d] = One \div (1 + Distance(i, First(i, band) + d))
    BY <2>2, <2>3 DEF s, l
  <2> QED BY <2>1, <2>4
<1>10. SparseStored'
  <2> SUFFICES ASSUME NEW r \in Below(i')
               PROVE  RowStored(r, n, band, row_ptr[r], Start(r + 1))' /\ Start(r + 1)' <= nnz'
    BY <1>0 DEF SparseStored
  <2>1. CASE r \in Below(i)
    BY <1>8, <2>1
  <2>2. CASE r = i
    <3>1. Start(r + 1)' = nnz'
      BY <1>0, <2>2 DEF Start
    <3>2. nnz' <= nnz'
      BY <1>4
    <3> QED BY <1>9, <2>2, <3>1, <3>2 DEF RowStored
  <2>3. r \in Below(i) \/ r = i
    BY <1>0, <1>1 DEF Below
  <2> QED BY <2>1, <2>2, <2>3
<1> QED
  BY <1>0, <1>6, <1>7, <1>10 DEF ProductSoFar, BandedProduct, IInv

LEMMA BandDoneKeeps ==
  ASSUME IInv, BandDone
  PROVE  IInv'
<1>0. /\ Scalars /\ Arrays /\ Running /\ SparseStored
      /\ call = "generate_banded_matrix" /\ ~(i < n) /\ row_ptr' = [row_ptr EXCEPT ![n] = nnz]
      /\ rows' = [num_rows |-> n, band_width |-> band] /\ call' = "none"
      /\ Idle' /\ UNCHANGED <<calls, values, col_idx, dot>> /\ UNCHANGED dense /\ UNCHANGED vectors
  <2>1. i >= n => ~(i < n)
    BY DEF IInv, Scalars
  <2> QED BY <2>1 DEF IInv, BandDone, Return, Idle
<1>1. /\ n \in Nat /\ n \in 0 .. MaxRows /\ band \in Nat /\ band \in 0 .. MaxBand /\ nnz \in Nat
      /\ i = n /\ nnz <= n * (2 * band + 1) /\ MaxRows \in Nat
  BY <1>0, Sizes DEF Scalars, Running
<1>2. nnz \in 0 .. SparseRoom
  <2>1. n * (2 * band + 1) \in 0 .. SparseRoom /\ SparseRoom \in Nat
    BY <1>1, RoomFact
  <2> QED BY <2>1, <1>1
<1>3. row_ptr \in [0 .. MaxRows -> 0 .. SparseRoom]
  BY <1>0 DEF Arrays
<1>4. Scalars' /\ Running'
  BY <1>0, <1>1 DEF Scalars, Running, Idle
<1>5. Arrays'
  <2>1. row_ptr' \in [0 .. MaxRows -> 0 .. SparseRoom]
    BY <1>0, <1>2, <1>3
  <2> QED BY <1>0, <2>1 DEF Arrays, dense, vectors
<1>6. SparseStored'
  <2> DEFINE Stored(r) ==
               /\ row_ptr'[r + 1] = row_ptr'[r] + (Last(r, n, band) - First(r, band) + 1)
               /\ \A d \in Below(row_ptr'[r + 1] - row_ptr'[r]) :
                    /\ col_idx[row_ptr'[r] + d] = First(r, band) + d
                    /\ values[row_ptr'[r] + d] = One \div (1 + Distance(r, First(r, band) + d))
  <2>1. ASSUME NEW r \in Below(n) PROVE Stored(r)
    <3>1. RowStored(r, n, band, row_ptr[r], Start(r + 1))
      BY <1>0, <1>1 DEF SparseStored
    <3>2. r \in 0 .. MaxRows /\ r + 1 \in 0 .. MaxRows /\ r # n
      BY <1>1 DEF Below
    <3>3. row_ptr'[r] = row_ptr[r] /\ row_ptr'[r + 1] = Start(r + 1)
      BY <1>0, <1>1, <1>3, <3>2 DEF Start
    <3> QED BY <3>1, <3>3 DEF RowStored
  <2>2. rows'.num_rows = n /\ rows'.band_width = band /\ values' = values /\ col_idx' = col_idx
        /\ call' # "generate_banded_matrix"
    BY <1>0
  <2> QED BY <2>1, <2>2 DEF SparseStored, RowStored
<1> QED
  BY <1>0, <1>4, <1>5, <1>6 DEF ProductSoFar, BandedProduct, IInv

LEMMA SpmvKeeps ==
  ASSUME IInv, NEW num \in RowCounts, spmv_csr(num)
  PROVE  IInv'
<1> USE DEF IInv, spmv_csr, Call, loops, dense, sparse, vectors
<1>1. Scalars' /\ Running'
  BY Sizes DEF Scalars, Running, Idle
<1>2. Arrays'
  BY DEF Arrays
<1>3. SparseStored'
  BY SparseKept
<1>4. BandedProduct'
  BY DEF BandedProduct, Running, Idle, Below
<1> QED
  BY <1>1, <1>2, <1>3, <1>4 DEF ProductSoFar

(* What a row's registers and the elements left over add up to.            *)
Banded(r, num, width) ==
  SumFunction([c \in {d \in Below(num) : Distance(r, d) <= width} |->
                 (One \div (1 + Distance(r, c))) * x[c]])

LEMMA RowSum ==
  ASSUME Scalars, Arrays, SparseStored, call = "spmv_csr", i < n, n <= rows.num_rows
  PROVE  /\ SumFunctionOnSet(Products, Whole) + SumFunctionOnSet(Products, Row \ Whole)
               = Banded(i, rows.num_rows, rows.band_width)
         /\ Banded(i, rows.num_rows, rows.band_width) \in Int
<1> DEFINE num == rows.num_rows
           width == rows.band_width
           s == row_ptr[i]
           e == row_ptr[i + 1]
           f == First(i, width)
           l == Last(i, num, width)
           w == l - f + 1
           C == {d \in Below(num) : Distance(i, d) <= width}
           g == [c \in C |-> (One \div (1 + Distance(i, c))) * x[c]]
           p == Products
<1>1. /\ num \in Nat /\ num <= MaxRows /\ MaxRows \in Nat /\ width \in Nat /\ i \in Nat /\ i < num
      /\ i \in Below(num)
  BY Sizes DEF Scalars, Below
<1> HIDE DEF num, width, s, e, f, l, C, g, p
<1>2. f \in Nat /\ l \in Nat /\ f <= i /\ i <= l /\ l <= num - 1 /\ w \in Nat /\ C = f .. l
  <2>1. f \in Nat /\ l \in Nat /\ f <= i /\ i <= l /\ l <= num - 1
    BY <1>1, BandFact DEF f, l
  <2>2. C = f .. l
    <3>1. BandOf(i, num, width) = First(i, width) .. Last(i, num, width)
      BY <1>1, BandFact
    <3> QED BY <3>1 DEF f, l, C, BandOf
  <2>3. w \in Nat
    BY <2>1, <1>1
  <2> QED BY <2>1, <2>2, <2>3
<1>3. s \in Nat /\ s <= SparseRoom /\ e \in Nat /\ e <= SparseRoom
  <2>1. i \in 0 .. MaxRows /\ i + 1 \in 0 .. MaxRows
    BY <1>1
  <2>2. SparseRoom \in Nat
    <3>1. 0 \in 0 .. MaxRows /\ 0 \in 0 .. MaxBand
      BY Sizes
    <3> QED BY <3>1, RoomFact
  <2>3. row_ptr \in [0 .. MaxRows -> 0 .. SparseRoom]
    BY DEF Arrays
  <2>4. s \in 0 .. SparseRoom /\ e \in 0 .. SparseRoom
    BY <2>1, <2>3 DEF s, e
  <2> QED BY <2>2, <2>4
<1>4. RowStored(i, num, width, s, e)
  BY <1>1 DEF SparseStored, num, width, s, e
<1>5. e = s + w /\ Row = s .. (s + w - 1) /\ DOMAIN p = s .. (s + w - 1)
  <2>1. e = s + w
    BY <1>4 DEF RowStored, f, l
  <2>2. e - 1 = s + w - 1
    BY <2>1, <1>2, <1>3
  <2>3. Row = s .. (e - 1) /\ DOMAIN p = Row
    BY DEF Row, p, Products, s, e
  <2> QED BY <2>1, <2>2, <2>3
<1>6. MaxRows <= VectorRoom /\ VectorRoom \in Nat
  <2>1. VectorRoom \in Nat
    BY Sizes, RoundUpFact DEF VectorRoom
  <2>2. CASE MaxRows \in RowCounts
    <3>1. MaxRows <= RoundUp(MaxRows) /\ RoundUp(MaxRows) <= VectorRoom /\ RoundUp(MaxRows) \in Nat
      BY <2>2, VectorReach
    <3> QED BY <3>1, <2>1, <1>1
  <2>3. CASE MaxRows = 0
    BY <2>1, <2>3
  <2> QED BY <2>1, <2>2, <2>3, Sizes
<1>7. ASSUME NEW c \in f .. l
      PROVE  g[c] = (One \div (1 + Distance(i, c))) * x[c] /\ g[c] \in Int
  <2>1. c \in Below(VectorRoom) /\ c \in Nat /\ c \in C
    BY <1>1, <1>2, <1>6 DEF Below
  <2>2. x[c] \in Int
    BY <2>1 DEF Arrays
  <2>3. One \div (1 + Distance(i, c)) \in Int
    <3>1. 1 + Distance(i, c) \in Nat \ {0}
      BY <1>1, <2>1 DEF Distance
    <3>2. One \in Int
      BY Sizes
    <3> QED BY <3>1, <3>2, DivMod
  <2>4. g[c] = (One \div (1 + Distance(i, c))) * x[c]
    BY <2>1 DEF g
  <2> QED BY <2>2, <2>3, <2>4
<1>8. \A d \in 0 .. (w - 1) : p[s + d] \in Int /\ p[s + d] = g[f + d]
  <2> SUFFICES ASSUME NEW d \in 0 .. (w - 1) PROVE p[s + d] \in Int /\ p[s + d] = g[f + d]
    OBVIOUS
  <2>1. s + d \in Row /\ f + d \in f .. l
    BY <1>2, <1>3, <1>5
  <2>2. p[s + d] = values[s + d] * x[col_idx[s + d]]
    BY <2>1 DEF Products, p
  <2>3. d \in Below(e - s)
    BY <1>2, <1>3, <1>5 DEF Below
  <2>4. col_idx[s + d] = f + d /\ values[s + d] = One \div (1 + Distance(i, f + d))
    BY <1>4, <2>3 DEF RowStored, f
  <2> QED BY <1>7, <2>1, <2>2, <2>4
<1>9. SumFunctionOnSet(p, s .. (s + w - 1)) = SumFunctionOnSet(g, f .. (f + w - 1))
  <2> HIDE DEF w
  <2>1. s \in Int /\ f \in Int /\ w \in Nat
    BY <1>2, <1>3
  <2>2. \A d \in 0 .. (w - 1) : p[s + d] \in Int /\ p[s + d] = g[f + d]
    BY <1>8
  <2>3. SumFunctionOnSet(p, PlacesFrom(s, w)) = SumFunctionOnSet(g, PlacesFrom(f, w))
    BY <2>1, <2>2, SumShift
  <2> QED BY <2>3 DEF PlacesFrom
<1>10. f .. (f + w - 1) = C
  BY <1>2
<1>11. SumFunctionOnSet(g, C) = Banded(i, num, width)
  <2>1. DOMAIN g = C
    BY DEF g
  <2>2. SumFunction(g) = Banded(i, num, width)
    BY DEF Banded, g, C
  <2> QED BY <2>1, <2>2 DEF SumFunction
<1>12. SumFunctionOnSet(p, Row) = SumFunctionOnSet(p, Whole) + SumFunctionOnSet(p, Row \ Whole)
  <2>1. IsFiniteSet(Row) /\ Cardinality(Row) = w
    <3>1. s \in Int /\ s + w - 1 \in Int
      BY <1>2, <1>3
    <3>2. IsFiniteSet(s .. (s + w - 1))
          /\ Cardinality(s .. (s + w - 1)) = IF s > s + w - 1 THEN 0 ELSE (s + w - 1) - s + 1
      BY <3>1, FS_Interval
    <3>3. (IF s > s + w - 1 THEN 0 ELSE (s + w - 1) - s + 1) = w
      <4> HIDE DEF w
      <4> QED BY <1>2, <1>3
    <3> QED BY <3>2, <3>3, <1>5
  <2>2. Whole \subseteq Row
    <3> DEFINE q == w \div Lanes
    <3>1. Lanes \in Nat \ {0}
      BY Sizes
    <3>2. q \in Nat /\ Lanes * q <= w
      <4> HIDE DEF w
      <4> QED BY <3>1, <1>2, DivNat
    <3>3. Whole = s .. ((s + q * Lanes) - 1)
      <4> HIDE DEF w
      <4>1. Whole = s .. ((s + (Cardinality(Row) \div Lanes) * Lanes) - 1)
        BY DEF Whole, s
      <4>2. Cardinality(Row) \div Lanes = q
        BY <2>1
      <4> QED BY <4>1, <4>2
    <3> HIDE DEF q, w
    <3>4. q * Lanes \in Nat /\ q * Lanes <= w
      BY <3>1, <3>2
    <3> QED BY <3>3, <3>4, <1>2, <1>3, <1>5
  <2>3. Whole \cup (Row \ Whole) = Row /\ Whole \cap (Row \ Whole) = {}
    BY <2>2
  <2>4. IsFiniteSet(Whole) /\ IsFiniteSet(Row \ Whole)
    BY <2>1, <2>2, FS_Subset
  <2>5. \A m \in Row : p[m] \in Int
    <3>1. \A m \in Row : m - s \in 0 .. (w - 1) /\ m = s + (m - s)
      BY <1>2, <1>3, <1>5
    <3> QED BY <3>1, <1>8
  <2> QED BY <2>3, <2>4, <2>5, SumUnion
<1>13. SumFunctionOnSet(g, C) \in Int
  <2>1. IsFiniteSet(C)
    <3>1. f \in Int /\ l \in Int
      BY <1>2
    <3> QED BY <3>1, <1>2, FS_Interval
  <2> QED BY <2>1, <1>2, <1>7, SumType
<1>14. SumFunctionOnSet(p, Row) = Banded(i, num, width)
  BY <1>5, <1>9, <1>10, <1>11
<1> QED
  BY <1>11, <1>12, <1>13, <1>14 DEF p, num, width

LEMMA SpmvRowKeeps ==
  ASSUME IInv, SpmvRow
  PROVE  IInv'
<1>0. /\ Scalars /\ Arrays /\ Running /\ SparseStored /\ BandedProduct
      /\ call = "spmv_csr" /\ i < n /\ n <= rows.num_rows /\ i' = i + 1
      /\ y' = [y EXCEPT ![i] = SumFunctionOnSet(Products, Whole)
                                  + SumFunctionOnSet(Products, Row \ Whole)]
      /\ UNCHANGED <<call, calls, n, band, k, j, nnz, x, dot>> /\ UNCHANGED dense /\ UNCHANGED sparse
  BY DEF IInv, SpmvRow, Running
<1>1. y'= [y EXCEPT ![i] = Banded(i, rows.num_rows, rows.band_width)]
      /\ Banded(i, rows.num_rows, rows.band_width) \in Int
  BY <1>0, RowSum
<1>2. i \in Nat /\ n \in Nat /\ i \in Below(VectorRoom) /\ VectorRoom \in Nat
  <2>1. i \in Nat /\ n \in Nat /\ rows.num_rows \in Nat /\ rows.num_rows <= MaxRows /\ MaxRows \in Nat
    BY <1>0, Sizes DEF Scalars
  <2>2. MaxRows \in RowCounts
    BY <2>1, <1>0, Sizes
  <2>3. MaxRows <= VectorRoom /\ VectorRoom \in Nat
    BY <2>1, <2>2, VectorReach
  <2> QED BY <2>1, <2>3, <1>0 DEF Below
<1>3. Scalars' /\ Running'
  BY <1>0, <1>2 DEF Scalars, Running, sparse
<1>4. Arrays'
  BY <1>0, <1>1 DEF Arrays, dense, sparse
<1>5. SparseStored'
  BY <1>0, SparseKept
<1>6. BandedProduct'
  <2> SUFFICES ASSUME NEW r \in Below(i')
               PROVE  y'[r] = Banded(r, rows.num_rows, rows.band_width)'
    BY DEF BandedProduct, Banded
  <2>1. Banded(r, rows.num_rows, rows.band_width)' = Banded(r, rows.num_rows, rows.band_width)
    BY <1>0 DEF Banded, sparse
  <2>2. DOMAIN y = Below(VectorRoom)
    BY <1>0 DEF Arrays
  <2>3. CASE r = i
    BY <1>1, <1>2, <2>1, <2>2, <2>3
  <2>4. CASE r # i
    <3>1. r \in Below(i)
      BY <1>0, <1>2, <2>4 DEF Below
    <3>2. y[r] = Banded(r, rows.num_rows, rows.band_width)
      BY <1>0, <3>1 DEF BandedProduct, Banded
    <3>3. y'[r] = y[r]
      <4>1. r \in Below(VectorRoom)
        BY <3>1, <1>2, <1>0 DEF Below
      <4> QED BY <4>1, <2>2, <2>4, <1>1
    <3> QED BY <2>1, <3>2, <3>3
  <2> QED BY <2>3, <2>4
<1> QED
  BY <1>0, <1>3, <1>4, <1>5, <1>6 DEF ProductSoFar, IInv

LEMMA SpmvDoneKeeps ==
  ASSUME IInv, SpmvDone
  PROVE  IInv'
<1> USE DEF IInv, SpmvDone, Return, dense, sparse, vectors
<1>1. Scalars' /\ Running'
  BY DEF Scalars, Running, Idle
<1>2. Arrays'
  BY DEF Arrays
<1>3. SparseStored'
  BY SparseKept
<1> QED
  BY <1>1, <1>2, <1>3 DEF ProductSoFar, BandedProduct

LEMMA SpmvFaultsKeeps ==
  ASSUME IInv, SpmvFaults
  PROVE  IInv'
<1> USE DEF IInv, SpmvFaults, loops, dense, sparse, vectors
<1>1. Scalars' /\ Running'
  BY DEF Scalars, Running
<1>2. Arrays'
  BY DEF Arrays
<1>3. SparseStored'
  BY SparseKept
<1> QED
  BY <1>1, <1>2, <1>3 DEF ProductSoFar, BandedProduct

LEMMA StutterKeeps ==
  ASSUME IInv, UNCHANGED vars
  PROVE  IInv'
<1> USE DEF IInv, vars, loops, dense, sparse, vectors
<1>1. Scalars' /\ Arrays' /\ Running'
  BY DEF Scalars, Arrays, Running, Idle
<1>2. SparseStored'
  BY DEF SparseStored, RowStored, Start
<1>3. ProductSoFar'
  BY DEF ProductSoFar, Terms, n_padded
<1>4. BandedProduct'
  BY DEF BandedProduct
<1> QED
  BY <1>1, <1>2, <1>3, <1>4

-----------------------------------------------------------------------------
(* The theorems.                                                           *)

LEMMA InitHolds ==
  ASSUME Init
  PROVE  IInv
<1> USE DEF Init
<1>1. Scalars /\ Running
  BY Sizes DEF Scalars, Running, Idle
<1>2. Arrays
  <2>1. \A size : Zero(size) \in [Below(size) -> Int]
    BY DEF Zero
  <2>2. col_idx \in [Below(SparseRoom) -> Below(MaxRows)]
    <3>1. ASSUME NEW e \in Below(SparseRoom) PROVE 0 \in Below(MaxRows)
      <4>1. MaxRows \in Nat
        BY Sizes
      <4>2. CASE MaxRows = 0
        <5>1. SparseRoom = 0 * (2 * Largest(BandWidths) + 1)
          BY <4>2 DEF SparseRoom, MaxRows
        <5>2. SparseRoom = 0
          BY <5>1, Sizes DEF MaxBand
        <5> QED BY <5>2 DEF Below
      <4>3. CASE MaxRows # 0
        BY <4>1, <4>3 DEF Below
      <4> QED BY <4>2, <4>3
    <3> QED BY <3>1 DEF Zero
  <2>3. row_ptr \in [0 .. MaxRows -> 0 .. SparseRoom]
    <3>1. 0 \in 0 .. MaxRows /\ 0 \in 0 .. MaxBand /\ MaxRows \in Nat
      BY Sizes
    <3>2. SparseRoom \in Nat
      BY <3>1, RoomFact
    <3>3. Below(MaxRows + 1) = 0 .. MaxRows
      BY <3>1 DEF Below
    <3> QED BY <3>2, <3>3 DEF Zero, MaxRows
  <2> QED BY <2>1, <2>2, <2>3 DEF Arrays
<1>3. SparseStored
  BY DEF SparseStored, Below
<1> QED
  BY <1>1, <1>2, <1>3 DEF IInv, ProductSoFar, BandedProduct

LEMMA NextKeeps ==
  ASSUME IInv, [Next]_vars
  PROVE  IInv'
<1>1. CASE \E count \in Counts : init_vector_deterministic(count) \/ dot_product(count)
  BY <1>1, InitVectorKeeps, DotKeeps
<1>2. CASE \E size \in MatrixSizes : init_matrix_deterministic(size) \/ matrix_multiply(size)
  BY <1>2, InitMatrixKeeps, MultiplyKeeps
<1>3. CASE Tile \/ MatrixDone
  BY <1>3, TileKeeps, MatrixDoneKeeps
<1>4. CASE \E num \in RowCounts :
             \/ \E width \in BandWidths : generate_banded_matrix(num, width)
             \/ spmv_csr(num)
  BY <1>4, GenerateKeeps, SpmvKeeps
<1>5. CASE BandRow \/ BandDone
  BY <1>5, BandRowKeeps, BandDoneKeeps
<1>6. CASE SpmvRow \/ SpmvFaults \/ SpmvDone
  BY <1>6, SpmvRowKeeps, SpmvFaultsKeeps, SpmvDoneKeeps
<1>7. CASE UNCHANGED vars
  BY <1>7, StutterKeeps
<1> QED
  BY <1>1, <1>2, <1>3, <1>4, <1>5, <1>6, <1>7 DEF Next

(* The invariant holds throughout.                                         *)
THEOREM Invariance == Spec => []IInv
<1>1. Init => IInv
  BY InitHolds
<1>2. IInv /\ [Next]_vars => IInv'
  BY NextKeeps
<1> QED
  BY <1>1, <1>2, PTL DEF Spec

(* The CSR arrays hold indices of their own matrix: generate_banded_matrix *)
(* never writes beyond the arrays of its workload, and what spmv_csr       *)
(* gathers with them is an element of the vector.                          *)
THEOREM TypeCorrect == Spec => []TypeOK
<1>1. IInv => TypeOK
  <2> SUFFICES ASSUME IInv PROVE TypeOK
    OBVIOUS
  <2>1. DOMAIN out = Below(MatrixRoom) /\ DOMAIN col_idx = Below(SparseRoom)
        /\ DOMAIN row_ptr = 0 .. MaxRows
    BY DEF IInv, Arrays
  <2>2. \A e \in Below(SparseRoom) : col_idx[e] \in Below(Largest(RowCounts))
    BY DEF IInv, Arrays, MaxRows
  <2>3. \A r \in 0 .. MaxRows : row_ptr[r] \in 0 .. SparseRoom
    BY DEF IInv, Arrays
  <2> QED BY <2>1, <2>2, <2>3 DEF IInv, Scalars, TypeOK
<1> QED
  BY <1>1, Invariance, PTL

(* matrix_multiply adds every product once, tile by tile, and none of an   *)
(* element outside the matrices, whether or not n fills tiles and          *)
(* registers.                                                              *)
THEOREM TilesAddUp == Spec => []ProductSoFar
<1>1. IInv => ProductSoFar
  BY DEF IInv
<1> QED
  BY <1>1, Invariance, PTL

(* spmv_csr computes the product of the banded matrix and x, from what     *)
(* generate_banded_matrix stored, in registers and left-over elements.     *)
THEOREM RowsAddUp == Spec => []BandedProduct
<1>1. IInv => BandedProduct
  BY DEF IInv
<1> QED
  BY <1>1, Invariance, PTL

(* dot_product adds whole registers: it is exact whenever what lies        *)
(* between the end of the vectors and the end of a register is zero.       *)
THEOREM DotAddsUp == Spec => DotIsExact
<1> DEFINE Exact(count) ==
             (/\ dot'.count = count /\ dot' # dot
              /\ \A e \in count .. (RoundUp(count) - 1) : x[e] = 0 \/ y[e] = 0)
             => dot'.result = SumFunction([e \in Below(count) |-> x[e] * y[e]])
<1>1. ASSUME IInv, Next PROVE \A count \in Counts : Exact(count)
  <2> SUFFICES ASSUME NEW count \in Counts, dot'.count = count, dot' # dot,
                      \A e \in count .. (RoundUp(count) - 1) : x[e] = 0 \/ y[e] = 0
               PROVE  dot'.result = SumFunction([e \in Below(count) |-> x[e] * y[e]])
    OBVIOUS
  <2>1. PICK c \in Counts : dot_product(c)
    BY <1>1 DEF Next, init_vector_deterministic, init_matrix_deterministic, matrix_multiply, Tile,
                MatrixDone, generate_banded_matrix, spmv_csr, BandRow, BandDone, SpmvRow, SpmvFaults,
                SpmvDone
  <2>2. c = count /\ dot'.result = SumFunction([e \in Below(RoundUp(count)) |-> x[e] * y[e]])
    BY <2>1 DEF dot_product
  <2> DEFINE m == RoundUp(count)
             f == [e \in Below(m) |-> x[e] * y[e]]
             g == [e \in Below(count) |-> x[e] * y[e]]
  <2>3. count \in Nat /\ m \in Nat /\ count <= m /\ VectorRoom \in Nat /\ m <= VectorRoom
    BY VectorReach
  <2> HIDE DEF m
  <2>4. \A e \in 0 .. (m - 1) : x[e] \in Int /\ y[e] \in Int
    BY <1>1, <2>3 DEF IInv, Arrays, Below
  <2>5. \A e \in 0 .. (m - 1) : f[e] = x[e] * y[e] /\ f[e] \in Int
    BY <2>4 DEF Below
  <2>6. \A e \in count .. (m - 1) : f[e] = 0
    <3>1. \A e \in count .. (m - 1) : e \in 0 .. (m - 1) /\ (x[e] = 0 \/ y[e] = 0)
      BY <2>3 DEF m
    <3> HIDE DEF f
    <3> QED BY <3>1, <2>4, <2>5
  <2>7. SumFunction(f) = SumFunctionOnSet(f, 0 .. (m - 1))
    BY DEF SumFunction, Below
  <2>8. SumFunction(g) = SumFunctionOnSet(f, 0 .. (count - 1))
    <3>1. IsFiniteSet(0 .. (count - 1))
      BY <2>3, FS_Interval
    <3>2. DOMAIN g = 0 .. (count - 1) /\ \A e \in 0 .. (count - 1) : g[e] = f[e]
      BY <2>3, <2>5 DEF Below
    <3> DEFINE S == 0 .. (count - 1)
    <3> HIDE DEF f, g, S
    <3>3. IsFiniteSet(S) /\ DOMAIN g = S /\ \A e \in S : g[e] = f[e]
      BY <3>1, <3>2 DEF S
    <3>4. SumFunction(g) = SumFunctionOnSet(f, S)
      BY <3>3, SumPart
    <3> QED BY <3>4 DEF S
  <2>9. SumFunctionOnSet(f, 0 .. (m - 1))
          = SumFunctionOnSet(f, 0 .. (count - 1)) + SumFunctionOnSet(f, count .. (m - 1))
    <3> HIDE DEF f
    <3> QED BY <2>3, <2>5, SumNext
  <2>10. SumFunctionOnSet(f, count .. (m - 1)) = 0
    <3>1. IsFiniteSet(count .. (m - 1))
      BY <2>3, FS_Interval
    <3> HIDE DEF f
    <3> QED BY <3>1, <2>6, SumZeros
  <2>11. SumFunctionOnSet(f, 0 .. (count - 1)) \in Int
    <3>1. IsFiniteSet(0 .. (count - 1)) /\ 0 .. (count - 1) \subseteq 0 .. (m - 1)
      BY <2>3, FS_Interval
    <3> HIDE DEF f
    <3> QED BY <3>1, <2>5, SumType
  <2>12. dot'.result = SumFunction(f)
    BY <2>2 DEF m
  <2> HIDE DEF f, g
  <2>13. dot'.result = SumFunction(g)
    BY <2>7, <2>8, <2>9, <2>10, <2>11, <2>12
  <2> QED BY <2>13 DEF g
<1>2. IInv /\ [Next]_vars => [\A count \in Counts : Exact(count)]_vars
  BY <1>1
<1>3. Spec => [][\A count \in Counts : Exact(count)]_vars
  BY <1>2, Invariance, PTL DEF Spec
<1> QED
  BY <1>3 DEF DotIsExact
=============================================================================
