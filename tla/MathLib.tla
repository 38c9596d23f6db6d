------------------------------ MODULE MathLib ------------------------------
(***************************************************************************)
(* The kernels of src/mathlib.c as a workload calls them: which elements   *)
(* are read, multiplied and written, a step per tile of matrix_multiply    *)
(* and per row of the sparse functions.                                    *)
(*                                                                         *)
(* A float is an integer, in units in which the init helpers' values are   *)
(* whole: sums are exact, rounding is left out.  Arrays are larger than    *)
(* what a call is told of them, and keep what earlier calls left there; a  *)
(* workload starts on zeroed pages.                                        *)
(***************************************************************************)
EXTENDS Integers, FiniteSets, FiniteSetsExt, Functions

CONSTANTS
  Lanes,        \* floats of an AVX register: 8
  TILE_SIZE,    \* 64
  One,          \* 1.0f in the sparse matrices' units
  MatrixSizes,  \* n of matrix_multiply
  RowCounts,    \* num_rows of the sparse matrices
  BandWidths,   \* band_width
  Counts,       \* lengths of vectors
  MaxCalls      \* bound: calls a workload makes before it returns

ASSUME MathAssumption ==
  /\ {Lanes, TILE_SIZE, One} \subseteq Nat \ {0} /\ TILE_SIZE % Lanes = 0
  /\ MatrixSizes \cup RowCounts \cup BandWidths \cup Counts \subseteq Nat
  /\ IsFiniteSet(MatrixSizes \cup RowCounts \cup BandWidths \cup Counts)
  /\ MaxCalls \in Nat

VARIABLES
  call,                      \* the function running, "none" or "fault"
  calls,                     \* calls made so far
  n, band,                   \* n or num_rows, band_width of the call
  i, k, j, nnz,              \* loop variables
  a, b, out,                 \* matrices
  values, col_idx, row_ptr,  \* the sparse matrix
  rows,                      \* history: num_rows and band_width it was made with
  x, y,                      \* vectors
  dot                        \* history: dot_product's last arguments' length and result

dense == <<a, b, out>>
sparse == <<values, col_idx, row_ptr, rows>>
vectors == <<x, y>>
loops == <<i, k, j, nnz>>
vars == <<call, calls, n, band, loops, dense, sparse, vectors, dot>>

RoundUp(m) == ((m + Lanes - 1) \div Lanes) * Lanes
Smaller(p, q) == IF p < q THEN p ELSE q
Below(m) == 0 .. (m - 1)
Largest(S) == Max(S \cup {0})

Zero(size) == [e \in Below(size) |-> 0]
MatrixRoom == RoundUp(Largest(MatrixSizes)) * RoundUp(Largest(MatrixSizes))
SparseRoom == Largest(RowCounts) * (2 * Largest(BandWidths) + 1)
VectorRoom == RoundUp(Largest(Counts \cup RowCounts))

Init ==
  /\ call = "none" /\ calls = 0 /\ n = 0 /\ band = 0
  /\ i = 0 /\ k = 0 /\ j = 0 /\ nnz = 0
  /\ a = Zero(MatrixRoom) /\ b = Zero(MatrixRoom) /\ out = Zero(MatrixRoom)
  /\ values = Zero(SparseRoom) /\ col_idx = Zero(SparseRoom)
  /\ row_ptr = Zero(Largest(RowCounts) + 1) /\ rows = [num_rows |-> 0, band_width |-> 0]
  /\ x = Zero(VectorRoom) /\ y = Zero(VectorRoom)
  /\ dot = [count |-> 0, result |-> 0]

Call == call = "none" /\ calls < MaxCalls /\ calls' = calls + 1
Return ==
  /\ call' = "none"
  /\ n' = 0 /\ band' = 0 /\ i' = 0 /\ k' = 0 /\ j' = 0 /\ nnz' = 0

-----------------------------------------------------------------------------
(* Vectors and dense matrices.                                             *)

(* 4 t (1 - t) with t = (e % 1000) / 1000, in four millionths.             *)
Parabola(e) == (e % 1000) * (1000 - (e % 1000))

init_vector_deterministic(count) ==
  /\ Call
  /\ x' = [e \in DOMAIN x |-> IF e < count THEN Parabola(e) ELSE x[e]]
  /\ UNCHANGED <<call, n, band, loops, dense, sparse, y, dot>>

(* In thousandths.  matrix_multiply reads a with n columns, b with as many *)
(* as fill whole registers, so that is how a workload must make them.      *)
Element(e, cols) == ((e \div cols) * 7 + (e % cols) * 13) % 1000
Filled(m, height, cols) ==
  [e \in DOMAIN m |-> IF e < height * cols THEN Element(e, cols) ELSE m[e]]

init_matrix_deterministic(size) ==
  /\ Call
  /\ a' = Filled(a, size, size)
  /\ b' = Filled(b, size, RoundUp(size))
  /\ UNCHANGED <<call, n, band, loops, out, sparse, vectors, dot>>

(* Mutant of dot_product: whole registers only.                            *)
dot_product_whole(count) ==
  /\ Call
  /\ dot' = [count |-> count,
             result |-> SumFunction([e \in Below((count \div Lanes) * Lanes) |-> x[e] * y[e]])]
  /\ UNCHANGED <<call, n, band, loops, dense, sparse, vectors>>

(* Whole registers are added up, beyond count if count is not a multiple.  *)
dot_product(count) ==
  /\ Call
  /\ dot' = [count |-> count,
             result |-> SumFunction([e \in Below(RoundUp(count)) |-> x[e] * y[e]])]
  /\ UNCHANGED <<call, n, band, loops, dense, sparse, vectors>>

-----------------------------------------------------------------------------
(* matrix_multiply.                                                        *)

n_padded == RoundUp(n)

matrix_multiply(size) ==
  /\ Call
  /\ call' = "matrix_multiply" /\ n' = size
  /\ out' = [e \in DOMAIN out |-> IF e < RoundUp(size) * RoundUp(size) THEN 0 ELSE out[e]]
  /\ UNCHANGED <<band, loops, a, b, sparse, vectors, dot>>

(* The columns a tile covers, by registers that start in it.               *)
Columns ==
  LET j_end == Smaller(j + TILE_SIZE, n_padded)
      starts == {jj \in j .. (j_end - 1) : (jj - j) % Lanes = 0}
  IN  UNION {jj .. (jj + Lanes - 1) : jj \in starts}

NextTile ==
  IF j + TILE_SIZE < n_padded
  THEN j' = j + TILE_SIZE /\ UNCHANGED <<k, i>>
  ELSE /\ j' = 0
       /\ IF k + TILE_SIZE < n
          THEN k' = k + TILE_SIZE /\ UNCHANGED i
          ELSE k' = 0 /\ i' = i + TILE_SIZE

(* Mutant of Tile: b is read with n columns.                               *)
TileUnpadded ==
  /\ call = "matrix_multiply" /\ i < n
  /\ out' = [e \in DOMAIN out |->
               LET ii == e \div n_padded
                   jj == e % n_padded
               IN  IF ii \in i .. (Smaller(i + TILE_SIZE, n) - 1) /\ jj \in Columns
                   THEN out[e] + SumFunction([kk \in k .. (Smaller(k + TILE_SIZE, n) - 1) |->
                                                a[ii * n + kk] * b[kk * n + jj]])
                   ELSE out[e]]
  /\ NextTile
  /\ UNCHANGED <<call, calls, n, band, nnz, a, b, sparse, vectors, dot>>

Tile ==
  /\ call = "matrix_multiply" /\ i < n
  /\ out' = [e \in DOMAIN out |->
               LET ii == e \div n_padded
                   jj == e % n_padded
               IN  IF ii \in i .. (Smaller(i + TILE_SIZE, n) - 1) /\ jj \in Columns
                   THEN out[e] + SumFunction([kk \in k .. (Smaller(k + TILE_SIZE, n) - 1) |->
                                                a[ii * n + kk] * b[kk * n_padded + jj]])
                   ELSE out[e]]
  /\ NextTile
  /\ UNCHANGED <<call, calls, n, band, nnz, a, b, sparse, vectors, dot>>

MatrixDone ==
  /\ call = "matrix_multiply" /\ i >= n
  /\ Return
  /\ UNCHANGED <<calls, dense, sparse, vectors, dot>>

-----------------------------------------------------------------------------
(* The banded matrix and its product with a vector, in CSR form.  Indices  *)
(* are below 2^32, so that the conversions to uint32_t change none.         *)

generate_banded_matrix(num_rows, band_width) ==
  /\ Call
  /\ call' = "generate_banded_matrix" /\ n' = num_rows /\ band' = band_width
  /\ UNCHANGED <<loops, dense, sparse, vectors, dot>>

Distance(p, q) == IF p > q THEN p - q ELSE q - p

(* Mutant of BandRow: col_end is cut to num_rows, one too far.             *)
BandRowTooLong ==
  /\ call = "generate_banded_matrix" /\ i < n
  /\ LET col_start == Largest({i - band})
         col_end == Smaller(i + band, n)
         width == col_end - col_start + 1
         Col(e) == col_start + (e - nnz)
         written == {e \in DOMAIN values : e \in nnz .. (nnz + width - 1)}
     IN  /\ col_idx' = [e \in DOMAIN col_idx |-> IF e \in written THEN Col(e) ELSE col_idx[e]]
         /\ values' = [e \in DOMAIN values |->
                         IF e \in written THEN One \div (1 + Distance(i, Col(e)))
                         ELSE values[e]]
         /\ nnz' = nnz + width
  /\ row_ptr' = [row_ptr EXCEPT ![i] = nnz]
  /\ i' = i + 1
  /\ UNCHANGED <<call, calls, n, band, k, j, dense, rows, vectors, dot>>

BandRow ==
  /\ call = "generate_banded_matrix" /\ i < n
  /\ LET col_start == Largest({i - band})
         col_end == Smaller(i + band, n - 1)
         width == col_end - col_start + 1
         Col(e) == col_start + (e - nnz)
         written == nnz .. (nnz + width - 1)
     IN  /\ col_idx' = [e \in DOMAIN col_idx |-> IF e \in written THEN Col(e) ELSE col_idx[e]]
         /\ values' = [e \in DOMAIN values |->
                         IF e \in written THEN One \div (1 + Distance(i, Col(e)))
                         ELSE values[e]]
         /\ nnz' = nnz + width
  /\ row_ptr' = [row_ptr EXCEPT ![i] = nnz]
  /\ i' = i + 1
  /\ UNCHANGED <<call, calls, n, band, k, j, dense, rows, vectors, dot>>

BandDone ==
  /\ call = "generate_banded_matrix" /\ i >= n
  /\ row_ptr' = [row_ptr EXCEPT ![n] = nnz]
  /\ rows' = [num_rows |-> n, band_width |-> band]
  /\ Return
  /\ UNCHANGED <<calls, dense, values, col_idx, vectors, dot>>

(* A workload multiplies the rows it has generated, or some of them.       *)
spmv_csr(num_rows) ==
  /\ Call
  /\ num_rows <= rows.num_rows
  /\ call' = "spmv_csr" /\ n' = num_rows
  /\ UNCHANGED <<band, loops, dense, sparse, vectors, dot>>

(* Elements of row i taken a register at a time, and those left over.      *)
Row == row_ptr[i] .. (row_ptr[i + 1] - 1)
Whole == LET end == row_ptr[i] + (Cardinality(Row) \div Lanes) * Lanes
         IN  row_ptr[i] .. (end - 1)
Products == [e \in Row |-> values[e] * x[col_idx[e]]]

(* Mutant of SpmvRow: it accumulates, as its comment says.                 *)
SpmvRowAdds ==
  /\ call = "spmv_csr" /\ i < n
  /\ y' = [y EXCEPT ![i] = y[i] + SumFunctionOnSet(Products, Whole) + SumFunctionOnSet(Products, Row \ Whole)]
  /\ i' = i + 1
  /\ UNCHANGED <<call, calls, n, band, k, j, nnz, dense, sparse, x, dot>>

SpmvRow ==
  /\ call = "spmv_csr" /\ i < n
  /\ y' = [y EXCEPT ![i] = SumFunctionOnSet(Products, Whole) + SumFunctionOnSet(Products, Row \ Whole)]
  /\ i' = i + 1
  /\ UNCHANGED <<call, calls, n, band, k, j, nnz, dense, sparse, x, dot>>

(* The load of values is an aligned one, but a row starts where the last   *)
(* one ended: a compiler that keeps the load apart from the fmadd that     *)
(* uses it makes this a fault, and the exception handler stops the machine. *)
SpmvFaults ==
  /\ call = "spmv_csr" /\ i < n
  /\ Whole # {} /\ row_ptr[i] % Lanes # 0
  /\ call' = "fault"
  /\ UNCHANGED <<calls, n, band, loops, dense, sparse, vectors, dot>>

SpmvDone ==
  /\ call = "spmv_csr" /\ i >= n
  /\ Return
  /\ UNCHANGED <<calls, dense, sparse, vectors, dot>>

-----------------------------------------------------------------------------
Next ==
  \/ \E count \in Counts : init_vector_deterministic(count) \/ dot_product(count)
  \/ \E size \in MatrixSizes : init_matrix_deterministic(size) \/ matrix_multiply(size)
  \/ Tile \/ MatrixDone
  \/ \E num_rows \in RowCounts :
       \/ \E band_width \in BandWidths : generate_banded_matrix(num_rows, band_width)
       \/ spmv_csr(num_rows)
  \/ BandRow \/ BandDone \/ SpmvRow \/ SpmvFaults \/ SpmvDone

Spec == Init /\ [][Next]_vars
-----------------------------------------------------------------------------
(* Properties.                                                             *)

(* Type invariant: the CSR arrays hold indices of their own matrix, so no  *)
(* element outside the vectors is gathered.                                *)
TypeOK ==
  /\ call \in {"none", "fault", "matrix_multiply", "generate_banded_matrix", "spmv_csr"}
  /\ calls \in 0 .. MaxCalls
  /\ DOMAIN out = Below(MatrixRoom)
  /\ \A e \in DOMAIN col_idx : col_idx[e] \in Below(Largest(RowCounts))
  /\ \A r \in DOMAIN row_ptr : row_ptr[r] \in 0 .. SparseRoom

(* dot_product has no tail loop: what it returns is the dot product of     *)
(* count elements as long as one of the vectors is 0 from there to the end *)
(* of the register.                                                        *)
DotIsExact ==
  [][\A count \in Counts :
       (/\ dot'.count = count /\ dot' # dot
        /\ \A e \in count .. (RoundUp(count) - 1) : x[e] = 0 \/ y[e] = 0)
       => dot'.result = SumFunction([e \in Below(count) |-> x[e] * y[e]])]_vars

(* How many terms of out[ii][jj] the tiles so far have added.              *)
Terms(ii, jj) ==
  LET tile(m) == m - (m % TILE_SIZE)
  IN  CASE tile(ii) < i -> n
        [] tile(ii) > i -> 0
        [] OTHER -> IF tile(jj) < j THEN Smaller(k + TILE_SIZE, n) ELSE k

(* The tiles of matrix_multiply add every product once and no product of   *)
(* an element outside the matrices, whatever out held before and also      *)
(* where n fills neither tiles nor registers; in the end out is a times b. *)
ProductSoFar ==
  call = "matrix_multiply" =>
    \A ii \in Below(n_padded), jj \in Below(n_padded) :
      out[ii * n_padded + jj] =
        IF ii < n
        THEN SumFunction([kk \in Below(Terms(ii, jj)) |-> a[ii * n + kk] * b[kk * n_padded + jj]])
        ELSE 0

(* What generate_banded_matrix writes and spmv_csr reads is the same       *)
(* matrix: y is the product of the banded matrix, computed from its        *)
(* definition, and x, row by row, whatever y held before.                  *)
BandedProduct ==
  call = "spmv_csr" =>
    \A r \in Below(i) :
      y[r] = SumFunction([c \in {d \in Below(rows.num_rows) : Distance(r, d) <= rows.band_width} |->
                            (One \div (1 + Distance(r, c))) * x[c]])
=============================================================================
