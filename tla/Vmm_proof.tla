----------------------------- MODULE Vmm_proof -----------------------------
(***************************************************************************)
(* Proofs about Vmm: for any memory map, any depth of tables and any size  *)
(* of heap, and for as long as pmm.c does not answer NULL (MemoryLasts;    *)
(* vmm.c uses its answers untested).  Until CR3 is loaded it does not,     *)
(* given enough low memory: BootInv.                                       *)
(*                                                                         *)
(* The inductive invariant VInv says that there are, for every table, a    *)
(* level and a path of indices from the root (lev and path), and for every *)
(* page of the heap a 2mb page (hp), such that                             *)
(*   - the tables are a tree in which levels go down and paths get longer  *)
(*     by the index of the entry followed (Tree);                          *)
(*   - an entry is huge when it is that of a page of the heap, and then it *)
(*     has that page's frame (HeapTables); those frames are the 2mb pages  *)
(*     held (HeapFrames) and all that the CPU may have cached (Cached);    *)
(*   - the pages vmm_init has got to are mapped as it was told (Entered),  *)
(*     by tables that are all on the way to such a page (Needed);          *)
(*   - a walk under way is at the table it should be at (Walking).         *)
(* Levels and paths are what an induction over the depth of the tables     *)
(* would otherwise have to carry.                                          *)
(***************************************************************************)
EXTENDS Vmm, Pmm_proof, FunctionTheorems, SequenceTheorems

-----------------------------------------------------------------------------
(* Numbers.                                                                *)
(* The constants, conjunct by conjunct.                                    *)
LEMMA Sizes ==
  /\ LEVELS \in Nat /\ LEVELS > 1 /\ ENTRIES \in Nat \ {0}
  /\ IdentityPages \in Nat /\ KernelVirt \in Nat /\ KernelPhys \in Nat
  /\ HhdmOffset \in Nat /\ KERNEL_API_ADDRESS \in Nat /\ MmioPhys \in Nat
  /\ MmioPages \in Nat /\ RingFrames \in Nat /\ MaxHeap \in Nat
  /\ HEAP_START \in Nat /\ HEAP_START % HugeFrames = 0
  /\ BufferRun \in RunLengths /\ Requests \subseteq Nat
BY VmmAssumption, Geometry DEF ENTRIES

(* An entry of a table at level l maps at least a page.                     *)
LEMMA SpanFact == \A l \in 0 .. LEVELS : Span[l] \in Nat \ {0}
<1> DEFINE Fix(w) == w = [l \in 0 .. LEVELS |-> IF l = 0 THEN 1 ELSE ENTRIES * w[l - 1]]
           Upto(w, n) == /\ w \in [0 .. n -> Nat \ {0}]
                         /\ \A l \in 0 .. n : w[l] = IF l = 0 THEN 1 ELSE ENTRIES * w[l - 1]
           P == {l \in 0 .. LEVELS : \E w \in [0 .. (LEVELS - l) -> Nat \ {0}] : Upto(w, LEVELS - l)}
<1>1. LEVELS \in P
  <2> DEFINE w == [l \in 0 .. 0 |-> 1]
  <2>1. w \in [0 .. 0 -> Nat \ {0}] /\ Upto(w, 0)
    OBVIOUS
  <2>2. LEVELS - LEVELS = 0 /\ LEVELS \in 0 .. LEVELS
    BY Sizes
  <2> HIDE DEF w, Upto
  <2> QED BY <2>1, <2>2
<1>2. ASSUME NEW l \in 0 .. (LEVELS - 1), l + 1 \in P PROVE l \in P
  <2> DEFINE n == LEVELS - (l + 1)
  <2>1. PICK v \in [0 .. n -> Nat \ {0}] : Upto(v, n)
    BY <1>2
  <2>2. n \in Nat /\ LEVELS - l = n + 1 /\ l \in 0 .. LEVELS
    BY Sizes
  <2> HIDE DEF n
  <2> DEFINE w == [j \in 0 .. (n + 1) |-> IF j = n + 1 THEN ENTRIES * v[n] ELSE v[j]]
  <2>3. w \in [0 .. (n + 1) -> Nat \ {0}]
    <3> DEFINE z == v[n]
    <3>1. z \in Nat \ {0}
      BY <2>2
    <3> HIDE DEF z
    <3>2. ENTRIES * z \in Nat \ {0}
      BY <3>1, Sizes
    <3>3. \A j \in 0 .. (n + 1) : j # n + 1 => v[j] \in Nat \ {0}
      BY <2>2
    <3> QED BY <3>2, <3>3 DEF z
  <2>4. ASSUME NEW j \in 0 .. (n + 1) PROVE w[j] = IF j = 0 THEN 1 ELSE ENTRIES * w[j - 1]
    <3>1. CASE j = n + 1
      BY <3>1, <2>2
    <3>2. CASE j # n + 1
      <4>1. j \in 0 .. n /\ (j = 0 \/ (j - 1 \in 0 .. (n + 1) /\ j - 1 # n + 1))
        BY <3>2, <2>2
      <4> QED BY <3>2, <4>1, <2>1
    <3> QED BY <3>1, <3>2
  <2> HIDE DEF w
  <2>5. Upto(w, n + 1)
    BY <2>3, <2>4
  <2> HIDE DEF Upto
  <2> QED BY <2>2, <2>3, <2>5
<1>3. 0 \in P
  <2> HIDE DEF P
  <2>1. P \in SUBSET (0 .. LEVELS)
    BY DEF P
  <2>2. P = 0 .. LEVELS
    BY <2>1, <1>1, <1>2, Sizes, DownEveryLevel
  <2> QED BY <2>2, Sizes
<1>4. PICK v \in [0 .. LEVELS -> Nat \ {0}] : Upto(v, LEVELS)
  <2>1. LEVELS - 0 = LEVELS
    BY Sizes
  <2>2. \E w \in [0 .. (LEVELS - 0) -> Nat \ {0}] : Upto(w, LEVELS - 0)
    <3> HIDE DEF Upto
    <3> QED BY <1>3
  <2> HIDE DEF Upto
  <2> QED BY <2>1, <2>2
<1>5. Fix(v)
  BY <1>4
<1>6. Fix(Span)
  <2> HIDE DEF Fix
  <2>1. Span = CHOOSE w : Fix(w)
    BY DEF Span, Fix
  <2> QED BY <1>5, <2>1
<1>7. \A l \in 0 .. LEVELS : Span[l] = IF l = 0 THEN 1 ELSE ENTRIES * Span[l - 1]
  BY <1>6
<1> DEFINE Q == {l \in 0 .. LEVELS : Span[LEVELS - l] \in Nat \ {0}}
<1>8. LEVELS \in Q
  <2>1. LEVELS - LEVELS = 0 /\ 0 \in 0 .. LEVELS /\ LEVELS \in 0 .. LEVELS
    BY Sizes
  <2> QED BY <1>7, <2>1
<1>9. ASSUME NEW l \in 0 .. (LEVELS - 1), l + 1 \in Q PROVE l \in Q
  <2> DEFINE k == LEVELS - l
             z == Span[k - 1]
  <2>1. /\ k \in 0 .. LEVELS /\ k # 0 /\ LEVELS - (l + 1) = k - 1 /\ l \in 0 .. LEVELS
        /\ z \in Nat \ {0}
    BY <1>9, Sizes
  <2>2. Span[k] = ENTRIES * z
    BY <1>7, <2>1
  <2> HIDE DEF k, z
  <2>3. ENTRIES * z \in Nat \ {0}
    BY <2>1, Sizes
  <2> QED BY <2>1, <2>2, <2>3 DEF k
<1>10. Q = 0 .. LEVELS
  <2> HIDE DEF Q
  <2>1. Q \in SUBSET (0 .. LEVELS)
    BY DEF Q
  <2> QED BY <2>1, <1>8, <1>9, Sizes, DownEveryLevel
<1>11. ASSUME NEW l \in 0 .. LEVELS PROVE Span[l] \in Nat \ {0}
  <2>1. LEVELS - l \in 0 .. LEVELS /\ LEVELS - (LEVELS - l) = l
    BY Sizes
  <2>2. Span[LEVELS - (LEVELS - l)] \in Nat \ {0}
    BY <2>1, <1>10
  <2> QED BY <2>1, <2>2
<1> QED BY <1>11

-----------------------------------------------------------------------------
(* The shape of the tables.                                                *)
Entries == 0 .. (ENTRIES - 1)
Entry == [present : BOOLEAN, huge : BOOLEAN, frame : Nat]
IsLink(e) == e.present /\ ~e.huge

(* The entries a walk for page v goes through before it is at level l, and *)
(* those of a table below entry i of a table at level l.                   *)
Path(v, l) == [m \in (l + 1) .. (LEVELS - 1) |-> Index(v, m)]
Below(p, l, i) == [m \in l .. (LEVELS - 1) |-> IF m = l THEN i ELSE p[m]]

(* Every table has a level and a path.                                     *)
Placed(es, root, lev, path) ==
  /\ \A t \in DOMAIN es : es[t] \in [Entries -> Entry]
  /\ DOMAIN lev = DOMAIN es /\ DOMAIN path = DOMAIN es
  /\ \A t \in DOMAIN es :
       lev[t] \in 0 .. (LEVELS - 1) /\ path[t] \in [(lev[t] + 1) .. (LEVELS - 1) -> Entries]
  /\ root \in DOMAIN es /\ lev[root] = LEVELS - 1

(* No two tables have the same.                                            *)
Unique(es, lev, path) ==
  \A s, t \in DOMAIN es : lev[s] = lev[t] /\ path[s] = path[t] => s = t

(* An entry leads to the table below it ...                                *)
LeadsDown(es, lev, path) ==
  \A t \in DOMAIN es : \A i \in Entries :
    lev[t] > 0 /\ IsLink(es[t][i]) =>
      /\ es[t][i].frame \in DOMAIN es
      /\ lev[es[t][i].frame] = lev[t] - 1
      /\ path[es[t][i].frame] = Below(path[t], lev[t], i)

(* ... and every table but the root is led to.                             *)
LedTo(es, root, lev) ==
  \A t \in DOMAIN es : t # root =>
    \E s \in DOMAIN es : \E i \in Entries :
      lev[s] > 0 /\ IsLink(es[s][i]) /\ es[s][i].frame = t

Tree(es, root, lev, path) ==
  /\ Placed(es, root, lev, path)
  /\ Unique(es, lev, path)
  /\ LeadsDown(es, lev, path)
  /\ LedTo(es, root, lev)

(* A page has an index at every level.                                     *)
LEMMA IndexFact ==
  ASSUME NEW v \in Nat, NEW l \in 0 .. (LEVELS - 1)
  PROVE  Index(v, l) \in Entries
<1>1. Span[l] \in Nat \ {0} /\ ENTRIES \in Nat \ {0}
  BY SpanFact, Sizes
<1>2. v \div Span[l] \in Nat
  BY <1>1, DivNat
<1> DEFINE q == v \div Span[l]
<1> HIDE DEF q
<1>3. q % ENTRIES \in 0 .. (ENTRIES - 1)
  BY <1>1, <1>2 DEF q
<1> QED BY <1>3 DEF Index, q, Entries

(* The path of a page, one level further down.                             *)
LEMMA PathDown ==
  ASSUME NEW v \in Nat, NEW l \in 1 .. (LEVELS - 1)
  PROVE  Path(v, l - 1) = Below(Path(v, l), l, Index(v, l))
<1>1. (l - 1) + 1 = l /\ l \in Nat
  BY Sizes
<1>2. Path(v, l - 1) = [m \in l .. (LEVELS - 1) |-> Index(v, m)]
  BY <1>1 DEF Path
<1>3. \A m \in l .. (LEVELS - 1) : m # l => m \in (l + 1) .. (LEVELS - 1)
  BY <1>1
<1> QED BY <1>2, <1>3 DEF Below, Path

(* What tells a huge page apart is the path to the level below it.         *)
LEMMA SlotIsPath ==
  ASSUME NEW v
  PROVE  Slot(v) = Path(v, 0)
BY DEF Slot, Path

(* The root is reached through no entry.                                   *)
LEMMA PathOfRoot ==
  ASSUME NEW v, NEW p \in [((LEVELS - 1) + 1) .. (LEVELS - 1) -> Entries]
  PROVE  p = Path(v, LEVELS - 1)
<1>1. ((LEVELS - 1) + 1) .. (LEVELS - 1) = {}
  BY Sizes
<1> QED BY <1>1 DEF Path

(* The path below an entry tells the table and the entry.                  *)
LEMMA BelowTells ==
  ASSUME NEW l \in 0 .. (LEVELS - 1), NEW i \in Entries, NEW j \in Entries,
         NEW p \in [(l + 1) .. (LEVELS - 1) -> Entries],
         NEW q \in [(l + 1) .. (LEVELS - 1) -> Entries],
         Below(p, l, i) = Below(q, l, j)
  PROVE  p = q /\ i = j
<1>1. l \in l .. (LEVELS - 1) /\ \A m \in (l + 1) .. (LEVELS - 1) : m \in l .. (LEVELS - 1) /\ m # l
  BY Sizes
<1>2. \A m \in l .. (LEVELS - 1) :
        (IF m = l THEN i ELSE p[m]) = (IF m = l THEN j ELSE q[m])
  <2>1. \A m \in l .. (LEVELS - 1) : Below(p, l, i)[m] = Below(q, l, j)[m]
    OBVIOUS
  <2> QED BY <2>1 DEF Below
<1>3. i = j
  BY <1>1, <1>2
<1>4. \A m \in (l + 1) .. (LEVELS - 1) : p[m] = q[m]
  BY <1>1, <1>2
<1>5. /\ p = [m \in (l + 1) .. (LEVELS - 1) |-> p[m]]
      /\ q = [m \in (l + 1) .. (LEVELS - 1) |-> q[m]]
  OBVIOUS
<1>6. [m \in (l + 1) .. (LEVELS - 1) |-> p[m]] = [m \in (l + 1) .. (LEVELS - 1) |-> q[m]]
  BY <1>4
<1> QED BY <1>3, <1>5, <1>6

(* It has an entry more.                                                   *)
LEMMA BelowTyped ==
  ASSUME NEW l \in 1 .. (LEVELS - 1), NEW i \in Entries,
         NEW p \in [(l + 1) .. (LEVELS - 1) -> Entries]
  PROVE  Below(p, l, i) \in [((l - 1) + 1) .. (LEVELS - 1) -> Entries]
<1>1. (l - 1) + 1 = l /\ \A m \in l .. (LEVELS - 1) : m # l => m \in (l + 1) .. (LEVELS - 1)
  BY Sizes
<1> QED BY <1>1 DEF Below

(* The kinds of entries.                                                   *)
LEMMA EntryKinds ==
  ASSUME NEW f \in Nat
  PROVE  /\ Absent \in Entry /\ ToTable(f) \in Entry /\ ToHugePage(f) \in Entry
         /\ ~Absent.present /\ ~Absent.huge /\ IsLink(ToTable(f)) /\ ToTable(f).frame = f
         /\ ~ToTable(f).huge /\ ToTable(f).present
         /\ ToHugePage(f).present /\ ToHugePage(f).huge /\ ToHugePage(f).frame = f
BY DEF Absent, ToTable, ToHugePage, Entry, IsLink

(* No table lies below an entry that leads nowhere.                        *)
LEMMA NothingBelow ==
  ASSUME NEW es, NEW root, NEW lev, NEW path, Tree(es, root, lev, path),
         NEW s \in DOMAIN es, NEW i \in Entries, lev[s] > 0, ~IsLink(es[s][i]),
         NEW t \in DOMAIN es, lev[t] = lev[s] - 1
  PROVE  path[t] # Below(path[s], lev[s], i)
<1>1. SUFFICES ASSUME path[t] = Below(path[s], lev[s], i) PROVE FALSE
  OBVIOUS
<1>2. lev[s] \in 1 .. (LEVELS - 1) /\ t # root
  BY Sizes DEF Tree, Placed
<1>3. PICK r \in DOMAIN es, j \in Entries :
        lev[r] > 0 /\ IsLink(es[r][j]) /\ es[r][j].frame = t
  BY <1>2 DEF Tree, LedTo
<1>4. lev[t] = lev[r] - 1 /\ path[t] = Below(path[r], lev[r], j)
  BY <1>3 DEF Tree, LeadsDown
<1>5. lev[r] = lev[s]
  BY <1>4, <1>2 DEF Tree, Placed
<1>6. path[r] = path[s] /\ i = j
  <2>1. /\ path[s] \in [(lev[s] + 1) .. (LEVELS - 1) -> Entries]
        /\ path[r] \in [(lev[s] + 1) .. (LEVELS - 1) -> Entries]
        /\ Below(path[s], lev[s], i) = Below(path[r], lev[s], j)
    BY <1>1, <1>4, <1>5 DEF Tree, Placed
  <2> QED BY <2>1, <1>2, BelowTells
<1>7. r = s
  BY <1>5, <1>6 DEF Tree, Unique
<1> QED BY <1>3, <1>6, <1>7

-----------------------------------------------------------------------------
(* Changes of the tables.                                                  *)
(* The function g and a value at f.                                        *)
With(g, f, y) == [x \in {f} \cup DOMAIN g |-> IF x = f THEN y ELSE g[x]]

(* The tables after a walk has made one.                                   *)
Grown(es, s, i, f) == WithNewTable(f, [es EXCEPT ![s][i] = ToTable(f)])

(* The tables g are the tables es but for a new one in frame f, which      *)
(* entry i of the table s leads to.                                        *)
GrownBy(g, es, s, i, f) ==
  /\ DOMAIN g = {f} \cup DOMAIN es
  /\ g[f] = EmptyTable /\ g[f] \in [Entries -> Entry]
  /\ \A j \in Entries : g[f][j] = Absent
  /\ \A t \in DOMAIN es \ {s} : g[t] = es[t]
  /\ g[s][i] = ToTable(f) /\ g[s] \in [Entries -> Entry]
  /\ \A j \in Entries \ {i} : g[s][j] = es[s][j]

(* A walk that finds no table makes one.                                   *)
LEMMA GrownTables ==
  ASSUME NEW es, NEW s \in DOMAIN es, NEW i \in Entries, NEW f \in Nat, f \notin DOMAIN es,
         \A t \in DOMAIN es : es[t] \in [Entries -> Entry]
  PROVE  GrownBy(Grown(es, s, i, f), es, s, i, f)
<1> DEFINE e == [es EXCEPT ![s][i] = ToTable(f)]
           g == Grown(es, s, i, f)
<1>1. DOMAIN e = DOMAIN es
  OBVIOUS
<1>2. g = [x \in {f} \cup DOMAIN es |-> IF x = f THEN EmptyTable ELSE e[x]]
  BY <1>1 DEF Grown, WithNewTable
<1>3. /\ \A t \in DOMAIN es \ {s} : e[t] = es[t]
      /\ e[s] = [es[s] EXCEPT ![i] = ToTable(f)]
  OBVIOUS
<1>4. /\ e[s][i] = ToTable(f) /\ e[s] \in [Entries -> Entry]
      /\ \A j \in Entries \ {i} : e[s][j] = es[s][j]
  <2>1. es[s] \in [Entries -> Entry] /\ ToTable(f) \in Entry
    BY EntryKinds
  <2> HIDE DEF e
  <2> QED BY <2>1, <1>3
<1>5. /\ EmptyTable \in [Entries -> Entry] /\ \A j \in Entries : EmptyTable[j] = Absent
  BY EntryKinds DEF EmptyTable, Entries
<1> HIDE DEF e, g
<1>6. DOMAIN g = {f} \cup DOMAIN es /\ g[f] = EmptyTable /\ \A t \in DOMAIN es : g[t] = e[t]
  BY <1>2
<1>7. GrownBy(g, es, s, i, f)
  BY <1>6, <1>5, <1>4, <1>3 DEF GrownBy
<1> QED BY <1>7 DEF g

(* The tree it leaves.                                                     *)
LEMMA TreeGrows ==
  ASSUME NEW es, NEW root, NEW lev, NEW path, Tree(es, root, lev, path),
         NEW s \in DOMAIN es, NEW i \in Entries, lev[s] > 0, ~es[s][i].present,
         NEW f \in Nat, f \notin DOMAIN es
  PROVE  Tree(Grown(es, s, i, f), root, With(lev, f, lev[s] - 1),
              With(path, f, Below(path[s], lev[s], i)))
<1> DEFINE g == Grown(es, s, i, f)
           l == With(lev, f, lev[s] - 1)
           p == With(path, f, Below(path[s], lev[s], i))
<1>1. /\ DOMAIN g = {f} \cup DOMAIN es
      /\ g[f] = EmptyTable /\ g[f] \in [Entries -> Entry]
      /\ \A j \in Entries : g[f][j] = Absent
      /\ \A t \in DOMAIN es \ {s} : g[t] = es[t]
      /\ g[s][i] = ToTable(f) /\ g[s] \in [Entries -> Entry]
      /\ \A j \in Entries \ {i} : g[s][j] = es[s][j]
  <2>1. \A t \in DOMAIN es : es[t] \in [Entries -> Entry]
    BY DEF Tree, Placed
  <2>2. GrownBy(g, es, s, i, f)
    BY <2>1, GrownTables
  <2> HIDE DEF g
  <2> QED BY <2>2 DEF GrownBy
<1>2. /\ DOMAIN l = {f} \cup DOMAIN es /\ l[f] = lev[s] - 1 /\ \A t \in DOMAIN es : l[t] = lev[t]
      /\ DOMAIN p = {f} \cup DOMAIN es /\ p[f] = Below(path[s], lev[s], i)
      /\ \A t \in DOMAIN es : p[t] = path[t]
  BY DEF With, Tree, Placed
<1> HIDE DEF g, l, p
<1>3. lev[s] \in 1 .. (LEVELS - 1) /\ lev[s] - 1 \in 0 .. (LEVELS - 1)
  BY Sizes DEF Tree, Placed
<1>4. Below(path[s], lev[s], i) \in [((lev[s] - 1) + 1) .. (LEVELS - 1) -> Entries]
  BY <1>3, BelowTyped DEF Tree, Placed
<1>5. Placed(g, root, l, p)
  <2>1. /\ \A t \in DOMAIN es : es[t] \in [Entries -> Entry]
        /\ \A t \in DOMAIN es :
             lev[t] \in 0 .. (LEVELS - 1) /\ path[t] \in [(lev[t] + 1) .. (LEVELS - 1) -> Entries]
        /\ root \in DOMAIN es /\ lev[root] = LEVELS - 1
    BY DEF Tree, Placed
  <2>2. ASSUME NEW t \in DOMAIN g
        PROVE  /\ g[t] \in [Entries -> Entry]
               /\ l[t] \in 0 .. (LEVELS - 1) /\ p[t] \in [(l[t] + 1) .. (LEVELS - 1) -> Entries]
    <3>1. CASE t = f
      BY <3>1, <1>1, <1>2, <1>3, <1>4
    <3>2. CASE t # f
      <4>1. t \in DOMAIN es /\ l[t] = lev[t] /\ p[t] = path[t]
        BY <3>2, <1>1, <1>2
      <4>2. g[t] \in [Entries -> Entry]
        BY <4>1, <1>1, <2>1
      <4> QED BY <4>1, <4>2, <2>1
    <3> QED BY <3>1, <3>2
  <2>3. root \in DOMAIN g /\ l[root] = LEVELS - 1 /\ DOMAIN l = DOMAIN g /\ DOMAIN p = DOMAIN g
    BY <2>1, <1>1, <1>2
  <2> QED BY <2>2, <2>3 DEF Placed
<1>6. Unique(g, l, p)
  <2> SUFFICES ASSUME NEW x \in DOMAIN g, NEW y \in DOMAIN g, l[x] = l[y], p[x] = p[y]
               PROVE  x = y
    BY DEF Unique
  <2>1. \A t \in DOMAIN es : lev[t] = lev[s] - 1 => path[t] # Below(path[s], lev[s], i)
    BY NothingBelow DEF IsLink
  <2> QED BY <1>1, <1>2, <2>1 DEF Tree, Unique
<1>7. LeadsDown(g, l, p)
  <2> SUFFICES ASSUME NEW t \in DOMAIN g, NEW j \in Entries, l[t] > 0, IsLink(g[t][j])
               PROVE  /\ g[t][j].frame \in DOMAIN g
                      /\ l[g[t][j].frame] = l[t] - 1
                      /\ p[g[t][j].frame] = Below(p[t], l[t], j)
    BY DEF LeadsDown
  <2>1. t # f
    BY <1>1, EntryKinds DEF IsLink
  <2>2. CASE t = s /\ j = i
    <3>1. g[t][j].frame = f
      BY <2>2, <1>1, EntryKinds
    <3> QED BY <3>1, <2>2, <1>1, <1>2
  <2>3. CASE ~(t = s /\ j = i)
    <3>1. t \in DOMAIN es /\ g[t][j] = es[t][j] /\ lev[t] > 0
      BY <2>1, <2>3, <1>1, <1>2
    <3>2. /\ es[t][j].frame \in DOMAIN es
          /\ lev[es[t][j].frame] = lev[t] - 1
          /\ path[es[t][j].frame] = Below(path[t], lev[t], j)
      BY <3>1 DEF Tree, LeadsDown
    <3> QED BY <3>1, <3>2, <1>1, <1>2
  <2> QED BY <2>2, <2>3
<1>8. LedTo(g, root, l)
  <2> SUFFICES ASSUME NEW t \in DOMAIN g, t # root
               PROVE  \E r \in DOMAIN g : \E j \in Entries :
                        l[r] > 0 /\ IsLink(g[r][j]) /\ g[r][j].frame = t
    BY DEF LedTo
  <2>1. CASE t = f
    BY <2>1, <1>1, <1>2, EntryKinds
  <2>2. CASE t # f
    <3>1. PICK r \in DOMAIN es, j \in Entries :
            lev[r] > 0 /\ IsLink(es[r][j]) /\ es[r][j].frame = t
      BY <2>2, <1>1 DEF Tree, LedTo
    <3>2. ~(r = s /\ j = i)
      BY <3>1 DEF IsLink
    <3>3. g[r][j] = es[r][j] /\ r \in DOMAIN g /\ l[r] = lev[r]
      BY <3>2, <1>1, <1>2
    <3> QED BY <3>1, <3>3
  <2> QED BY <2>1, <2>2
<1>9. Tree(g, root, l, p)
  BY <1>5, <1>6, <1>7, <1>8 DEF Tree
<1> QED BY <1>9 DEF g, l, p

(* The tables g are the tables es but for e at entry i of the table s.      *)
EditedBy(g, es, s, i, e) ==
  /\ DOMAIN g = DOMAIN es
  /\ \A t \in DOMAIN es \ {s} : g[t] = es[t]
  /\ g[s][i] = e /\ g[s] \in [Entries -> Entry]
  /\ \A j \in Entries \ {i} : g[s][j] = es[s][j]

(* A write to an entry.                                                    *)
LEMMA EditedTables ==
  ASSUME NEW es, NEW s \in DOMAIN es, NEW i \in Entries, NEW e \in Entry,
         \A t \in DOMAIN es : es[t] \in [Entries -> Entry]
  PROVE  EditedBy([es EXCEPT ![s][i] = e], es, s, i, e)
<1> DEFINE g == [es EXCEPT ![s][i] = e]
<1>1. /\ DOMAIN g = DOMAIN es
      /\ \A t \in DOMAIN es \ {s} : g[t] = es[t]
      /\ g[s] = [es[s] EXCEPT ![i] = e]
  OBVIOUS
<1>2. es[s] \in [Entries -> Entry]
  OBVIOUS
<1> HIDE DEF g
<1>3. EditedBy(g, es, s, i, e)
  BY <1>1, <1>2 DEF EditedBy
<1> QED BY <1>3 DEF g

(* Writing an entry that leads to no table, over one that leads to none,   *)
(* leaves the tree as it was.                                              *)
LEMMA TreeEdited ==
  ASSUME NEW es, NEW root, NEW lev, NEW path, Tree(es, root, lev, path),
         NEW s \in DOMAIN es, NEW i \in Entries, NEW e \in Entry,
         lev[s] = 0 \/ (~IsLink(es[s][i]) /\ ~IsLink(e))
  PROVE  Tree([es EXCEPT ![s][i] = e], root, lev, path)
<1> DEFINE g == [es EXCEPT ![s][i] = e]
<1>1. /\ DOMAIN g = DOMAIN es
      /\ \A t \in DOMAIN es \ {s} : g[t] = es[t]
      /\ g[s][i] = e /\ g[s] \in [Entries -> Entry]
      /\ \A j \in Entries \ {i} : g[s][j] = es[s][j]
  <2>1. \A t \in DOMAIN es : es[t] \in [Entries -> Entry]
    BY DEF Tree, Placed
  <2>2. EditedBy(g, es, s, i, e)
    BY <2>1, EditedTables
  <2> HIDE DEF g
  <2> QED BY <2>2 DEF EditedBy
<1> HIDE DEF g
<1>2. Placed(g, root, lev, path)
  BY <1>1 DEF Tree, Placed
<1>3. Unique(g, lev, path)
  BY <1>1 DEF Tree, Unique
<1>4. ASSUME NEW t \in DOMAIN es, NEW j \in Entries, lev[t] > 0
      PROVE  /\ IsLink(g[t][j]) <=> IsLink(es[t][j])
             /\ IsLink(g[t][j]) => g[t][j] = es[t][j]
  <2>1. CASE t = s /\ j = i
    BY <2>1, <1>1, <1>4
  <2>2. CASE ~(t = s /\ j = i)
    BY <2>2, <1>1
  <2> QED BY <2>1, <2>2
<1>5. LeadsDown(g, lev, path)
  BY <1>1, <1>4 DEF Tree, LeadsDown
<1>6. LedTo(g, root, lev)
  <2> SUFFICES ASSUME NEW t \in DOMAIN g, t # root
               PROVE  \E r \in DOMAIN g : \E j \in Entries :
                        lev[r] > 0 /\ IsLink(g[r][j]) /\ g[r][j].frame = t
    BY DEF LedTo
  <2>1. PICK r \in DOMAIN es, j \in Entries :
            lev[r] > 0 /\ IsLink(es[r][j]) /\ es[r][j].frame = t
    BY <1>1 DEF Tree, LedTo
  <2> QED BY <2>1, <1>1, <1>4
<1>7. Tree(g, root, lev, path)
  BY <1>2, <1>3, <1>5, <1>6 DEF Tree
<1> QED BY <1>7 DEF g

-----------------------------------------------------------------------------
(* The CPU's walk.                                                         *)
(* The entry that the CPU's walk for page v sees at level l.               *)
Seen(es, root, w, v, l) ==
  IF l = LEVELS - 1 THEN es[root][Index(v, l)]
  ELSE IF ~w[l + 1].present \/ w[l + 1].huge THEN w[l + 1]
  ELSE IF w[l + 1].frame \notin DOMAIN es THEN Absent
  ELSE es[w[l + 1].frame][Index(v, l)]
IsWalk(w, es, root, v, from) ==
  /\ w \in [from .. (LEVELS - 1) -> Entry]
  /\ \A l \in from .. (LEVELS - 1) : w[l] = Seen(es, root, w, v, l)

(* A walk sees an entry at every level.                                    *)
LEMMA WalkExists ==
  ASSUME NEW es, NEW root \in DOMAIN es, NEW v \in Nat,
         \A t \in DOMAIN es : es[t] \in [Entries -> Entry]
  PROVE  \E w : IsWalk(w, es, root, v, 0)
<1> DEFINE top == LEVELS - 1
           P == {l \in 0 .. top : \E w : IsWalk(w, es, root, v, l)}
<1>1. top \in Nat /\ 0 \in 0 .. top /\ top \in 0 .. top
  BY Sizes
<1>2. top \in P
  <2> DEFINE w == [l \in top .. top |-> es[root][Index(v, l)]]
  <2>1. \A l \in top .. top : l = top
    BY <1>1
  <2>2. es[root][Index(v, top)] \in Entry
    BY <1>1, IndexFact
  <2>3. IsWalk(w, es, root, v, top)
    BY <2>1, <2>2 DEF IsWalk, Seen
  <2> HIDE DEF w
  <2> QED BY <2>3, <1>1
<1>3. ASSUME NEW l \in 0 .. (top - 1), l + 1 \in P PROVE l \in P
  <2>1. PICK u : IsWalk(u, es, root, v, l + 1)
    BY <1>3
  <2> DEFINE e == Seen(es, root, u, v, l)
             w == [m \in l .. top |-> IF m = l THEN e ELSE u[m]]
  <2>2. /\ l + 1 \in (l + 1) .. top /\ l # top /\ l \in 0 .. top /\ l \in l .. top
        /\ \A m \in l .. top : m # l => m \in (l + 1) .. top
        /\ \A m \in (l + 1) .. top : m # l /\ m \in l .. top /\ (m # top => m + 1 \in (l + 1) .. top)
    BY <1>1
  <2>3. e \in Entry
    <3>1. u[l + 1] \in Entry
      BY <2>1, <2>2 DEF IsWalk
    <3>2. Index(v, l) \in Entries
      BY <2>2, IndexFact
    <3> QED BY <3>1, <3>2, <2>2, EntryKinds DEF Seen
  <2> HIDE DEF e
  <2>4. w \in [l .. top -> Entry]
    BY <2>1, <2>2, <2>3 DEF IsWalk
  <2>5. /\ w[l] = e /\ \A m \in (l + 1) .. top : w[m] = u[m]
    BY <2>2
  <2> HIDE DEF w
  <2>6. w[l] = Seen(es, root, w, v, l)
    BY <2>2, <2>5 DEF Seen, e
  <2>7. ASSUME NEW m \in (l + 1) .. top PROVE w[m] = Seen(es, root, w, v, m)
    <3>1. u[m] = Seen(es, root, u, v, m)
      BY <2>1 DEF IsWalk
    <3>2. Seen(es, root, u, v, m) = Seen(es, root, w, v, m)
      BY <2>2, <2>5 DEF Seen
    <3> QED BY <3>1, <3>2, <2>5
  <2>8. IsWalk(w, es, root, v, l)
    BY <2>2, <2>4, <2>6, <2>7 DEF IsWalk
  <2> QED BY <2>2, <2>8
<1>4. P = 0 .. top
  <2>1. P \in SUBSET (0 .. top)
    OBVIOUS
  <2> HIDE DEF P, top
  <2> QED BY <2>1, <1>1, <1>2, <1>3, DownEveryLevel
<1> HIDE DEF top
<1> QED BY <1>1, <1>4

(* The walk of the model is one.                                           *)
LEMMA WalkOfIsWalk ==
  ASSUME NEW v \in Nat, pml4 \in DOMAIN entries,
         \A t \in DOMAIN entries : entries[t] \in [Entries -> Entry]
  PROVE  \E w : IsWalk(w, entries, pml4, v, 0) /\ WalkOf(v) = w[0]
<1> DEFINE Fix(w) ==
      w = [l \in 0 .. (LEVELS - 1) |->
             IF l = LEVELS - 1 THEN entries[pml4][Index(v, l)]
             ELSE IF ~w[l + 1].present \/ w[l + 1].huge THEN w[l + 1]
             ELSE IF w[l + 1].frame \notin DOMAIN entries THEN Absent
             ELSE entries[w[l + 1].frame][Index(v, l)]]
           at == CHOOSE w : Fix(w)
<1>1. PICK u : IsWalk(u, entries, pml4, v, 0)
  BY WalkExists
<1>2. Fix(u)
  <2>1. u = [l \in 0 .. (LEVELS - 1) |-> u[l]]
    BY <1>1 DEF IsWalk
  <2> QED BY <2>1, <1>1 DEF IsWalk, Seen
<1>3. Fix(at)
  <2> HIDE DEF Fix
  <2> QED BY <1>2
<1>4. WalkOf(v) = at[0]
  BY DEF WalkOf
<1> HIDE DEF at
<1>5. DOMAIN at = 0 .. (LEVELS - 1) /\ at = [l \in 0 .. (LEVELS - 1) |-> at[l]]
      /\ \A l \in 0 .. (LEVELS - 1) : at[l] = Seen(entries, pml4, at, v, l)
  BY <1>3 DEF Seen
<1> HIDE DEF Fix
<1> DEFINE top == LEVELS - 1
           P == {l \in 0 .. top : at[l] = u[l]}
<1>6. P = 0 .. top
  <2>1. P \in SUBSET (0 .. top) /\ top \in Nat
    BY Sizes
  <2>2. top \in P
    <3>1. top \in 0 .. top /\ top = LEVELS - 1
      BY <2>1
    <3>2. at[top] = Seen(entries, pml4, at, v, top) /\ u[top] = Seen(entries, pml4, u, v, top)
      BY <3>1, <1>1, <1>5 DEF IsWalk
    <3> HIDE DEF top
    <3> QED BY <3>1, <3>2 DEF Seen
  <2>3. ASSUME NEW l \in 0 .. (top - 1), l + 1 \in P PROVE l \in P
    <3>1. l \in 0 .. top /\ l # top
      BY <2>1
    <3>2. at[l + 1] = u[l + 1]
      BY <2>3
    <3>3. Seen(entries, pml4, at, v, l) = Seen(entries, pml4, u, v, l)
      BY <3>1, <3>2 DEF Seen
    <3> QED BY <3>1, <3>3, <1>1, <1>5 DEF IsWalk
  <2> HIDE DEF P, top
  <2> QED BY <2>1, <2>2, <2>3, DownEveryLevel
<1>7. IsWalk(at, entries, pml4, v, 0)
  <2>1. \A l \in 0 .. top : at[l] = u[l]
    BY <1>6
  <2>2. at \in [0 .. top -> Entry]
    BY <1>1, <1>5, <2>1 DEF IsWalk
  <2> QED BY <2>2, <1>5 DEF IsWalk
<1> QED BY <1>4, <1>7

(* Table t is on the way of page v.                                        *)
OnWay(lev, path, t, v) == path[t] = Path(v, lev[t])

(* What leads to a table on the way of a page is the page's entry of a     *)
(* table on its way.                                                       *)
LEMMA ParentOnWay ==
  ASSUME NEW es, NEW root, NEW lev, NEW path, Tree(es, root, lev, path), NEW v \in Nat,
         NEW t \in DOMAIN es, t # root, OnWay(lev, path, t, v)
  PROVE  \E s \in DOMAIN es :
           /\ lev[s] = lev[t] + 1 /\ OnWay(lev, path, s, v)
           /\ IsLink(es[s][Index(v, lev[s])]) /\ es[s][Index(v, lev[s])].frame = t
<1>1. PICK s \in DOMAIN es, j \in Entries :
        lev[s] > 0 /\ IsLink(es[s][j]) /\ es[s][j].frame = t
  BY DEF Tree, LedTo
<1>2. lev[t] = lev[s] - 1 /\ path[t] = Below(path[s], lev[s], j)
  BY <1>1 DEF Tree, LeadsDown
<1> DEFINE l == lev[s]
<1>3. l \in 1 .. (LEVELS - 1) /\ lev[t] + 1 = l /\ l \in 0 .. (LEVELS - 1)
  BY <1>1, <1>2, Sizes DEF Tree, Placed
<1>4. Path(v, l - 1) = Below(Path(v, l), l, Index(v, l))
  BY <1>3, PathDown
<1>5. Below(path[s], l, j) = Below(Path(v, l), l, Index(v, l))
  BY <1>2, <1>4 DEF OnWay
<1>6. path[s] = Path(v, l) /\ j = Index(v, l)
  <2>1. path[s] \in [(l + 1) .. (LEVELS - 1) -> Entries]
    BY DEF Tree, Placed
  <2>2. Index(v, l) \in Entries
    BY <1>3, IndexFact
  <2>3. Path(v, l) \in [(l + 1) .. (LEVELS - 1) -> Entries]
    <3>1. \A m \in (l + 1) .. (LEVELS - 1) : m \in 0 .. (LEVELS - 1)
      BY <1>3
    <3>2. \A m \in (l + 1) .. (LEVELS - 1) : Index(v, m) \in Entries
      BY <3>1, IndexFact
    <3> QED BY <3>2 DEF Path
  <2> HIDE DEF l
  <2> QED BY <2>1, <2>2, <2>3, <1>3, <1>5, BelowTells
<1> QED BY <1>1, <1>3, <1>6 DEF OnWay

(* The CPU's walk for a page goes through every table on its way.          *)
LEMMA WalkSees ==
  ASSUME NEW es, NEW root, NEW lev, NEW path, Tree(es, root, lev, path), NEW v \in Nat,
         NEW w, IsWalk(w, es, root, v, 0), NEW t \in DOMAIN es, OnWay(lev, path, t, v)
  PROVE  w[lev[t]] = es[t][Index(v, lev[t])]
<1> DEFINE top == LEVELS - 1
           P == {l \in 0 .. top : \A x \in DOMAIN es :
                   lev[x] = l /\ OnWay(lev, path, x, v) => w[l] = es[x][Index(v, l)]}
<1>1. top \in Nat /\ top \in 0 .. top
  BY Sizes
<1>2. top \in P
  <2> SUFFICES ASSUME NEW x \in DOMAIN es, lev[x] = top, OnWay(lev, path, x, v)
               PROVE  w[top] = es[x][Index(v, top)]
    BY <1>1
  <2>1. root \in DOMAIN es /\ lev[root] = top /\ path[root] = Path(v, top)
    BY PathOfRoot DEF Tree, Placed
  <2>2. x = root
    BY <2>1 DEF OnWay, Tree, Unique
  <2> QED BY <2>2, <1>1 DEF IsWalk, Seen
<1>3. ASSUME NEW l \in 0 .. (top - 1), l + 1 \in P PROVE l \in P
  <2>1. l \in 0 .. top /\ l # top
    BY <1>1
  <2> SUFFICES ASSUME NEW x \in DOMAIN es, lev[x] = l, OnWay(lev, path, x, v)
               PROVE  w[l] = es[x][Index(v, l)]
    BY <2>1
  <2>2. x # root
    BY <2>1 DEF Tree, Placed
  <2>3. PICK s \in DOMAIN es :
           /\ lev[s] = l + 1 /\ OnWay(lev, path, s, v)
           /\ IsLink(es[s][Index(v, l + 1)]) /\ es[s][Index(v, l + 1)].frame = x
    BY <2>2, ParentOnWay
  <2>4. w[l + 1] = es[s][Index(v, l + 1)]
    BY <1>3, <2>3
  <2>5. w[l] = Seen(es, root, w, v, l)
    BY <2>1 DEF IsWalk
  <2> QED BY <2>1, <2>3, <2>4, <2>5 DEF Seen, IsLink
<1>4. P = 0 .. top
  <2>1. P \in SUBSET (0 .. top)
    OBVIOUS
  <2> HIDE DEF P, top
  <2> QED BY <2>1, <1>1, <1>2, <1>3, DownEveryLevel
<1>5. lev[t] \in 0 .. top
  BY DEF Tree, Placed
<1> QED BY <1>4, <1>5

(* Where it ends when it meets an entry that leads to no table ...         *)
LEMMA WalkEnds ==
  ASSUME NEW es, NEW root, NEW lev, NEW path, Tree(es, root, lev, path), NEW v \in Nat,
         NEW w, IsWalk(w, es, root, v, 0), NEW t \in DOMAIN es, OnWay(lev, path, t, v),
         lev[t] = 0 \/ ~IsLink(es[t][Index(v, lev[t])])
  PROVE  w[0] = es[t][Index(v, lev[t])]
<1> DEFINE top == lev[t]
           P == {l \in 0 .. top : w[l] = w[top]}
<1>1. top \in Nat /\ top \in 0 .. (LEVELS - 1) /\ top \in 0 .. top /\ 0 \in 0 .. top
  BY Sizes DEF Tree, Placed
<1>2. w[top] = es[t][Index(v, top)]
  BY WalkSees
<1>3. ASSUME NEW l \in 0 .. (top - 1), l + 1 \in P PROVE l \in P
  <2>1. l \in 0 .. (LEVELS - 1) /\ l # LEVELS - 1 /\ top # 0 /\ l \in 0 .. top
    <3> HIDE DEF top, P
    <3> QED BY <1>1, Sizes
  <2>2. ~w[l + 1].present \/ w[l + 1].huge
    BY <1>3, <1>2, <2>1 DEF IsLink
  <2>3. w[l] = Seen(es, root, w, v, l)
    BY <2>1 DEF IsWalk
  <2>4. w[l] = w[l + 1]
    BY <2>1, <2>2, <2>3 DEF Seen
  <2> QED BY <2>1, <2>4, <1>3
<1>4. P = 0 .. top
  <2>1. P \in SUBSET (0 .. top) /\ top \in P
    BY <1>1
  <2> HIDE DEF P, top
  <2> QED BY <2>1, <1>1, <1>3, DownEveryLevel
<1>5. w[0] = w[top]
  BY <1>1, <1>4
<1> QED BY <1>2, <1>5

(* ... and what it has seen if it ends at an entry that is present.        *)
LEMMA WalkFinds ==
  ASSUME NEW es, NEW root, NEW lev, NEW path, Tree(es, root, lev, path), NEW v \in Nat,
         NEW w, IsWalk(w, es, root, v, 0), w[0].present
  PROVE  \E t \in DOMAIN es : /\ OnWay(lev, path, t, v)
                              /\ w[0] = es[t][Index(v, lev[t])]
                              /\ lev[t] = 0 \/ w[0].huge
<1> DEFINE top == LEVELS - 1
           Found(l) == \E t \in DOMAIN es : /\ OnWay(lev, path, t, v)
                                            /\ w[l] = es[t][Index(v, lev[t])]
                                            /\ lev[t] = l \/ w[l].huge
           P == {l \in 0 .. top : w[l].present => Found(l)}
<1>1. top \in Nat /\ top \in 0 .. top /\ 0 \in 0 .. top
  BY Sizes
<1>2. top \in P
  <2>1. root \in DOMAIN es /\ lev[root] = top /\ OnWay(lev, path, root, v)
    BY PathOfRoot DEF Tree, Placed, OnWay
  <2>2. w[top] = es[root][Index(v, top)]
    BY <2>1, WalkSees
  <2> HIDE DEF top
  <2> QED BY <2>1, <2>2, <1>1
<1>3. ASSUME NEW l \in 0 .. (top - 1), l + 1 \in P PROVE l \in P
  <2>1. l \in 0 .. top /\ l # top /\ l + 1 \in 0 .. top
    BY <1>1
  <2>2. w[l] = Seen(es, root, w, v, l) /\ w[l + 1] \in Entry
    BY <2>1 DEF IsWalk
  <2> SUFFICES ASSUME w[l].present PROVE Found(l)
    BY <2>1
  <2>3. CASE ~w[l + 1].present \/ w[l + 1].huge
    <3>1. w[l] = w[l + 1]
      BY <2>1, <2>2, <2>3 DEF Seen
    <3>2. w[l].huge /\ Found(l + 1)
      BY <3>1, <2>3, <1>3
    <3> QED BY <3>1, <3>2
  <2>4. CASE IsLink(w[l + 1])
    <3>1. PICK t \in DOMAIN es : /\ OnWay(lev, path, t, v)
                                 /\ w[l + 1] = es[t][Index(v, lev[t])]
                                 /\ lev[t] = l + 1
      BY <2>4, <1>3 DEF IsLink
    <3> DEFINE x == w[l + 1].frame
    <3>2. Index(v, l + 1) \in Entries
      BY <2>1, IndexFact
    <3>3. /\ x \in DOMAIN es /\ lev[x] = (l + 1) - 1
          /\ path[x] = Below(path[t], l + 1, Index(v, l + 1))
      BY <3>1, <3>2, <2>4 DEF Tree, LeadsDown
    <3>4. lev[x] = l
      BY <3>3
    <3>5. path[x] = Path(v, l)
      <4>1. l + 1 \in 1 .. (LEVELS - 1) /\ (l + 1) - 1 = l
        BY <2>1, <1>1
      <4>2. Path(v, (l + 1) - 1) = Below(Path(v, l + 1), l + 1, Index(v, l + 1))
        BY <4>1, PathDown
      <4> QED BY <4>1, <4>2, <3>1, <3>3 DEF OnWay
    <3>6. w[l] = es[x][Index(v, l)]
      BY <3>3, <2>1, <2>2, <2>4 DEF Seen, IsLink
    <3> QED BY <3>3, <3>4, <3>5, <3>6 DEF OnWay
  <2> QED BY <2>3, <2>4 DEF IsLink
<1>4. P = 0 .. top
  <2>1. P \in SUBSET (0 .. top)
    OBVIOUS
  <2> HIDE DEF P, top
  <2> QED BY <2>1, <1>1, <1>2, <1>3, DownEveryLevel
<1>5. Found(0)
  BY <1>1, <1>4
<1> QED BY <1>5

-----------------------------------------------------------------------------
(* What the code and the properties compute from the tables.               *)
(* The page directory that vmm_reset_heap finds without testing a present  *)
(* bit is the one on the way of the page, if there is one.                 *)
LEMMA PdFact ==
  ASSUME NEW lev, NEW path, Tree(entries, pml4, lev, path), addr \in Nat,
         NEW t \in DOMAIN entries, lev[t] = 1, OnWay(lev, path, t, addr)
  PROVE  pd = t
<1> DEFINE top == LEVELS - 1
           Spot(l, x) == x \in DOMAIN entries /\ lev[x] = l /\ OnWay(lev, path, x, addr)
           P == {l \in 1 .. top : \E x : Spot(l, x)}
           Fix(w) == w = [l \in 1 .. top |->
                            IF l = top THEN pml4
                            ELSE entries[w[l + 1]][Index(addr, l + 1)].frame]
           down == CHOOSE w : Fix(w)
           u == [l \in 1 .. top |-> CHOOSE x : Spot(l, x)]
<1>1. top \in Nat /\ 1 \in 1 .. top /\ top \in 1 .. top
  BY Sizes
<1>2. \A l \in 1 .. top : \A x, y : Spot(l, x) /\ Spot(l, y) => x = y
  BY DEF Tree, Unique, OnWay
<1>3. Spot(1, t)
  OBVIOUS
<1>4. ASSUME NEW l \in 1 .. (top - 1), NEW x, Spot(l, x)
      PROVE  \E s : Spot(l + 1, s) /\ entries[s][Index(addr, l + 1)].frame = x
  <2>1. x # pml4
    BY <1>4, Sizes DEF Tree, Placed
  <2> QED BY <2>1, <1>4, ParentOnWay
<1>5. P = 1 .. top
  <2>1. P \in SUBSET (1 .. top) /\ 1 \in Nat
    OBVIOUS
  <2>2. 1 \in P
    BY <1>1, <1>3
  <2>3. ASSUME NEW l \in 1 .. (top - 1), l \in P PROVE l + 1 \in P
    <3>1. l + 1 \in 1 .. top
      BY <1>1
    <3> HIDE DEF Spot, top
    <3> QED BY <2>3, <3>1, <1>4
  <2> HIDE DEF P, top
  <2> QED BY <2>1, <2>2, <2>3, <1>1, UpEveryLevel
<1>6. \A l \in 1 .. top : Spot(l, u[l])
  <2> HIDE DEF Spot
  <2> QED BY <1>5
<1>7. u[1] = t
  BY <1>1, <1>2, <1>3, <1>6
<1>8. u[top] = pml4
  <2>1. Spot(top, pml4)
    BY PathOfRoot DEF Tree, Placed, OnWay
  <2> QED BY <2>1, <1>1, <1>2, <1>6
<1> HIDE DEF u
<1>9. ASSUME NEW l \in 1 .. (top - 1)
      PROVE  u[l] = entries[u[l + 1]][Index(addr, l + 1)].frame
  <2>1. l \in 1 .. top /\ l + 1 \in 1 .. top
    BY <1>1
  <2>2. PICK s : Spot(l + 1, s) /\ entries[s][Index(addr, l + 1)].frame = u[l]
    <3> HIDE DEF Spot
    <3> QED BY <2>1, <1>4, <1>6
  <2>3. s = u[l + 1]
    BY <2>1, <2>2, <1>2, <1>6
  <2> QED BY <2>2, <2>3
<1>10. Fix(u)
  <2>1. u = [l \in 1 .. top |-> u[l]]
    BY DEF u
  <2>2. \A l \in 1 .. top : l # top => l \in 1 .. (top - 1)
    BY <1>1
  <2> HIDE DEF top
  <2> QED BY <2>1, <2>2, <1>8, <1>9
<1>11. Fix(down)
  <2> HIDE DEF Fix
  <2> QED BY <1>10
<1>12. pd = down[1]
  BY DEF pd
<1> HIDE DEF down
<1>13. \A l \in 1 .. top : down[l] = IF l = top THEN pml4
                                     ELSE entries[down[l + 1]][Index(addr, l + 1)].frame
  BY <1>11
<1> HIDE DEF Fix, Spot
<1> DEFINE Q == {l \in 1 .. top : down[l] = u[l]}
<1>14. Q = 1 .. top
  <2>1. Q \in SUBSET (1 .. top) /\ 1 \in Nat
    OBVIOUS
  <2>2. top \in Q
    <3> HIDE DEF top
    <3> QED BY <1>1, <1>8, <1>13
  <2>3. ASSUME NEW l \in 1 .. (top - 1), l + 1 \in Q PROVE l \in Q
    <3>1. l \in 1 .. top /\ l # top
      BY <1>1
    <3> HIDE DEF top
    <3> QED BY <2>3, <3>1, <1>9, <1>13
  <2> HIDE DEF Q, top
  <2> QED BY <2>1, <2>2, <2>3, <1>1, DownEveryLevel
<1>15. down[1] = u[1]
  <2> HIDE DEF top
  <2> QED BY <1>1, <1>14
<1> QED BY <1>7, <1>12, <1>15

(* The tables reached from the root are the tables of each level.          *)
LEMMA TablesAtFact ==
  ASSUME NEW lev, NEW path, Tree(entries, pml4, lev, path)
  PROVE  \A l \in 0 .. (LEVELS - 1) : TablesAt[l] = {t \in DOMAIN entries : lev[t] = l}
<1> DEFINE top == LEVELS - 1
           Linked(S) == {e.frame : e \in {x \in UNION {{entries[t][i] : i \in 0 .. (ENTRIES - 1)} : t \in S} :
                                            x.present /\ ~x.huge}}
           Fix(w) == w = [l \in 0 .. top |-> IF l = top THEN {pml4} ELSE Linked(w[l + 1])]
           at == CHOOSE w : Fix(w)
           u == [l \in 0 .. top |-> {t \in DOMAIN entries : lev[t] = l}]
<1>1. top \in Nat /\ top \in 0 .. top
  BY Sizes
<1>2. u[top] = {pml4}
  <2>1. \A t \in DOMAIN entries : lev[t] = top => t = pml4
    <3> SUFFICES ASSUME NEW t \in DOMAIN entries, lev[t] = top, t # pml4 PROVE FALSE
      OBVIOUS
    <3>1. PICK s \in DOMAIN entries, i \in Entries :
            lev[s] > 0 /\ IsLink(entries[s][i]) /\ entries[s][i].frame = t
      BY DEF Tree, LedTo
    <3>2. lev[t] = lev[s] - 1 /\ lev[s] \in 0 .. top
      BY <3>1 DEF Tree, LeadsDown, Placed
    <3> QED BY <3>2, <1>1
  <2>2. pml4 \in DOMAIN entries /\ lev[pml4] = top
    BY DEF Tree, Placed
  <2> QED BY <2>1, <2>2, <1>1
<1>3. ASSUME NEW l \in 0 .. (top - 1) PROVE u[l] = Linked(u[l + 1])
  <2>1. l \in 0 .. top /\ l + 1 \in 0 .. top /\ l # top /\ l + 1 > 0 /\ (l + 1) - 1 = l
    BY <1>1
  <2>2. u[l] = {t \in DOMAIN entries : lev[t] = l} /\ u[l + 1] = {t \in DOMAIN entries : lev[t] = l + 1}
    BY <2>1
  <2> HIDE DEF u
  <2>3. ASSUME NEW t \in u[l] PROVE t \in Linked(u[l + 1])
    <3>1. t # pml4
      BY <2>1, <2>2 DEF Tree, Placed
    <3>2. PICK s \in DOMAIN entries, i \in Entries :
            lev[s] > 0 /\ IsLink(entries[s][i]) /\ entries[s][i].frame = t
      BY <2>2, <3>1 DEF Tree, LedTo
    <3>3. lev[t] = lev[s] - 1 /\ lev[s] \in Nat
      BY <3>2 DEF Tree, LeadsDown, Placed
    <3>4. s \in u[l + 1]
      BY <2>1, <2>2, <3>3
    <3> QED BY <3>2, <3>4 DEF IsLink, Entries
  <2>4. ASSUME NEW f \in Linked(u[l + 1]) PROVE f \in u[l]
    <3>1. PICK s \in u[l + 1], i \in Entries : IsLink(entries[s][i]) /\ entries[s][i].frame = f
      BY DEF IsLink, Entries
    <3>2. f \in DOMAIN entries /\ lev[f] = l
      BY <3>1, <2>1, <2>2 DEF Tree, LeadsDown
    <3> QED BY <3>2, <2>2
  <2> HIDE DEF Linked
  <2> QED BY <2>3, <2>4
<1> HIDE DEF Linked
<1>4. Fix(u)
  <2>1. u = [l \in 0 .. top |-> u[l]]
    OBVIOUS
  <2>2. \A l \in 0 .. top : l # top => l \in 0 .. (top - 1)
    BY <1>1
  <2> HIDE DEF top, u
  <2> QED BY <2>1, <2>2, <1>2, <1>3
<1>5. Fix(at)
  <2> HIDE DEF Fix
  <2> QED BY <1>4
<1>6. TablesAt = at
  BY DEF TablesAt, Linked
<1> HIDE DEF at
<1>7. \A l \in 0 .. top : at[l] = IF l = top THEN {pml4} ELSE Linked(at[l + 1])
  BY <1>5
<1>8. \A l \in 0 .. top : u[l] = {t \in DOMAIN entries : lev[t] = l}
  OBVIOUS
<1> HIDE DEF Fix, u
<1> DEFINE Q == {l \in 0 .. top : at[l] = u[l]}
<1>9. Q = 0 .. top
  <2>1. Q \in SUBSET (0 .. top)
    OBVIOUS
  <2>2. top \in Q
    <3> HIDE DEF top
    <3> QED BY <1>1, <1>2, <1>7
  <2>3. ASSUME NEW l \in 0 .. (top - 1), l + 1 \in Q PROVE l \in Q
    <3>1. l \in 0 .. top /\ l # top
      BY <1>1
    <3> HIDE DEF top
    <3> QED BY <2>3, <3>1, <1>3, <1>7
  <2> HIDE DEF Q, top
  <2> QED BY <2>1, <2>2, <2>3, <1>1, DownEveryLevel
<1> QED BY <1>6, <1>8, <1>9

-----------------------------------------------------------------------------
(* The invariant.                                                          *)
(* Pages of the heap that are mapped: all below its end, but those that    *)
(* vmm_reset_heap has given back.                                          *)
Live == {v \in HeapVirts : v < next_virt_addr /\ (phase = "reset" => v >= addr)}

MidWalk == level < LEVELS
BootPhases == {"prep", "vmm_init", "mmio", "buffers", "api"}
MappingPhases == {"vmm_init", "mmio", "api"}
Phases == BootPhases \cup {"polling", "payload", "executing", "workload", "reset"}
HeapEnds == {HEAP_START + n * HugeFrames : n \in 0 .. MaxHeap}

(* Where the kernel is.                                                    *)
Stage ==
  /\ phase \in Phases /\ nic \in {"i219", "rtl8139"}
  /\ level \in 0 .. LEVELS
  /\ offset \in Nat /\ left \in Nat
  /\ next_virt_addr \in HeapEnds /\ addr \in HeapEnds
  /\ phase \in BootPhases => next_virt_addr = HEAP_START
  /\ phase = "prep" => entries = <<>> /\ offset = 0 /\ level = LEVELS
  /\ InHeapCall => next_virt_addr + left * HugeFrames <= HEAP_START + MaxHeap * HugeFrames

(* The calls of vmm_map_range it has yet to make.                          *)
Calls ==
  /\ calls \in Seq(BootRanges)
  /\ phase \notin MappingPhases => calls = <<>>
  /\ phase = "vmm_init" =>
       /\ Len(calls) <= Len(InitRanges)
       /\ \A i \in 1 .. Len(calls) : calls[i] = InitRanges[Len(InitRanges) - Len(calls) + i]

(* A walk is for a page that is to be mapped, and where it should be.      *)
Walking(lev, path) ==
  MidWalk =>
    /\ level >= Bottom
    /\ \/ InHeapCall /\ left > 0
       \/ phase \in MappingPhases /\ calls # <<>> /\ offset < Head(calls).pages
    /\ table \in DOMAIN entries /\ lev[table] = level /\ OnWay(lev, path, table, Virt)

(* Frames taken singly are tables or receive buffers.                      *)
Owned == frames = DOMAIN entries \cup rx /\ DOMAIN entries \cap rx = {}

(* The 2mb pages hp backs the heap with are in the tables, at level 1, and *)
(* nothing else of the kind is; and no table of 4kb pages is in their way. *)
Backed(es, lev, path, hp, live) ==
  \A v \in live : \E t \in DOMAIN es :
    lev[t] = 1 /\ path[t] = Path(v, 1) /\ es[t][Index(v, 1)] = ToHugePage(hp[v])
OnlyBacked(es, lev, path, live) ==
  \A t \in DOMAIN es : \A i \in Entries :
    es[t][i].huge => lev[t] = 1 /\ \E v \in live : path[t] = Path(v, 1) /\ i = Index(v, 1)
Spared(es, lev, path) ==
  \A t \in DOMAIN es : lev[t] = 0 => \A v \in HeapVirts : path[t] # Slot(v)
HeapTables(es, lev, path, hp, live) ==
  /\ Backed(es, lev, path, hp, live)
  /\ OnlyBacked(es, lev, path, live)
  /\ Spared(es, lev, path)

(* They are the 2mb pages held, with the one a walk is to enter.           *)
Taken == IF InHeapCall /\ MidWalk THEN {phys} ELSE {}
HeapFrames(hp) ==
  /\ \A v, w \in Live : hp[v] = hp[w] => v = w
  /\ huges = {hp[v] : v \in Live} \cup Taken
  /\ \A v \in Live : hp[v] \notin Taken

(* The CPU has cached no other translations of heap pages.                 *)
Cached(hp) ==
  /\ DOMAIN tlb = HeapVirts
  /\ \A v \in HeapVirts : tlb[v] # 0 => v \in Live /\ tlb[v] = hp[v]

(* Pages of vmm_init's calls that are mapped already, by call and number,  *)
(* and that they are, to what the call says.                               *)
Done ==
  {call \in (DOMAIN InitRanges) \X Nat :
     /\ phase # "prep"
     /\ call[2] < InitRanges[call[1]].pages
     /\ phase = "vmm_init" =>
          \/ call[1] <= Len(InitRanges) - Len(calls)
          \/ call[1] = Len(InitRanges) - Len(calls) + 1 /\ call[2] < offset}
Entered(es, lev, path, done) ==
  \A call \in done :
    LET v == InitRanges[call[1]].virt + call[2]
    IN  \E t \in DOMAIN es : /\ lev[t] = 0 /\ path[t] = Slot(v)
                             /\ es[t][Index(v, 0)] = ToTable(InitRanges[call[1]].frame + call[2])

(* The pages that vmm_init maps, and the places in the tree of the tables  *)
(* it needs for them: the root, and what is on the way to such a page.     *)
BootPages ==
  UNION {{InitRanges[i].virt + n : n \in 0 .. (InitRanges[i].pages - 1)} : i \in DOMAIN InitRanges}
PlacesNeeded ==
  {<<l, Path(v, l)>> : l \in 0 .. (LEVELS - 1), v \in BootPages}
    \cup {<<LEVELS - 1, Path(0, LEVELS - 1)>>}

(* vmm_init makes no other tables.                                         *)
Needed(es, lev, path) ==
  phase = "vmm_init" => \A t \in DOMAIN es : <<lev[t], path[t]>> \in PlacesNeeded

(* The invariant: levels, paths and heap pages there are.                  *)
Tables(lev, path, hp) ==
  phase # "prep" =>
    /\ Needed(entries, lev, path)
    /\ Tree(entries, pml4, lev, path)
    /\ HeapTables(entries, lev, path, hp, Live)
    /\ Entered(entries, lev, path, Done)
    /\ Walking(lev, path)
Sound(lev, path, hp) == Tables(lev, path, hp) /\ HeapFrames(hp) /\ Cached(hp)
VInv == IInv /\ Stage /\ Calls /\ Owned /\ \E lev, path, hp : Sound(lev, path, hp)

-----------------------------------------------------------------------------
(* What the invariant says of the properties.                              *)

(* Pages of the heap are huge pages of the address space.                  *)
LEMMA HeapVirtFact ==
  ASSUME NEW v \in HeapVirts
  PROVE  v \in Nat /\ v >= HEAP_START /\ v % HugeFrames = 0
<1>1. PICK i \in 0 .. (MaxHeap - 1) : v = HEAP_START + i * HugeFrames
  BY DEF HeapVirts
<1>2. i \in Nat /\ HugeFrames \in Nat \ {0} /\ HEAP_START \in Nat /\ HEAP_START % HugeFrames = 0
  BY Sizes, Geometry
<1> DEFINE q == HEAP_START \div HugeFrames
<1>3. HEAP_START = HugeFrames * q + 0 /\ q \in Nat
  BY <1>2, DivMod, DivNat
<1> HIDE DEF q
<1>4. v = (q + i) * HugeFrames + 0
  <2> HIDE DEF HugeFrames
  <2> QED BY <1>1, <1>2, <1>3
<1>5. (q + i) \in Int /\ 0 \in 0 .. (HugeFrames - 1)
  BY <1>2, <1>3
<1>6. v % HugeFrames = 0
  <2> HIDE DEF HugeFrames
  <2> QED BY <1>2, <1>4, <1>5, DivModOf
<1>7. i * HugeFrames \in Nat
  <2> HIDE DEF HugeFrames
  <2> QED BY <1>2
<1> QED BY <1>1, <1>2, <1>6, <1>7

(* The same of the ends the heap can have.                                 *)
LEMMA HeapEndFact ==
  ASSUME NEW v \in HeapEnds
  PROVE  /\ v \in Nat /\ v >= HEAP_START /\ v % HugeFrames = 0
         /\ v <= HEAP_START + MaxHeap * HugeFrames
<1>1. PICK i \in 0 .. MaxHeap : v = HEAP_START + i * HugeFrames
  BY DEF HeapEnds
<1>2. i \in Nat /\ HugeFrames \in Nat \ {0} /\ HEAP_START \in Nat /\ HEAP_START % HugeFrames = 0
      /\ MaxHeap \in Nat /\ i <= MaxHeap
  BY Sizes, Geometry
<1> DEFINE q == HEAP_START \div HugeFrames
<1>3. HEAP_START = HugeFrames * q + 0 /\ q \in Nat
  BY <1>2, DivMod, DivNat
<1> HIDE DEF q
<1>4. v = (q + i) * HugeFrames + 0
  <2> HIDE DEF HugeFrames
  <2> QED BY <1>1, <1>2, <1>3
<1>5. (q + i) \in Int /\ 0 \in 0 .. (HugeFrames - 1)
  BY <1>2, <1>3
<1>6. v % HugeFrames = 0
  <2> HIDE DEF HugeFrames
  <2> QED BY <1>2, <1>4, <1>5, DivModOf
<1>7. i * HugeFrames \in Nat /\ i * HugeFrames <= MaxHeap * HugeFrames
  <2> HIDE DEF HugeFrames
  <2> QED BY <1>2
<1> QED BY <1>1, <1>2, <1>6, <1>7

(* A page of the heap that is live is mapped to its frame.                 *)
LEMMA LiveIsMapped ==
  ASSUME NEW lev, NEW path, NEW hp, Sound(lev, path, hp), phase # "prep", NEW v \in Live,
         hp[v] \in Nat
  PROVE  /\ WalkOf(v) = ToHugePage(hp[v]) /\ WalkOf(v).present /\ WalkOf(v).huge
         /\ Translate(v) = hp[v]
<1>1. Tree(entries, pml4, lev, path)
  BY DEF Sound, Tables
<1>2. PICK t \in DOMAIN entries :
        lev[t] = 1 /\ path[t] = Path(v, 1) /\ entries[t][Index(v, 1)] = ToHugePage(hp[v])
  BY DEF Sound, Tables, HeapTables, Backed
<1>3. v \in Nat /\ v % HugeFrames = 0
  BY HeapVirtFact DEF Live
<1>4. PICK w : IsWalk(w, entries, pml4, v, 0) /\ WalkOf(v) = w[0]
  BY <1>1, <1>3, WalkOfIsWalk DEF Tree, Placed
<1>5. WalkOf(v) = ToHugePage(hp[v])
  <2>1. OnWay(lev, path, t, v) /\ ~IsLink(entries[t][Index(v, lev[t])])
    BY <1>2, EntryKinds DEF OnWay, IsLink
  <2> QED BY <2>1, <1>1, <1>2, <1>3, <1>4, WalkEnds
<1>6. WalkOf(v).huge /\ WalkOf(v).present /\ WalkOf(v).frame = hp[v]
  BY <1>5, EntryKinds
<1>7. Translate(v) = hp[v]
  BY <1>3, <1>6 DEF Translate
<1> QED BY <1>5, <1>6, <1>7

(* No other page of the heap is.                                           *)
LEMMA OthersUnmapped ==
  ASSUME NEW lev, NEW path, NEW hp, Sound(lev, path, hp), phase # "prep",
         NEW v \in HeapVirts \ Live
  PROVE  ~WalkOf(v).present
<1>1. Tree(entries, pml4, lev, path) /\ LEVELS > 1 /\ LEVELS \in Nat
  BY Sizes DEF Sound, Tables
<1>2. v \in Nat
  BY HeapVirtFact
<1>3. PICK w : IsWalk(w, entries, pml4, v, 0) /\ WalkOf(v) = w[0]
  BY <1>1, <1>2, WalkOfIsWalk DEF Tree, Placed
<1>4. SUFFICES ASSUME w[0].present PROVE FALSE
  BY <1>3
<1>5. PICK t \in DOMAIN entries :
        /\ OnWay(lev, path, t, v) /\ w[0] = entries[t][Index(v, lev[t])]
        /\ lev[t] = 0 \/ w[0].huge
  BY <1>1, <1>2, <1>3, <1>4, WalkFinds
<1>6. lev[t] # 0
  BY <1>5, SlotIsPath DEF Sound, Tables, HeapTables, Spared, OnWay
<1>7. Index(v, lev[t]) \in Entries
  BY <1>1, <1>2, IndexFact DEF Tree, Placed
<1>8. PICK u \in Live : lev[t] = 1 /\ path[t] = Path(u, 1) /\ Index(v, 1) = Index(u, 1)
  BY <1>5, <1>6, <1>7 DEF Sound, Tables, HeapTables, OnlyBacked
<1>9. Slot(v) = Slot(u)
  <2>1. u \in Nat /\ 1 \in 1 .. (LEVELS - 1) /\ 1 - 1 = 0
    BY <1>1, HeapVirtFact DEF Live
  <2>2. Path(v, 1 - 1) = Path(u, 1 - 1)
    BY <2>1, <1>2, <1>5, <1>8, PathDown DEF OnWay
  <2> QED BY <2>1, <2>2, SlotIsPath
<1> QED BY <1>9, HeapApartAssumption DEF Live

(* The frames of the heap are frames.                                      *)
LEMMA HeapFramesAre ==
  ASSUME NEW hp, HeapFrames(hp), IInv
  PROVE  \A v \in Live : hp[v] \in huges /\ hp[v] \in Nat
<1>1. \A v \in Live : hp[v] \in huges
  BY DEF HeapFrames
<1> QED BY <1>1, InvFacts

(* The invariant on the heap between calls.                                *)
LEMMA InvHeapBacked == VInv => HeapBacked
<1> SUFFICES ASSUME VInv, AtRest PROVE
      /\ \A v \in HeapPages : WalkOf(v).huge
      /\ {Translate(v) : v \in HeapPages} = huges
      /\ Cardinality(huges) = Cardinality(HeapPages)
      /\ \A v \in DOMAIN tlb \ HeapPages : ~Mapped(v)
  BY DEF HeapBacked
<1>1. PICK lev, path, hp : Sound(lev, path, hp)
  BY DEF VInv
<1>2. phase # "prep" /\ phase # "reset" /\ ~InHeapCall
  BY DEF AtRest, InHeapCall
<1>3. HeapPages = Live /\ DOMAIN tlb = HeapVirts
  BY <1>1, <1>2 DEF HeapPages, Live, Sound, Cached
<1>4. \A v \in Live : hp[v] \in huges /\ hp[v] \in Nat
  BY <1>1, HeapFramesAre DEF Sound, VInv
<1>5. \A v \in Live : WalkOf(v).huge /\ Translate(v) = hp[v]
  BY <1>1, <1>2, <1>4, LiveIsMapped
<1>6. huges = {hp[v] : v \in Live} /\ \A v, w \in Live : hp[v] = hp[w] => v = w
  BY <1>1, <1>2 DEF Sound, HeapFrames, Taken
<1>7. {Translate(v) : v \in HeapPages} = huges
  BY <1>3, <1>5, <1>6
<1>8. Cardinality(huges) = Cardinality(HeapPages)
  <2> DEFINE g == [h \in huges |-> CHOOSE v \in Live : hp[v] = h]
  <2>1. \A h \in huges : g[h] \in Live /\ hp[g[h]] = h
    BY <1>6
  <2>2. \A v \in Live : g[hp[v]] = v
    BY <2>1, <1>4, <1>6
  <2>3. g \in [huges -> Live]
    BY <2>1
  <2> HIDE DEF g
  <2>4. g \in Bijection(huges, Live)
    <3>1. \A a, b \in DOMAIN g : g[a] = g[b] => a = b
      BY <2>1, <2>3
    <3>2. \A v \in Live : \E h \in huges : g[h] = v
      BY <2>2, <1>4
    <3> QED BY <2>3, <3>1, <3>2 DEF Bijection, Injection, Surjection, IsInjective
  <2>5. ExistsBijection(huges, Live) /\ IsFiniteSet(huges)
    BY <2>4, InvFacts DEF ExistsBijection, VInv
  <2> QED BY <2>5, <1>3, FS_Bijection
<1>9. \A v \in DOMAIN tlb \ HeapPages : ~Mapped(v)
  BY <1>1, <1>2, <1>3, OthersUnmapped DEF Mapped
<1> QED BY <1>3, <1>5, <1>7, <1>8, <1>9

(* ... on the translations cached ...                                      *)
LEMMA InvTlbCoherent == VInv => TlbCoherent
<1> SUFFICES ASSUME VInv, NEW v \in DOMAIN tlb, tlb[v] # 0
             PROVE  Mapped(v) /\ tlb[v] = Translate(v)
  BY DEF TlbCoherent
<1>1. PICK lev, path, hp : Sound(lev, path, hp)
  BY DEF VInv
<1>2. v \in Live /\ tlb[v] = hp[v]
  BY <1>1 DEF Sound, Cached
<1>3. phase # "prep"
  <2>1. v >= HEAP_START /\ v < next_virt_addr /\ v \in Nat /\ HEAP_START \in Nat
    BY <1>2, HeapVirtFact, Sizes DEF Live
  <2> QED BY <2>1 DEF VInv, Stage, BootPhases
<1> QED BY <1>1, <1>2, <1>3, HeapFramesAre, LiveIsMapped DEF VInv, Sound, Mapped

(* ... on the types ...                                                    *)
LEMMA InvVmmTypeOK == VInv => VmmTypeOK
<1> SUFFICES ASSUME VInv PROVE VmmTypeOK
  OBVIOUS
<1>1. PICK lev, path, hp : Sound(lev, path, hp)
  BY DEF VInv
<1>2. \A t \in DOMAIN entries : DOMAIN entries[t] = 0 .. (ENTRIES - 1)
  <2>1. CASE phase = "prep"
    BY <2>1 DEF VInv, Stage
  <2>2. CASE phase # "prep"
    BY <2>2, <1>1 DEF Sound, Tables, Tree, Placed, Entries
  <2> QED BY <2>1, <2>2
<1>3. phase # "prep" => pml4 \in DOMAIN entries
  BY <1>1 DEF Sound, Tables, Tree, Placed
<1>4. DOMAIN entries \subseteq Bits
  BY DEF VInv, Owned, IInv, TypeOK
<1>5. /\ next_virt_addr \in HEAP_START .. (HEAP_START + MaxHeap * HugeFrames)
      /\ next_virt_addr % HugeFrames = 0
  <2>1. next_virt_addr \in HeapEnds /\ HEAP_START \in Nat /\ MaxHeap \in Nat /\ HugeFrames \in Nat
    BY Sizes, Geometry DEF VInv, Stage
  <2>2. HEAP_START + MaxHeap * HugeFrames \in Nat
    <3> HIDE DEF HugeFrames
    <3> QED BY <2>1
  <2> QED BY <2>1, <2>2, HeapEndFact
<1> QED BY <1>2, <1>3, <1>4, <1>5 DEF VmmTypeOK, VInv, Stage

(* ... and on the tables.                                                  *)
LEMMA InvTablesAreATree == VInv => TablesAreATree
<1> SUFFICES ASSUME VInv, phase # "prep" PROVE
      /\ DOMAIN entries = UNION {TablesAt[l] : l \in 0 .. (LEVELS - 1)}
      /\ Cardinality(DOMAIN entries) = Cardinality(Links) + 1
      /\ frames = DOMAIN entries \cup rx /\ DOMAIN entries \cap rx = {}
  BY DEF TablesAreATree
<1>1. PICK lev, path, hp : Sound(lev, path, hp)
  BY DEF VInv
<1>2. Tree(entries, pml4, lev, path)
  BY <1>1 DEF Sound, Tables
<1>3. \A l \in 0 .. (LEVELS - 1) : TablesAt[l] = {t \in DOMAIN entries : lev[t] = l}
  BY <1>2, TablesAtFact
<1>4. \A t \in DOMAIN entries : lev[t] \in 0 .. (LEVELS - 1)
  BY <1>2 DEF Tree, Placed
<1>5. DOMAIN entries = UNION {TablesAt[l] : l \in 0 .. (LEVELS - 1)}
  <2>1. \A t \in DOMAIN entries : t \in TablesAt[lev[t]]
    BY <1>3, <1>4
  <2>2. \A l \in 0 .. (LEVELS - 1) : TablesAt[l] \subseteq DOMAIN entries
    BY <1>3
  <2>3. DOMAIN entries \subseteq UNION {TablesAt[l] : l \in 0 .. (LEVELS - 1)}
    <3> SUFFICES ASSUME NEW t \in DOMAIN entries
                 PROVE  t \in UNION {TablesAt[l] : l \in 0 .. (LEVELS - 1)}
      OBVIOUS
    <3>1. TablesAt[lev[t]] \in {TablesAt[l] : l \in 0 .. (LEVELS - 1)}
      BY <1>4
    <3> QED BY <3>1, <2>1
  <2>4. UNION {TablesAt[l] : l \in 0 .. (LEVELS - 1)} \subseteq DOMAIN entries
    BY <2>2
  <2> QED BY <2>3, <2>4
<1> DEFINE Leads(s, i) == lev[s] > 0 /\ IsLink(entries[s][i])
<1>6. /\ \A link \in Links :
           /\ link \in (DOMAIN entries) \X Entries /\ Leads(link[1], link[2])
      /\ \A s \in DOMAIN entries, i \in Entries : Leads(s, i) => <<s, i>> \in Links
  <2>1. \A l \in 1 .. (LEVELS - 1) : l \in 0 .. (LEVELS - 1) /\ l > 0
    OBVIOUS
  <2>2. \A link \in Links :
           /\ link \in (DOMAIN entries) \X Entries /\ Leads(link[1], link[2])
    BY <2>1, <1>3 DEF Links, IsLink, Entries
  <2>3. ASSUME NEW s \in DOMAIN entries, NEW i \in Entries, Leads(s, i)
        PROVE  <<s, i>> \in Links
    <3>1. lev[s] \in 1 .. (LEVELS - 1) /\ lev[s] \in 0 .. (LEVELS - 1) /\ s \in TablesAt[lev[s]]
      BY <2>3, <1>3, <1>4
    <3>2. <<s, i>> \in TablesAt[lev[s]] \X (0 .. (ENTRIES - 1))
      BY <3>1 DEF Entries
    <3>3. entries[<<s, i>>[1]][<<s, i>>[2]].present /\ ~entries[<<s, i>>[1]][<<s, i>>[2]].huge
      BY <2>3 DEF IsLink
    <3> QED BY <3>1, <3>2, <3>3 DEF Links
  <2> QED BY <2>2, <2>3
<1> HIDE DEF Leads
<1>7. /\ \A t \in DOMAIN entries \ {pml4} :
           \E link \in Links : entries[link[1]][link[2]].frame = t
      /\ \A link \in Links : entries[link[1]][link[2]].frame \in DOMAIN entries \ {pml4}
      /\ \A link, m \in Links :
           entries[link[1]][link[2]].frame = entries[m[1]][m[2]].frame => link = m
  <2>1. ASSUME NEW t \in DOMAIN entries \ {pml4}
        PROVE  \E link \in Links : entries[link[1]][link[2]].frame = t
    <3>1. PICK s \in DOMAIN entries, i \in Entries : Leads(s, i) /\ entries[s][i].frame = t
      BY <1>2 DEF Tree, LedTo, Leads
    <3>2. <<s, i>> \in Links /\ <<s, i>>[1] = s /\ <<s, i>>[2] = i
      BY <3>1, <1>6
    <3> QED BY <3>1, <3>2
  <2>2. ASSUME NEW s \in DOMAIN entries, NEW i \in Entries, Leads(s, i)
        PROVE  /\ entries[s][i].frame \in DOMAIN entries \ {pml4}
               /\ lev[s] = lev[entries[s][i].frame] + 1
               /\ path[entries[s][i].frame] = Below(path[s], lev[s], i)
    <3>1. /\ entries[s][i].frame \in DOMAIN entries
          /\ lev[entries[s][i].frame] = lev[s] - 1
          /\ path[entries[s][i].frame] = Below(path[s], lev[s], i)
      BY <2>2, <1>2 DEF Leads, Tree, LeadsDown
    <3>2. lev[s] \in 0 .. (LEVELS - 1) /\ lev[pml4] = LEVELS - 1
      BY <1>2 DEF Tree, Placed
    <3> QED BY <3>1, <3>2, Sizes
  <2>3. ASSUME NEW link \in Links, NEW m \in Links,
               entries[link[1]][link[2]].frame = entries[m[1]][m[2]].frame
        PROVE  link = m
    <3> DEFINE s == link[1]  i == link[2]  r == m[1]  j == m[2]
    <3>1. /\ s \in DOMAIN entries /\ i \in Entries /\ Leads(s, i) /\ link = <<s, i>>
          /\ r \in DOMAIN entries /\ j \in Entries /\ Leads(r, j) /\ m = <<r, j>>
      BY <1>6
    <3>2. entries[s][i].frame = entries[r][j].frame
      BY <2>3
    <3> HIDE DEF s, i, r, j
    <3>3. lev[s] = lev[r] /\ Below(path[s], lev[s], i) = Below(path[r], lev[s], j)
      BY <3>1, <3>2, <2>2
    <3>4. /\ lev[s] \in 0 .. (LEVELS - 1) /\ path[s] \in [(lev[s] + 1) .. (LEVELS - 1) -> Entries]
          /\ path[r] \in [(lev[s] + 1) .. (LEVELS - 1) -> Entries]
      BY <3>1, <3>3, <1>2 DEF Tree, Placed
    <3>5. path[s] = path[r] /\ i = j
      BY <3>1, <3>3, <3>4, BelowTells
    <3>6. s = r
      BY <3>1, <3>3, <3>5, <1>2 DEF Tree, Unique
    <3> QED BY <3>1, <3>5, <3>6
  <2>4. \A link \in Links : entries[link[1]][link[2]].frame \in DOMAIN entries \ {pml4}
    BY <2>2, <1>6
  <2> QED BY <2>1, <2>3, <2>4
<1>8. Cardinality(DOMAIN entries) = Cardinality(Links) + 1
  <2> DEFINE S == DOMAIN entries \ {pml4}
             Target(link) == entries[link[1]][link[2]].frame
             g == [t \in S |-> CHOOSE link \in Links : Target(link) = t]
  <2>1. \A t \in S : g[t] \in Links /\ Target(g[t]) = t
    BY <1>7
  <2>2. \A link \in Links : Target(link) \in S /\ g[Target(link)] = link
    BY <2>1, <1>7
  <2>3. g \in [S -> Links]
    BY <2>1
  <2> HIDE DEF g, Target, S
  <2>4. g \in Bijection(S, Links)
    <3>1. \A a, b \in DOMAIN g : g[a] = g[b] => a = b
      BY <2>1, <2>3
    <3>2. \A link \in Links : \E t \in S : g[t] = link
      BY <2>2
    <3> QED BY <2>3, <3>1, <3>2 DEF Bijection, Injection, Surjection, IsInjective
  <2>5. IsFiniteSet(DOMAIN entries) /\ pml4 \in DOMAIN entries
    <3>1. DOMAIN entries \subseteq Bits
      BY DEF VInv, Owned, IInv, TypeOK
    <3> QED BY <3>1, <1>2, BitmapSizes, FS_Subset DEF Tree, Placed
  <2>6. /\ IsFiniteSet(S) /\ Cardinality(S) = Cardinality(DOMAIN entries) - 1
        /\ Cardinality(DOMAIN entries) \in Nat
    BY <2>5, FS_RemoveElement, FS_CardinalityType DEF S
  <2>7. Cardinality(Links) = Cardinality(S)
    <3>1. ExistsBijection(S, Links)
      BY <2>4 DEF ExistsBijection
    <3> QED BY <3>1, <2>6, FS_Bijection
  <2> QED BY <2>6, <2>7
<1> QED BY <1>5, <1>8 DEF VInv, Owned

-----------------------------------------------------------------------------
(* Calls of pmm.c.                                                         *)
(* pmm.c never answers NULL: vmm.c uses its answers untested.              *)
MemoryLasts == phase # "prep" => ret # 0

(* A frame that pmm_alloc hands out was nobody's.                          *)
LEMMA AllocIsFresh ==
  ASSUME IInv, pmm_alloc, ret' # 0
  PROVE  /\ ret' \in Nat /\ ret' \notin frames
         /\ frames' = frames \cup {ret'} /\ UNCHANGED huges
<1>1. PICK f \in first_fit : ret' = f /\ frames' = frames \cup {f} /\ UNCHANGED huges
  BY DEF pmm_alloc, FailToAllocate
<1>2. f \in (0 .. (total_frames - 1)) \ bitmap
  BY InvFacts, FirstFit
<1>3. f \notin frames
  BY <1>2, InvFacts DEF Held
<1>4. f \in Nat
  BY <1>2, BitmapSizes
<1> QED BY <1>1, <1>3, <1>4

(* Nor were the frames of a run.                                           *)
LEMMA RunIsFresh ==
  ASSUME IInv, NEW n \in RunLengths, pmm_alloc_contiguous(n), ret' # 0
  PROVE  /\ frames' = frames \cup Run(ret', n) /\ Run(ret', n) \cap frames = {}
         /\ UNCHANGED huges
<1>1. /\ FreeRuns(n) # {} /\ ret' = Min(FreeRuns(n))
      /\ frames' = frames \cup Run(ret', n) /\ UNCHANGED huges
  BY DEF pmm_alloc_contiguous, FailToAllocate
<1>2. Run(ret', n) \subseteq Bits \ bitmap
  BY <1>1, FirstRun, InvFacts
<1> QED BY <1>1, <1>2, InvFacts DEF Held

(* Nor was a 2mb page.                                                     *)
LEMMA HugeIsFresh ==
  ASSUME IInv, pmm_alloc_2mb, ret' # 0
  PROVE  /\ ret' \in Nat /\ ret' \notin huges /\ huges' = huges \cup {ret'}
         /\ UNCHANGED frames
<1> DEFINE h == Min(EmptyHugePages) * ByteBits
<1>1. EmptyHugePages # {} /\ ret' = h /\ huges' = huges \cup {h} /\ UNCHANGED frames
  BY DEF pmm_alloc_2mb, FailToAllocate
<1>2. h \in HugeStarts /\ HugeBlock(h) \subseteq Bits \ bitmap
  BY <1>1, FirstHugePage, InvFacts
<1> HIDE DEF h
<1>3. h \in Nat
  BY <1>2, BitmapSizes DEF HugeStarts
<1>4. h \notin huges
  <2>1. h \in HugeBlock(h)
    BY <1>3, HugeBlockFact
  <2> QED BY <2>1, <1>2, InvFacts DEF Held, HugeHeld
<1> QED BY <1>1, <1>3, <1>4

(* vmm_reset_heap's address is one pmm_free_2mb accepts.                   *)
LEMMA HugePageGoesBack ==
  ASSUME IInv, NEW h \in huges, FreeHugePage(h)
  PROVE  /\ pmm_free_2mb(h * PageSize + 0)
         /\ huges' = huges \ {h} /\ UNCHANGED <<frames, ret>>
<1>1. h \in HugeStarts /\ h \in Nat /\ h % HugeFrames = 0
  BY InvFacts DEF IInv, TypeOK, HugeStarts
<1>2. InBitmap(h \div ByteBits)
  <2> DEFINE q == h \div ByteBits
  <2>1. HugeBlock(h) \subseteq Bits
    BY InvFacts DEF Held, HugeHeld
  <2>2. h + HugeFrames - 1 \in Bits /\ HugeFrames \in Nat \ {0}
    BY <2>1, <1>1, Geometry DEF HugeBlock
  <2>3. h + HugeFrames <= bitmap_size * ByteBits
    BY <2>2, <1>1, BitmapSizes DEF Bits
  <2>4. q \in Nat /\ ByteBits * q <= h /\ ByteBits \in Nat \ {0} /\ HugeBytes \in Nat
    BY <1>1, Geometry, DivNat
  <2> HIDE DEF q
  <2>5. ByteBits * q + HugeBytes * ByteBits <= bitmap_size * ByteBits
    BY <2>3, <2>4, <1>1, BitmapSizes, Geometry DEF HugeFrames
  <2>6. (q + HugeBytes) * ByteBits <= bitmap_size * ByteBits
    BY <2>4, <2>5
  <2>7. q + HugeBytes <= bitmap_size
    <3> DEFINE k == q + HugeBytes
    <3>1. k \in Nat /\ k * ByteBits <= bitmap_size * ByteBits
      BY <2>4, <2>6
    <3> HIDE DEF k
    <3>2. k <= bitmap_size
      <4> SUFFICES ASSUME k > bitmap_size PROVE FALSE
        BY <3>1, BitmapSizes
      <4>1. k >= bitmap_size + 1 /\ bitmap_size \in Nat
        BY <3>1, BitmapSizes
      <4>2. k * ByteBits >= bitmap_size * ByteBits + ByteBits
        BY <4>1, <3>1, <2>4
      <4> QED BY <4>1, <4>2, <3>1, <2>4
    <3> QED BY <3>2 DEF k
  <2> QED BY <2>7 DEF InBitmap, q
<1>3. pmm_free_2mb(h * PageSize) /\ h * PageSize \in Nat /\ h * PageSize + 0 = h * PageSize
  BY <1>1, <1>2, Geometry DEF FreeHugePage
<1>4. phys_addr_to_index(h * PageSize) = h
  <2>1. 0 \in 0 .. (PageSize - 1)
    BY Geometry
  <2> QED BY <2>1, <1>1, <1>3, FrameAddress
<1> QED BY <1>3, <1>4 DEF pmm_free_2mb

(* The memset of a huge page does not reach the bitmap ...                 *)
LEMMA BitmapElsewhere ==
  ASSUME IInv, NEW h \in huges
  PROVE  BitsStoredIn(HugeBlock(h)) = {}
<1> SUFFICES ASSUME NEW b \in Bits,
                    (bitmap_physical_addr + b \div ByteBits) \div PageSize \in HugeBlock(h)
             PROVE  FALSE
  BY DEF BitsStoredIn
<1> DEFINE a == bitmap_physical_addr
           q == b \div ByteBits
           f == (a + q) \div PageSize
           last == a + bitmap_size - 1
<1>1. a \in Nat
  <2> DEFINE fits == {i \in DOMAIN Memmap : /\ Memmap[i].type = "usable"
                                            /\ Memmap[i].length >= bitmap_size}
  <2>1. CASE fits = {}
    BY <2>1 DEF bitmap_physical_addr
  <2>2. CASE fits # {}
    <3>1. fits \subseteq Nat
      BY MemmapAssumption
    <3>2. Min(fits) \in fits
      <4> HIDE DEF fits
      <4> QED BY <2>2, <3>1, MinFact
    <3>3. Memmap[Min(fits)].base \in Nat
      BY <3>2, MemmapEntries
    <3> QED BY <2>2, <3>3 DEF bitmap_physical_addr
  <2> QED BY <2>1, <2>2
<1>2. q \in 0 .. LastByte
  BY ByteFact
<1>3. q \in Nat /\ a + q \in Nat /\ last \in Nat /\ a <= a + q /\ a + q <= last
  BY <1>1, <1>2, BitmapSizes DEF LastByte
<1> HIDE DEF a, q, last
<1>4. f \in (a \div PageSize) .. (last \div PageSize)
  <2>1. PageSize \in Nat \ {0}
    BY Geometry
  <2>2. a \div PageSize <= f /\ f <= last \div PageSize
    BY <2>1, <1>1, <1>3, DivMonotone
  <2> QED BY <2>1, <2>2, <1>1, <1>3, DivNat
<1>5. f \in BitmapFrames
  BY <1>4 DEF BitmapFrames, PagesOf, a, last
<1>6. HugeBlock(h) \subseteq Bits /\ HugeBlock(h) \cap Reserved = {}
  BY InvFacts DEF Held, HugeHeld
<1> QED BY <1>5, <1>6 DEF Reserved, a, q

(* ... nor a table.                                                        *)
LEMMA TablesElsewhere ==
  ASSUME IInv, Owned, NEW h \in huges, NEW t \in DOMAIN entries
  PROVE  t \notin HugeBlock(h)
BY DEF IInv, Exclusive, HugeHeld, Owned

(* An end of the heap below another is a page of it.                       *)
LEMMA HeapEndIsPage ==
  ASSUME NEW a \in HeapEnds, NEW b \in HeapEnds, a < b
  PROVE  a \in HeapVirts
<1>1. PICK i \in 0 .. MaxHeap : a = HEAP_START + i * HugeFrames
  BY DEF HeapEnds
<1>2. PICK j \in 0 .. MaxHeap : b = HEAP_START + j * HugeFrames
  BY DEF HeapEnds
<1>3. HugeFrames \in Nat \ {0} /\ HEAP_START \in Nat /\ MaxHeap \in Nat
  BY Sizes, Geometry
<1>4. i < j
  <2> HIDE DEF HugeFrames
  <2>1. i * HugeFrames < j * HugeFrames
    BY <1>1, <1>2, <1>3
  <2>2. SUFFICES ASSUME j <= i PROVE FALSE
    BY <1>3
  <2>3. j * HugeFrames <= i * HugeFrames
    BY <2>2, <1>3
  <2> QED BY <2>1, <2>3, <1>3
<1>5. i \in 0 .. (MaxHeap - 1)
  BY <1>3, <1>4
<1> QED BY <1>1, <1>5 DEF HeapVirts

(* vmm_reset_heap finds the frame of a live page.                          *)
LEMMA PdOfLive ==
  ASSUME NEW lev, NEW path, NEW hp, Sound(lev, path, hp), IInv, phase # "prep", addr \in Live
  PROVE  /\ pd \in DOMAIN entries /\ lev[pd] = 1 /\ path[pd] = Path(addr, 1)
         /\ entries[pd][Index(addr, 1)] = ToHugePage(hp[addr])
         /\ entries[pd][Index(addr, 1)].frame = hp[addr]
<1>1. PICK t \in DOMAIN entries :
        lev[t] = 1 /\ path[t] = Path(addr, 1) /\ entries[t][Index(addr, 1)] = ToHugePage(hp[addr])
  BY DEF Sound, Tables, HeapTables, Backed
<1>2. addr \in Nat /\ hp[addr] \in Nat
  BY HeapVirtFact, HeapFramesAre DEF Sound, Live
<1>3. pd = t
  BY <1>1, <1>2, PdFact DEF Sound, Tables, OnWay
<1> QED BY <1>1, <1>2, <1>3, EntryKinds

(* Every step of the kernel is a call of pmm.c, or leaves it alone.        *)
LEMMA PmmStep ==
  ASSUME VInv, VmmNext, MemoryLasts'
  PROVE  [Next]_vars
<1> USE DEF vars, pmmVars
<1>0. PICK lev, path, hp : Sound(lev, path, hp)
  BY DEF VInv
<1>1. CASE vmm_prep_pml4
  BY <1>1 DEF vmm_prep_pml4, Next
<1>2. CASE Walk
  BY <1>2 DEF Walk, Next
<1>3. CASE TakeBuffers
  BY <1>3, Sizes DEF TakeBuffers, Next
<1>4. CASE TakeHugePage
  BY <1>4 DEF TakeHugePage, Next
<1>5. CASE EnterHugePage
  <2>1. phys \in huges
    BY <1>5, <1>0, Sizes DEF EnterHugePage, Sound, HeapFrames, Taken, MidWalk
  <2>2. bitmap' = bitmap
    BY <1>5, <2>1, BitmapElsewhere DEF EnterHugePage, VInv
  <2> QED BY <1>5, <2>2 DEF EnterHugePage
<1>6. CASE ResetPage
  <2>1. addr \in Live
    <3>1. addr \in HeapEnds /\ next_virt_addr \in HeapEnds /\ addr < next_virt_addr /\ phase = "reset"
      BY <1>6 DEF ResetPage, VInv, Stage
    <3>2. addr \in HeapVirts
      BY <3>1, HeapEndIsPage
    <3>3. addr \in Nat
      BY <3>2, HeapVirtFact
    <3> QED BY <3>1, <3>2, <3>3 DEF Live
  <2>2. entries[pd][Index(addr, 1)].frame = hp[addr]
    BY <1>0, <1>6, <2>1, PdOfLive DEF VInv, ResetPage
  <2>3. hp[addr] \in huges
    BY <1>0, <2>1, HeapFramesAre DEF Sound, VInv
  <2>4. pmm_free_2mb(hp[addr] * PageSize + 0)
    BY <1>6, <2>2, <2>3, HugePageGoesBack DEF ResetPage, VInv
  <2>5. 0 \in 0 .. (HugeFrames * PageSize - 1)
    BY Geometry
  <2> QED BY <2>3, <2>4, <2>5 DEF Next
<1>7. CASE BeginMapping \/ RangeDone \/ EnterPage
  BY <1>7 DEF BeginMapping, RangeDone, EnterPage
<1>8. CASE InitDone \/ MmioDone \/ MapApi \/ ApiDone
  BY <1>8 DEF InitDone, MmioDone, MapApi, ApiDone
<1>9. CASE AllocPayload \/ WorkloadAllocates \/ AllocReturns \/ WorkloadReturns
  BY <1>9 DEF AllocPayload, WorkloadAllocates, vmm_alloc_huge_page, AllocReturns, WorkloadReturns
<1>10. CASE ResetDone \/ CpuCaches
  BY <1>10 DEF ResetDone, CpuCaches
<1> QED BY <1>1, <1>2, <1>3, <1>4, <1>5, <1>6, <1>7, <1>8, <1>9, <1>10 DEF VmmNext, Boot, Heap

-----------------------------------------------------------------------------
(* What is mapped, and where the heap may end.                             *)
(* Every call of vmm_map_range that boot makes is of numbers.              *)
LEMMA RangeFact ==
  /\ InitRanges \in Seq(BootRanges) /\ MmioRanges \in Seq(BootRanges)
  /\ ApiRanges \in Seq(BootRanges)
  /\ \A range \in BootRanges :
       range.virt \in Nat /\ range.frame \in Nat /\ range.pages \in Nat
<1> DEFINE Typed == [virt : Nat, frame : Nat, pages : Nat]
           first == MapRange(0, 0, IdentityPages)
           second == MapRange(KernelVirt, KernelPhys, CeilDiv(kernel_size, PageSize))
           direct == [i \in DOMAIN Memmap |-> DirectRange(Memmap[i])]
           RangesOf(s) == {s[i] : i \in DOMAIN s}
<1>1. PageSize \in Nat \ {0}
  BY Geometry
<1>2. ASSUME NEW n \in Nat PROVE CeilDiv(n, PageSize) \in Nat
  BY <1>1, CeilDivFact
<1>3. DOMAIN Memmap = 1 .. Len(Memmap) /\ Len(Memmap) \in Nat
  BY MemmapAssumption
<1>4. kernel_size \in Nat
  <2> DEFINE images == {i \in DOMAIN Memmap : Memmap[i].type = "kernel"}
  <2>1. CASE images = {}
    BY <2>1 DEF kernel_size
  <2>2. CASE images # {}
    <3>1. images \in SUBSET (0 .. Len(Memmap))
      BY <1>3
    <3>2. Max(images) \in images
      <4> HIDE DEF images
      <4> QED BY <2>2, <3>1, <1>3, MaxFact
    <3>3. Memmap[Max(images)].length \in Nat
      BY <3>2, MemmapEntries
    <3> QED BY <2>2, <3>3 DEF kernel_size
  <2> QED BY <2>1, <2>2
<1>5. first \in Typed /\ second \in Typed
  BY <1>2, <1>4, Sizes DEF MapRange
<1>6. ASSUME NEW i \in DOMAIN Memmap PROVE DirectRange(Memmap[i]) \in Typed
  <2>1. Memmap[i].base \in Nat /\ Memmap[i].length \in Nat
    BY MemmapEntries
  <2>2. Memmap[i].base \div PageSize \in Nat /\ CeilDiv(Memmap[i].length, PageSize) \in Nat
    BY <2>1, <1>1, <1>2, DivNat
  <2> QED BY <2>2, Sizes DEF DirectRange, MapRange
<1> HIDE DEF first, second
<1>7. direct \in Seq(Typed) /\ <<first, second>> \in Seq(Typed)
  <2>1. direct \in Seq(Typed)
    BY <1>3, <1>6
  <2>2. <<first, second>> \in Seq(Typed)
    BY <1>5
  <2> QED BY <2>1, <2>2
<1>8. InitRanges = <<first, second>> \o direct
  BY DEF InitRanges, first, second
<1> HIDE DEF direct, Typed
<1>9. InitRanges \in Seq(Typed)
  BY <1>7, <1>8, ConcatProperties
<1>10. MmioRanges \in Seq(Typed) /\ ApiRanges \in Seq(Typed)
  BY Sizes DEF MmioRanges, ApiRanges, MapRange, Typed
<1>11. BootRanges = RangesOf(InitRanges) \cup RangesOf(MmioRanges) \cup RangesOf(ApiRanges)
  BY DEF BootRanges
<1>12. ASSUME NEW s \in Seq(Typed)
       PROVE  RangesOf(s) \subseteq Typed /\ s \in Seq(RangesOf(s))
  <2>1. \A i \in 1 .. Len(s) : s[i] \in Typed /\ s[i] \in RangesOf(s)
    BY ElementOfSeq
  <2>2. s = [i \in 1 .. Len(s) |-> s[i]] /\ Len(s) \in Nat /\ DOMAIN s = 1 .. Len(s)
    OBVIOUS
  <2>3. [i \in 1 .. Len(s) |-> s[i]] \in Seq(RangesOf(s))
    BY <2>1, <2>2
  <2> QED BY <2>1, <2>2, <2>3
<1> HIDE DEF RangesOf
<1>13. /\ RangesOf(InitRanges) \subseteq Typed /\ InitRanges \in Seq(RangesOf(InitRanges))
       /\ RangesOf(MmioRanges) \subseteq Typed /\ MmioRanges \in Seq(RangesOf(MmioRanges))
       /\ RangesOf(ApiRanges) \subseteq Typed /\ ApiRanges \in Seq(RangesOf(ApiRanges))
  BY <1>9, <1>10, <1>12
<1>14. BootRanges \subseteq Typed
  BY <1>11, <1>13
<1>15. /\ InitRanges \in Seq(BootRanges) /\ MmioRanges \in Seq(BootRanges)
       /\ ApiRanges \in Seq(BootRanges)
  <2>1. ASSUME NEW A, NEW s \in Seq(A), A \subseteq BootRanges PROVE s \in Seq(BootRanges)
    BY <2>1
  <2> QED BY <2>1, <1>11, <1>13
<1> QED BY <1>14, <1>15 DEF Typed

(* The heap grows by a page to one of its ends.                            *)
LEMMA HeapGrows ==
  ASSUME NEW a \in HeapEnds, a + HugeFrames <= HEAP_START + MaxHeap * HugeFrames
  PROVE  a \in HeapVirts /\ a + HugeFrames \in HeapEnds
<1>1. PICK i \in 0 .. MaxHeap : a = HEAP_START + i * HugeFrames
  BY DEF HeapEnds
<1>2. HugeFrames \in Nat \ {0} /\ HEAP_START \in Nat /\ MaxHeap \in Nat
  BY Sizes, Geometry
<1>3. i + 1 <= MaxHeap
  <2> HIDE DEF HugeFrames
  <2>1. i * HugeFrames + HugeFrames <= MaxHeap * HugeFrames
    BY <1>1, <1>2
  <2>2. SUFFICES ASSUME MaxHeap <= i PROVE FALSE
    BY <1>2
  <2>3. MaxHeap * HugeFrames <= i * HugeFrames
    BY <2>2, <1>2
  <2>4. i * HugeFrames \in Nat /\ MaxHeap * HugeFrames \in Nat
    BY <1>2
  <2> QED BY <2>1, <2>3, <2>4, <1>2
<1>4. a + HugeFrames = HEAP_START + (i + 1) * HugeFrames
  <2> HIDE DEF HugeFrames
  <2> QED BY <1>1, <1>2
<1>5. i \in 0 .. (MaxHeap - 1) /\ i + 1 \in 0 .. MaxHeap
  BY <1>2, <1>3
<1> QED BY <1>1, <1>4, <1>5 DEF HeapVirts, HeapEnds

(* The end of the heap is at a 2mb page already: rounding up leaves it.    *)
LEMMA HeapEndAligned ==
  ASSUME NEW a \in HeapEnds
  PROVE  CeilDiv(a, HugeFrames) * HugeFrames = a
<1>1. a \in Nat /\ a % HugeFrames = 0 /\ HugeFrames \in Nat \ {0}
  BY HeapEndFact, Geometry
<1> DEFINE q == a \div HugeFrames
<1>2. a = HugeFrames * q + 0 /\ q \in Nat
  BY <1>1, DivMod, DivNat
<1> HIDE DEF q, HugeFrames
<1>3. a + HugeFrames - 1 = q * HugeFrames + (HugeFrames - 1) /\ HugeFrames - 1 \in 0 .. (HugeFrames - 1)
  BY <1>1, <1>2
<1>4. (a + HugeFrames - 1) \div HugeFrames = q
  BY <1>1, <1>2, <1>3, DivModOf
<1> QED BY <1>1, <1>2, <1>4 DEF CeilDiv

(* A walk for the heap is for the page at its end ...                      *)
LEMMA HeapWalk ==
  ASSUME VInv, MidWalk, InHeapCall
  PROVE  /\ left > 0 /\ left \in Nat /\ next_virt_addr \in HeapVirts
         /\ next_virt_addr + HugeFrames \in HeapEnds
         /\ next_virt_addr + HugeFrames + (left - 1) * HugeFrames
              <= HEAP_START + MaxHeap * HugeFrames
<1>1. left > 0
  BY DEF VInv, Sound, Tables, Walking, InHeapCall, MappingPhases
<1>2. /\ next_virt_addr \in HeapEnds /\ left \in Nat
      /\ next_virt_addr + left * HugeFrames <= HEAP_START + MaxHeap * HugeFrames
  BY DEF VInv, Stage
<1>3. HugeFrames \in Nat \ {0} /\ HEAP_START \in Nat /\ MaxHeap \in Nat /\ next_virt_addr \in Nat
  BY <1>2, HeapEndFact, Sizes, Geometry
<1>4. /\ next_virt_addr + HugeFrames <= HEAP_START + MaxHeap * HugeFrames
      /\ next_virt_addr + HugeFrames + (left - 1) * HugeFrames
           <= HEAP_START + MaxHeap * HugeFrames
  <2> HIDE DEF HugeFrames
  <2>1. left - 1 \in Nat /\ left * HugeFrames = HugeFrames + (left - 1) * HugeFrames
    BY <1>1, <1>2, <1>3
  <2>2. (left - 1) * HugeFrames \in Nat /\ MaxHeap * HugeFrames \in Nat
    BY <2>1, <1>3
  <2> QED BY <2>1, <2>2, <1>2, <1>3
<1> QED BY <1>1, <1>2, <1>4, HeapGrows

(* ... and a walk of boot is for a page of a call, away from the heap.     *)
LEMMA BootWalk ==
  ASSUME VInv, MidWalk, ~InHeapCall
  PROVE  /\ phase \in MappingPhases /\ calls # <<>> /\ Head(calls) \in BootRanges
         /\ offset \in 0 .. (Head(calls).pages - 1) /\ Virt = Head(calls).virt + offset
         /\ Virt \in Nat /\ Head(calls).frame + offset \in Nat
         /\ \A v \in HeapVirts : Slot(Virt) # Slot(v)
         /\ next_virt_addr = HEAP_START
<1>0. phase # "prep"
  BY Sizes DEF VInv, Stage, MidWalk
<1>1. phase \in MappingPhases /\ calls # <<>> /\ offset < Head(calls).pages
  BY <1>0 DEF VInv, Sound, Tables, Walking
<1>2. Head(calls) \in BootRanges /\ offset \in Nat
  BY <1>1 DEF VInv, Calls, Stage
<1>3. Head(calls).virt \in Nat /\ Head(calls).frame \in Nat /\ Head(calls).pages \in Nat
  BY <1>2, RangeFact
<1>4. offset \in 0 .. (Head(calls).pages - 1) /\ Virt = Head(calls).virt + offset
  BY <1>1, <1>2, <1>3 DEF Virt
<1>5. \A v \in HeapVirts : Slot(Virt) # Slot(v)
  BY <1>2, <1>4, HeapApartAssumption
<1>6. phase \in BootPhases
  BY <1>1 DEF MappingPhases, BootPhases
<1> QED BY <1>1, <1>2, <1>3, <1>4, <1>5, <1>6 DEF VInv, Stage

(* Boot has no heap.                                                       *)
LEMMA NoHeapYet ==
  ASSUME Stage, phase \in BootPhases \cup {"polling"}, next_virt_addr = HEAP_START
  PROVE  Live = {}
<1>1. \A v \in HeapVirts : ~(v < HEAP_START)
  BY HeapVirtFact, Sizes
<1> QED BY <1>1 DEF Live

-----------------------------------------------------------------------------
(* Control.                                                                *)
(* What follows an end of the heap below another is one.                   *)
LEMMA HeapEndAfter ==
  ASSUME NEW a \in HeapEnds, NEW b \in HeapEnds, a < b
  PROVE  a + HugeFrames \in HeapEnds
<1>1. PICK i \in 0 .. (MaxHeap - 1) : a = HEAP_START + i * HugeFrames
  BY HeapEndIsPage DEF HeapVirts
<1>2. HugeFrames \in Nat \ {0} /\ HEAP_START \in Nat /\ MaxHeap \in Nat
  BY Sizes, Geometry
<1>3. a + HugeFrames = HEAP_START + (i + 1) * HugeFrames
  <2> HIDE DEF HugeFrames
  <2> QED BY <1>1, <1>2
<1>4. i + 1 \in 0 .. MaxHeap
  BY <1>2
<1> QED BY <1>3, <1>4 DEF HeapEnds

(* The kernel goes through its stages.                                     *)
LEMMA StageStep ==
  ASSUME VInv, VmmNext, MemoryLasts'
  PROVE  Stage'
<1>0. /\ Stage /\ LEVELS \in Nat /\ LEVELS > 1
  BY Sizes DEF VInv
<1>1. CASE vmm_prep_pml4
  BY <1>0, <1>1 DEF vmm_prep_pml4, Stage, walkVars, heapVars, InHeapCall, Phases, BootPhases
<1>2. CASE BeginMapping
  <2>1. level' \in 0 .. LEVELS
    BY <1>0, <1>2 DEF BeginMapping
  <2>2. phase # "prep"
    BY <1>2 DEF BeginMapping, VInv, Calls, MappingPhases
  <2> QED BY <1>0, <1>2, <2>1, <2>2 DEF BeginMapping, Stage, heapVars, mapVars, InHeapCall
<1>3. CASE RangeDone
  BY <1>0, <1>3 DEF RangeDone, Stage, heapVars, walkVars, InHeapCall
<1>4. CASE EnterPage
  <2>1. offset' \in Nat /\ level' \in 0 .. LEVELS /\ phase # "prep"
    BY <1>0, <1>4 DEF EnterPage, Stage
  <2> QED BY <1>0, <1>4, <2>1 DEF EnterPage, Stage, heapVars, InHeapCall
<1>5. CASE InitDone
  <2>1. left' \in Nat
    BY <1>5, Sizes DEF InitDone
  <2> QED BY <1>0, <1>5, <2>1 DEF InitDone, Booted, Stage, walkVars, InHeapCall, Phases, BootPhases
<1>6. CASE MmioDone
  BY <1>0, <1>6 DEF MmioDone, Booted, Stage, walkVars, heapVars, mapVars, InHeapCall, Phases, BootPhases
<1>7. CASE TakeBuffers
  <2>1. left' \in Nat
    BY <1>0, <1>7 DEF TakeBuffers, Stage
  <2> QED BY <1>0, <1>7, <2>1 DEF TakeBuffers, Stage, walkVars, heapVars, mapVars, InHeapCall
<1>8. CASE MapApi \/ ApiDone
  BY <1>0, <1>8 DEF MapApi, ApiDone, Booted, Stage, walkVars, heapVars, mapVars, InHeapCall, Phases, BootPhases
<1>9. CASE Walk
  <2>1. level' \in 0 .. LEVELS /\ phase # "prep"
    BY <1>0, <1>9 DEF Walk, Stage, Bottom
  <2> QED BY <1>0, <1>9, <2>1 DEF Walk, Stage, heapVars, mapVars, InHeapCall
<1>10. CASE AllocPayload \/ WorkloadAllocates
  <2>1. PICK n \in Nat : vmm_alloc_huge_page(n)
    BY <1>10, Sizes DEF AllocPayload, WorkloadAllocates
  <2>2. next_virt_addr' = next_virt_addr
    BY <2>1, <1>0, HeapEndAligned DEF vmm_alloc_huge_page, Stage
  <2>3. /\ next_virt_addr' + left' * HugeFrames <= HEAP_START + MaxHeap * HugeFrames
        /\ left' \in Nat
    BY <2>1 DEF vmm_alloc_huge_page
  <2>4. phase \in {"polling", "executing"} /\ phase' \in {"payload", "workload"}
    BY <1>10 DEF AllocPayload, WorkloadAllocates
  <2>5. UNCHANGED <<nic, offset, level, addr>>
    BY <2>1 DEF vmm_alloc_huge_page, walkVars, mapVars
  <2> QED BY <1>0, <2>2, <2>3, <2>4, <2>5 DEF Stage, Phases, BootPhases
<1>11. CASE TakeHugePage
  <2>1. level' \in 0 .. LEVELS /\ phase # "prep"
    BY <1>0, <1>11 DEF TakeHugePage, InHeapCall
  <2> QED BY <1>0, <1>11, <2>1 DEF TakeHugePage, Stage, mapVars, InHeapCall
<1>12. CASE EnterHugePage
  <2>1. MidWalk /\ InHeapCall
    BY <1>0, <1>12 DEF EnterHugePage, MidWalk
  <2>2. /\ left > 0 /\ left \in Nat
        /\ next_virt_addr + HugeFrames \in HeapEnds
        /\ next_virt_addr + HugeFrames + (left - 1) * HugeFrames
             <= HEAP_START + MaxHeap * HugeFrames
    BY <2>1, HeapWalk
  <2>3. left' = left - 1 /\ left' \in Nat /\ next_virt_addr' = next_virt_addr + HugeFrames
    BY <1>12, <2>2 DEF EnterHugePage
  <2>4. level' \in 0 .. LEVELS /\ UNCHANGED <<phase, nic, offset, addr>>
    BY <1>0, <1>12 DEF EnterHugePage, mapVars
  <2>5. phase \notin BootPhases
    BY <2>1 DEF InHeapCall, BootPhases
  <2> HIDE DEF HugeFrames
  <2> QED BY <1>0, <2>1, <2>2, <2>3, <2>4, <2>5 DEF Stage, BootPhases
<1>13. CASE AllocReturns
  BY <1>0, <1>13 DEF AllocReturns, Stage, walkVars, heapVars, mapVars, InHeapCall, Phases, BootPhases
<1>14. CASE WorkloadReturns
  <2>1. HEAP_START \in HeapEnds
    BY Sizes, Geometry DEF HeapEnds
  <2> QED BY <1>0, <1>14, <2>1 DEF WorkloadReturns, Stage, walkVars, mapVars, InHeapCall, Phases, BootPhases
<1>15. CASE ResetPage
  <2>1. addr + HugeFrames \in HeapEnds
    <3>1. addr \in HeapEnds /\ next_virt_addr \in HeapEnds /\ addr < next_virt_addr
      BY <1>0, <1>15 DEF ResetPage, Stage
    <3> QED BY <3>1, HeapEndAfter
  <2> QED BY <1>0, <1>15, <2>1 DEF ResetPage, Stage, walkVars, mapVars, InHeapCall, BootPhases
<1>16. CASE ResetDone
  <2>1. HEAP_START \in HeapEnds
    BY Sizes, Geometry DEF HeapEnds
  <2> QED BY <1>0, <1>16, <2>1 DEF ResetDone, Stage, walkVars, mapVars, InHeapCall, Phases, BootPhases
<1>17. CASE CpuCaches
  BY <1>0, <1>17 DEF CpuCaches, Stage, walkVars, heapVars, mapVars, InHeapCall
<1> QED BY <1>1, <1>2, <1>3, <1>4, <1>5, <1>6, <1>7, <1>8, <1>9, <1>10, <1>11, <1>12, <1>13,
           <1>14, <1>15, <1>16, <1>17 DEF VmmNext, Boot, Heap

(* The calls left are the last of those there are.                         *)
LEMMA CallsStep ==
  ASSUME VInv, VmmNext
  PROVE  Calls'
<1>0. Calls
  BY DEF VInv
<1>1. CASE vmm_prep_pml4
  <2>1. /\ calls' = InitRanges /\ phase' = "vmm_init"
        /\ InitRanges \in Seq(BootRanges) /\ Len(InitRanges) \in Nat
    BY <1>1, RangeFact DEF vmm_prep_pml4
  <2>2. \A i \in 1 .. Len(InitRanges) : Len(InitRanges) - Len(InitRanges) + i = i
    BY <2>1
  <2> QED BY <2>1, <2>2 DEF Calls, MappingPhases
<1>2. CASE RangeDone
  <2>1. /\ calls \in Seq(BootRanges) /\ calls # <<>> /\ calls' = Tail(calls) /\ phase' = phase
        /\ phase \in MappingPhases
    BY <1>0, <1>2 DEF Calls, RangeDone
  <2>2. /\ calls' \in Seq(BootRanges) /\ Len(calls') = Len(calls) - 1 /\ Len(calls) \in Nat
        /\ \A i \in 1 .. Len(calls') : calls'[i] = calls[i + 1]
    BY <2>1
  <2>3. ASSUME phase = "vmm_init"
        PROVE  /\ Len(calls') <= Len(InitRanges)
               /\ \A i \in 1 .. Len(calls') :
                    calls'[i] = InitRanges[Len(InitRanges) - Len(calls') + i]
    <3>1. /\ Len(InitRanges) \in Nat /\ Len(calls) <= Len(InitRanges)
          /\ \A i \in 1 .. Len(calls) : calls[i] = InitRanges[Len(InitRanges) - Len(calls) + i]
      BY <2>3, <1>0, RangeFact DEF Calls
    <3>2. ASSUME NEW i \in 1 .. Len(calls')
          PROVE  calls'[i] = InitRanges[Len(InitRanges) - Len(calls') + i]
      <4>1. /\ i + 1 \in 1 .. Len(calls)
            /\ Len(InitRanges) - Len(calls) + (i + 1) = Len(InitRanges) - Len(calls') + i
        BY <2>2, <3>1
      <4>2. calls'[i] = InitRanges[Len(InitRanges) - Len(calls) + (i + 1)]
        BY <4>1, <2>2, <3>1
      <4> QED BY <4>1, <4>2
    <3> QED BY <2>2, <3>1, <3>2
  <2> QED BY <2>1, <2>2, <2>3 DEF Calls
<1>3. CASE InitDone
  <2>1. <<>> \in Seq(BootRanges)
    OBVIOUS
  <2>2. calls' \in Seq(BootRanges) /\ phase' # "vmm_init" /\ (phase' = "mmio" \/ calls' = <<>>)
    BY <1>3, <2>1, RangeFact DEF InitDone
  <2> QED BY <2>2 DEF Calls, MappingPhases
<1>4. CASE MapApi
  BY <1>4, RangeFact DEF MapApi, Calls, MappingPhases
<1>5. CASE MmioDone \/ ApiDone
  BY <1>0, <1>5 DEF MmioDone, ApiDone, Booted, Calls, mapVars, MappingPhases
<1>6. CASE UNCHANGED <<calls, phase>>
  BY <1>0, <1>6 DEF Calls
<1>7. CASE AllocPayload \/ WorkloadAllocates
  <2>1. UNCHANGED calls /\ phase \notin MappingPhases /\ phase' \notin MappingPhases
    BY <1>7 DEF AllocPayload, WorkloadAllocates, vmm_alloc_huge_page, mapVars, MappingPhases
  <2> QED BY <1>0, <2>1 DEF Calls, MappingPhases
<1>8. CASE AllocReturns \/ WorkloadReturns \/ ResetDone
  <2>1. UNCHANGED calls /\ phase \notin MappingPhases /\ phase' \notin MappingPhases
    BY <1>8 DEF AllocReturns, WorkloadReturns, ResetDone, InHeapCall, mapVars, MappingPhases
  <2> QED BY <1>0, <2>1 DEF Calls, MappingPhases
<1>9. CASE BeginMapping \/ EnterPage \/ TakeBuffers \/ Walk
  <2>1. UNCHANGED <<calls, phase>>
    BY <1>9 DEF BeginMapping, EnterPage, TakeBuffers, Walk, mapVars
  <2> QED BY <2>1, <1>6
<1>10. CASE TakeHugePage \/ EnterHugePage \/ ResetPage \/ CpuCaches
  <2>1. UNCHANGED <<calls, phase>>
    BY <1>10 DEF TakeHugePage, EnterHugePage, ResetPage, CpuCaches, mapVars
  <2> QED BY <2>1, <1>6
<1> QED BY <1>1, <1>2, <1>3, <1>4, <1>5, <1>7, <1>8, <1>9, <1>10 DEF VmmNext, Boot, Heap

(* What the memset of a huge page leaves of the tables: all of it.         *)
LEMMA EnterHugeTables ==
  ASSUME VInv, EnterHugePage
  PROVE  entries' = [entries EXCEPT ![table][Index(next_virt_addr, 1)] = ToHugePage(phys)]
<1> DEFINE e == [entries EXCEPT ![table][Index(next_virt_addr, 1)] = ToHugePage(phys)]
<1>1. PICK lev, path, hp : Sound(lev, path, hp)
  BY DEF VInv
<1>2. phys \in huges
  BY <1>1, Sizes DEF EnterHugePage, Sound, HeapFrames, Taken, MidWalk
<1>3. DOMAIN e = DOMAIN entries
  OBVIOUS
<1>4. \A t \in DOMAIN entries : t \notin HugeBlock(phys)
  BY <1>2, TablesElsewhere DEF VInv
<1>5. entries' = [t \in DOMAIN e |-> IF t \in HugeBlock(phys) THEN EmptyTable ELSE e[t]]
  BY DEF EnterHugePage, Virt
<1>6. e = [t \in DOMAIN e |-> e[t]]
  OBVIOUS
<1> HIDE DEF e
<1>7. entries' = e
  BY <1>3, <1>4, <1>5, <1>6
<1> QED BY <1>7 DEF e

(* Every frame taken singly becomes a table or a buffer, and no frame does *)
(* twice.                                                                  *)
LEMMA OwnedStep ==
  ASSUME VInv, VmmNext, MemoryLasts'
  PROVE  Owned'
<1>0. Owned /\ IInv /\ Stage
  BY DEF VInv
<1>1. CASE vmm_prep_pml4
  <2>1. pmm_alloc /\ ret' # 0 /\ entries' = WithNewTable(ret', entries) /\ rx' = rx
    BY <1>1 DEF vmm_prep_pml4, MemoryLasts
  <2>2. frames' = frames \cup {ret'} /\ ret' \notin frames
    BY <2>1, <1>0, AllocIsFresh
  <2>3. DOMAIN entries' = {ret'} \cup DOMAIN entries
    BY <2>1 DEF WithNewTable
  <2> QED BY <1>0, <2>1, <2>2, <2>3 DEF Owned
<1>2. CASE Walk
  <2>1. rx' = rx
    BY <1>2 DEF Walk
  <2>2. CASE UNCHANGED <<pmmVars, entries>>
    BY <1>0, <2>1, <2>2 DEF Owned, pmmVars
  <2>3. CASE ~UNCHANGED <<pmmVars, entries>>
    <3>1. /\ pmm_alloc
          /\ entries' = WithNewTable(ret', [entries EXCEPT ![table][Index(Virt, level)] = ToTable(ret')])
      BY <1>2, <2>3 DEF Walk
    <3>2. phase' # "prep"
      BY <1>2, <1>0 DEF Walk, Stage, Bottom
    <3>3. frames' = frames \cup {ret'} /\ ret' \notin frames
      BY <3>1, <3>2, <1>0, AllocIsFresh DEF MemoryLasts
    <3>4. DOMAIN entries' = {ret'} \cup DOMAIN entries
      BY <3>1 DEF WithNewTable
    <3> QED BY <1>0, <2>1, <3>3, <3>4 DEF Owned
  <2> QED BY <2>2, <2>3
<1>3. CASE TakeBuffers
  <2>1. entries' = entries /\ phase' # "prep"
    BY <1>3 DEF TakeBuffers
  <2>2. CASE pmm_alloc /\ rx' = rx \cup {ret'}
    <3>1. frames' = frames \cup {ret'} /\ ret' \notin frames
      BY <2>1, <2>2, <1>0, AllocIsFresh DEF MemoryLasts
    <3> QED BY <1>0, <2>1, <2>2, <3>1 DEF Owned
  <2>3. CASE pmm_alloc_contiguous(BufferRun) /\ rx' = rx \cup Run(ret', BufferRun)
    <3>1. frames' = frames \cup Run(ret', BufferRun) /\ Run(ret', BufferRun) \cap frames = {}
      BY <2>1, <2>3, <1>0, Sizes, RunIsFresh DEF MemoryLasts
    <3> QED BY <1>0, <2>1, <2>3, <3>1 DEF Owned
  <2> QED BY <1>3, <2>2, <2>3 DEF TakeBuffers
<1>4. CASE TakeHugePage
  <2>1. phase' # "prep" /\ pmm_alloc_2mb /\ UNCHANGED <<entries, rx>>
    BY <1>4 DEF TakeHugePage, InHeapCall
  <2>2. frames' = frames
    BY <2>1, <1>0, HugeIsFresh DEF MemoryLasts
  <2> QED BY <1>0, <2>1, <2>2 DEF Owned
<1>5. CASE EnterPage
  BY <1>0, <1>5 DEF EnterPage, Owned, pmmVars
<1>6. CASE EnterHugePage
  <2>1. DOMAIN entries' = DOMAIN entries /\ UNCHANGED <<frames, rx>>
    BY <1>6, EnterHugeTables DEF EnterHugePage
  <2> QED BY <1>0, <2>1 DEF Owned
<1>7. CASE ResetPage
  <2>1. DOMAIN entries' = DOMAIN entries /\ rx' = rx
    BY <1>7 DEF ResetPage
  <2>2. frames' = frames
    <3>1. FreeHugePage(entries[pd][Index(addr, 1)].frame)
      BY <1>7 DEF ResetPage
    <3> QED BY <3>1 DEF FreeHugePage, pmm_free_2mb, pmmVars
  <2> QED BY <1>0, <2>1, <2>2 DEF Owned
<1>8. CASE BeginMapping \/ RangeDone \/ InitDone \/ MmioDone \/ MapApi \/ ApiDone
  <2>1. UNCHANGED <<entries, rx, frames>>
    BY <1>8 DEF BeginMapping, RangeDone, InitDone, MmioDone, MapApi, ApiDone, pmmVars
  <2> QED BY <1>0, <2>1 DEF Owned
<1>9. CASE AllocPayload \/ WorkloadAllocates \/ AllocReturns \/ WorkloadReturns \/ ResetDone \/ CpuCaches
  <2>1. UNCHANGED <<entries, rx, frames>>
    BY <1>9 DEF AllocPayload, WorkloadAllocates, vmm_alloc_huge_page, AllocReturns,
                WorkloadReturns, ResetDone, CpuCaches, pmmVars
  <2> QED BY <1>0, <2>1 DEF Owned
<1> QED BY <1>1, <1>2, <1>3, <1>4, <1>5, <1>6, <1>7, <1>8, <1>9 DEF VmmNext, Boot, Heap

-----------------------------------------------------------------------------
(* What writing the tables leaves of the heap and of what boot mapped.     *)

(* Two pages of the heap do not have the same entry.                       *)
LEMMA EntriesApart ==
  ASSUME NEW u \in HeapVirts, NEW v \in HeapVirts, Path(u, 1) = Path(v, 1), Index(u, 1) = Index(v, 1)
  PROVE  u = v
<1>1. u \in Nat /\ v \in Nat /\ 1 \in 1 .. (LEVELS - 1) /\ 1 - 1 = 0
  BY HeapVirtFact, Sizes
<1>2. Path(u, 1 - 1) = Path(v, 1 - 1)
  BY <1>1, PathDown
<1>3. Slot(u) = Slot(v)
  BY <1>1, <1>2, SlotIsPath
<1> QED BY <1>3, HeapApartAssumption

(* A new table disturbs neither.                                           *)
LEMMA HeapKeptGrowing ==
  ASSUME NEW es, NEW root, NEW lev, NEW path, Tree(es, root, lev, path),
         NEW hp, NEW live \in SUBSET HeapVirts, HeapTables(es, lev, path, hp, live),
         NEW s \in DOMAIN es, NEW i \in Entries, lev[s] > 0, ~es[s][i].present,
         \A v \in live : hp[v] \in Nat,
         NEW f \in Nat, f \notin DOMAIN es,
         lev[s] = 1 => \A v \in HeapVirts : Below(path[s], lev[s], i) # Slot(v)
  PROVE  HeapTables(Grown(es, s, i, f), With(lev, f, lev[s] - 1),
                    With(path, f, Below(path[s], lev[s], i)), hp, live)
<1> DEFINE g == Grown(es, s, i, f)
           l == With(lev, f, lev[s] - 1)
           p == With(path, f, Below(path[s], lev[s], i))
<1>1. GrownBy(g, es, s, i, f)
  <2>1. \A t \in DOMAIN es : es[t] \in [Entries -> Entry]
    BY DEF Tree, Placed
  <2> QED BY <2>1, GrownTables
<1>2. /\ l[f] = lev[s] - 1 /\ \A t \in DOMAIN es : l[t] = lev[t]
      /\ p[f] = Below(path[s], lev[s], i) /\ \A t \in DOMAIN es : p[t] = path[t]
  BY DEF With, Tree, Placed
<1> HIDE DEF g, l, p
<1>3. Backed(g, l, p, hp, live)
  <2> SUFFICES ASSUME NEW v \in live
               PROVE  \E t \in DOMAIN g :
                        l[t] = 1 /\ p[t] = Path(v, 1) /\ g[t][Index(v, 1)] = ToHugePage(hp[v])
    BY DEF Backed
  <2>1. PICK t \in DOMAIN es :
          lev[t] = 1 /\ path[t] = Path(v, 1) /\ es[t][Index(v, 1)] = ToHugePage(hp[v])
    BY DEF HeapTables, Backed
  <2>2. Index(v, 1) \in Entries
    <3>1. v \in Nat /\ 1 \in 0 .. (LEVELS - 1)
      BY HeapVirtFact, Sizes
    <3> QED BY <3>1, IndexFact
  <2>3. es[t][Index(v, 1)].present
    BY <2>1, EntryKinds
  <2>4. g[t][Index(v, 1)] = es[t][Index(v, 1)] /\ t \in DOMAIN g
    BY <1>1, <2>2, <2>3 DEF GrownBy
  <2> QED BY <2>1, <2>4, <1>2
<1>4. OnlyBacked(g, l, p, live)
  <2> SUFFICES ASSUME NEW t \in DOMAIN g, NEW j \in Entries, g[t][j].huge
               PROVE  l[t] = 1 /\ \E v \in live : p[t] = Path(v, 1) /\ j = Index(v, 1)
    BY DEF OnlyBacked
  <2>1. t # f
    BY <1>1, EntryKinds DEF GrownBy
  <2>2. ~(t = s /\ j = i)
    BY <1>1, EntryKinds DEF GrownBy
  <2>3. t \in DOMAIN es /\ g[t][j] = es[t][j]
    BY <1>1, <2>1, <2>2 DEF GrownBy
  <2> QED BY <2>3, <1>2 DEF HeapTables, OnlyBacked
<1>5. Spared(g, l, p)
  <2> SUFFICES ASSUME NEW t \in DOMAIN g, l[t] = 0, NEW v \in HeapVirts PROVE p[t] # Slot(v)
    BY DEF Spared
  <2>1. CASE t = f
    <3>1. lev[s] = 1
      BY <2>1, <1>2 DEF Tree, Placed
    <3> QED BY <2>1, <3>1, <1>2
  <2>2. CASE t # f
    BY <2>2, <1>1, <1>2 DEF GrownBy, HeapTables, Spared
  <2> QED BY <2>1, <2>2
<1>6. HeapTables(g, l, p, hp, live)
  BY <1>3, <1>4, <1>5 DEF HeapTables
<1> QED BY <1>6 DEF g, l, p

(* ... nor the 4kb pages mapped.                                           *)
LEMMA EnteredKeptGrowing ==
  ASSUME NEW es, NEW root, NEW lev, NEW path, Tree(es, root, lev, path),
         NEW done, Entered(es, lev, path, done),
         NEW s \in DOMAIN es, NEW i \in Entries, lev[s] > 0,
         NEW f \in Nat, f \notin DOMAIN es
  PROVE  Entered(Grown(es, s, i, f), With(lev, f, lev[s] - 1),
                 With(path, f, Below(path[s], lev[s], i)), done)
<1> DEFINE g == Grown(es, s, i, f)
           l == With(lev, f, lev[s] - 1)
           p == With(path, f, Below(path[s], lev[s], i))
<1>1. GrownBy(g, es, s, i, f)
  <2>1. \A t \in DOMAIN es : es[t] \in [Entries -> Entry]
    BY DEF Tree, Placed
  <2> QED BY <2>1, GrownTables
<1>2. /\ \A t \in DOMAIN es : l[t] = lev[t] /\ p[t] = path[t]
  BY DEF With, Tree, Placed
<1>3. \A t \in DOMAIN es : lev[t] = 0 => t # s
  OBVIOUS
<1> HIDE DEF g, l, p
<1>4. \A t \in DOMAIN es : lev[t] = 0 => t \in DOMAIN g /\ g[t] = es[t]
  BY <1>1, <1>3 DEF GrownBy
<1>5. Entered(g, l, p, done)
  <2> SUFFICES ASSUME NEW call \in done
               PROVE  LET v == InitRanges[call[1]].virt + call[2]
                      IN  \E t \in DOMAIN g :
                            /\ l[t] = 0 /\ p[t] = Slot(v)
                            /\ g[t][Index(v, 0)] = ToTable(InitRanges[call[1]].frame + call[2])
    BY DEF Entered
  <2> DEFINE v == InitRanges[call[1]].virt + call[2]
  <2>1. PICK t \in DOMAIN es :
          /\ lev[t] = 0 /\ path[t] = Slot(v)
          /\ es[t][Index(v, 0)] = ToTable(InitRanges[call[1]].frame + call[2])
    BY DEF Entered
  <2>2. t \in DOMAIN g /\ g[t] = es[t] /\ l[t] = 0 /\ p[t] = path[t]
    BY <2>1, <1>2, <1>4
  <2> HIDE DEF v
  <2>3. /\ l[t] = 0 /\ p[t] = Slot(v)
        /\ g[t][Index(v, 0)] = ToTable(InitRanges[call[1]].frame + call[2])
    BY <2>1, <2>2
  <2> QED BY <2>2, <2>3 DEF v
<1> QED BY <1>5 DEF g, l, p

(* An entry of a 4kb page disturbs no page of the heap.                    *)
LEMMA HeapKeptMapping ==
  ASSUME NEW es, NEW root, NEW lev, NEW path, Tree(es, root, lev, path),
         NEW hp, NEW live, HeapTables(es, lev, path, hp, live),
         NEW s \in DOMAIN es, NEW i \in Entries, lev[s] = 0, NEW e \in Entry, ~e.huge
  PROVE  HeapTables([es EXCEPT ![s][i] = e], lev, path, hp, live)
<1> DEFINE g == [es EXCEPT ![s][i] = e]
<1>1. EditedBy(g, es, s, i, e)
  <2>1. \A t \in DOMAIN es : es[t] \in [Entries -> Entry]
    BY DEF Tree, Placed
  <2> QED BY <2>1, EditedTables
<1> HIDE DEF g
<1>2. Backed(g, lev, path, hp, live)
  <2> SUFFICES ASSUME NEW v \in live
               PROVE  \E t \in DOMAIN g :
                        lev[t] = 1 /\ path[t] = Path(v, 1) /\ g[t][Index(v, 1)] = ToHugePage(hp[v])
    BY DEF Backed
  <2>1. PICK t \in DOMAIN es :
          lev[t] = 1 /\ path[t] = Path(v, 1) /\ es[t][Index(v, 1)] = ToHugePage(hp[v])
    BY DEF HeapTables, Backed
  <2>2. t # s
    BY <2>1
  <2> QED BY <2>1, <2>2, <1>1 DEF EditedBy
<1>3. OnlyBacked(g, lev, path, live)
  <2> SUFFICES ASSUME NEW t \in DOMAIN g, NEW j \in Entries, g[t][j].huge
               PROVE  lev[t] = 1 /\ \E v \in live : path[t] = Path(v, 1) /\ j = Index(v, 1)
    BY DEF OnlyBacked
  <2>1. g[t][j] = es[t][j] /\ t \in DOMAIN es
    BY <1>1 DEF EditedBy
  <2> QED BY <2>1 DEF HeapTables, OnlyBacked
<1>4. Spared(g, lev, path)
  BY <1>1 DEF EditedBy, HeapTables, Spared
<1>5. HeapTables(g, lev, path, hp, live)
  BY <1>2, <1>3, <1>4 DEF HeapTables
<1> QED BY <1>5 DEF g

(* An entry of a page directory disturbs no page of 4kb.                   *)
LEMMA EnteredKept ==
  ASSUME NEW es, NEW root, NEW lev, NEW path, Tree(es, root, lev, path),
         NEW done, Entered(es, lev, path, done),
         NEW s \in DOMAIN es, NEW i \in Entries, lev[s] > 0, NEW e \in Entry
  PROVE  Entered([es EXCEPT ![s][i] = e], lev, path, done)
<1> DEFINE g == [es EXCEPT ![s][i] = e]
<1>1. EditedBy(g, es, s, i, e)
  <2>1. \A t \in DOMAIN es : es[t] \in [Entries -> Entry]
    BY DEF Tree, Placed
  <2> QED BY <2>1, EditedTables
<1> HIDE DEF g
<1>2. \A t \in DOMAIN es : lev[t] = 0 => t \in DOMAIN g /\ g[t] = es[t]
  BY <1>1 DEF EditedBy
<1>3. Entered(g, lev, path, done)
  <2> SUFFICES ASSUME NEW call \in done
               PROVE  LET v == InitRanges[call[1]].virt + call[2]
                      IN  \E t \in DOMAIN g :
                            /\ lev[t] = 0 /\ path[t] = Slot(v)
                            /\ g[t][Index(v, 0)] = ToTable(InitRanges[call[1]].frame + call[2])
    BY DEF Entered
  <2> DEFINE v == InitRanges[call[1]].virt + call[2]
  <2>1. PICK t \in DOMAIN es :
          /\ lev[t] = 0 /\ path[t] = Slot(v)
          /\ es[t][Index(v, 0)] = ToTable(InitRanges[call[1]].frame + call[2])
    BY DEF Entered
  <2> HIDE DEF v
  <2>2. /\ t \in DOMAIN g /\ lev[t] = 0 /\ path[t] = Slot(v)
        /\ g[t][Index(v, 0)] = ToTable(InitRanges[call[1]].frame + call[2])
    BY <2>1, <1>2
  <2> QED BY <2>2 DEF v
<1> QED BY <1>3 DEF g

(* The entry of the page at the end of the heap adds that page ...         *)
LEMMA HeapWithPage ==
  ASSUME NEW es, NEW root, NEW lev, NEW path, Tree(es, root, lev, path),
         NEW hp, NEW hq, NEW live \in SUBSET HeapVirts, HeapTables(es, lev, path, hp, live),
         NEW v \in HeapVirts \ live, NEW f \in Nat,
         NEW s \in DOMAIN es, lev[s] = 1, path[s] = Path(v, 1),
         \A w \in live : hq[w] = hp[w], hq[v] = f
  PROVE  HeapTables([es EXCEPT ![s][Index(v, 1)] = ToHugePage(f)], lev, path, hq, live \cup {v})
<1> DEFINE i == Index(v, 1)
           g == [es EXCEPT ![s][i] = ToHugePage(f)]
<1>0. i \in Entries /\ ToHugePage(f) \in Entry
  <2>1. v \in Nat /\ 1 \in 0 .. (LEVELS - 1)
    BY HeapVirtFact, Sizes
  <2> QED BY <2>1, IndexFact, EntryKinds
<1>1. EditedBy(g, es, s, i, ToHugePage(f))
  <2>1. \A t \in DOMAIN es : es[t] \in [Entries -> Entry]
    BY DEF Tree, Placed
  <2> QED BY <1>0, <2>1, EditedTables
<1> HIDE DEF g
<1>2. ASSUME NEW w \in live \cup {v}
      PROVE  \E t \in DOMAIN g :
               lev[t] = 1 /\ path[t] = Path(w, 1) /\ g[t][Index(w, 1)] = ToHugePage(hq[w])
  <2>1. CASE w = v
    BY <2>1, <1>1 DEF EditedBy
  <2>2. CASE w # v
    <3>1. PICK t \in DOMAIN es :
            lev[t] = 1 /\ path[t] = Path(w, 1) /\ es[t][Index(w, 1)] = ToHugePage(hp[w])
      BY <2>2 DEF HeapTables, Backed
    <3>2. Index(w, 1) \in Entries
      <4>1. w \in Nat /\ 1 \in 0 .. (LEVELS - 1)
        BY HeapVirtFact, Sizes
      <4> QED BY <4>1, IndexFact
    <3>3. ~(t = s /\ Index(w, 1) = i)
      BY <2>2, <3>1, EntriesApart
    <3>4. g[t][Index(w, 1)] = es[t][Index(w, 1)] /\ t \in DOMAIN g
      BY <1>1, <3>2, <3>3 DEF EditedBy
    <3> QED BY <2>2, <3>1, <3>4
  <2> QED BY <2>1, <2>2
<1>3. ASSUME NEW t \in DOMAIN g, NEW j \in Entries, g[t][j].huge
      PROVE  lev[t] = 1 /\ \E w \in live \cup {v} : path[t] = Path(w, 1) /\ j = Index(w, 1)
  <2>1. CASE t = s /\ j = i
    BY <2>1
  <2>2. CASE ~(t = s /\ j = i)
    <3>1. g[t][j] = es[t][j] /\ t \in DOMAIN es
      BY <1>1, <2>2 DEF EditedBy
    <3> QED BY <1>3, <3>1 DEF HeapTables, OnlyBacked
  <2> QED BY <2>1, <2>2
<1>4. Spared(g, lev, path)
  BY <1>1 DEF EditedBy, HeapTables, Spared
<1>5. HeapTables(g, lev, path, hq, live \cup {v})
  BY <1>2, <1>3, <1>4 DEF HeapTables, Backed, OnlyBacked
<1> QED BY <1>5 DEF g

(* ... and clearing it takes the page away.                                *)
LEMMA HeapWithoutPage ==
  ASSUME NEW es, NEW root, NEW lev, NEW path, Tree(es, root, lev, path),
         NEW hp, NEW live \in SUBSET HeapVirts, HeapTables(es, lev, path, hp, live),
         NEW v \in live, NEW s \in DOMAIN es, lev[s] = 1, path[s] = Path(v, 1)
  PROVE  HeapTables([es EXCEPT ![s][Index(v, 1)] = Absent], lev, path, hp, live \ {v})
<1> DEFINE i == Index(v, 1)
           g == [es EXCEPT ![s][i] = Absent]
<1>0. i \in Entries /\ Absent \in Entry /\ ~Absent.huge
  <2>1. v \in Nat /\ 1 \in 0 .. (LEVELS - 1)
    BY HeapVirtFact, Sizes
  <2> QED BY <2>1, IndexFact, EntryKinds
<1>1. EditedBy(g, es, s, i, Absent)
  <2>1. \A t \in DOMAIN es : es[t] \in [Entries -> Entry]
    BY DEF Tree, Placed
  <2> QED BY <1>0, <2>1, EditedTables
<1> HIDE DEF g
<1>2. ASSUME NEW w \in live \ {v}
      PROVE  \E t \in DOMAIN g :
               lev[t] = 1 /\ path[t] = Path(w, 1) /\ g[t][Index(w, 1)] = ToHugePage(hp[w])
  <2>1. PICK t \in DOMAIN es :
          lev[t] = 1 /\ path[t] = Path(w, 1) /\ es[t][Index(w, 1)] = ToHugePage(hp[w])
    BY DEF HeapTables, Backed
  <2>2. Index(w, 1) \in Entries
    <3>1. w \in Nat /\ 1 \in 0 .. (LEVELS - 1)
      BY HeapVirtFact, Sizes
    <3> QED BY <3>1, IndexFact
  <2>3. ~(t = s /\ Index(w, 1) = i)
    BY <2>1, EntriesApart
  <2>4. g[t][Index(w, 1)] = es[t][Index(w, 1)] /\ t \in DOMAIN g
    BY <1>1, <2>2, <2>3 DEF EditedBy
  <2> QED BY <2>1, <2>4
<1>3. ASSUME NEW t \in DOMAIN g, NEW j \in Entries, g[t][j].huge
      PROVE  lev[t] = 1 /\ \E w \in live \ {v} : path[t] = Path(w, 1) /\ j = Index(w, 1)
  <2>1. ~(t = s /\ j = i)
    BY <1>0, <1>1, <1>3 DEF EditedBy
  <2>2. g[t][j] = es[t][j] /\ t \in DOMAIN es
    BY <1>1, <2>1 DEF EditedBy
  <2>3. lev[t] = 1 /\ \E w \in live : path[t] = Path(w, 1) /\ j = Index(w, 1)
    BY <1>3, <2>2 DEF HeapTables, OnlyBacked
  <2>4. t # s => path[t] # Path(v, 1)
    BY <2>2, <2>3 DEF Tree, Unique
  <2> QED BY <2>1, <2>3, <2>4
<1>4. Spared(g, lev, path)
  BY <1>1 DEF EditedBy, HeapTables, Spared
<1>5. HeapTables(g, lev, path, hp, live \ {v})
  BY <1>2, <1>3, <1>4 DEF HeapTables, Backed, OnlyBacked
<1> QED BY <1>5 DEF g

-----------------------------------------------------------------------------
(* The tables and the heap, step by step.                                  *)
(* Steps that leave the tables alone.                                      *)
LEMMA SoundKept ==
  ASSUME NEW lev, NEW path, NEW hp, Sound(lev, path, hp), phase # "prep",
         UNCHANGED <<entries, pml4>>, Live' = Live, Done' \subseteq Done,
         Walking(lev, path)', HeapFrames(hp)', Cached(hp)',
         phase' # "vmm_init" \/ UNCHANGED phase
  PROVE  Sound(lev, path, hp)'
<1>1. Entered(entries, lev, path, Done)'
  BY DEF Sound, Tables, Entered
<1>2. Tree(entries, pml4, lev, path)' /\ HeapTables(entries, lev, path, hp, Live)'
  BY DEF Sound, Tables
<1>3. Needed(entries, lev, path)'
  BY DEF Sound, Tables, Needed
<1> QED BY <1>1, <1>2, <1>3 DEF Sound, Tables

(* ... the heap too.                                                       *)
LEMMA HeapKept ==
  ASSUME NEW lev, NEW path, NEW hp, Sound(lev, path, hp),
         UNCHANGED <<huges, tlb>>, Live' = Live, Taken' = Taken
  PROVE  HeapFrames(hp)' /\ Cached(hp)'
BY DEF Sound, HeapFrames, Cached

(* The heap does not change unless it grows or is reset.                   *)
LEMMA LiveKept ==
  ASSUME UNCHANGED next_virt_addr, phase # "reset", phase' # "reset"
  PROVE  Live' = Live
BY DEF Live

(* Nothing is mapped yet, or all is, unless phase is vmm_init.             *)
LEMMA DoneKept ==
  ASSUME phase # "prep", phase # "vmm_init" \/ UNCHANGED <<phase, calls, offset>>
  PROVE  Done' \subseteq Done
BY DEF Done

(* The root is at one place, whatever the page.                            *)
LEMMA PlaceOfRoot ==
  ASSUME NEW top, top = LEVELS - 1
  PROVE  <<top, Path(0, top)>> \in PlacesNeeded
BY DEF PlacesNeeded

(* A table that vmm_init makes is at a place it needs.                     *)
LEMMA PlaceOnWay ==
  ASSUME VInv, MidWalk, phase = "vmm_init", NEW l \in 0 .. (LEVELS - 1)
  PROVE  <<l, Path(Virt, l)>> \in PlacesNeeded
<1>1. /\ calls # <<>> /\ Head(calls) \in BootRanges
      /\ offset \in 0 .. (Head(calls).pages - 1) /\ Virt = Head(calls).virt + offset
  BY BootWalk DEF InHeapCall
<1>2. /\ calls \in Seq(BootRanges) /\ Len(InitRanges) \in Nat
      /\ DOMAIN InitRanges = 1 .. Len(InitRanges)
  BY RangeFact DEF VInv, Calls
<1>3. Len(calls) \in Nat /\ Len(calls) > 0 /\ Head(calls) = calls[1]
  BY <1>1, <1>2
<1>4. /\ Len(calls) <= Len(InitRanges)
      /\ Head(calls) = InitRanges[Len(InitRanges) - Len(calls) + 1]
  <2>1. 1 \in 1 .. Len(calls)
    BY <1>3
  <2> QED BY <2>1, <1>3 DEF VInv, Calls
<1>5. Len(InitRanges) - Len(calls) + 1 \in DOMAIN InitRanges
  BY <1>2, <1>3, <1>4
<1>6. Virt \in BootPages
  BY <1>1, <1>4, <1>5 DEF BootPages
<1> QED BY <1>6 DEF PlacesNeeded

(* vmm_prep_pml4 makes the root.                                           *)
LEMMA PrepSound ==
  ASSUME VInv, vmm_prep_pml4, MemoryLasts'
  PROVE  \E lev, path, hp : Sound(lev, path, hp)'
<1>1. PICK l0, p0, hp : Sound(l0, p0, hp)
  BY DEF VInv
<1>0. PICK f, top, lev, path :
        /\ f = ret' /\ top = LEVELS - 1
        /\ lev = [x \in {f} |-> top] /\ path = [x \in {f} |-> Path(0, top)]
  OBVIOUS
<1>2. /\ phase = "prep" /\ entries = <<>> /\ level = LEVELS /\ phase' = "vmm_init"
      /\ next_virt_addr = HEAP_START /\ Stage /\ top \in Nat /\ top > 0 /\ LEVELS = top + 1
  BY <1>0, Sizes DEF VInv, Stage, vmm_prep_pml4, BootPhases
<1>3. ret' # 0 /\ f \in Nat /\ UNCHANGED huges
  BY <1>0, <1>2, AllocIsFresh DEF VInv, vmm_prep_pml4, MemoryLasts
<1>4. entries' = [x \in {f} |-> EmptyTable] /\ pml4' = f
  <2>1. DOMAIN entries = {}
    BY <1>2
  <2>2. entries' = [x \in {f} \cup DOMAIN entries |-> IF x = f THEN EmptyTable ELSE entries[x]]
    BY <1>0 DEF vmm_prep_pml4, WithNewTable
  <2> QED BY <1>0, <2>1, <2>2 DEF vmm_prep_pml4
<1>5. EmptyTable \in [Entries -> Entry] /\ \A j \in Entries : EmptyTable[j] = Absent
  BY EntryKinds DEF EmptyTable, Entries
<1>6. ~Absent.huge /\ ~IsLink(Absent)
  BY EntryKinds DEF IsLink
<1>7. Path(0, top) \in [(top + 1) .. top -> Entries]
  <2>1. (top + 1) .. top = {}
    BY <1>2
  <2> QED BY <2>1, <1>2 DEF Path
<1>8. Live = {} /\ Live' = {}
  <2>1. UNCHANGED next_virt_addr
    BY DEF vmm_prep_pml4, heapVars
  <2>2. Live = {}
    BY <1>2, NoHeapYet DEF BootPhases
  <2> QED BY <2>1, <2>2, <1>2, LiveKept
<1>9. Tree(entries', pml4', lev, path)
  <2>1. Placed(entries', pml4', lev, path)
    <3> QED BY <1>0, <1>2, <1>4, <1>5, <1>7 DEF Placed
  <2>2. Unique(entries', lev, path)
    BY <1>0, <1>4 DEF Unique
  <2>3. LeadsDown(entries', lev, path)
    BY <1>0, <1>4, <1>5, <1>6 DEF LeadsDown
  <2>4. LedTo(entries', pml4', lev)
    BY <1>0, <1>4 DEF LedTo
  <2> QED BY <2>1, <2>2, <2>3, <2>4 DEF Tree
<1>10. HeapTables(entries', lev, path, hp, Live')
  <2>1. OnlyBacked(entries', lev, path, Live')
    BY <1>0, <1>4, <1>5, <1>6 DEF OnlyBacked
  <2>2. Spared(entries', lev, path)
    <3> QED BY <1>0, <1>2, <1>4 DEF Spared
  <2> QED BY <1>8, <2>1, <2>2 DEF HeapTables, Backed
<1>11. Done' = {}
  <2>1. calls' = InitRanges /\ offset' = 0 /\ Len(InitRanges) \in Nat
        /\ DOMAIN InitRanges = 1 .. Len(InitRanges)
    BY <1>2, RangeFact DEF vmm_prep_pml4, VInv, Stage
  <2>2. ASSUME NEW call \in (DOMAIN InitRanges) \X Nat,
               \/ call[1] <= Len(InitRanges) - Len(calls')
               \/ call[1] = Len(InitRanges) - Len(calls') + 1 /\ call[2] < offset'
        PROVE  FALSE
    BY <2>1, <2>2
  <2> QED BY <2>2, <1>2 DEF Done
<1>12. Walking(lev, path)'
  BY <1>2 DEF Walking, MidWalk, vmm_prep_pml4, walkVars
<1>13. HeapFrames(hp)' /\ Cached(hp)'
  <2>1. Taken = {} /\ Taken' = {}
    BY <1>2 DEF Taken, InHeapCall
  <2> QED BY <2>1, <1>1, <1>3, <1>8, HeapKept DEF vmm_prep_pml4
<1>14. Entered(entries', lev, path, Done')
  BY <1>11 DEF Entered
<1>15. Needed(entries, lev, path)'
  BY <1>0, <1>2, <1>4, PlaceOfRoot DEF Needed
<1>16. Sound(lev, path, hp)'
  BY <1>9, <1>10, <1>12, <1>13, <1>14, <1>15 DEF Sound, Tables
<1> QED BY <1>16

(* The steps between mappings.                                             *)
LEMMA ControlSound ==
  ASSUME VInv, phase # "prep", UNCHANGED <<entries, pml4, huges, tlb, level>>,
         level = LEVELS, Live' = Live, Done' \subseteq Done,
         phase' # "vmm_init" \/ UNCHANGED phase
  PROVE  \E lev, path, hp : Sound(lev, path, hp)'
<1>1. PICK lev, path, hp : Sound(lev, path, hp)
  BY DEF VInv
<1>2. ~MidWalk /\ ~MidWalk'
  BY Sizes DEF MidWalk
<1>3. Walking(lev, path)' /\ Taken' = Taken
  BY <1>2 DEF Walking, Taken
<1>4. Sound(lev, path, hp)'
  BY <1>1, <1>3, HeapKept, SoundKept
<1> QED BY <1>4

(* The first page of the next call comes after the last of this one.       *)
LEMMA DoneAfterCall ==
  ASSUME VInv, RangeDone
  PROVE  Done' \subseteq Done
<1>1. CASE phase # "vmm_init"
  BY <1>1, DoneKept DEF RangeDone, VInv, Calls, MappingPhases
<1>2. CASE phase = "vmm_init"
  <2>1. /\ calls \in Seq(BootRanges) /\ calls # <<>> /\ calls' = Tail(calls) /\ offset' = 0
        /\ phase' = phase /\ offset >= Head(calls).pages /\ offset \in Nat
    BY DEF VInv, Calls, Stage, RangeDone
  <2>2. /\ Len(calls) \in Nat /\ Len(calls') = Len(calls) - 1 /\ Len(InitRanges) \in Nat
        /\ Len(calls) > 0 /\ Head(calls) = calls[1] /\ Len(calls) <= Len(InitRanges)
    BY <1>2, <2>1, RangeFact DEF VInv, Calls
  <2>3. calls[1] = InitRanges[Len(InitRanges) - Len(calls) + 1]
    BY <1>2, <2>2 DEF VInv, Calls
  <2>4. DOMAIN InitRanges = 1 .. Len(InitRanges) /\ Head(calls).pages \in Nat
    <3>1. Head(calls) \in BootRanges
      BY <2>1, <2>2
    <3> QED BY <3>1, RangeFact
  <2>5. ASSUME NEW call \in (DOMAIN InitRanges) \X Nat,
               call[2] < InitRanges[call[1]].pages,
               \/ call[1] <= Len(InitRanges) - Len(calls')
               \/ call[1] = Len(InitRanges) - Len(calls') + 1 /\ call[2] < offset'
        PROVE  \/ call[1] <= Len(InitRanges) - Len(calls)
               \/ call[1] = Len(InitRanges) - Len(calls) + 1 /\ call[2] < offset
    <3>1. call[1] \in Nat /\ call[2] \in Nat
      BY <2>4
    <3>2. call[1] <= Len(InitRanges) - Len(calls) + 1
      BY <2>5, <3>1, <2>1, <2>2
    <3>3. CASE call[1] = Len(InitRanges) - Len(calls) + 1
      <4>1. call[2] < Head(calls).pages
        BY <3>3, <2>5, <2>2, <2>3
      <4> QED BY <3>3, <4>1, <3>1, <2>1, <2>4
    <3>4. CASE call[1] # Len(InitRanges) - Len(calls) + 1
      BY <3>1, <3>2, <3>4, <2>2
    <3> QED BY <3>3, <3>4
  <2> QED BY <1>2, <2>1, <2>5 DEF Done
<1> QED BY <1>1, <1>2

(* There is no walk while the NIC is set up ...                            *)
LEMMA BuffersRest ==
  ASSUME VInv, phase = "buffers"
  PROVE  level = LEVELS
<1>1. PICK lev, path, hp : Sound(lev, path, hp)
  BY DEF VInv
<1>2. ~MidWalk
  BY <1>1 DEF Sound, Tables, Walking, InHeapCall, MappingPhases
<1> QED BY <1>2, Sizes DEF VInv, Stage, MidWalk

(* ... nor between calls for the heap.                                     *)
LEMMA RestAtRest ==
  ASSUME VInv, phase \in {"polling", "executing", "reset"}
  PROVE  level = LEVELS
<1>1. PICK lev, path, hp : Sound(lev, path, hp)
  BY DEF VInv
<1>2. ~MidWalk
  BY <1>1 DEF Sound, Tables, Walking, InHeapCall, MappingPhases
<1> QED BY <1>2, Sizes DEF VInv, Stage, MidWalk

(* Every step that is neither a walk nor its end.                          *)
LEMMA BetweenSound ==
  ASSUME VInv, MemoryLasts',
         \/ RangeDone \/ InitDone \/ MmioDone \/ MapApi \/ ApiDone \/ TakeBuffers
         \/ AllocPayload \/ WorkloadAllocates \/ AllocReturns \/ WorkloadReturns \/ ResetDone
  PROVE  \E lev, path, hp : Sound(lev, path, hp)'
<1>0. Stage /\ Calls /\ IInv
  BY DEF VInv
<1>1. CASE RangeDone
  <2>1. Done' \subseteq Done
    BY <1>1, DoneAfterCall
  <2>2. /\ UNCHANGED <<entries, pml4, huges, tlb, level, next_virt_addr, phase, addr>>
        /\ level = LEVELS /\ phase # "prep"
    BY <1>0, <1>1 DEF RangeDone, pmmVars, walkVars, heapVars, Calls, MappingPhases
  <2>3. Live' = Live
    BY <2>2 DEF Live
  <2> QED BY <2>1, <2>2, <2>3, ControlSound
<1>2. CASE InitDone
  <2>1. /\ UNCHANGED <<entries, pml4, huges, tlb, level, next_virt_addr>>
        /\ level = LEVELS /\ phase = "vmm_init" /\ calls = <<>> /\ phase' \in {"mmio", "buffers"}
    BY <1>2 DEF InitDone, Booted, pmmVars, walkVars
  <2>2. Live' = Live
    BY <2>1, LiveKept
  <2>3. Done' \subseteq Done
    <3>1. Len(calls) = 0 /\ Len(InitRanges) \in Nat /\ DOMAIN InitRanges = 1 .. Len(InitRanges)
      BY <2>1, RangeFact
    <3>2. \A call \in (DOMAIN InitRanges) \X Nat : call[1] <= Len(InitRanges) - Len(calls)
      BY <3>1
    <3> QED BY <2>1, <3>2 DEF Done
  <2> QED BY <2>1, <2>2, <2>3, ControlSound
<1>3. CASE MmioDone \/ MapApi \/ ApiDone
  <2>1. /\ UNCHANGED <<entries, pml4, huges, tlb, level, next_virt_addr>>
        /\ phase \in {"mmio", "buffers", "api"} /\ phase' \in {"buffers", "api", "polling"}
    BY <1>3 DEF MmioDone, MapApi, ApiDone, Booted, pmmVars, walkVars, heapVars
  <2>2. level = LEVELS
    BY <1>0, <1>3, BuffersRest DEF MmioDone, MapApi, ApiDone, Booted, VInv
  <2>3. Live' = Live
    BY <2>1, LiveKept
  <2>4. Done' \subseteq Done
    BY <2>1, DoneKept
  <2> QED BY <2>1, <2>2, <2>3, <2>4, ControlSound
<1>4. CASE TakeBuffers
  <2>1. /\ UNCHANGED <<entries, pml4, tlb, level, next_virt_addr, phase>> /\ phase = "buffers"
    BY <1>4 DEF TakeBuffers, walkVars
  <2>2. level = LEVELS
    BY <2>1, BuffersRest
  <2>3. huges' = huges
    <3>1. ret' # 0
      BY <2>1 DEF MemoryLasts
    <3> QED BY <1>0, <1>4, <3>1, Sizes, AllocIsFresh, RunIsFresh DEF TakeBuffers
  <2>4. Live' = Live
    BY <2>1, LiveKept
  <2>5. Done' \subseteq Done
    BY <2>1, DoneKept
  <2> QED BY <2>1, <2>2, <2>3, <2>4, <2>5, ControlSound
<1>5. CASE AllocPayload \/ WorkloadAllocates
  <2>1. /\ UNCHANGED <<entries, pml4, huges, tlb, level>>
        /\ next_virt_addr' = CeilDiv(next_virt_addr, HugeFrames) * HugeFrames
        /\ phase \in {"polling", "executing"} /\ phase' \in {"payload", "workload"}
    BY <1>5 DEF AllocPayload, WorkloadAllocates, vmm_alloc_huge_page, pmmVars, walkVars
  <2>2. level = LEVELS
    BY <2>1, RestAtRest
  <2>3. Live' = Live
    BY <1>0, <2>1, HeapEndAligned, LiveKept DEF Stage
  <2>4. Done' \subseteq Done
    BY <2>1, DoneKept
  <2> QED BY <2>1, <2>2, <2>3, <2>4, ControlSound
<1>6. CASE AllocReturns
  <2>1. /\ UNCHANGED <<entries, pml4, huges, tlb, level, next_virt_addr>> /\ level = LEVELS
        /\ phase \in {"payload", "workload"} /\ phase' = "executing"
    BY <1>6 DEF AllocReturns, InHeapCall, pmmVars, walkVars, heapVars
  <2>2. Live' = Live
    BY <2>1, LiveKept
  <2>3. Done' \subseteq Done
    BY <2>1, DoneKept
  <2> QED BY <2>1, <2>2, <2>3, ControlSound
<1>7. CASE WorkloadReturns
  <2>1. /\ UNCHANGED <<entries, pml4, huges, tlb, level, next_virt_addr>>
        /\ phase = "executing" /\ phase' = "reset" /\ addr' = HEAP_START
    BY <1>7 DEF WorkloadReturns, pmmVars, walkVars
  <2>2. level = LEVELS
    BY <2>1, RestAtRest
  <2>3. Live' = Live
    BY <2>1, HeapVirtFact DEF Live
  <2>4. Done' \subseteq Done
    BY <2>1, DoneKept
  <2> QED BY <2>1, <2>2, <2>3, <2>4, ControlSound
<1>8. CASE ResetDone
  <2>1. /\ UNCHANGED <<entries, pml4, huges, tlb, level>>
        /\ phase = "reset" /\ phase' = "polling" /\ addr >= next_virt_addr
        /\ next_virt_addr' = HEAP_START
    BY <1>8 DEF ResetDone, pmmVars, walkVars
  <2>2. level = LEVELS
    BY <2>1, RestAtRest
  <2>3. Live' = Live
    <3>1. addr \in Nat /\ next_virt_addr \in Nat /\ HEAP_START \in Nat
      BY <1>0, HeapEndFact, Sizes DEF Stage
    <3>2. \A v \in HeapVirts : v \in Nat /\ v >= HEAP_START
      BY HeapVirtFact
    <3> QED BY <2>1, <3>1, <3>2 DEF Live
  <2>4. Done' \subseteq Done
    BY <2>1, DoneKept
  <2> QED BY <2>1, <2>2, <2>3, <2>4, ControlSound
<1> QED BY <1>1, <1>2, <1>3, <1>4, <1>5, <1>6, <1>7, <1>8

(* Every walk begins at the root.                                          *)
LEMMA WalkBegins ==
  ASSUME NEW lev, NEW path, Tree(entries, pml4, lev, path), NEW v
  PROVE  pml4 \in DOMAIN entries /\ lev[pml4] = LEVELS - 1 /\ OnWay(lev, path, pml4, v)
<1>1. /\ pml4 \in DOMAIN entries /\ lev[pml4] = LEVELS - 1
      /\ path[pml4] \in [((LEVELS - 1) + 1) .. (LEVELS - 1) -> Entries]
  BY DEF Tree, Placed
<1> QED BY <1>1, PathOfRoot DEF OnWay

(* vmm_map_range's next page.                                              *)
LEMMA BeginMappingSound ==
  ASSUME VInv, BeginMapping
  PROVE  \E lev, path, hp : Sound(lev, path, hp)'
<1>1. PICK lev, path, hp : Sound(lev, path, hp)
  BY DEF VInv
<1>2. /\ phase \in MappingPhases /\ calls # <<>> /\ offset < Head(calls).pages
      /\ table' = pml4 /\ level' = LEVELS - 1
      /\ UNCHANGED <<pmmVars, phase, calls, offset, left, next_virt_addr, addr, entries, pml4, tlb>>
  BY DEF BeginMapping, VInv, Calls, mapVars, heapVars
<1>3. phase # "prep" /\ ~InHeapCall /\ ~InHeapCall' /\ UNCHANGED huges
  BY <1>2 DEF MappingPhases, InHeapCall, pmmVars
<1>4. pml4 \in DOMAIN entries /\ lev[pml4] = LEVELS - 1 /\ OnWay(lev, path, pml4, Virt)
  BY <1>1, <1>3, WalkBegins DEF Sound, Tables
<1>5. Virt' = Virt /\ Bottom' = 0
  BY <1>2, <1>3 DEF Virt, Bottom
<1>6. Walking(lev, path)'
  <2>1. OnWay(lev, path, table', Virt')
    BY <1>2, <1>4, <1>5
  <2>2. level' >= 0
    BY <1>2, Sizes
  <2> QED BY <1>2, <1>4, <1>5, <2>1, <2>2 DEF Walking
<1>7. Live' = Live /\ Done' \subseteq Done /\ Taken' = Taken
  BY <1>2, <1>3, DoneKept DEF Live, Taken
<1> QED BY <1>1, <1>2, <1>3, <1>6, <1>7, HeapKept, SoundKept

(* vmm_alloc_huge_page's next page.                                        *)
LEMMA TakeHugePageSound ==
  ASSUME VInv, TakeHugePage, MemoryLasts'
  PROVE  \E lev, path, hp : Sound(lev, path, hp)'
<1>1. PICK lev, path, hp : Sound(lev, path, hp)
  BY DEF VInv
<1>2. /\ InHeapCall /\ level = LEVELS /\ left > 0 /\ pmm_alloc_2mb /\ phys' = ret'
      /\ table' = pml4 /\ level' = LEVELS - 1
      /\ UNCHANGED <<phase, calls, offset, left, next_virt_addr, addr, entries, pml4, tlb>>
  BY DEF TakeHugePage, mapVars
<1>3. phase # "prep" /\ phase # "vmm_init" /\ InHeapCall'
  BY <1>2 DEF InHeapCall
<1>4. pml4 \in DOMAIN entries /\ lev[pml4] = LEVELS - 1 /\ OnWay(lev, path, pml4, Virt)
  BY <1>1, <1>3, WalkBegins DEF Sound, Tables
<1>5. Virt' = Virt /\ Bottom' = 1
  BY <1>2, <1>3 DEF Virt, Bottom
<1>6. Walking(lev, path)'
  <2>1. OnWay(lev, path, table', Virt')
    BY <1>2, <1>4, <1>5
  <2>2. level' >= 1
    BY <1>2, Sizes
  <2> QED BY <1>2, <1>3, <1>4, <1>5, <2>1, <2>2 DEF Walking
<1>7. Live' = Live /\ Done' \subseteq Done
  BY <1>2, <1>3, DoneKept DEF Live
<1>8. ret' \notin huges /\ huges' = huges \cup {ret'}
  BY <1>2, <1>3, HugeIsFresh DEF MemoryLasts, VInv
<1>9. Taken = {} /\ Taken' = {ret'}
  BY <1>2, <1>3, Sizes DEF Taken, MidWalk
<1>10. HeapFrames(hp)' /\ Cached(hp)'
  <2>1. HeapFrames(hp) /\ Cached(hp)
    BY <1>1 DEF Sound
  <2>2. huges = {hp[v] : v \in Live}
    BY <2>1, <1>9 DEF HeapFrames
  <2>3. \A v \in Live : hp[v] # ret'
    BY <2>2, <1>8
  <2>4. huges' = {hp[v] : v \in Live'} \cup Taken'
    BY <2>2, <1>7, <1>8, <1>9
  <2> QED BY <2>1, <2>3, <2>4, <1>2, <1>7, <1>9 DEF HeapFrames, Cached
<1> QED BY <1>1, <1>2, <1>3, <1>6, <1>7, <1>10, SoundKept

(* One level down, by the entry found or by a new table.                   *)
LEMMA WalkSound ==
  ASSUME VInv, Walk, MemoryLasts'
  PROVE  \E lev, path, hp : Sound(lev, path, hp)'
<1>1. PICK lev, path, hp : Sound(lev, path, hp)
  BY DEF VInv
<1> DEFINE i == Index(Virt, level)
           e == entries[table][i]
<1>2. /\ level \in (Bottom + 1) .. (LEVELS - 1) /\ level' = level - 1
      /\ UNCHANGED <<phase, calls, offset, left, phys, next_virt_addr, addr, pml4, tlb>>
  BY DEF Walk, mapVars, heapVars
<1>3. Bottom \in {0, 1} /\ level \in 1 .. (LEVELS - 1) /\ MidWalk /\ MidWalk' /\ phase # "prep"
  <2>1. Bottom \in {0, 1}
    BY DEF Bottom
  <2>2. level \in 1 .. (LEVELS - 1)
    BY <1>2, <2>1, Sizes
  <2>3. level < LEVELS /\ level' < LEVELS /\ level # LEVELS
    BY <1>2, <2>2, Sizes
  <2> QED BY <2>1, <2>2, <2>3 DEF MidWalk, VInv, Stage
<1>4. /\ Tree(entries, pml4, lev, path) /\ HeapTables(entries, lev, path, hp, Live)
      /\ Entered(entries, lev, path, Done)
      /\ table \in DOMAIN entries /\ lev[table] = level /\ path[table] = Path(Virt, level)
      /\ \/ InHeapCall /\ left > 0
         \/ phase \in MappingPhases /\ calls # <<>> /\ offset < Head(calls).pages
  BY <1>1, <1>3 DEF Sound, Tables, Walking, OnWay
<1>5. Virt \in Nat /\ i \in Entries
  <2>1. Virt \in Nat
    <3>1. CASE InHeapCall
      <4>1. next_virt_addr \in Nat
        BY <3>1, <1>3, HeapWalk, HeapVirtFact
      <4> QED BY <3>1, <4>1 DEF Virt
    <3>2. CASE ~InHeapCall
      BY <3>2, <1>3, BootWalk
    <3> QED BY <3>1, <3>2
  <2>2. level \in 0 .. (LEVELS - 1)
    BY <1>3
  <2> QED BY <2>1, <2>2, IndexFact
<1>6. /\ InHeapCall' = InHeapCall /\ Virt' = Virt /\ Bottom' = Bottom /\ Live' = Live
      /\ Done' = Done /\ Taken' = Taken /\ level' >= Bottom'
  BY <1>2, <1>3 DEF InHeapCall, Virt, Bottom, Live, Done, Taken
<1>7. Below(path[table], level, i) = Path(Virt, level - 1)
  BY <1>3, <1>4, <1>5, PathDown
<1>8. level = 1 => ~InHeapCall
  BY <1>2, Sizes DEF Bottom
<1> HIDE DEF i
<1>9. CASE e.present
  <2>1. table' = e.frame /\ UNCHANGED <<pmmVars, entries>>
    BY <1>9 DEF Walk, i
  <2>2. ~e.huge
    <3>1. SUFFICES ASSUME e.huge PROVE FALSE
      OBVIOUS
    <3>2. lev[table] = 1 /\ \E v \in Live : TRUE
      BY <3>1, <1>4, <1>5 DEF HeapTables, OnlyBacked
    <3>3. ~InHeapCall
      BY <3>2, <1>4, <1>8
    <3>4. phase \in MappingPhases /\ next_virt_addr = HEAP_START
      BY <3>3, <1>3, BootWalk
    <3>5. Live = {}
      BY <3>4, NoHeapYet DEF VInv, MappingPhases, BootPhases
    <3> QED BY <3>2, <3>5
  <2>3. IsLink(e) /\ lev[table] > 0
    BY <1>9, <2>2, <1>3, <1>4 DEF IsLink
  <2>4. /\ e.frame \in DOMAIN entries /\ lev[e.frame] = level - 1
        /\ path[e.frame] = Path(Virt, level - 1)
    BY <2>3, <1>4, <1>5, <1>7 DEF Tree, LeadsDown
  <2>5. Walking(lev, path)'
    <3>1. table' \in DOMAIN entries' /\ lev[table'] = level' /\ OnWay(lev, path, table', Virt')
      BY <2>1, <2>4, <1>2, <1>6 DEF OnWay
    <3> QED BY <3>1, <1>2, <1>4, <1>6 DEF Walking
  <2>6. UNCHANGED <<huges, entries, pml4, tlb, phase>>
    BY <2>1, <1>2 DEF pmmVars
  <2> QED BY <2>5, <2>6, <1>1, <1>3, <1>6, HeapKept, SoundKept
<1>10. CASE ~e.present
  <2>1. /\ pmm_alloc /\ table' = ret'
        /\ entries' = WithNewTable(ret', [entries EXCEPT ![table][i] = ToTable(ret')])
    BY <1>10 DEF Walk, i
  <2>2. ret' # 0
    BY <1>2, <1>3 DEF MemoryLasts
  <2>3. PICK f, l, p :
          /\ f \in Nat /\ f = ret' /\ l = With(lev, f, lev[table] - 1)
          /\ p = With(path, f, Below(path[table], lev[table], i))
    BY <2>1, <2>2, AllocIsFresh DEF VInv
  <2>4. f \notin DOMAIN entries /\ UNCHANGED huges
    BY <2>1, <2>2, <2>3, AllocIsFresh DEF VInv, Owned
  <2>5. entries' = Grown(entries, table, i, f)
    BY <2>1, <2>3 DEF Grown
  <2>6. lev[table] > 0 /\ ~entries[table][i].present
    BY <1>3, <1>4, <1>10
  <2>7. Tree(entries', pml4, l, p)
    BY <2>3, <2>4, <2>5, <2>6, <1>4, <1>5, TreeGrows
  <2>8. HeapTables(entries', l, p, hp, Live)
    <3>1. ASSUME lev[table] = 1, NEW v \in HeapVirts
          PROVE  Below(path[table], lev[table], i) # Slot(v)
      <4>1. ~InHeapCall /\ Below(path[table], lev[table], i) = Path(Virt, 0)
        BY <3>1, <1>4, <1>7, <1>8
      <4> QED BY <4>1, <1>3, BootWalk, SlotIsPath
    <3>2. \A v \in Live : hp[v] \in Nat
      BY <1>1, HeapFramesAre DEF Sound, VInv
    <3>3. Live \in SUBSET HeapVirts
      BY DEF Live
    <3> QED BY <3>1, <3>2, <3>3, <2>3, <2>4, <2>5, <2>6, <1>4, <1>5, HeapKeptGrowing
  <2>9. Entered(entries', l, p, Done)
    BY <2>3, <2>4, <2>5, <2>6, <1>4, <1>5, EnteredKeptGrowing
  <2>10. f \in DOMAIN entries' /\ l[f] = level - 1 /\ p[f] = Path(Virt, level - 1)
    <3>1. f \in DOMAIN entries'
      BY <2>1, <2>3 DEF WithNewTable
    <3> QED BY <3>1, <2>3, <1>4, <1>7 DEF With
  <2>11. Walking(l, p)'
    <3>1. table' \in DOMAIN entries' /\ l[table'] = level' /\ OnWay(l, p, table', Virt')
      BY <2>1, <2>3, <2>10, <1>2, <1>6 DEF OnWay
    <3> QED BY <3>1, <1>2, <1>4, <1>6 DEF Walking
  <2>12. HeapFrames(hp)' /\ Cached(hp)'
    BY <2>4, <1>1, <1>2, <1>6, HeapKept
  <2>13. Needed(entries, l, p)'
    <3>1. SUFFICES ASSUME phase = "vmm_init", NEW t \in DOMAIN entries'
                   PROVE  <<l[t], p[t]>> \in PlacesNeeded
      BY <1>2 DEF Needed
    <3>2. CASE t = f
      <4>1. level - 1 \in 0 .. (LEVELS - 1)
        BY <1>3, Sizes
      <4> QED BY <4>1, <3>1, <3>2, <2>10, <1>3, PlaceOnWay
    <3>3. CASE t # f
      <4>1. t \in DOMAIN entries
        BY <3>3, <2>1, <2>3 DEF WithNewTable
      <4>2. DOMAIN lev = DOMAIN entries /\ DOMAIN path = DOMAIN entries
        BY <1>4 DEF Tree, Placed
      <4>3. l[t] = lev[t] /\ p[t] = path[t]
        BY <4>1, <4>2, <3>3, <2>3 DEF With
      <4>4. <<lev[t], path[t]>> \in PlacesNeeded
        BY <4>1, <3>1, <1>1 DEF Sound, Tables, Needed
      <4> QED BY <4>3, <4>4
    <3> QED BY <3>2, <3>3
  <2>14. Sound(l, p, hp)'
    <3>1. Tables(l, p, hp)'
      BY <2>7, <2>8, <2>9, <2>11, <2>13, <1>2, <1>6 DEF Tables
    <3> QED BY <3>1, <2>12 DEF Sound
  <2> QED BY <2>14
<1> QED BY <1>9, <1>10

(* The last step of a walk of boot: the page is mapped.                    *)
LEMMA EnterPageSound ==
  ASSUME VInv, EnterPage
  PROVE  \E lev, path, hp : Sound(lev, path, hp)'
<1>1. PICK lev, path, hp : Sound(lev, path, hp)
  BY DEF VInv
<1>2. PICK v, i, e, new :
        /\ v = Virt /\ i = Index(v, 0) /\ e = ToTable(Head(calls).frame + offset)
        /\ new = [entries EXCEPT ![table][i] = e]
  OBVIOUS
<1>3. /\ level = 0 /\ ~InHeapCall /\ entries' = new /\ offset' = offset + 1 /\ level' = LEVELS
      /\ UNCHANGED <<huges, phase, calls, next_virt_addr, addr, pml4, tlb>>
  BY <1>2 DEF EnterPage, pmmVars, heapVars
<1>4. MidWalk /\ ~MidWalk' /\ phase # "prep"
  BY <1>3, Sizes DEF MidWalk, VInv, Stage
<1>5. /\ phase \in MappingPhases /\ calls # <<>> /\ Head(calls) \in BootRanges
      /\ offset \in 0 .. (Head(calls).pages - 1) /\ v = Head(calls).virt + offset
      /\ v \in Nat /\ Head(calls).frame + offset \in Nat
  BY <1>2, <1>3, <1>4, BootWalk
<1>6. /\ Tree(entries, pml4, lev, path) /\ HeapTables(entries, lev, path, hp, Live)
      /\ Entered(entries, lev, path, Done)
      /\ table \in DOMAIN entries /\ lev[table] = 0 /\ path[table] = Slot(v)
  BY <1>1, <1>2, <1>3, <1>4, SlotIsPath DEF Sound, Tables, Walking, OnWay
<1>7. i \in Entries /\ e \in Entry /\ ~e.huge
  <2>1. 0 \in 0 .. (LEVELS - 1)
    BY Sizes
  <2> QED BY <2>1, <1>2, <1>5, IndexFact, EntryKinds
<1>8. Live' = Live /\ Taken' = Taken
  BY <1>3, <1>4 DEF Live, Taken, InHeapCall
<1>9. Tree(new, pml4, lev, path) /\ HeapTables(new, lev, path, hp, Live)
  BY <1>2, <1>6, <1>7, TreeEdited, HeapKeptMapping
<1>10. EditedBy(new, entries, table, i, e)
  <2>1. \A t \in DOMAIN entries : entries[t] \in [Entries -> Entry]
    BY <1>6 DEF Tree, Placed
  <2> QED BY <2>1, <1>2, <1>6, <1>7, EditedTables
<1>11. ASSUME NEW call \in Done
       PROVE  LET u == InitRanges[call[1]].virt + call[2]
              IN  \E t \in DOMAIN new :
                    /\ lev[t] = 0 /\ path[t] = Slot(u)
                    /\ new[t][Index(u, 0)] = ToTable(InitRanges[call[1]].frame + call[2])
  <2>1. PICK r, n, u : r = InitRanges[call[1]] /\ n = call[2] /\ u = r.virt + n
    OBVIOUS
  <2>2. PICK t \in DOMAIN entries :
          lev[t] = 0 /\ path[t] = Slot(u) /\ entries[t][Index(u, 0)] = ToTable(r.frame + n)
    BY <2>1, <1>6 DEF Entered
  <2>3. r \in BootRanges /\ n \in 0 .. (r.pages - 1) /\ u \in Nat
    <3>1. call[1] \in DOMAIN InitRanges /\ n \in Nat /\ n < r.pages
      BY <2>1 DEF Done
    <3>2. r \in BootRanges
      BY <3>1, <2>1, RangeFact
    <3>3. r.pages \in Nat /\ r.virt \in Nat
      BY <3>2, RangeFact
    <3> QED BY <3>1, <3>2, <3>3, <2>1
  <2>4. Index(u, 0) \in Entries
    <3>1. 0 \in 0 .. (LEVELS - 1)
      BY Sizes
    <3> QED BY <3>1, <2>3, IndexFact
  <2>5. CASE t = table /\ Index(u, 0) = i
    <3>1. Slot(u) = Slot(v)
      BY <2>2, <2>5, <1>6
    <3>2. \A l \in 0 .. (LEVELS - 1) : Index(r.virt + n, l) = Index(Head(calls).virt + offset, l)
      <4>1. ASSUME NEW l \in 1 .. (LEVELS - 1) PROVE Index(u, l) = Index(v, l)
        <5>1. Slot(u)[l] = Slot(v)[l]
          BY <3>1
        <5> QED BY <5>1 DEF Slot
      <4>2. \A l \in 0 .. (LEVELS - 1) : l = 0 \/ l \in 1 .. (LEVELS - 1)
        BY Sizes
      <4> QED BY <4>1, <4>2, <2>1, <2>5, <1>2, <1>5
    <3>3. r.frame + n = Head(calls).frame + offset
      BY <3>2, <2>3, <1>5, RangesAgreeAssumption
    <3> QED BY <3>3, <2>1, <2>2, <2>5, <1>2, <1>10 DEF EditedBy
  <2>6. CASE ~(t = table /\ Index(u, 0) = i)
    <3>1. new[t][Index(u, 0)] = entries[t][Index(u, 0)] /\ t \in DOMAIN new
      BY <2>4, <2>6, <1>10 DEF EditedBy
    <3> QED BY <3>1, <2>1, <2>2
  <2> QED BY <2>5, <2>6
<1>12. ASSUME NEW call \in Done', call \notin Done
       PROVE  InitRanges[call[1]] = Head(calls) /\ call[2] = offset
  <2>1. call[1] \in DOMAIN InitRanges /\ call[2] \in Nat /\ phase = "vmm_init"
    BY <1>3, <1>4, <1>12 DEF Done
  <2>2. /\ Len(InitRanges) \in Nat /\ DOMAIN InitRanges = 1 .. Len(InitRanges)
        /\ calls \in Seq(BootRanges) /\ Len(calls) \in Nat /\ Len(calls) > 0
        /\ Len(calls) <= Len(InitRanges) /\ Head(calls) = calls[1]
        /\ calls[1] = InitRanges[Len(InitRanges) - Len(calls) + 1]
    <3>1. calls \in Seq(BootRanges) /\ Len(InitRanges) \in Nat
      BY RangeFact DEF VInv, Calls
    <3>2. Len(calls) \in Nat /\ Len(calls) > 0 /\ Head(calls) = calls[1]
      BY <3>1, <1>5
    <3>3. 1 \in 1 .. Len(calls)
      BY <3>2
    <3> QED BY <3>1, <3>2, <3>3, <2>1, RangeFact DEF VInv, Calls
  <2>3. /\ call[1] = Len(InitRanges) - Len(calls) + 1
        /\ call[2] < offset + 1 /\ ~(call[2] < offset)
    BY <2>1, <1>3, <1>12 DEF Done
  <2>4. call[2] = offset
    BY <2>1, <2>3, <1>5
  <2> QED BY <2>2, <2>3, <2>4
<1>13. Entered(new, lev, path, Done')
  <2> SUFFICES ASSUME NEW call \in Done'
               PROVE  LET u == InitRanges[call[1]].virt + call[2]
                      IN  \E t \in DOMAIN new :
                            /\ lev[t] = 0 /\ path[t] = Slot(u)
                            /\ new[t][Index(u, 0)] = ToTable(InitRanges[call[1]].frame + call[2])
    BY DEF Entered
  <2>1. CASE call \in Done
    BY <2>1, <1>11
  <2>2. CASE call \notin Done
    <3>1. InitRanges[call[1]].virt + call[2] = v /\ InitRanges[call[1]].frame + call[2] = Head(calls).frame + offset
      BY <2>2, <1>5, <1>12
    <3>2. table \in DOMAIN new /\ new[table][Index(v, 0)] = e
      BY <1>2, <1>6, <1>10 DEF EditedBy
    <3> QED BY <3>1, <3>2, <1>2, <1>6
  <2> QED BY <2>1, <2>2
<1>14. Tables(lev, path, hp)'
  <2>1. Walking(lev, path)'
    BY <1>4 DEF Walking
  <2>2. Needed(entries, lev, path)'
    BY <1>1, <1>2, <1>3, <1>4 DEF Sound, Tables, Needed
  <2> QED BY <2>1, <2>2, <1>3, <1>8, <1>9, <1>13 DEF Tables
<1>15. HeapFrames(hp)' /\ Cached(hp)'
  BY <1>1, <1>3, <1>8, HeapKept
<1> QED BY <1>14, <1>15 DEF Sound

(* A page of the heap before the one that follows v is v or before it.     *)
LEMMA HeapPageAfter ==
  ASSUME NEW v \in HeapVirts, NEW w \in HeapVirts
  PROVE  /\ w < v + HugeFrames => w <= v
         /\ w > v => w >= v + HugeFrames
<1>1. PICK i \in 0 .. (MaxHeap - 1), j \in 0 .. (MaxHeap - 1) :
        v = HEAP_START + i * HugeFrames /\ w = HEAP_START + j * HugeFrames
  BY DEF HeapVirts
<1>2. HugeFrames \in Nat \ {0} /\ HEAP_START \in Nat /\ MaxHeap \in Nat /\ i \in Nat /\ j \in Nat
  BY Sizes, Geometry
<1> HIDE DEF HugeFrames
<1>3. j <= i => j * HugeFrames <= i * HugeFrames
  BY <1>2
<1>4. j > i => j * HugeFrames >= i * HugeFrames + HugeFrames
  <2>1. SUFFICES ASSUME j > i PROVE j * HugeFrames >= i * HugeFrames + HugeFrames
    OBVIOUS
  <2>2. j >= i + 1
    BY <2>1, <1>2
  <2>3. j * HugeFrames >= (i + 1) * HugeFrames
    BY <2>2, <1>2
  <2> QED BY <2>3, <1>2
<1>5. i * HugeFrames \in Nat /\ j * HugeFrames \in Nat
  BY <1>2
<1>6. j <= i \/ j > i
  BY <1>2
<1> QED BY <1>1, <1>2, <1>3, <1>4, <1>5, <1>6

(* The last step of a walk of the heap: it grows by a page.                *)
LEMMA EnterHugePageSound ==
  ASSUME VInv, EnterHugePage
  PROVE  \E lev, path, hp : Sound(lev, path, hp)'
<1>1. PICK lev, path, hp : Sound(lev, path, hp)
  BY DEF VInv
<1>2. PICK v, new, f :
        /\ v = next_virt_addr /\ f = phys
        /\ new = [entries EXCEPT ![table][Index(v, 1)] = ToHugePage(f)]
  OBVIOUS
<1>3. /\ level = 1 /\ InHeapCall /\ entries' = new /\ level' = LEVELS
      /\ next_virt_addr' = v + HugeFrames /\ tlb' = [tlb EXCEPT ![v] = 0]
      /\ UNCHANGED <<huges, phase, calls, offset, addr, pml4>>
  BY <1>2, EnterHugeTables DEF EnterHugePage, mapVars
<1>4. MidWalk /\ ~MidWalk' /\ InHeapCall' /\ phase # "prep" /\ phase # "reset" /\ phase # "vmm_init"
  BY <1>3, Sizes DEF MidWalk, InHeapCall
<1>5. v \in HeapVirts /\ v \in Nat /\ v \notin Live
  <2>1. v \in HeapVirts
    BY <1>2, <1>3, <1>4, HeapWalk
  <2>2. v \in Nat
    BY <2>1, HeapVirtFact
  <2> QED BY <2>1, <2>2, <1>2 DEF Live
<1>6. /\ Tree(entries, pml4, lev, path) /\ HeapTables(entries, lev, path, hp, Live)
      /\ Entered(entries, lev, path, Done) /\ HeapFrames(hp) /\ Cached(hp)
      /\ table \in DOMAIN entries /\ lev[table] = 1 /\ path[table] = Path(v, 1)
  BY <1>1, <1>2, <1>3, <1>4 DEF Sound, Tables, Walking, OnWay, Virt
<1>7. Taken = {f} /\ Taken' = {} /\ f \in Nat
  <2>1. Taken = {f} /\ Taken' = {}
    BY <1>2, <1>3, <1>4 DEF Taken
  <2>2. f \in huges
    BY <2>1, <1>6 DEF HeapFrames
  <2> QED BY <2>1, <2>2, InvFacts DEF VInv
<1>8. Live' = Live \cup {v}
  <2>1. \A w \in HeapVirts : w < v + HugeFrames <=> w < v \/ w = v
    <3>1. HugeFrames \in Nat \ {0} /\ \A w \in HeapVirts : w \in Nat
      BY HeapVirtFact, Geometry
    <3> HIDE DEF HugeFrames
    <3> QED BY <3>1, <1>5, HeapPageAfter
  <2> QED BY <2>1, <1>2, <1>3, <1>4, <1>5 DEF Live
<1>9. PICK hq : hq = [w \in HeapVirts |-> IF w = v THEN f ELSE hp[w]]
  OBVIOUS
<1>10. hq[v] = f /\ \A w \in Live : hq[w] = hp[w]
  BY <1>5, <1>9 DEF Live
<1>11. Index(v, 1) \in Entries /\ ToHugePage(f) \in Entry /\ ~IsLink(ToHugePage(f))
  <2>1. 1 \in 0 .. (LEVELS - 1)
    BY Sizes
  <2> QED BY <2>1, <1>5, <1>7, IndexFact, EntryKinds DEF IsLink
<1>12. ~IsLink(entries[table][Index(v, 1)])
  <2>1. SUFFICES ASSUME IsLink(entries[table][Index(v, 1)]) PROVE FALSE
    OBVIOUS
  <2>2. PICK t \in DOMAIN entries : lev[t] = 1 - 1 /\ path[t] = Below(Path(v, 1), 1, Index(v, 1))
    BY <2>1, <1>6, <1>11 DEF Tree, LeadsDown
  <2>3. 1 - 1 = 0 /\ 1 \in 1 .. (LEVELS - 1)
    BY Sizes
  <2>4. lev[t] = 0 /\ path[t] = Slot(v)
    <3>1. Path(v, 1 - 1) = Below(Path(v, 1), 1, Index(v, 1))
      BY <2>3, <1>5, PathDown
    <3> QED BY <3>1, <2>2, <2>3, SlotIsPath
  <2> QED BY <2>4, <1>5, <1>6 DEF HeapTables, Spared
<1>13. Tree(new, pml4, lev, path)
  BY <1>2, <1>6, <1>11, <1>12, TreeEdited
<1>14. HeapTables(new, lev, path, hq, Live \cup {v})
  <2>1. Live \in SUBSET HeapVirts
    BY DEF Live
  <2> QED BY <2>1, <1>2, <1>5, <1>6, <1>7, <1>10, HeapWithPage
<1>15. Entered(new, lev, path, Done)
  <2>1. lev[table] > 0
    BY <1>6
  <2> QED BY <2>1, <1>2, <1>6, <1>11, EnteredKept
<1>16. Done' = Done
  BY <1>3, <1>4 DEF Done
<1>17. Tables(lev, path, hq)'
  <2>1. Walking(lev, path)'
    BY <1>4 DEF Walking
  <2> QED BY <2>1, <1>3, <1>4, <1>8, <1>13, <1>14, <1>15, <1>16 DEF Tables, Needed
<1>18. HeapFrames(hq)'
  <2>1. \A w \in Live : hp[w] # f
    BY <1>6, <1>7 DEF HeapFrames
  <2>2. huges = {hp[w] : w \in Live} \cup {f}
    BY <1>6, <1>7 DEF HeapFrames
  <2>3. huges' = {hq[w] : w \in Live'} \cup Taken'
    BY <2>2, <1>3, <1>7, <1>8, <1>10
  <2>4. \A u, w \in Live' : hq[u] = hq[w] => u = w
    BY <2>1, <1>6, <1>8, <1>10 DEF HeapFrames
  <2> QED BY <2>3, <2>4, <1>7 DEF HeapFrames
<1>19. Cached(hq)'
  <2>1. DOMAIN tlb' = HeapVirts
    BY <1>3, <1>6 DEF Cached
  <2>2. \A w \in HeapVirts : tlb'[w] # 0 => w # v /\ tlb'[w] = tlb[w]
    BY <1>3, <1>6 DEF Cached
  <2> QED BY <2>1, <2>2, <1>6, <1>8, <1>10 DEF Cached
<1> QED BY <1>17, <1>18, <1>19 DEF Sound

(* vmm_reset_heap's next page: the heap loses it.                          *)
LEMMA ResetPageSound ==
  ASSUME VInv, ResetPage
  PROVE  \E lev, path, hp : Sound(lev, path, hp)'
<1>1. PICK lev, path, hp : Sound(lev, path, hp)
  BY DEF VInv
<1>2. PICK v, d, new, h :
        /\ v = addr /\ d = pd /\ h = hp[v]
        /\ new = [entries EXCEPT ![d][Index(v, 1)] = Absent]
  OBVIOUS
<1>3. /\ phase = "reset" /\ v < next_virt_addr /\ entries' = new
      /\ addr' = v + HugeFrames /\ tlb' = [tlb EXCEPT ![v] = 0]
      /\ UNCHANGED <<phase, calls, offset, level, next_virt_addr, pml4>>
      /\ FreeHugePage(entries[d][Index(v, 1)].frame)
  BY <1>2 DEF ResetPage, mapVars, walkVars
<1>4. ~MidWalk /\ ~MidWalk' /\ phase # "prep" /\ phase # "vmm_init" /\ ~InHeapCall /\ ~InHeapCall'
  <2>1. level = LEVELS
    BY <1>3, RestAtRest
  <2> QED BY <2>1, <1>3, Sizes DEF MidWalk, InHeapCall
<1>5. v \in HeapVirts /\ v \in Nat /\ v \in Live
  <2>1. v \in HeapVirts
    BY <1>2, <1>3, HeapEndIsPage DEF VInv, Stage
  <2>2. v \in Nat
    BY <2>1, HeapVirtFact
  <2> QED BY <2>1, <2>2, <1>2, <1>3 DEF Live
<1>6. /\ Tree(entries, pml4, lev, path) /\ HeapTables(entries, lev, path, hp, Live)
      /\ Entered(entries, lev, path, Done) /\ HeapFrames(hp) /\ Cached(hp)
  BY <1>1, <1>4 DEF Sound, Tables
<1>7. h \in huges /\ h \in Nat
  BY <1>2, <1>5, <1>6, HeapFramesAre DEF VInv
<1>8. /\ d \in DOMAIN entries /\ lev[d] = 1 /\ path[d] = Path(v, 1)
      /\ entries[d][Index(v, 1)] = ToHugePage(h) /\ entries[d][Index(v, 1)].frame = h
  BY <1>1, <1>2, <1>4, <1>5, PdOfLive DEF VInv
<1>9. huges' = huges \ {h}
  BY <1>3, <1>7, <1>8, HugePageGoesBack DEF VInv
<1>10. Live' = Live \ {v}
  <2>1. \A w \in HeapVirts : w >= v + HugeFrames <=> w >= v /\ w # v
    <3>1. HugeFrames \in Nat \ {0} /\ \A w \in HeapVirts : w \in Nat
      BY HeapVirtFact, Geometry
    <3> HIDE DEF HugeFrames
    <3> QED BY <3>1, <1>5, HeapPageAfter
  <2> QED BY <2>1, <1>2, <1>3, <1>5 DEF Live
<1>11. Index(v, 1) \in Entries /\ Absent \in Entry
       /\ ~IsLink(Absent) /\ ~IsLink(entries[d][Index(v, 1)])
  <2>1. 1 \in 0 .. (LEVELS - 1)
    BY Sizes
  <2> QED BY <2>1, <1>5, <1>7, <1>8, IndexFact, EntryKinds DEF IsLink
<1>12. Tree(new, pml4, lev, path)
  BY <1>2, <1>6, <1>8, <1>11, TreeEdited
<1>13. HeapTables(new, lev, path, hp, Live \ {v})
  <2>1. Live \in SUBSET HeapVirts
    BY DEF Live
  <2> QED BY <2>1, <1>2, <1>5, <1>6, <1>8, HeapWithoutPage
<1>14. Entered(new, lev, path, Done)
  <2>1. lev[d] > 0
    BY <1>8
  <2> QED BY <2>1, <1>2, <1>6, <1>8, <1>11, EnteredKept
<1>15. Done' = Done /\ Taken = {} /\ Taken' = {}
  BY <1>3, <1>4 DEF Done, Taken
<1>16. Tables(lev, path, hp)'
  <2>1. Walking(lev, path)'
    BY <1>4 DEF Walking
  <2> QED BY <2>1, <1>3, <1>4, <1>10, <1>12, <1>13, <1>14, <1>15 DEF Tables, Needed
<1>17. HeapFrames(hp)'
  <2>1. huges = {hp[w] : w \in Live} /\ \A u, w \in Live : hp[u] = hp[w] => u = w
    BY <1>6, <1>15 DEF HeapFrames
  <2>2. huges' = {hp[w] : w \in Live'} \cup Taken'
    BY <2>1, <1>2, <1>5, <1>9, <1>10, <1>15
  <2> QED BY <2>1, <2>2, <1>10, <1>15 DEF HeapFrames
<1>18. Cached(hp)'
  <2>1. DOMAIN tlb' = HeapVirts
    BY <1>3, <1>6 DEF Cached
  <2>2. \A w \in HeapVirts : tlb'[w] # 0 => w # v /\ tlb'[w] = tlb[w]
    BY <1>3, <1>6 DEF Cached
  <2> QED BY <2>1, <2>2, <1>6, <1>10 DEF Cached
<1> QED BY <1>16, <1>17, <1>18 DEF Sound

(* The CPU caches what is mapped.                                          *)
LEMMA CpuCachesSound ==
  ASSUME VInv, CpuCaches
  PROVE  \E lev, path, hp : Sound(lev, path, hp)'
<1>1. PICK lev, path, hp : Sound(lev, path, hp)
  BY DEF VInv
<1>2. PICK v \in DOMAIN tlb : Mapped(v) /\ tlb' = [tlb EXCEPT ![v] = Translate(v)]
  BY DEF CpuCaches
<1>3. /\ phase # "prep" /\ phase # "vmm_init"
      /\ UNCHANGED <<huges, phase, calls, offset, table, level, left, phys, next_virt_addr, addr,
                     entries, pml4>>
  BY DEF CpuCaches, pmmVars, mapVars, walkVars, heapVars
<1>4. DOMAIN tlb = HeapVirts
  BY <1>1 DEF Sound, Cached
<1>5. v \in Live
  BY <1>1, <1>2, <1>3, <1>4, OthersUnmapped DEF Mapped
<1>6. Translate(v) = hp[v]
  <2>1. hp[v] \in Nat
    BY <1>1, <1>5, HeapFramesAre DEF Sound, VInv
  <2> QED BY <2>1, <1>1, <1>3, <1>5, LiveIsMapped
<1>7. UNCHANGED <<Live, Done, Taken, MidWalk, InHeapCall, Virt, Bottom>>
  BY <1>3 DEF Live, Done, Taken, MidWalk, InHeapCall, Virt, Bottom
<1>8. Cached(hp)'
  <2>1. DOMAIN tlb' = HeapVirts
    BY <1>2, <1>4
  <2>2. \A w \in HeapVirts : tlb'[w] # 0 => w \in Live /\ tlb'[w] = hp[w]
    BY <1>1, <1>2, <1>4, <1>5, <1>6 DEF Sound, Cached
  <2> QED BY <2>1, <2>2, <1>7 DEF Cached
<1>9. HeapFrames(hp)' /\ Walking(lev, path)'
  <2>1. HeapFrames(hp)'
    BY <1>1, <1>3, <1>7 DEF Sound, HeapFrames
  <2>2. Walking(lev, path)'
    BY <1>1, <1>3, <1>7 DEF Sound, Tables, Walking
  <2> QED BY <2>1, <2>2
<1> QED BY <1>1, <1>3, <1>7, <1>8, <1>9, SoundKept

-----------------------------------------------------------------------------
(* The invariant is one.                                                   *)

(* Before boot there is nothing to be wrong ...                            *)
LEMMA VmmInitInv == VmmInit => VInv
<1> SUFFICES ASSUME VmmInit PROVE VInv
  OBVIOUS
<1>1. IInv
  BY InitInv DEF VmmInit
<1>2. HEAP_START \in HeapEnds
  BY Sizes, Geometry DEF HeapEnds
<1>3. Stage
  BY <1>2, Sizes DEF VmmInit, Stage, Phases, BootPhases, InHeapCall
<1>4. Calls
  <2>1. <<>> \in Seq(BootRanges)
    OBVIOUS
  <2> QED BY <2>1 DEF VmmInit, Calls
<1>5. Owned
  BY DEF VmmInit, Init, Owned
<1>6. Live = {}
  BY <1>3, NoHeapYet DEF VmmInit, BootPhases
<1>7. Sound(<<>>, <<>>, <<>>)
  <2>1. Tables(<<>>, <<>>, <<>>)
    BY DEF VmmInit, Tables
  <2>2. Taken = {} /\ huges = {}
    BY DEF VmmInit, Init, Taken, InHeapCall
  <2>3. HeapFrames(<<>>)
    BY <2>2, <1>6 DEF HeapFrames
  <2>4. Cached(<<>>)
    BY DEF VmmInit, Cached
  <2> QED BY <2>1, <2>3, <2>4 DEF Sound
<1> QED BY <1>1, <1>3, <1>4, <1>5, <1>7 DEF VInv

(* ... and no step makes it so, unless pmm.c has answered NULL.            *)
LEMMA VmmNextInv ==
  ASSUME VInv, [VmmNext]_vmmVars, MemoryLasts'
  PROVE  VInv'
<1>1. CASE VmmNext
  <2>1. IInv'
    BY <1>1, PmmStep, NextInv DEF VInv
  <2>2. Stage' /\ Calls' /\ Owned'
    BY <1>1, StageStep, CallsStep, OwnedStep
  <2>3. \E lev, path, hp : Sound(lev, path, hp)'
    BY <1>1, PrepSound, BeginMappingSound, TakeHugePageSound, WalkSound, EnterPageSound,
       EnterHugePageSound, ResetPageSound, CpuCachesSound, BetweenSound DEF VmmNext, Boot, Heap
  <2> QED BY <2>1, <2>2, <2>3 DEF VInv
<1>2. CASE UNCHANGED vmmVars
  <2>1. UNCHANGED <<bitmap, free_frames, frames, huges, asked, ret, nic, phase, calls, offset,
                    table, level, left, phys, next_virt_addr, addr, entries, pml4, rx, tlb>>
    BY <1>2 DEF vmmVars, pmmVars, mapVars, walkVars, heapVars
  <2>2. IInv'
    BY <2>1, NextInv DEF VInv, vars
  <2>3. Stage' /\ Calls' /\ Owned'
    BY <2>1 DEF VInv, Stage, Calls, Owned, InHeapCall
  <2>4. PICK lev, path, hp : Sound(lev, path, hp)
    BY DEF VInv
  <2>5. UNCHANGED <<Live, Done, Taken, MidWalk, InHeapCall, Virt, Bottom>>
    BY <2>1 DEF Live, Done, Taken, MidWalk, InHeapCall, Virt, Bottom
  <2>6. Sound(lev, path, hp)'
    <3>1. HeapFrames(hp)' /\ Cached(hp)'
      BY <2>1, <2>4, <2>5 DEF Sound, HeapFrames, Cached
    <3>2. Tables(lev, path, hp)'
      BY <2>1, <2>4, <2>5 DEF Sound, Tables, Walking, Needed
    <3> QED BY <3>1, <3>2 DEF Sound
  <2> QED BY <2>2, <2>3, <2>6 DEF VInv
<1> QED BY <1>1, <1>2

-----------------------------------------------------------------------------
(* What vmm_init maps.                                                     *)

(* Its calls, one by one.                                                  *)
LEMMA InitRangesAre ==
  /\ 1 \in DOMAIN InitRanges /\ InitRanges[1] = MapRange(0, 0, IdentityPages)
  /\ 2 \in DOMAIN InitRanges
  /\ InitRanges[2] = MapRange(KernelVirt, KernelPhys, CeilDiv(kernel_size, PageSize))
  /\ \A i \in DOMAIN Memmap :
       i + 2 \in DOMAIN InitRanges /\ InitRanges[i + 2] = DirectRange(Memmap[i])
<1> DEFINE first == MapRange(0, 0, IdentityPages)
           second == MapRange(KernelVirt, KernelPhys, CeilDiv(kernel_size, PageSize))
           direct == [i \in DOMAIN Memmap |-> DirectRange(Memmap[i])]
           Any == {first, second} \cup {direct[i] : i \in DOMAIN Memmap}
<1>1. DOMAIN Memmap = 1 .. Len(Memmap) /\ Len(Memmap) \in Nat
  BY MemmapAssumption
<1>2. InitRanges = <<first, second>> \o direct
  BY DEF InitRanges
<1>3. direct \in Seq(Any) /\ Len(direct) = Len(Memmap)
  BY <1>1
<1>4. <<first, second>> \in Seq(Any)
  BY DEF Any
<1>5. \A i \in DOMAIN Memmap : direct[i] = DirectRange(Memmap[i])
  OBVIOUS
<1> HIDE DEF first, second, direct, Any
<1>6. /\ InitRanges \in Seq(Any) /\ Len(InitRanges) = 2 + Len(Memmap)
      /\ \A i \in 1 .. (2 + Len(Memmap)) :
           InitRanges[i] = IF i <= 2 THEN <<first, second>>[i] ELSE direct[i - 2]
  BY <1>2, <1>3, <1>4, ConcatProperties
<1>7. DOMAIN InitRanges = 1 .. (2 + Len(Memmap))
  BY <1>6
<1>8. ASSUME NEW i \in DOMAIN Memmap
      PROVE  i + 2 \in DOMAIN InitRanges /\ InitRanges[i + 2] = DirectRange(Memmap[i])
  <2>1. i + 2 \in 1 .. (2 + Len(Memmap)) /\ ~(i + 2 <= 2) /\ (i + 2) - 2 = i
    BY <1>1
  <2> QED BY <2>1, <1>5, <1>6, <1>7
<1>9. /\ 1 \in 1 .. (2 + Len(Memmap)) /\ 2 \in 1 .. (2 + Len(Memmap)) /\ 1 <= 2 /\ 2 <= 2
      /\ <<first, second>>[1] = first /\ <<first, second>>[2] = second
  BY <1>1
<1>10. InitRanges[1] = first /\ InitRanges[2] = second
  BY <1>6, <1>9
<1> QED BY <1>7, <1>8, <1>9, <1>10 DEF first, second

(* The first bytes of what vmm_init maps lie in the pages it maps.         *)
LEMMA PagesInRange ==
  ASSUME NEW i \in DOMAIN Memmap, Allocatable(Memmap[i]),
         NEW n \in Nat, n <= Memmap[i].length, NEW f \in PagesOf(Memmap[i].base, n)
  PROVE  \E page \in Nat :
           page < InitRanges[i + 2].pages /\ f = InitRanges[i + 2].frame + page
             /\ HhdmOffset + f = InitRanges[i + 2].virt + page
<1> DEFINE lo == Memmap[i].base
           len == Memmap[i].length
           q == lo \div PageSize
           k == CeilDiv(len, PageSize)
<1>1. /\ lo \in Nat /\ len \in Nat /\ PageSize \in Nat \ {0} /\ lo >= PageSize
      /\ lo % PageSize = 0
  BY MemmapEntries, MemmapAssumption, Geometry
<1>2. q \in Nat /\ lo = PageSize * q + 0
  BY <1>1, DivMod, DivNat
<1>3. k \in Nat /\ len <= k * PageSize
  BY <1>1, CeilDivFact
<1>4. f \in q .. ((lo + n - 1) \div PageSize)
  BY DEF PagesOf
<1>5. InitRanges[i + 2] = MapRange(HhdmOffset + q, q, k)
  BY InitRangesAre DEF DirectRange, DirectMapped
<1> HIDE DEF lo, len, q, k
<1>6. lo + n - 1 \in Nat /\ lo + n - 1 < (q + k) * PageSize /\ q + k \in Nat
  <2>1. lo + n - 1 < lo + k * PageSize
    <3>1. n <= len
      BY DEF len
    <3>2. k * PageSize \in Nat
      BY <1>1, <1>3
    <3> QED BY <1>1, <1>3, <3>1, <3>2
  <2>2. (q + k) * PageSize = PageSize * q + k * PageSize
    BY <1>1, <1>2, <1>3
  <2> QED BY <2>1, <2>2, <1>1, <1>2, <1>3
<1>7. (lo + n - 1) \div PageSize < q + k /\ (lo + n - 1) \div PageSize \in Nat
  BY <1>1, <1>6, DivBelow, DivNat
<1>8. f \in Nat /\ q <= f /\ f < q + k
  BY <1>2, <1>3, <1>4, <1>7
<1>9. f - q \in Nat /\ f - q < k /\ f = q + (f - q) /\ HhdmOffset + f = HhdmOffset + q + (f - q)
  BY <1>2, <1>3, <1>8, Sizes
<1> QED BY <1>5, <1>9 DEF MapRange

(* A page that vmm_init has mapped is mapped to what the call said.        *)
LEMMA DoneIsMapped ==
  ASSUME VInv, phase \notin {"prep", "vmm_init"},
         NEW c \in DOMAIN InitRanges, NEW page \in Nat, page < InitRanges[c].pages
  PROVE  /\ Mapped(InitRanges[c].virt + page)
         /\ Translate(InitRanges[c].virt + page) = InitRanges[c].frame + page
<1>1. PICK lev, path, hp : Sound(lev, path, hp)
  BY DEF VInv
<1>2. PICK v, f : v = InitRanges[c].virt + page /\ f = InitRanges[c].frame + page
  OBVIOUS
<1>3. v \in Nat /\ f \in Nat
  <2>1. InitRanges[c] \in BootRanges
    BY RangeFact
  <2> QED BY <2>1, <1>2, RangeFact
<1>4. <<c, page>> \in Done
  BY DEF Done
<1>5. PICK t \in DOMAIN entries :
        lev[t] = 0 /\ path[t] = Slot(v) /\ entries[t][Index(v, 0)] = ToTable(f)
  <2>1. Entered(entries, lev, path, Done)
    BY <1>1 DEF Sound, Tables
  <2>2. <<c, page>>[1] = c /\ <<c, page>>[2] = page
    OBVIOUS
  <2> QED BY <2>1, <2>2, <1>2, <1>4 DEF Entered
<1>6. Tree(entries, pml4, lev, path) /\ OnWay(lev, path, t, v)
  BY <1>1, <1>5, SlotIsPath DEF Sound, Tables, OnWay
<1>7. PICK w : IsWalk(w, entries, pml4, v, 0) /\ WalkOf(v) = w[0]
  BY <1>3, <1>6, WalkOfIsWalk DEF Tree, Placed
<1>8. WalkOf(v) = ToTable(f)
  BY <1>3, <1>5, <1>6, <1>7, WalkEnds
<1>9. WalkOf(v).present /\ ~WalkOf(v).huge /\ WalkOf(v).frame = f
  BY <1>3, <1>8, EntryKinds
<1> QED BY <1>2, <1>9 DEF Mapped, Translate

(* The bitmap fits somewhere: otherwise pmm.c would put it at address 0.   *)
BitmapFits ==
  \E i \in DOMAIN Memmap : Memmap[i].type = "usable" /\ Memmap[i].length >= bitmap_size

(* Whatever the code reaches through the direct map is in it.              *)
LEMMA InvDirectMapComplete == ASSUME BitmapFits PROVE VInv => DirectMapComplete
<1> SUFFICES ASSUME VInv, Running PROVE
      /\ \A f \in Pool : Mapped(HhdmOffset + f) /\ Translate(HhdmOffset + f) = f
      /\ \A f \in BitmapFrames : Translate(HhdmOffset + f) = f
      /\ \A n \in 0 .. (IdentityPages - 1) : Translate(n) = n
      /\ \A n \in 0 .. (CeilDiv(kernel_size, PageSize) - 1) :
           Translate(KernelVirt + n) = KernelPhys + n
  BY DEF DirectMapComplete
<1>1. phase \notin {"prep", "vmm_init"}
  BY DEF Running, AtRest, InHeapCall
<1>2. ASSUME NEW i \in DOMAIN Memmap, Allocatable(Memmap[i]), NEW n \in Nat,
             n <= Memmap[i].length, NEW f \in PagesOf(Memmap[i].base, n)
      PROVE  Mapped(HhdmOffset + f) /\ Translate(HhdmOffset + f) = f
  <2>1. PICK page \in Nat :
          page < InitRanges[i + 2].pages /\ f = InitRanges[i + 2].frame + page
            /\ HhdmOffset + f = InitRanges[i + 2].virt + page
    BY <1>2, PagesInRange
  <2>2. i + 2 \in DOMAIN InitRanges
    BY InitRangesAre
  <2> QED BY <1>1, <2>1, <2>2, DoneIsMapped
<1>3. ASSUME NEW f \in Pool PROVE Mapped(HhdmOffset + f) /\ Translate(HhdmOffset + f) = f
  <2>1. PICK i \in DOMAIN Memmap :
          Allocatable(Memmap[i]) /\ f \in PagesOf(Memmap[i].base, Memmap[i].length)
    BY DEF Pool, Reserved, AllocatableFrames
  <2>2. Memmap[i].length \in Nat /\ Memmap[i].length <= Memmap[i].length
    BY MemmapEntries
  <2> QED BY <2>1, <2>2, <1>2
<1>4. ASSUME NEW f \in BitmapFrames PROVE Translate(HhdmOffset + f) = f
  <2> DEFINE fits == {i \in DOMAIN Memmap : /\ Memmap[i].type = "usable"
                                            /\ Memmap[i].length >= bitmap_size}
  <2>1. fits # {} /\ fits \subseteq Nat
    BY MemmapAssumption DEF BitmapFits
  <2>2. Min(fits) \in fits
    <3> HIDE DEF fits
    <3> QED BY <2>1, MinFact
  <2>3. PICK i \in DOMAIN Memmap : i = Min(fits) /\ i \in fits
    BY <2>2
  <2>4. bitmap_physical_addr = Memmap[i].base
    BY <2>1, <2>3 DEF bitmap_physical_addr
  <2>5. Allocatable(Memmap[i]) /\ bitmap_size \in Nat /\ bitmap_size <= Memmap[i].length
    BY <2>3, MemmapEntries, BitmapSizes DEF Allocatable
  <2>6. f \in PagesOf(Memmap[i].base, bitmap_size)
    BY <2>4 DEF BitmapFrames
  <2> QED BY <2>5, <2>6, <1>2
<1>5. ASSUME NEW n \in 0 .. (IdentityPages - 1) PROVE Translate(n) = n
  <2>1. /\ InitRanges[1].virt + n = n /\ InitRanges[1].frame + n = n
        /\ n \in Nat /\ n < InitRanges[1].pages
    BY InitRangesAre, Sizes DEF MapRange
  <2> QED BY <1>1, <2>1, InitRangesAre, DoneIsMapped
<1>6. ASSUME NEW n \in 0 .. (CeilDiv(kernel_size, PageSize) - 1)
      PROVE  Translate(KernelVirt + n) = KernelPhys + n
  <2>1. /\ InitRanges[2].virt = KernelVirt /\ InitRanges[2].frame = KernelPhys
        /\ InitRanges[2].pages = CeilDiv(kernel_size, PageSize)
    BY InitRangesAre DEF MapRange
  <2>2. InitRanges[2].pages \in Nat
    <3>1. InitRanges[2] \in BootRanges
      BY InitRangesAre, RangeFact
    <3> QED BY <3>1, RangeFact
  <2>3. n \in Nat /\ n < InitRanges[2].pages
    BY <2>1, <2>2
  <2> QED BY <1>1, <2>1, <2>3, InitRangesAre, DoneIsMapped
<1> QED BY <1>3, <1>4, <1>5, <1>6

-----------------------------------------------------------------------------
(* Memory until CR3 is loaded.  vmm_init takes no more frames than the     *)
(* tables it needs have places, and pmm.c hands out the lowest first.      *)

(* The frames below what the bootloader left behind, and that they are     *)
(* enough for the tables.                                                  *)
LowFrames == {f \in Pool : \A r \in Reclaimable : f < r}
LowMemorySuffices == Cardinality(PlacesNeeded) <= Cardinality(LowFrames)

Booting == phase \in {"prep", "vmm_init"}
LowestFirst == \A f \in frames, g \in Pool : g < f => g \in frames
BootInv ==
  Booting => VInv /\ MemoryLasts /\ LowestFirst /\ rx = {} /\ huges = {}

(* The values of a function with a finite domain are finitely many.        *)
LEMMA FiniteRange ==
  ASSUME NEW f, IsFiniteSet(DOMAIN f)
  PROVE  IsFiniteSet({f[x] : x \in DOMAIN f})
<1>1. [x \in DOMAIN f |-> f[x]] \in Surjection(DOMAIN f, {f[x] : x \in DOMAIN f})
  BY DEF Surjection
<1> QED BY <1>1, FS_Surjection

(* vmm_init maps finitely many pages and needs finitely many tables.       *)
LEMMA FewPlaces == IsFiniteSet(PlacesNeeded)
<1> DEFINE pages(i) == 0 .. (InitRanges[i].pages - 1)
           virts == [i \in DOMAIN InitRanges |->
                       {InitRanges[i].virt + n : n \in pages(i)}]
           places == [x \in (0 .. (LEVELS - 1)) \X BootPages |-> <<x[1], Path(x[2], x[1])>>]
<1>1. IsFiniteSet(DOMAIN InitRanges)
  <2>1. DOMAIN InitRanges = 1 .. Len(InitRanges) /\ Len(InitRanges) \in Nat
    BY RangeFact
  <2> QED BY <2>1, FS_Interval
<1>2. ASSUME NEW i \in DOMAIN InitRanges PROVE IsFiniteSet(virts[i])
  <2> DEFINE shift == [n \in pages(i) |-> InitRanges[i].virt + n]
  <2>1. InitRanges[i] \in BootRanges
    BY RangeFact
  <2>2. IsFiniteSet(pages(i))
    <3>1. 0 \in Int /\ InitRanges[i].pages - 1 \in Int
      BY <2>1, RangeFact
    <3> QED BY <3>1, FS_Interval
  <2>3. IsFiniteSet({shift[n] : n \in DOMAIN shift})
    <3>1. DOMAIN shift = pages(i)
      OBVIOUS
    <3> HIDE DEF shift
    <3> QED BY <3>1, <2>2, FiniteRange
  <2>4. virts[i] = {shift[n] : n \in DOMAIN shift}
    OBVIOUS
  <2> QED BY <2>3, <2>4
<1>3. IsFiniteSet(BootPages)
  <2>1. DOMAIN virts = DOMAIN InitRanges
    OBVIOUS
  <2>2. BootPages = UNION {virts[i] : i \in DOMAIN virts}
    BY DEF BootPages
  <2> HIDE DEF virts
  <2>3. IsFiniteSet({virts[i] : i \in DOMAIN virts})
    BY <2>1, <1>1, FiniteRange
  <2> QED BY <2>1, <2>2, <2>3, <1>2, FS_UNION
<1>4. IsFiniteSet({places[x] : x \in DOMAIN places})
  <2>1. DOMAIN places = (0 .. (LEVELS - 1)) \X BootPages
    OBVIOUS
  <2>2. IsFiniteSet(0 .. (LEVELS - 1))
    BY Sizes, FS_Interval
  <2>3. IsFiniteSet((0 .. (LEVELS - 1)) \X BootPages)
    BY <2>2, <1>3, FS_Product
  <2> HIDE DEF places
  <2> QED BY <2>1, <2>3, FiniteRange
<1>5. PlacesNeeded = {places[x] : x \in DOMAIN places} \cup {<<LEVELS - 1, Path(0, LEVELS - 1)>>}
  <2>1. /\ \A l \in 0 .. (LEVELS - 1), v \in BootPages :
             <<l, v>> \in DOMAIN places /\ places[<<l, v>>] = <<l, Path(v, l)>>
        /\ \A x \in DOMAIN places :
             /\ x[1] \in 0 .. (LEVELS - 1) /\ x[2] \in BootPages
             /\ places[x] = <<x[1], Path(x[2], x[1])>>
    OBVIOUS
  <2> HIDE DEF places
  <2>2. {<<l, Path(v, l)>> : l \in 0 .. (LEVELS - 1), v \in BootPages}
          = {places[x] : x \in DOMAIN places}
    <3> DEFINE A == {<<l, Path(v, l)>> : l \in 0 .. (LEVELS - 1), v \in BootPages}
               B == {places[x] : x \in DOMAIN places}
    <3>1. ASSUME NEW y \in A PROVE y \in B
      <4>1. PICK l \in 0 .. (LEVELS - 1), v \in BootPages : y = <<l, Path(v, l)>>
        BY <3>1
      <4>2. <<l, v>> \in DOMAIN places /\ y = places[<<l, v>>]
        BY <4>1, <2>1
      <4> QED BY <4>2
    <3>2. ASSUME NEW y \in B PROVE y \in A
      <4>1. PICK x \in DOMAIN places : y = places[x]
        BY <3>2
      <4> QED BY <4>1, <2>1
    <3> QED BY <3>1, <3>2
  <2> QED BY <2>2 DEF PlacesNeeded
<1> HIDE DEF places
<1> QED BY <1>4, <1>5, FS_AddElement

(* Tables have places of their own: there are no more of them than places, *)
(* and fewer while a place is free.                                        *)
LEMMA TablesCounted ==
  ASSUME NEW es, NEW root, NEW lev, NEW path, Tree(es, root, lev, path),
         \A t \in DOMAIN es : <<lev[t], path[t]>> \in PlacesNeeded
  PROVE  /\ Cardinality(DOMAIN es) <= Cardinality(PlacesNeeded)
         /\ Cardinality(DOMAIN es) \in Nat /\ Cardinality(PlacesNeeded) \in Nat
         /\ \A place \in PlacesNeeded :
              (\A t \in DOMAIN es : <<lev[t], path[t]>> # place)
                => Cardinality(DOMAIN es) < Cardinality(PlacesNeeded)
<1> DEFINE at == [t \in DOMAIN es |-> <<lev[t], path[t]>>]
<1>1. \A s, t \in DOMAIN es : at[s] = at[t] => s = t
  BY DEF Tree, Unique
<1>2. at \in [DOMAIN es -> PlacesNeeded] /\ \A t \in DOMAIN es : at[t] = <<lev[t], path[t]>>
  OBVIOUS
<1> HIDE DEF at
<1>3. at \in Injection(DOMAIN es, PlacesNeeded)
  BY <1>1, <1>2 DEF Injection, IsInjective
<1>4. /\ IsFiniteSet(DOMAIN es) /\ Cardinality(DOMAIN es) <= Cardinality(PlacesNeeded)
      /\ Cardinality(DOMAIN es) = Cardinality(PlacesNeeded)
           => at \in Surjection(DOMAIN es, PlacesNeeded)
  BY <1>3, FewPlaces, FS_Injection
<1>5. Cardinality(DOMAIN es) \in Nat /\ Cardinality(PlacesNeeded) \in Nat
  BY <1>4, FewPlaces, FS_CardinalityType
<1>6. ASSUME NEW place \in PlacesNeeded, \A t \in DOMAIN es : <<lev[t], path[t]>> # place
      PROVE  Cardinality(DOMAIN es) < Cardinality(PlacesNeeded)
  <2>1. at \notin Surjection(DOMAIN es, PlacesNeeded)
    BY <1>2, <1>6 DEF Surjection
  <2> QED BY <2>1, <1>4, <1>5
<1> QED BY <1>4, <1>5, <1>6

(* Until CR3 is loaded, the frames held are the tables made so far.        *)
LEMMA BootFrames ==
  ASSUME BootInv, Booting
  PROVE  /\ frames = DOMAIN entries /\ Held = frames /\ bitmap = Reserved \cup frames
         /\ bitmap \subseteq Bits /\ Reserved \subseteq bitmap
         /\ IsFiniteSet(frames) /\ Cardinality(frames) \in Nat
         /\ Cardinality(frames) <= Cardinality(PlacesNeeded) /\ Cardinality(PlacesNeeded) \in Nat
         /\ phase = "prep" => frames = {}
<1>1. VInv /\ rx = {} /\ huges = {}
  BY DEF BootInv
<1>2. frames = DOMAIN entries /\ (phase = "prep" => frames = {})
  BY <1>1 DEF VInv, Owned, Stage
<1>3. Held = frames /\ bitmap = Reserved \cup frames
  BY <1>1 DEF VInv, IInv, Conservation, Held, HugeHeld
<1>4. frames \subseteq Bits /\ bitmap \subseteq Bits
  BY <1>1 DEF VInv, IInv, TypeOK
<1>5. IsFiniteSet(frames) /\ Cardinality(frames) \in Nat
  BY <1>4, BitmapSizes, FS_Subset, FS_CardinalityType
<1>6. Cardinality(PlacesNeeded) \in Nat
  BY FewPlaces, FS_CardinalityType
<1>7. Cardinality(frames) <= Cardinality(PlacesNeeded)
  <2>1. CASE phase = "prep"
    <3>1. Cardinality(frames) = 0
      BY <2>1, <1>2, FS_EmptySet
    <3> QED BY <3>1, <1>6
  <2>2. CASE phase = "vmm_init"
    <3>1. PICK lev, path, hp : Sound(lev, path, hp)
      BY <1>1 DEF VInv
    <3> QED BY <3>1, <2>2, <1>2, TablesCounted DEF Sound, Tables, Needed
  <2> QED BY <2>1, <2>2 DEF Booting
<1> QED BY <1>2, <1>3, <1>4, <1>5, <1>6, <1>7

(* While a place is free, so is a frame.                                   *)
LEMMA RoomForTable ==
  ASSUME LowMemorySuffices, BootInv, Booting, Cardinality(frames) < Cardinality(PlacesNeeded)
  PROVE  first_fit # {}
<1>1. SUFFICES ASSUME first_fit = {} PROVE FALSE
  OBVIOUS
<1>2. Bits \subseteq bitmap
  BY <1>1, BootFrames, FirstFit
<1>3. LowFrames \subseteq frames
  BY <1>2, BootFrames DEF LowFrames, Pool
<1>4. Cardinality(LowFrames) <= Cardinality(frames) /\ Cardinality(LowFrames) \in Nat
  BY <1>3, BootFrames, FS_Subset, FS_CardinalityType
<1> QED BY <1>4, BootFrames DEF LowMemorySuffices

(* The root has a place to go to, and so has a table that a walk needs and *)
(* does not find.                                                          *)
LEMMA PlaceIsFree ==
  ASSUME BootInv, Booting,
         \/ vmm_prep_pml4
         \/ Walk /\ ~entries[table][Index(Virt, level)].present
  PROVE  Cardinality(frames) < Cardinality(PlacesNeeded)
<1>1. CASE vmm_prep_pml4
  <2>1. Cardinality(frames) = 0
    BY <1>1, BootFrames, FS_EmptySet DEF vmm_prep_pml4
  <2>2. PlacesNeeded # {}
    BY PlaceOfRoot
  <2>3. Cardinality(PlacesNeeded) # 0
    BY <2>2, FewPlaces, FS_EmptySet
  <2> QED BY <2>1, <2>3, BootFrames
<1>2. CASE Walk /\ ~entries[table][Index(Virt, level)].present
  <2>1. VInv /\ ~InHeapCall
    BY DEF BootInv, Booting, InHeapCall
  <2>2. level \in 1 .. (LEVELS - 1) /\ level - 1 \in 0 .. (LEVELS - 1) /\ MidWalk
    BY <1>2, <2>1, Sizes DEF Walk, Bottom, MidWalk
  <2>3. phase = "vmm_init"
    BY <2>1, <2>2, BootWalk DEF Booting, MappingPhases
  <2>4. PICK lev, path, hp : Sound(lev, path, hp)
    BY <2>1 DEF VInv
  <2>5. /\ Tree(entries, pml4, lev, path) /\ Needed(entries, lev, path)
        /\ table \in DOMAIN entries /\ lev[table] = level /\ path[table] = Path(Virt, level)
    BY <2>2, <2>3, <2>4 DEF Sound, Tables, Walking, OnWay
  <2>6. Virt \in Nat /\ Index(Virt, level) \in Entries
    <3>1. level \in 0 .. (LEVELS - 1)
      BY <2>2
    <3> QED BY <3>1, <2>1, <2>2, BootWalk, IndexFact
  <2>7. Below(path[table], level, Index(Virt, level)) = Path(Virt, level - 1)
    BY <2>2, <2>5, <2>6, PathDown
  <2>8. ASSUME NEW t \in DOMAIN entries, <<lev[t], path[t]>> = <<level - 1, Path(Virt, level - 1)>>
        PROVE  FALSE
    <3>1. lev[t] = lev[table] - 1 /\ path[t] = Below(path[table], lev[table], Index(Virt, level))
      BY <2>5, <2>7, <2>8
    <3>2. lev[table] > 0 /\ ~IsLink(entries[table][Index(Virt, level)])
      BY <1>2, <2>2, <2>5 DEF IsLink
    <3> QED BY <3>1, <3>2, <2>5, <2>6, NothingBelow
  <2>9. <<level - 1, Path(Virt, level - 1)>> \in PlacesNeeded
    BY <2>1, <2>2, <2>3, PlaceOnWay
  <2> QED BY <2>3, <2>5, <2>8, <2>9, TablesCounted, BootFrames DEF Needed
<1> QED BY <1>1, <1>2

(* A frame taken for a table is the lowest of the pool.                    *)
LEMMA LowestTaken ==
  ASSUME LowMemorySuffices, BootInv, Booting, pmm_alloc,
         Cardinality(frames) < Cardinality(PlacesNeeded)
  PROVE  ret' # 0 /\ UNCHANGED huges /\ LowestFirst'
<1>1. PICK f \in first_fit : frames' = frames \cup {f} /\ ret' = f /\ UNCHANGED huges
  BY RoomForTable DEF pmm_alloc
<1>2. f \in Bits \ bitmap
  BY FirstFit, BootFrames, BitsUpToTotal
<1>3. f \in Pool /\ f # 0
  BY <1>2, BootFrames, PoolFact DEF Pool
<1>4. ASSUME NEW g \in Pool, g < f PROVE g \in frames
  <2>1. SUFFICES ASSUME g \notin frames PROVE FALSE
    OBVIOUS
  <2>2. g \in Bits \ bitmap
    BY <2>1, BootFrames DEF Pool
  <2>3. f <= g
    BY <2>2, BootFrames, FirstFitIsLowest
  <2> QED BY <2>2, <2>3, <1>2, <1>4, BitmapSizes
<1>5. LowestFirst'
  <2>1. Pool' = Pool
    OBVIOUS
  <2> QED BY <1>1, <1>4 DEF LowestFirst, BootInv
<1> QED BY <1>1, <1>3, <1>5

(* Steps of the boot before CR3 is loaded take a frame for a table, or     *)
(* none; nothing leads back there.                                         *)
LEMMA BootSteps ==
  ASSUME VmmNext, Booting'
  PROVE  /\ Booting /\ UNCHANGED rx
         /\ \/ vmm_prep_pml4
            \/ Walk /\ pmm_alloc /\ ~entries[table][Index(Virt, level)].present
            \/ UNCHANGED <<phase, ret, huges, frames>>
<1>1. CASE vmm_prep_pml4
  BY <1>1 DEF vmm_prep_pml4, Booting
<1>2. CASE Walk
  BY <1>2 DEF Walk, Booting, pmmVars
<1>3. CASE BeginMapping \/ RangeDone \/ EnterPage
  BY <1>3 DEF BeginMapping, RangeDone, EnterPage, Booting, pmmVars
<1>4. CASE InitDone \/ MmioDone \/ TakeBuffers \/ MapApi \/ ApiDone
  BY <1>4 DEF InitDone, MmioDone, TakeBuffers, MapApi, ApiDone, Booted, Booting
<1>5. CASE Heap
  BY <1>5 DEF Heap, AllocPayload, WorkloadAllocates, TakeHugePage, EnterHugePage, AllocReturns,
              WorkloadReturns, ResetPage, ResetDone, InHeapCall, Booting
<1>6. CASE CpuCaches
  BY <1>6 DEF CpuCaches, Booting
<1> QED BY <1>1, <1>2, <1>3, <1>4, <1>5, <1>6 DEF VmmNext, Boot

(* vmm_init never runs out of memory.                                      *)
LEMMA BootNextInv ==
  ASSUME LowMemorySuffices, BootInv, [VmmNext]_vmmVars
  PROVE  BootInv'
<1>1. CASE VmmNext
  <2>1. SUFFICES ASSUME Booting'
                 PROVE  (VInv /\ MemoryLasts /\ LowestFirst /\ rx = {} /\ huges = {})'
    BY DEF BootInv
  <2>2. /\ Booting /\ UNCHANGED rx
        /\ \/ vmm_prep_pml4
           \/ Walk /\ pmm_alloc /\ ~entries[table][Index(Virt, level)].present
           \/ UNCHANGED <<phase, ret, huges, frames>>
    BY <1>1, <2>1, BootSteps
  <2>3. (MemoryLasts /\ LowestFirst /\ huges = {})'
    <3>1. CASE UNCHANGED <<phase, ret, huges, frames>>
      BY <3>1, <2>2 DEF BootInv, MemoryLasts, LowestFirst
    <3>2. CASE \/ vmm_prep_pml4
               \/ Walk /\ pmm_alloc /\ ~entries[table][Index(Virt, level)].present
      <4>1. pmm_alloc /\ Cardinality(frames) < Cardinality(PlacesNeeded)
        BY <3>2, <2>2, PlaceIsFree DEF vmm_prep_pml4
      <4>2. ret' # 0 /\ UNCHANGED huges /\ LowestFirst'
        BY <4>1, <2>2, LowestTaken
      <4> QED BY <4>2, <2>2 DEF BootInv, MemoryLasts
    <3> QED BY <3>1, <3>2, <2>2
  <2>4. VInv'
    BY <1>1, <2>2, <2>3, VmmNextInv DEF BootInv
  <2> QED BY <2>2, <2>3, <2>4 DEF BootInv
<1>2. CASE UNCHANGED vmmVars
  <2>1. UNCHANGED <<phase, rx, huges, ret, frames>>
    BY <1>2 DEF vmmVars, pmmVars
  <2>2. Booting' => MemoryLasts'
    BY <2>1 DEF BootInv, Booting, MemoryLasts
  <2>3. Booting' => VInv'
    BY <1>2, <2>1, <2>2, VmmNextInv DEF BootInv, Booting
  <2>4. Booting' => LowestFirst'
    BY <2>1 DEF BootInv, Booting, LowestFirst
  <2> QED BY <2>1, <2>2, <2>3, <2>4 DEF BootInv, Booting
<1> QED BY <1>1, <1>2

(* Frames of the bootloader would be the last to be taken.                 *)
LEMMA InvBootloaderIntact ==
  ASSUME LowMemorySuffices, BootInv
  PROVE  BootloaderIntact
<1>1. SUFFICES ASSUME Booting, NEW f \in Held, f \in Reclaimable PROVE FALSE
  BY DEF BootloaderIntact, Booting
<1>2. f \in frames /\ f \in Nat /\ frames \subseteq Nat
  BY <1>1, BootFrames, BitmapSizes
<1>3. LowFrames \cup {f} \subseteq frames /\ f \notin LowFrames
  <2>1. \A g \in LowFrames : g \in Pool /\ g < f
    BY <1>1 DEF LowFrames
  <2> QED BY <2>1, <1>1, <1>2 DEF BootInv, LowestFirst
<1>4. IsFiniteSet(LowFrames) /\ Cardinality(LowFrames) \in Nat
  BY <1>1, <1>3, BootFrames, FS_Subset, FS_CardinalityType
<1>5. Cardinality(LowFrames) + 1 <= Cardinality(frames)
  <2>1. Cardinality(LowFrames \cup {f}) = Cardinality(LowFrames) + 1
    BY <1>3, <1>4, FS_AddElement
  <2> QED BY <2>1, <1>1, <1>3, BootFrames, FS_Subset
<1> QED BY <1>1, <1>4, <1>5, BootFrames DEF LowMemorySuffices

-----------------------------------------------------------------------------
(* What holds of the kernel for as long as memory lasts.                   *)

(* VInv holds for as long as memory lasts.                                 *)
THEOREM VmmInvariance == VmmSpec /\ []MemoryLasts => []VInv
<1>1. VmmInit => VInv
  BY VmmInitInv
<1>2. VInv /\ [VmmNext]_vmmVars /\ MemoryLasts' => VInv'
  BY VmmNextInv
<1> QED BY <1>1, <1>2, PTL DEF VmmSpec

(* When there is enough usable memory below what the bootloader left,      *)
(* vmm_prep_pml4 and vmm_init get every frame they ask for: until CR3 is   *)
(* loaded MemoryLasts is no hypothesis, but part of the invariant.         *)
THEOREM BootHasMemory ==
  ASSUME LowMemorySuffices
  PROVE  VmmSpec => []BootInv
<1>1. VmmInit => BootInv
  BY VmmInitInv DEF VmmInit, Init, BootInv, MemoryLasts, LowestFirst
<1>2. BootInv /\ [VmmNext]_vmmVars => BootInv'
  BY BootNextInv
<1> QED BY <1>1, <1>2, PTL DEF VmmSpec

(* ... and none of them is one the bootloader's answers and page tables    *)
(* are in, although pmm_init has put those in the pool.                    *)
THEOREM BootloaderIsIntact ==
  ASSUME LowMemorySuffices
  PROVE  VmmSpec => []BootloaderIntact
<1>1. VmmSpec => []BootInv
  BY BootHasMemory
<1>2. BootInv => BootloaderIntact
  BY InvBootloaderIntact
<1> QED BY <1>1, <1>2, PTL

(* The tables vmm.c writes are page tables in frames of the machine, and   *)
(* the heap ends at a huge page within its bound.                          *)
THEOREM VmmTypeCorrect == VmmSpec /\ []MemoryLasts => []VmmTypeOK
<1>1. VInv => VmmTypeOK
  BY InvVmmTypeOK
<1> QED BY <1>1, VmmInvariance, PTL

(* The frames that vmm_map_virt_to_phys and vmm_alloc_huge_page took for   *)
(* tables are reached from the root, each once, and are neither lost nor a *)
(* buffer of the NIC.                                                      *)
THEOREM TablesFormATree == VmmSpec /\ []MemoryLasts => []TablesAreATree
<1>1. VInv => TablesAreATree
  BY InvTablesAreATree
<1> QED BY <1>1, VmmInvariance, PTL

(* Between calls of vmm_alloc_huge_page and vmm_reset_heap the heap is     *)
(* backed by the 2mb pages held, each by one, and nothing is mapped past   *)
(* its end.                                                                *)
THEOREM HeapIsBacked == VmmSpec /\ []MemoryLasts => []HeapBacked
<1>1. VInv => HeapBacked
  BY InvHeapBacked
<1> QED BY <1>1, VmmInvariance, PTL

(* The invlpg of vmm_alloc_huge_page and of vmm_reset_heap suffice: the    *)
(* CPU caches no translation that the tables do not have.                  *)
THEOREM TlbIsCoherent == VmmSpec /\ []MemoryLasts => []TlbCoherent
<1>1. VInv => TlbCoherent
  BY InvTlbCoherent
<1> QED BY <1>1, VmmInvariance, PTL

(* When the bitmap fits in usable memory, what vmm_init mapped stays       *)
(* mapped: the frames pmm.c can hand out, the bitmap, low memory and the   *)
(* kernel.                                                                 *)
THEOREM DirectMapIsComplete ==
  ASSUME BitmapFits
  PROVE  VmmSpec /\ []MemoryLasts => []DirectMapComplete
<1>1. VInv => DirectMapComplete
  BY InvDirectMapComplete
<1> QED BY <1>1, VmmInvariance, PTL

(* vmm.c and the drivers keep to what pmm.c needs of its callers, the      *)
(* memset of a new huge page included: every theorem of Pmm_proof is true  *)
(* of the kernel.                                                          *)
THEOREM UsesPmmWell == VmmSpec /\ []MemoryLasts => PmmProtocol
<1>1. VmmInit => Init
  BY DEF VmmInit
<1>2. VInv /\ [VmmNext]_vmmVars /\ MemoryLasts' => [Next]_vars
  <2> SUFFICES ASSUME VInv, [VmmNext]_vmmVars, MemoryLasts' PROVE [Next]_vars
    OBVIOUS
  <2>1. CASE VmmNext
    BY <2>1, PmmStep
  <2>2. CASE UNCHANGED vmmVars
    BY <2>2 DEF vmmVars, pmmVars, vars
  <2> QED BY <2>1, <2>2
<1> QED BY <1>1, <1>2, VmmInvariance, PTL DEF VmmSpec, Spec, PmmProtocol
=============================================================================
