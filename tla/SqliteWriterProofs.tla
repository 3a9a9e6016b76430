------------------------- MODULE SqliteWriterProofs -------------------------
(***************************************************************************)
(* Proofs about the writer of SQLite files, for any page size, any tables  *)
(* and any sizes of their rows and keys.                                   *)
(*   - Leaves: filled in order they begin at rising cells, cover all of    *)
(*     them and stay inside the page (PackStep, StartsLaid).               *)
(*   - Trees: what a tree holds, in numbers (Numbered): leaf j has the     *)
(*     cells s[j] to end[j], and the divider behind it is the cell up[j];  *)
(*     from this, no cell is in two places (PlacesApart), and a search     *)
(*     leads to the first cell that is not before what is sought           *)
(*     (PathLeads).                                                        *)
(*   - Order: the rows of an index have ranks of their own, one for each   *)
(*     place (RowsRanked).                                                 *)
(*   - Files: every tree of every table stands where sqlite_master says,   *)
(*     on pages that fit (PlacedInv, AllPlaced).                           *)
(***************************************************************************)
EXTENDS SqliteWriter, EntryProofs

-----------------------------------------------------------------------------
(* Sizes *)

LEMMA VarintTyped == \A v : VarintSize(v) \in 1..4
<1>. TAKE v
<1>. DEFINE All == {128, 16384, 2097152}
            S == {full \in All : full <= v}
<1>1. IsFiniteSet(All) /\ Cardinality(All) <= 3
  <2>1. IsFiniteSet({}) /\ Cardinality({}) = 0
    BY FS_EmptySet
  <2>2. IsFiniteSet({128}) /\ Cardinality({128}) <= 1
    <3>1. {128} = {} \cup {128}
      OBVIOUS
    <3>. QED
      BY <2>1, <3>1, FS_AddElement
  <2>3. IsFiniteSet({128, 16384}) /\ Cardinality({128, 16384}) <= 2
    <3>1. {128, 16384} = {128} \cup {16384}
      OBVIOUS
    <3>2. Cardinality({128}) \in Nat
      BY <2>2, FS_CardinalityType
    <3>. QED
      BY <2>2, <3>1, <3>2, FS_AddElement
  <2>4. All = {128, 16384} \cup {2097152}
    OBVIOUS
  <2>5. Cardinality({128, 16384}) \in Nat
    BY <2>3, FS_CardinalityType
  <2>. QED
    BY <2>3, <2>4, <2>5, FS_AddElement
<1>2. S \in SUBSET All
  OBVIOUS
<1>3. IsFiniteSet(S) /\ Cardinality(S) <= Cardinality(All)
  BY <1>1, <1>2, FS_Subset
<1>4. Cardinality(S) \in Nat /\ Cardinality(All) \in Nat
  BY <1>1, <1>3, FS_CardinalityType
<1>5. VarintSize(v) = 1 + Cardinality(S)
  BY DEF VarintSize
<1>. HIDE DEF S, All
<1>. QED
  BY <1>1, <1>3, <1>4, <1>5

\* Cells as buildBTree gets them.
Cell == [rowid : Nat, key : Nat, size : Nat]

LEMMA CellSizesTyped ==
    ASSUME NEW c \in Cell, NEW index \in BOOLEAN
    PROVE  /\ LeafCellSize(c, index) \in c.size + 1..c.size + 8
           /\ InteriorCellSize(c, index) \in Nat
<1>1. VarintSize(c.size) \in 1..4 /\ VarintSize(c.rowid) \in 1..4 /\ c.size \in Nat
  BY VarintTyped DEF Cell
<1>. QED
  BY <1>1 DEF LeafCellSize, InteriorCellSize

SumsTo(u, sizes) ==
    /\ u \in [0..Len(sizes) -> Nat] /\ u[0] = 0
    /\ \A i \in 1..Len(sizes) : u[i] = u[i - 1] + sizes[i] + PointerSize

\* What cells take is added cell by cell.
LEMMA TakenSums ==
    ASSUME NEW sizes \in Seq(Nat)
    PROVE  \E u : SumsTo(u, sizes) /\ Taken(sizes) = u[Len(sizes)]
<1>. DEFINE n == Len(sizes)
            F == [p \in Nat \X (1..n) |-> p[1] + sizes[p[2]] + PointerSize]
            Fixed(f) == f = [i \in 0..n |-> IF i = 0 THEN 0 ELSE f[i - 1] + sizes[i] + PointerSize]
            upTo == CHOOSE f : Fixed(f)
<1>1. Taken(sizes) = upTo[n]
  BY Zenon DEF Taken
<1>2. n \in Nat /\ \A i \in 1..n : sizes[i] \in Nat
  OBVIOUS
<1>3. F \in StepFunctions(Nat, n)
  BY <1>2 DEF StepFunctions, PointerSize
<1>4. PICK u : BuiltBy(u, Nat, 0, F, n)
  <2>. HIDE DEF F, n
  <2>. QED
    BY <1>2, <1>3, StepsExist
<1>5. u \in [0..n -> Nat] /\ u[0] = 0 /\ \A i \in 1..n : u[i] = F[<<u[i - 1], i>>]
  BY <1>4, Zenon DEF BuiltBy
<1>6. \A i \in 1..n : u[i] = u[i - 1] + sizes[i] + PointerSize
  <2>1. TAKE i \in 1..n
  <2>2. u[i - 1] \in Nat
    BY <1>2, <1>5, SMTT(30)
  <2>. HIDE DEF n
  <2>. QED
    BY <1>5, <2>2
<1>7. Fixed(u)
  <2>1. u = [i \in 0..n |-> u[i]]
    BY <1>5
  <2>2. \A i \in 0..n : u[i] = IF i = 0 THEN 0 ELSE u[i - 1] + sizes[i] + PointerSize
    BY <1>2, <1>5, <1>6
  <2>. QED
    BY <2>1, <2>2
<1>8. Fixed(upTo)
  <2>. HIDE DEF Fixed
  <2>. QED
    BY <1>7, Zenon
<1>9. \A i \in 0..n : upTo[i] = u[i]
  <2>1. upTo[0] = 0 /\ \A i \in 1..n : upTo[i] = upTo[i - 1] + sizes[i] + PointerSize
    <3>. HIDE DEF upTo, n
    <3>. QED
      BY <1>2, <1>8
  <2>. HIDE DEF upTo, Fixed, n
  <2>2. SameSteps(upTo, u, n)
    BY <1>5, <1>6, <2>1 DEF SameSteps
  <2>. QED
    BY <1>2, <2>2, StepsAgree
<1>10. Taken(sizes) = u[n] /\ SumsTo(u, sizes)
  <2>1. n \in 0..n
    BY <1>2
  <2>. HIDE DEF upTo
  <2>. QED
    BY <1>1, <1>5, <1>6, <1>9, <2>1 DEF SumsTo
<1>. QED
  BY <1>10

LEMMA TakenTyped ==
    ASSUME NEW sizes \in Seq(Nat) PROVE Taken(sizes) \in Nat
<1>1. PICK u : SumsTo(u, sizes) /\ Taken(sizes) = u[Len(sizes)]
  BY TakenSums
<1>. QED
  BY <1>1 DEF SumsTo

LEMMA TakenOfNone == ASSUME NEW sizes \in Seq(Nat), Len(sizes) = 0 PROVE Taken(sizes) = 0
<1>1. PICK u : SumsTo(u, sizes) /\ Taken(sizes) = u[Len(sizes)]
  BY TakenSums
<1>. QED
  BY <1>1 DEF SumsTo

\* One more cell takes its size and a pointer.
LEMMA TakenOfOneMore ==
    ASSUME NEW s \in Seq(Nat), NEW t \in Seq(Nat), Len(t) = Len(s) + 1,
           \A i \in 1..Len(s) : t[i] = s[i]
    PROVE  Taken(t) = Taken(s) + t[Len(t)] + PointerSize
<1>1. PICK u : SumsTo(u, s) /\ Taken(s) = u[Len(s)]
  BY TakenSums
<1>2. PICK w : SumsTo(w, t) /\ Taken(t) = w[Len(t)]
  BY TakenSums
<1>. DEFINE n == Len(s)
<1>3. n \in Nat /\ n + 1 \in 1..Len(t)
  OBVIOUS
<1>4. SameSteps(w, u, n)
  <2>1. w[0] = u[0]
    BY <1>1, <1>2 DEF SumsTo
  <2>2. ASSUME NEW i \in 1..n, w[i - 1] = u[i - 1] PROVE w[i] = u[i]
    <3>1. i \in 1..Len(s) /\ i \in 1..Len(t) /\ t[i] = s[i]
      OBVIOUS
    <3>2. u[i] = u[i - 1] + s[i] + PointerSize
      BY <1>1, <3>1, Zenon DEF SumsTo
    <3>3. w[i] = w[i - 1] + t[i] + PointerSize
      BY <1>2, <3>1, Zenon DEF SumsTo
    <3>. QED
      BY <2>2, <3>1, <3>2, <3>3, Zenon
  <2>. QED
    BY <2>1, <2>2 DEF SameSteps
<1>5. w[n] = u[n]
  <2>. HIDE DEF n
  <2>. QED
    BY <1>3, <1>4, StepsAgree
<1>6. w[n + 1] = w[(n + 1) - 1] + t[n + 1] + PointerSize
  BY <1>2, <1>3, Zenon DEF SumsTo
<1>. QED
  BY <1>1, <1>2, <1>5, <1>6

-----------------------------------------------------------------------------
(* Runs of cells *)

Run(cells, index, a, b) == Taken(LeafSizes(SubSeq(cells, a, b), index))

LEMMA LeafSizesTyped ==
    ASSUME NEW cells \in Seq(Cell), NEW index \in BOOLEAN
    PROVE  /\ LeafSizes(cells, index) \in Seq(Nat) /\ InteriorSizes(cells, index) \in Seq(Nat)
           /\ Len(LeafSizes(cells, index)) = Len(cells)
           /\ \A i \in 1..Len(cells) : LeafSizes(cells, index)[i] = LeafCellSize(cells[i], index)
<1>1. \A i \in 1..Len(cells) : /\ LeafCellSize(cells[i], index) \in Nat
                               /\ InteriorCellSize(cells[i], index) \in Nat
  <2>1. TAKE i \in 1..Len(cells)
  <2>2. cells[i] \in Cell
    OBVIOUS
  <2>3. cells[i].size \in Nat
    BY <2>2 DEF Cell
  <2>. QED
    BY <2>2, <2>3, CellSizesTyped, SMTT(30)
<1>2. DOMAIN cells = 1..Len(cells) /\ Len(cells) \in Nat
  OBVIOUS
<1>. QED
  BY <1>1, <1>2 DEF LeafSizes, InteriorSizes

LEMMA RunTyped ==
    ASSUME NEW cells \in Seq(Cell), NEW index \in BOOLEAN, NEW a \in 1..Len(cells) + 1, NEW b \in 0..Len(cells)
    PROVE  /\ SubSeq(cells, a, b) \in Seq(Cell) /\ Run(cells, index, a, b) \in Nat
           /\ b < a => Run(cells, index, a, b) = 0
<1>1. /\ SubSeq(cells, a, b) \in Seq(Cell) 
      /\ b < a => Len(SubSeq(cells, a, b)) = 0
  OBVIOUS
<1>. QED
  BY <1>1, LeafSizesTyped, TakenTyped, TakenOfNone DEF Run

\* A run that is one cell longer.
LEMMA RunGrows ==
    ASSUME NEW cells \in Seq(Cell), NEW index \in BOOLEAN, NEW a \in 1..Len(cells), NEW b \in a..Len(cells)
    PROVE  Run(cells, index, a, b)
             = Run(cells, index, a, b - 1) + LeafCellSize(cells[b], index) + PointerSize
<1>. DEFINE s == SubSeq(cells, a, b - 1)
            t == SubSeq(cells, a, b)
<1>1. /\ s \in Seq(Cell) /\ t \in Seq(Cell) /\ Len(t) = Len(s) + 1 /\ Len(s) = b - a
      /\ \A i \in 1..Len(s) : t[i] = s[i]
      /\ t[Len(t)] = cells[b]
  OBVIOUS
<1>. HIDE DEF s, t
<1>. DEFINE x == LeafSizes(s, index)
            y == LeafSizes(t, index)
<1>2. /\ x \in Seq(Nat) /\ y \in Seq(Nat) /\ Len(x) = Len(s) /\ Len(y) = Len(t)
      /\ \A i \in 1..Len(s) : x[i] = LeafCellSize(s[i], index)
      /\ \A i \in 1..Len(t) : y[i] = LeafCellSize(t[i], index)
  BY <1>1, LeafSizesTyped
<1>3. Len(t) \in 1..Len(t) /\ \A i \in 1..Len(s) : i \in 1..Len(t)
  BY <1>1
<1>4. Len(y) = Len(x) + 1 /\ \A i \in 1..Len(x) : y[i] = x[i]
  <2>. HIDE DEF x, y
  <2>. QED
    BY <1>1, <1>2, <1>3
<1>5. Taken(y) = Taken(x) + y[Len(y)] + PointerSize
  <2>. HIDE DEF x, y
  <2>. QED
    BY <1>2, <1>4, TakenOfOneMore
<1>6. y[Len(y)] = LeafCellSize(cells[b], index)
  <2>. HIDE DEF x, y
  <2>. QED
    BY <1>1, <1>2, <1>3
<1>7. Run(cells, index, a, b) = Taken(y) /\ Run(cells, index, a, b - 1) = Taken(x)
  BY DEF Run, s, t
<1>. QED
  BY <1>5, <1>6, <1>7

-----------------------------------------------------------------------------
(* Where the leaves begin *)

\* A cell that buildBTree accepts fits on a leaf of its own.
LEMMA OneCellFits ==
    ASSUME SqliteWriterAssumption, NEW c \in Cell, NEW index \in BOOLEAN, c.size <= InlineLimit(index)
    PROVE  LeafHeader + LeafCellSize(c, index) + PointerSize <= PageSize
<1>1. PageSize \in Nat /\ c.size \in Nat /\ LeafCellSize(c, index) \in c.size + 1..c.size + 8
  BY CellSizesTyped DEF SqliteWriterAssumption, Cell
<1>2. CASE index
  <2>1. c.size <= (((PageSize - 12) * 64) \div 255) - 23
    BY <1>2 DEF InlineLimit
  <2>. QED
    BY <1>1, <2>1 DEF LeafHeader, PointerSize
<1>3. CASE ~index
  BY <1>1, <1>3 DEF InlineLimit, LeafHeader, PointerSize
<1>. QED
  BY <1>2, <1>3

Packed(n) == [starts : Seq(1..n), used : Nat]
FirstPacked == [starts |-> <<1>>, used |-> LeafHeader]

LEMMA PackTyped ==
    ASSUME NEW cells \in Seq(Cell), NEW index \in BOOLEAN, NEW i \in 1..Len(cells),
           NEW q \in Packed(Len(cells))
    PROVE  Pack(q, cells, index, i) \in Packed(Len(cells))
<1>. DEFINE size == LeafCellSize(cells[i], index)
<1>1. size \in Nat
  <2>1. cells[i] \in Cell
    OBVIOUS
  <2>2. cells[i].size \in Nat
    BY <2>1 DEF Cell
  <2>. QED
    BY <2>1, <2>2, CellSizesTyped
<1>2. /\ q.starts \in Seq(1..Len(cells)) /\ q.used \in Nat /\ q = [starts |-> q.starts, used |-> q.used]
  BY DEF Packed
<1>3. Append(q.starts, i) \in Seq(1..Len(cells))
  BY <1>2, AppendTyped
<1>. HIDE DEF size
<1>4. [q EXCEPT !.used = @ + size + PointerSize] \in Packed(Len(cells))
  <2>1. [q EXCEPT !.used = @ + size + PointerSize]
          = [starts |-> q.starts, used |-> q.used + size + PointerSize]
    BY DEF Packed
  <2>. QED
    BY <1>1, <1>2, <2>1 DEF Packed, PointerSize
<1>5. [starts |-> Append(q.starts, i), used |-> LeafHeader + size + PointerSize] \in Packed(Len(cells))
  BY <1>1, <1>3 DEF Packed, PointerSize, LeafHeader
<1>. QED
  BY <1>4, <1>5 DEF Pack, size

PacksTo(p, cells, index) ==
    /\ p \in [0..Len(cells) -> Packed(Len(cells))] /\ p[0] = FirstPacked
    /\ \A i \in 1..Len(cells) : p[i] = Pack(p[i - 1], cells, index, i)

LEMMA StartsPacked ==
    ASSUME NEW cells \in Seq(Cell), Len(cells) > 0, NEW index \in BOOLEAN
    PROVE  \E p : PacksTo(p, cells, index) /\ Starts(cells, index) = p[Len(cells)].starts
<1>. DEFINE n == Len(cells)
            V == Packed(n)
            step(q, i) == Pack(q, cells, index, i)
            F == [p \in V \X (1..n) |-> step(p[1], p[2])]
            Fixed(f) == f = [i \in 0..n |-> IF i = 0 THEN FirstPacked ELSE step(f[i - 1], i)]
            upTo == CHOOSE f : Fixed(f)
<1>1. Starts(cells, index) = upTo[n].starts
  BY Zenon DEF Starts, FirstPacked
<1>2. n \in Nat /\ n >= 1 /\ FirstPacked \in V
  <2>1. n \in Nat /\ n >= 1
    OBVIOUS
  <2>2. 1 \in 1..n /\ <<1>> \in Seq(1..n)
    BY <2>1
  <2>. HIDE DEF n
  <2>. QED
    BY <2>1, <2>2 DEF FirstPacked, Packed, LeafHeader
<1>3. \A q \in V, i \in 1..n : step(q, i) \in V
  BY PackTyped
<1>4. F \in StepFunctions(V, n)
  <2>. HIDE DEF V, step
  <2>. QED
    BY <1>3 DEF StepFunctions
<1>5. PICK u : BuiltBy(u, V, FirstPacked, F, n)
  <2>. HIDE DEF V, F, n
  <2>. QED
    BY <1>2, <1>4, StepsExist
<1>6. u \in [0..n -> V] /\ u[0] = FirstPacked /\ \A i \in 1..n : u[i] = F[<<u[i - 1], i>>]
  BY <1>5, Zenon DEF BuiltBy
<1>7. \A i \in 1..n : u[i] = step(u[i - 1], i)
  <2>1. TAKE i \in 1..n
  <2>2. i - 1 \in 0..n
    BY <1>2
  <2>3. u[i - 1] \in V
    BY <1>6, <2>2
  <2>. HIDE DEF V, step, n
  <2>. QED
    BY <1>6, <2>3
<1>8. Fixed(u)
  <2>1. u = [i \in 0..n |-> u[i]]
    BY <1>6
  <2>2. \A i \in 0..n : u[i] = IF i = 0 THEN FirstPacked ELSE step(u[i - 1], i)
    <3>. HIDE DEF step, V, n
    <3>. QED
      BY <1>2, <1>6, <1>7
  <2>. HIDE DEF V, n, step
  <2>. QED
    BY <2>1, <2>2
<1>9. Fixed(upTo)
  <2>. HIDE DEF Fixed
  <2>. QED
    BY <1>8, Zenon
<1>10. \A i \in 0..n : upTo[i] = u[i]
  <2>1. upTo[0] = FirstPacked /\ \A i \in 1..n : upTo[i] = step(upTo[i - 1], i)
    <3>. HIDE DEF upTo, step, n, V
    <3>. QED
      BY <1>2, <1>9
  <2>. HIDE DEF upTo, step, V, Fixed, n
  <2>2. \A i \in 1..n : upTo[i - 1] = u[i - 1] => upTo[i] = u[i]
    BY <1>7, <2>1
  <2>3. SameSteps(upTo, u, n)
    BY <1>6, <2>1, <2>2 DEF SameSteps
  <2>. QED
    BY <1>2, <2>3, StepsAgree
<1>11. Starts(cells, index) = u[n].starts /\ PacksTo(u, cells, index)
  <2>1. n \in 0..n
    BY <1>2
  <2>. HIDE DEF upTo
  <2>. QED
    BY <1>1, <1>6, <1>7, <1>10, <2>1 DEF PacksTo
<1>. QED
  BY <1>11

\* Leaves that follow one another and hold what they can.
Begins(s, n) == s \in Seq(1..n) /\ Len(s) >= 1 /\ s[1] = 1 /\ \A j \in 1..Len(s) - 1 : s[j] < s[j + 1]
RoomFor(cells, index, a, b) == LeafHeader + Run(cells, index, a, b) <= PageSize
PackedInv(q, cells, index, i) ==
    /\ Begins(q.starts, Len(cells))
    /\ q.starts[Len(q.starts)] <= (IF i = 0 THEN 1 ELSE i)
    /\ q.used = LeafHeader + Run(cells, index, q.starts[Len(q.starts)], i)
    /\ i > 0 => q.used <= PageSize
    /\ \A j \in 1..Len(q.starts) - 1 : RoomFor(cells, index, q.starts[j], q.starts[j + 1] - 1)

LEMMA BeginsLonger ==
    ASSUME NEW n \in Nat, NEW s, Begins(s, n), NEW i \in 1..n, s[Len(s)] < i
    PROVE  /\ Begins(Append(s, i), n) /\ Len(Append(s, i)) = Len(s) + 1
           /\ Append(s, i)[Len(s) + 1] = i /\ \A j \in 1..Len(s) : Append(s, i)[j] = s[j]
<1>1. s \in Seq(1..n) /\ Len(s) \in Nat /\ Len(s) >= 1
  BY DEF Begins
<1>. DEFINE t == Append(s, i)
<1>2. /\ t \in Seq(1..n) /\ Len(t) = Len(s) + 1 /\ t[Len(s) + 1] = i
      /\ \A j \in 1..Len(s) : t[j] = s[j]
  BY <1>1
<1>. HIDE DEF t
<1>3. t[1] = 1 /\ \A j \in 1..Len(t) - 1 : t[j] < t[j + 1]
  <2>1. 1 \in 1..Len(s)
    BY <1>1
  <2>2. ASSUME NEW j \in 1..Len(t) - 1 PROVE t[j] < t[j + 1]
    <3>1. CASE j = Len(s)
      BY <1>1, <1>2, <3>1
    <3>2. CASE j # Len(s)
      <4>1. j \in 1..Len(s) - 1 /\ j \in 1..Len(s) /\ j + 1 \in 1..Len(s)
        BY <1>1, <1>2, <3>2
      <4>. QED
        BY <1>2, <4>1 DEF Begins
    <3>. QED
      BY <3>1, <3>2
  <2>. QED
    BY <1>2, <2>1, <2>2 DEF Begins
<1>. QED
  BY <1>1, <1>2, <1>3 DEF Begins, t

LEMMA PackStep ==
    ASSUME SqliteWriterAssumption, NEW cells \in Seq(Cell), NEW index \in BOOLEAN,
           \A k \in 1..Len(cells) : cells[k].size <= InlineLimit(index),
           NEW i \in 1..Len(cells), NEW q \in Packed(Len(cells)), PackedInv(q, cells, index, i - 1)
    PROVE  PackedInv(Pack(q, cells, index, i), cells, index, i)
<1>. DEFINE n == Len(cells)
            size == LeafCellSize(cells[i], index)
            s == q.starts
            last == s[Len(s)]
            r == Pack(q, cells, index, i)
<1>1. /\ Begins(s, n) /\ last \in 1..n /\ last <= (IF i - 1 = 0 THEN 1 ELSE i - 1)
      /\ s \in Seq(1..n) /\ Len(s) \in Nat /\ Len(s) >= 1
      /\ q.used \in Nat /\ q.used = LeafHeader + Run(cells, index, last, i - 1)
      /\ i - 1 > 0 => q.used <= PageSize
      /\ \A j \in 1..Len(s) - 1 : RoomFor(cells, index, s[j], s[j + 1] - 1)
  BY DEF PackedInv, Packed, Begins
<1>2. n \in Nat /\ i \in Nat /\ i >= 1 /\ cells[i] \in Cell /\ cells[i].size <= InlineLimit(index)
  OBVIOUS
<1>3. size \in Nat /\ PageSize \in Nat /\ LeafHeader + size + PointerSize <= PageSize
  <2>1. cells[i].size \in Nat /\ PageSize \in Nat
    BY <1>2 DEF Cell, SqliteWriterAssumption
  <2>2. size \in cells[i].size + 1..cells[i].size + 8
    BY <1>2, CellSizesTyped, Zenon
  <2>3. LeafHeader + size + PointerSize <= PageSize
    BY <1>2, OneCellFits, Zenon
  <2>. HIDE DEF size
  <2>. QED
    BY <2>1, <2>2, <2>3
<1>4. Last(s) = last
  BY DEF Last
<1>5. CASE last = i \/ FitsLeaf(q.used, size)
  <2>1. r = [q EXCEPT !.used = @ + size + PointerSize]
    BY <1>4, <1>5, Zenon DEF Pack
  <2>2. r.starts = s /\ r.used = q.used + size + PointerSize
    BY <2>1 DEF Packed
  <2>3. last \in 1..i
    BY <1>1, <1>2
  <2>4. Run(cells, index, last, i) = Run(cells, index, last, i - 1) + size + PointerSize
    BY <2>3, RunGrows
  <2>5. Run(cells, index, last, i - 1) \in Nat /\ (last = i => Run(cells, index, last, i - 1) = 0)
    <3>1. last \in 1..Len(cells) + 1 /\ i - 1 \in 0..Len(cells) /\ (last = i => i - 1 < last)
      BY <1>1, <1>2
    <3>. HIDE DEF last
    <3>. QED
      BY <3>1, RunTyped
  <2>6. r.used = LeafHeader + Run(cells, index, last, i)
    BY <1>1, <1>3, <2>2, <2>4, <2>5 DEF LeafHeader, PointerSize
  <2>7. r.used <= PageSize
    <3>1. CASE FitsLeaf(q.used, size)
      BY <2>2, <3>1 DEF FitsLeaf
    <3>2. CASE last = i
      <4>1. q.used = LeafHeader
        BY <1>1, <2>5, <3>2 DEF LeafHeader
      <4>. QED
        BY <1>3, <2>2, <4>1 DEF LeafHeader, PointerSize
    <3>. QED
      BY <1>5, <3>1, <3>2
  <2>8. last <= (IF i = 0 THEN 1 ELSE i)
    BY <2>3
  <2>. HIDE DEF s, last, r, size
  <2>. QED
    BY <1>1, <2>2, <2>6, <2>7, <2>8 DEF PackedInv, s, last, r, n
<1>6. CASE ~(last = i \/ FitsLeaf(q.used, size))
  <2>1. r = [starts |-> Append(s, i), used |-> LeafHeader + size + PointerSize]
    BY <1>4, <1>6, Zenon DEF Pack
  <2>. DEFINE t == Append(s, i)
  <2>2. r.starts = t /\ r.used = LeafHeader + size + PointerSize
    BY <2>1
  <2>3. last < i /\ i - 1 > 0 /\ i - 1 \in 1..n
    BY <1>1, <1>2, <1>6
  <2>4. /\ Begins(t, n) /\ Len(t) = Len(s) + 1
        /\ t[Len(s) + 1] = i /\ \A j \in 1..Len(s) : t[j] = s[j]
    BY <1>1, <1>2, <2>3, BeginsLonger, SMTT(30)
  <2>5. Run(cells, index, i, i) = Run(cells, index, i, i - 1) + size + PointerSize
    BY <1>2, RunGrows
  <2>6. Run(cells, index, i, i - 1) = 0
    BY <1>2, <2>3, RunTyped
  <2>. HIDE DEF t, r, last, s, size
  <2>7. r.used = LeafHeader + Run(cells, index, t[Len(t)], i)
    BY <1>3, <2>2, <2>4, <2>5, <2>6 DEF LeafHeader, PointerSize
  <2>8. r.used <= PageSize
    BY <1>3, <2>2
  <2>9. ASSUME NEW j \in 1..Len(t) - 1 PROVE RoomFor(cells, index, t[j], t[j + 1] - 1)
    <3>1. CASE j = Len(s)
      <4>1. t[j] = last /\ t[j + 1] - 1 = i - 1
        BY <1>1, <2>4, <3>1 DEF last
      <4>. QED
        BY <1>1, <2>3, <4>1 DEF RoomFor
    <3>2. CASE j # Len(s)
      <4>1. j \in 1..Len(s) - 1 /\ j \in 1..Len(s) /\ j + 1 \in 1..Len(s)
        BY <1>1, <2>4, <3>2
      <4>. QED
        BY <1>1, <2>4, <4>1
    <3>. QED
      BY <3>1, <3>2
  <2>10. t[Len(t)] <= (IF i = 0 THEN 1 ELSE i)
    BY <1>2, <2>4
  <2>. QED
    BY <2>2, <2>4, <2>7, <2>8, <2>9, <2>10 DEF PackedInv, r, n
<1>. QED
  BY <1>5, <1>6

\* The leaves of the cells follow one another, and each holds its own.
Laid(s, cells, index) ==
    /\ Begins(s, Len(cells))
    /\ \A j \in 1..Len(s) :
         /\ EndOf(s, Len(cells), j) \in s[j]..Len(cells)
         /\ RoomFor(cells, index, s[j], EndOf(s, Len(cells), j))

LEMMA StartsLaid ==
    ASSUME SqliteWriterAssumption, NEW cells \in Seq(Cell), Len(cells) > 0, NEW index \in BOOLEAN,
           \A k \in 1..Len(cells) : cells[k].size <= InlineLimit(index)
    PROVE  Laid(Starts(cells, index), cells, index)
<1>. DEFINE n == Len(cells)
<1>1. PICK p : PacksTo(p, cells, index) /\ Starts(cells, index) = p[n].starts
  BY StartsPacked
<1>. DEFINE S == {i \in 0..n : PackedInv(p[i], cells, index, i)}
<1>2. n \in Nat /\ n >= 1 /\ 1 \in 1..n
  OBVIOUS
<1>3. 0 \in S
  <2>1. p[0].starts = <<1>> /\ p[0].used = LeafHeader
    BY <1>1 DEF PacksTo, FirstPacked
  <2>2. <<1>> \in Seq(1..n) /\ Len(<<1>>) = 1 /\ <<1>>[1] = 1
    BY <1>2
  <2>3. Run(cells, index, 1, 0) = 0
    BY <1>2, RunTyped
  <2>4. PackedInv(p[0], cells, index, 0)
    <3>. HIDE DEF n
    <3>1. Begins(p[0].starts, n) /\ p[0].starts[Len(p[0].starts)] = 1 /\ Len(p[0].starts) - 1 = 0
      BY <2>1, <2>2 DEF Begins
    <3>. QED
      BY <2>1, <2>3, <3>1 DEF PackedInv, LeafHeader, n
  <2>. QED
    BY <1>2, <2>4
<1>4. ASSUME NEW i \in 1..n, i - 1 \in S PROVE i \in S
  <2>1. p[i - 1] \in Packed(n)
    BY <1>1, <1>2 DEF PacksTo
  <2>2. p[i] = Pack(p[i - 1], cells, index, i)
    BY <1>1, Zenon DEF PacksTo
  <2>3. PackedInv(p[i - 1], cells, index, i - 1)
    BY <1>4
  <2>4. PackedInv(p[i], cells, index, i)
    BY <2>1, <2>2, <2>3, PackStep
  <2>. QED
    BY <2>4
<1>5. n \in S
  <2>. HIDE DEF S, n
  <2>1. 0..n \subseteq S
    BY <1>2, <1>3, <1>4, UpTo
  <2>. QED
    BY <1>2, <2>1
<1>. DEFINE s == p[n].starts
<1>6. PackedInv(p[n], cells, index, n)
  BY <1>5
<1>. HIDE DEF S
<1>7. ASSUME NEW j \in 1..Len(s)
      PROVE  EndOf(s, n, j) \in s[j]..n /\ RoomFor(cells, index, s[j], EndOf(s, n, j))
  <2>1. Begins(s, n) /\ s \in Seq(1..n) /\ s[j] \in 1..n /\ s[Len(s)] <= n /\ Len(s) \in Nat
    BY <1>2, <1>6, SMTT(30) DEF PackedInv, Begins
  <2>2. CASE j = Len(s)
    <3>1. p[n].used = LeafHeader + Run(cells, index, s[j], n) /\ p[n].used <= PageSize
      BY <1>2, <1>6, <2>2 DEF PackedInv
    <3>2. EndOf(s, n, j) = n
      BY <2>2 DEF EndOf
    <3>. HIDE DEF s
    <3>. QED
      BY <1>2, <2>1, <2>2, <3>1, <3>2 DEF RoomFor
  <2>3. CASE j # Len(s)
    <3>1. j \in 1..Len(s) - 1 /\ j + 1 \in 1..Len(s)
      BY <2>1, <2>3, SMTT(30)
    <3>2. EndOf(s, n, j) = s[j + 1] - 1
      BY <2>3 DEF EndOf
    <3>3. RoomFor(cells, index, s[j], s[j + 1] - 1)
      BY <1>6, <3>1 DEF PackedInv
    <3>4. s[j] < s[j + 1] /\ s[j + 1] \in 1..n
      <4>. HIDE DEF s
      <4>. QED
        BY <2>1, <3>1 DEF Begins
    <3>. HIDE DEF s, n
    <3>5. s[j + 1] - 1 \in s[j]..n
      BY <1>2, <2>1, <3>4
    <3>. QED
      BY <3>2, <3>3, <3>5
  <2>. QED
    BY <2>2, <2>3
<1>8. Begins(s, n)
  BY <1>6 DEF PackedInv
<1>. QED
  BY <1>1, <1>7, <1>8 DEF Laid

LEMMA BeginsRises ==
    ASSUME NEW n \in Nat, NEW s, Begins(s, n), NEW j \in 1..Len(s), NEW k \in 1..Len(s), j < k
    PROVE  s[j] < s[k] /\ EndOf(s, n, j) < s[k]
<1>1. /\ s \in Seq(1..n) /\ Len(s) \in Nat /\ \A i \in 1..Len(s) : s[i] \in 1..n
      /\ \A i \in 1..Len(s) - 1 : s[i] < s[i + 1]
  BY DEF Begins
<1>. DEFINE m == Len(s) - (j + 1)
            S == {d \in 0..m : s[j + 1] <= s[j + 1 + d]}
<1>2. m \in Nat /\ 0 \in S
  BY <1>1
<1>3. ASSUME NEW d \in 1..m, d - 1 \in S PROVE d \in S
  <2>1. s[j + 1] <= s[j + 1 + (d - 1)]
    BY <1>3
  <2>2. j + d \in 1..Len(s) - 1 /\ j + 1 + (d - 1) = j + d /\ j + 1 + d = (j + d) + 1
        /\ j + 1 \in 1..Len(s) /\ (j + d) + 1 \in 1..Len(s)
    BY <1>1
  <2>3. s[j + d] < s[(j + d) + 1]
    BY <1>1, <2>2
  <2>4. s[j + 1] \in Nat /\ s[j + d] \in Nat /\ s[(j + d) + 1] \in Nat
    BY <1>1, <2>2, SMTT(30)
  <2>. QED
    BY <2>1, <2>2, <2>3, <2>4
<1>4. 0..m \subseteq S
  <2>. HIDE DEF S, m
  <2>. QED
    BY <1>2, <1>3, UpTo
<1>5. k - (j + 1) \in 0..m /\ j + 1 + (k - (j + 1)) = k
  BY <1>1
<1>6. s[j + 1] <= s[k]
  BY <1>4, <1>5
<1>7. s[j] < s[j + 1] /\ EndOf(s, n, j) = s[j + 1] - 1
  BY <1>1 DEF EndOf
<1>8. s[j] \in Nat /\ s[k] \in Nat /\ s[j + 1] \in Nat
  BY <1>1
<1>. QED
  BY <1>6, <1>7, <1>8

\* Every cell is on a leaf.
LEMMA LeafOfCell ==
    ASSUME NEW n \in Nat, NEW s, Begins(s, n), NEW i \in 1..n
    PROVE  \E j \in 1..Len(s) : s[j] <= i /\ i <= EndOf(s, n, j)
<1>1. /\ s \in Seq(1..n) /\ Len(s) \in Nat /\ 1 \in 1..Len(s) /\ s[1] = 1
      /\ \A j \in 1..Len(s) : s[j] \in 1..n
  BY DEF Begins
<1>. DEFINE J == {j \in 1..Len(s) : s[j] <= i}
<1>2. J \in SUBSET Nat /\ J # {} /\ \A j \in J : j <= Len(s)
  BY <1>1
<1>3. PICK j \in J : \A k \in J : k <= j
  <2>. HIDE DEF J
  <2>. QED
    BY <1>1, <1>2, HasLargest
<1>4. i <= EndOf(s, n, j)
  <2>1. CASE j = Len(s)
    BY <2>1 DEF EndOf
  <2>2. CASE j # Len(s)
    <3>1. j + 1 \in 1..Len(s) /\ ~(j + 1 <= j)
      BY <1>1, <2>2
    <3>2. ~(s[j + 1] <= i)
      BY <1>3, <3>1
    <3>3. EndOf(s, n, j) = s[j + 1] - 1 /\ s[j + 1] \in Nat
      BY <1>1, <2>2, <3>1 DEF EndOf
    <3>. QED
      BY <3>2, <3>3
  <2>. QED
    BY <2>1, <2>2
<1>. QED
  BY <1>4

-----------------------------------------------------------------------------
(* Trees *)

\* Where the cells of a leaf end: the divider of an index moves up.
LeafEnd(s, n, index, j) == IF index /\ j < Len(s) THEN EndOf(s, n, j) - 1 ELSE EndOf(s, n, j)

\* A tree over cells with leaves that begin at s.
Built(tree, s, cells, index) ==
    /\ Laid(s, cells, index)
    /\ tree.index = index
    /\ tree.leaves \in Seq(Seq(Cell)) /\ Len(tree.leaves) = Len(s)
    /\ \A j \in 1..Len(s) : tree.leaves[j] = SubSeq(cells, s[j], LeafEnd(s, Len(cells), index, j))
    /\ tree.dividers \in Seq(Cell) /\ Len(tree.dividers) = Len(s) - 1
    /\ \A j \in 1..Len(s) - 1 : tree.dividers[j] = cells[EndOf(s, Len(cells), j)]
    /\ InteriorHeader + Taken(InteriorSizes(tree.dividers, index)) <= PageSize

LEMMA RunEnds ==
    ASSUME NEW cells \in Seq(Cell), NEW a \in 1..Len(cells), NEW b \in a..Len(cells)
    PROVE  /\ SubSeq(cells, a, b) \in Seq(Cell) /\ SubSeq(cells, a, b - 1) \in Seq(Cell)
           /\ Last(SubSeq(cells, a, b)) = cells[b]
           /\ Front(SubSeq(cells, a, b)) = SubSeq(cells, a, b - 1)
<1>. DEFINE t == SubSeq(cells, a, b)
<1>1. t \in Seq(Cell) /\ Len(t) = b - a + 1 /\ \A i \in 1..Len(t) : t[i] = cells[a + i - 1]
  OBVIOUS
<1>2. SubSeq(cells, a, b - 1) \in Seq(Cell)
  OBVIOUS
<1>3. SubSeq(t, 1, Len(t) - 1) = SubSeq(cells, a, b - 1)
  OBVIOUS
<1>4. t[Len(t)] = cells[b]
  OBVIOUS
<1>. QED
  BY <1>1, <1>2, <1>3, <1>4 DEF Last, Front

LEMMA BTreeBuilt ==
    ASSUME SqliteWriterAssumption, NEW cells \in Seq(Cell), Len(cells) > 0, NEW index \in BOOLEAN,
           BTree(cells, index).ok
    PROVE  Built(BTree(cells, index), Starts(cells, index), cells, index)
<1>. DEFINE n == Len(cells)
            s == Starts(cells, index)
            leaves == Leaves(cells, index)
            dividers == [i \in 1..Len(leaves) - 1 |-> Last(leaves[i])]
            tree == BTree(cells, index)
            bad == \/ \E i \in DOMAIN cells : cells[i].size > InlineLimit(index)
                   \/ Len(leaves) > MaxLeaves
                   \/ index /\ \E i \in DOMAIN dividers : Len(leaves[i]) < 2
                   \/ InteriorHeader + Taken(InteriorSizes(dividers, index)) > PageSize
            good == [ok |-> TRUE, index |-> index, leaves |-> Divided(leaves, index), dividers |-> dividers]
<1>1. tree = IF bad THEN Failed ELSE good
  BY Zenon DEF BTree
<1>2. ~bad /\ tree = good
  <2>. HIDE DEF bad, good, tree
  <2>1. tree.ok
    BY DEF tree
  <2>2. ~Failed.ok
    BY DEF Failed
  <2>. QED
    BY <1>1, <2>1, <2>2
<1>3. DOMAIN cells = 1..n /\ n \in Nat
  OBVIOUS
<1>4. \A i \in 1..n : cells[i].size <= InlineLimit(index)
  <2>1. ASSUME NEW i \in 1..n PROVE cells[i].size <= InlineLimit(index)
    <3>1. ~(cells[i].size > InlineLimit(index))
      BY <1>2, <1>3
    <3>2. cells[i] \in Cell /\ InlineLimit(index) \in Int
      BY DEF InlineLimit, SqliteWriterAssumption
    <3>3. cells[i].size \in Nat
      BY <3>2 DEF Cell
    <3>. QED
      BY <3>1, <3>2, <3>3
  <2>. QED
    BY <2>1
<1>5. Laid(s, cells, index)
  BY <1>4, StartsLaid
<1>. HIDE DEF s, bad
<1>6. /\ s \in Seq(1..n) /\ Len(s) \in Nat /\ DOMAIN s = 1..Len(s) /\ Len(s) >= 1
      /\ \A j \in 1..Len(s) : s[j] \in 1..n /\ EndOf(s, n, j) \in s[j]..n
  BY <1>5 DEF Laid, Begins
<1>7. leaves = [j \in 1..Len(s) |-> SubSeq(cells, s[j], EndOf(s, n, j))]
  BY <1>6, Zenon DEF Leaves, s
<1>. HIDE DEF leaves
<1>8. ASSUME NEW j \in 1..Len(s)
      PROVE  /\ leaves[j] \in Seq(Cell) /\ Front(leaves[j]) = SubSeq(cells, s[j], EndOf(s, n, j) - 1)
             /\ Last(leaves[j]) = cells[EndOf(s, n, j)] /\ Front(leaves[j]) \in Seq(Cell)
             /\ cells[EndOf(s, n, j)] \in Cell
  <2>1. s[j] \in 1..n /\ EndOf(s, n, j) \in s[j]..n /\ EndOf(s, n, j) \in 1..n
    BY <1>6
  <2>2. leaves[j] = SubSeq(cells, s[j], EndOf(s, n, j))
    BY <1>7
  <2>3. cells[EndOf(s, n, j)] \in Cell
    BY <2>1
  <2>. DEFINE a == s[j]
              b == EndOf(s, n, j)
  <2>4. a \in 1..n /\ b \in a..n
    BY <2>1
  <2>. HIDE DEF a, b
  <2>5. /\ SubSeq(cells, a, b) \in Seq(Cell) /\ SubSeq(cells, a, b - 1) \in Seq(Cell)
        /\ Last(SubSeq(cells, a, b)) = cells[b]
        /\ Front(SubSeq(cells, a, b)) = SubSeq(cells, a, b - 1)
    BY <2>4, RunEnds
  <2>. QED
    BY <2>2, <2>3, <2>5, Zenon DEF a, b
<1>9. Len(leaves) = Len(s) /\ DOMAIN leaves = 1..Len(s)
  <2>1. leaves \in Seq(Seq(Cell))
    BY <1>6, <1>7, <1>8
  <2>. QED
    BY <1>6, <1>7, <2>1
<1>10. /\ dividers \in Seq(Cell) /\ Len(dividers) = Len(s) - 1
       /\ \A j \in 1..Len(s) - 1 : dividers[j] = cells[EndOf(s, n, j)]
  <2>1. dividers = [i \in 1..Len(s) - 1 |-> Last(leaves[i])]
    BY <1>9
  <2>2. \A i \in 1..Len(s) - 1 : i \in 1..Len(s)
    BY <1>6
  <2>3. \A i \in 1..Len(s) - 1 : Last(leaves[i]) = cells[EndOf(s, n, i)] /\ cells[EndOf(s, n, i)] \in Cell
    BY <1>8, <2>2
  <2>4. Len(s) - 1 \in Nat
    BY <1>6
  <2>. HIDE DEF dividers
  <2>. QED
    BY <2>1, <2>3, <2>4
<1>11. /\ Divided(leaves, index) \in Seq(Seq(Cell)) /\ Len(Divided(leaves, index)) = Len(s)
       /\ \A j \in 1..Len(s) : Divided(leaves, index)[j] = SubSeq(cells, s[j], LeafEnd(s, n, index, j))
  <2>. DEFINE D == Divided(leaves, index)
  <2>1. D = [i \in 1..Len(s) |-> IF index /\ i < Len(s) THEN Front(leaves[i]) ELSE leaves[i]]
    BY <1>9, Zenon DEF Divided
  <2>2. ASSUME NEW j \in 1..Len(s)
        PROVE  D[j] = SubSeq(cells, s[j], LeafEnd(s, n, index, j)) /\ D[j] \in Seq(Cell)
    <3>1. D[j] = IF index /\ j < Len(s) THEN Front(leaves[j]) ELSE leaves[j]
      BY <2>1, Zenon
    <3>2. leaves[j] = SubSeq(cells, s[j], EndOf(s, n, j))
      BY <1>7
    <3>. HIDE DEF D
    <3>. QED
      BY <1>8, <3>1, <3>2 DEF LeafEnd
  <2>. HIDE DEF D
  <2>3. D \in Seq(Seq(Cell)) /\ Len(D) = Len(s)
    BY <1>6, <2>1, <2>2
  <2>. QED
    BY <2>2, <2>3 DEF D
<1>12. InteriorHeader + Taken(InteriorSizes(dividers, index)) <= PageSize
  <2>1. ~(InteriorHeader + Taken(InteriorSizes(dividers, index)) > PageSize)
    BY <1>2 DEF bad
  <2>2. Taken(InteriorSizes(dividers, index)) \in Nat
    BY <1>10, LeafSizesTyped, TakenTyped
  <2>. QED
    BY <2>1, <2>2 DEF SqliteWriterAssumption, InteriorHeader
<1>13. /\ tree.index = index /\ tree.leaves = Divided(leaves, index) /\ tree.dividers = dividers
  <2>. HIDE DEF dividers, tree
  <2>. QED
    BY <1>2
<1>. QED
  BY <1>5, <1>10, <1>11, <1>12, <1>13, Zenon DEF Built, s

-----------------------------------------------------------------------------
(* The order of an index *)

Behind(rows, r) == {s \in DOMAIN rows : Precedes(rows, s, r)}

LEMMA RowsTyped ==
    ASSUME NEW rows \in Seq(Row)
    PROVE  /\ DOMAIN rows = 1..Len(rows) /\ Len(rows) \in Nat
           /\ \A r \in 1..Len(rows) : /\ rows[r] \in Row /\ rows[r].key \in Nat
                                      /\ rows[r].size \in Nat /\ rows[r].keySize \in Nat
<1>1. /\ DOMAIN rows = 1..Len(rows) /\ Len(rows) \in Nat /\ \A r \in 1..Len(rows) : rows[r] \in Row
  OBVIOUS
<1>2. \A row \in Row : row.key \in Nat /\ row.size \in Nat /\ row.keySize \in Nat
  <2>1. Largest \in Nat
    BY SMT DEF Largest
  <2>2. 0..Largest \subseteq Nat
    BY SMT, <2>1
  <2>. QED
    BY SMT, <2>2 DEF Row
<1>. QED
  BY <1>1, <1>2

LEMMA PrecedesOrders ==
    ASSUME NEW rows \in Seq(Row)
    PROVE  /\ \A a \in 1..Len(rows) : ~Precedes(rows, a, a)
           /\ \A a, b \in 1..Len(rows) : a = b \/ Precedes(rows, a, b) \/ Precedes(rows, b, a)
           /\ \A a, b \in 1..Len(rows) : Precedes(rows, a, b) => rows[a].key <= rows[b].key
           /\ \A a, b, c \in 1..Len(rows) :
                Precedes(rows, a, b) /\ Precedes(rows, b, c) => Precedes(rows, a, c)
<1>1. Len(rows) \in Nat /\ \A r \in 1..Len(rows) : rows[r].key \in Nat
  BY RowsTyped
<1>. QED
  BY <1>1 DEF Precedes

\* A row has a rank of its own, and more rank than those before it.
LEMMA RankRises ==
    ASSUME NEW rows \in Seq(Row), NEW a \in 1..Len(rows)
    PROVE  /\ Rank(rows, a) \in 1..Len(rows)
           /\ \A b \in 1..Len(rows) : Precedes(rows, a, b) => Rank(rows, a) < Rank(rows, b)
<1>. DEFINE n == Len(rows)
<1>1. n \in Nat /\ DOMAIN rows = 1..n /\ IsFiniteSet(1..n) /\ Cardinality(1..n) = n
  <2>1. n \in Nat /\ DOMAIN rows = 1..n
    OBVIOUS
  <2>. HIDE DEF n
  <2>2. IsFiniteSet(1..n) /\ Cardinality(1..n) = IF 1 > n THEN 0 ELSE n - 1 + 1
    BY <2>1, FS_Interval
  <2>. QED
    BY <2>1, <2>2
<1>2. ASSUME NEW r \in 1..n
      PROVE  /\ Behind(rows, r) \subseteq (1..n) \ {r} /\ IsFiniteSet(Behind(rows, r))
             /\ Cardinality(Behind(rows, r)) \in 0..n - 1 /\ Rank(rows, r) = Cardinality(Behind(rows, r)) + 1
  <2>1. Behind(rows, r) \subseteq (1..n) \ {r}
    BY <1>1, PrecedesOrders DEF Behind
  <2>. DEFINE Others == (1..n) \ {r}
  <2>2. IsFiniteSet(Others) /\ Cardinality(Others) = n - 1
    BY <1>1, FS_RemoveElement
  <2>. HIDE DEF Others
  <2>3. Behind(rows, r) \in SUBSET Others
    BY <2>1 DEF Others
  <2>4. IsFiniteSet(Behind(rows, r)) /\ Cardinality(Behind(rows, r)) <= n - 1
    BY <2>2, <2>3, FS_Subset
  <2>5. Cardinality(Behind(rows, r)) \in Nat
    BY <2>4, FS_CardinalityType
  <2>6. Rank(rows, r) = Cardinality(Behind(rows, r)) + 1
    BY Zenon DEF Rank, Behind
  <2>. HIDE DEF n
  <2>. QED
    BY <1>1, <2>1, <2>4, <2>5, <2>6
<1>3. ASSUME NEW b \in 1..n, Precedes(rows, a, b) PROVE Rank(rows, a) < Rank(rows, b)
  <2>1. Behind(rows, a) \in SUBSET Behind(rows, b)
    BY <1>1, <1>3, PrecedesOrders DEF Behind
  <2>2. a \in Behind(rows, b) /\ a \notin Behind(rows, a)
    BY <1>1, <1>2, <1>3 DEF Behind
  <2>3. /\ Cardinality(Behind(rows, a)) <= Cardinality(Behind(rows, b))
        /\ Cardinality(Behind(rows, a)) # Cardinality(Behind(rows, b))
    BY <1>2, <2>1, <2>2, FS_Subset
  <2>. QED
    BY <1>1, <1>2, <2>3
<1>4. Rank(rows, a) \in 1..n
  <2>. HIDE DEF n
  <2>. QED
    BY <1>1, <1>2 DEF n
<1>. QED
  BY <1>3, <1>4

\* Every place of the index has one row, and the rows stand in order.
LEMMA RowsRanked ==
    ASSUME NEW rows \in Seq(Row)
    PROVE  /\ \A p \in 1..Len(rows) : /\ Ranked(rows, p) \in 1..Len(rows)
                                      /\ Rank(rows, Ranked(rows, p)) = p
           /\ \A r \in 1..Len(rows) : Rank(rows, r) \in 1..Len(rows) /\ Ranked(rows, Rank(rows, r)) = r
           /\ \A p, q \in 1..Len(rows) :
                p < q => Precedes(rows, Ranked(rows, p), Ranked(rows, q))
<1>. DEFINE n == Len(rows)
            f == [r \in 1..n |-> Rank(rows, r)]
<1>1. n \in Nat /\ DOMAIN rows = 1..n /\ IsFiniteSet(1..n)
  BY FS_Interval
<1>2. \A r \in 1..n : Rank(rows, r) \in 1..n
  BY RankRises
<1>3. \A a, b \in 1..n : Rank(rows, a) = Rank(rows, b) => a = b
  <2>1. TAKE a, b \in 1..n
  <2>2. Precedes(rows, a, b) => Rank(rows, a) < Rank(rows, b)
    BY RankRises
  <2>3. Precedes(rows, b, a) => Rank(rows, b) < Rank(rows, a)
    BY RankRises
  <2>4. a = b \/ Precedes(rows, a, b) \/ Precedes(rows, b, a)
    BY PrecedesOrders
  <2>5. Rank(rows, a) \in Nat /\ Rank(rows, b) \in Nat
    BY <1>2
  <2>. QED
    BY <2>2, <2>3, <2>4, <2>5
<1>4. f \in Injection(1..n, 1..n)
  BY <1>2, <1>3 DEF Injection, IsInjective
<1>5. f \in Surjection(1..n, 1..n)
  <2>. HIDE DEF f, n
  <2>. QED
    BY <1>1, <1>4, FS_Injection
<1>6. \A p \in 1..n : \E r \in 1..n : Rank(rows, r) = p
  BY <1>5 DEF Surjection
<1>7. ASSUME NEW p \in 1..n PROVE Ranked(rows, p) \in 1..n /\ Rank(rows, Ranked(rows, p)) = p
  <2>1. \E r \in DOMAIN rows : Rank(rows, r) = p
    BY <1>1, <1>6
  <2>. QED
    BY <1>1, <2>1, Zenon DEF Ranked
<1>8. ASSUME NEW r \in 1..n PROVE Ranked(rows, Rank(rows, r)) = r
  BY <1>2, <1>3, <1>7
<1>9. ASSUME NEW p \in 1..n, NEW q \in 1..n, p < q
      PROVE  Precedes(rows, Ranked(rows, p), Ranked(rows, q))
  <2>. DEFINE a == Ranked(rows, p)
              b == Ranked(rows, q)
  <2>1. a \in 1..n /\ b \in 1..n /\ Rank(rows, a) = p /\ Rank(rows, b) = q
    BY <1>7
  <2>. HIDE DEF a, b
  <2>2. a = b \/ Precedes(rows, a, b) \/ Precedes(rows, b, a)
    BY <2>1, PrecedesOrders
  <2>3. Precedes(rows, b, a) => Rank(rows, b) < Rank(rows, a)
    BY <2>1, RankRises
  <2>4. Precedes(rows, a, b)
    BY <1>9, <2>1, <2>2, <2>3
  <2>. QED
    BY <2>4 DEF a, b
<1>. QED
  BY <1>2, <1>7, <1>8, <1>9

\* The cells of a table or of its index, and the row at a place of it.
CellsOf(table, index) == IF index THEN IndexCells(table) ELSE TableCells(table)
RowAt(rows, index, p) == IF index THEN Ranked(rows, p) ELSE p
Bound(cell, index) == IF index THEN cell.key ELSE cell.rowid

LEMMA CellsStand ==
    ASSUME NEW table \in Table, NEW index \in BOOLEAN
    PROVE  LET rows == table.rows
               n == Len(rows)
               cells == CellsOf(table, index)
           IN  /\ rows \in Seq(Row) /\ n \in Nat /\ cells \in Seq(Cell) /\ Len(cells) = n
               /\ \A p \in 1..n :
                    /\ RowAt(rows, index, p) \in 1..n /\ cells[p] \in Cell
                    /\ cells[p].rowid = RowAt(rows, index, p)
                    /\ cells[p].key = rows[RowAt(rows, index, p)].key
               /\ \A p, q \in 1..n : cells[p].rowid = cells[q].rowid => p = q
               /\ \A r \in 1..n : \E p \in 1..n : cells[p].rowid = r
               /\ \A p, q \in 1..n : p <= q => Bound(cells[p], index) <= Bound(cells[q], index)
<1>. DEFINE rows == table.rows
            n == Len(rows)
            cells == CellsOf(table, index)
            row(p) == RowAt(rows, index, p)
            size(p) == IF index THEN rows[row(p)].keySize ELSE rows[row(p)].size
<1>1. rows \in Seq(Row)
  BY DEF Table
<1>. HIDE DEF rows
<1>2. /\ DOMAIN rows = 1..n /\ n \in Nat
      /\ \A r \in 1..n : rows[r].key \in Nat /\ rows[r].size \in Nat /\ rows[r].keySize \in Nat
  BY <1>1, RowsTyped
<1>. HIDE DEF n
<1>3. \A p \in 1..n : row(p) \in 1..n
  BY <1>1, RowsRanked DEF RowAt, n
<1>4. cells = [p \in 1..n |-> [rowid |-> row(p), key |-> rows[row(p)].key, size |-> size(p)]]
  BY <1>2, Zenon DEF CellsOf, IndexCells, TableCells, RowAt, rows
<1>5. \A p \in 1..n : /\ cells[p] = [rowid |-> row(p), key |-> rows[row(p)].key, size |-> size(p)]
                      /\ cells[p] \in Cell
  <2>1. TAKE p \in 1..n
  <2>2. rows[row(p)].key \in Nat /\ size(p) \in Nat /\ row(p) \in Nat
    BY <1>2, <1>3, SMTT(30)
  <2>. HIDE DEF row, size, cells
  <2>. QED
    BY <1>4, <2>2 DEF Cell
<1>6. cells \in Seq(Cell) /\ Len(cells) = n
  <2>. HIDE DEF cells, row, size
  <2>. QED
    BY <1>2, <1>4, <1>5
<1>7. \A p \in 1..n : cells[p].rowid = row(p) /\ cells[p].key = rows[row(p)].key
  <2>1. TAKE p \in 1..n
  <2>2. cells[p] = [rowid |-> row(p), key |-> rows[row(p)].key, size |-> size(p)]
    BY <1>5
  <2>. HIDE DEF cells, row, size
  <2>. QED
    BY <2>2
<1>8. \A p, q \in 1..n : row(p) = row(q) => p = q
  <2>1. CASE index
    BY <1>1, <2>1, RowsRanked DEF RowAt, n
  <2>2. CASE ~index
    BY <2>2 DEF RowAt
  <2>. QED
    BY <2>1, <2>2
<1>9. \A r \in 1..n : \E p \in 1..n : row(p) = r
  <2>1. CASE index
    BY <1>1, <2>1, RowsRanked DEF RowAt, n
  <2>2. CASE ~index
    BY <2>2 DEF RowAt
  <2>. QED
    BY <2>1, <2>2
<1>10. ASSUME NEW p \in 1..n, NEW q \in 1..n, p <= q
       PROVE  Bound(cells[p], index) <= Bound(cells[q], index)
  <2>1. CASE index
    <3>1. rows[Ranked(rows, p)].key <= rows[Ranked(rows, q)].key
      <4>1. CASE p = q
        BY <1>2, <1>3, <2>1, <4>1 DEF RowAt
      <4>2. CASE p < q
        <5>1. /\ Precedes(rows, Ranked(rows, p), Ranked(rows, q))
              /\ Ranked(rows, p) \in 1..n /\ Ranked(rows, q) \in 1..n
          BY <1>1, <4>2, RowsRanked DEF n
        <5>. QED
          BY <1>1, <5>1, PrecedesOrders DEF n
      <4>. QED
        BY <1>10, <4>1, <4>2
    <3>. HIDE DEF cells
    <3>. QED
      BY <1>7, <2>1, <3>1 DEF Bound, RowAt
  <2>2. CASE ~index
    <3>. HIDE DEF cells
    <3>. QED
      BY <1>7, <1>10, <2>2 DEF Bound, RowAt
  <2>. QED
    BY <2>1, <2>2
<1>11. /\ \A p, q \in 1..n : cells[p].rowid = cells[q].rowid => p = q
       /\ \A r \in 1..n : \E p \in 1..n : cells[p].rowid = r
  <2>. HIDE DEF cells, row
  <2>. QED
    BY <1>7, <1>8, <1>9
<1>. QED
  BY <1>1, <1>2, <1>3, <1>5, <1>6, <1>7, <1>10, <1>11, Zenon DEF rows, n

-----------------------------------------------------------------------------
(* Trees on pages *)

LEMMA ElementTyped == ASSUME NEW S, NEW q \in Seq(S), NEW i \in 1..Len(q) PROVE q[i] \in S
  OBVIOUS

LEMMA EmptyIsShort == ASSUME NEW S, NEW q \in Seq(S) PROVE q = <<>> <=> Len(q) = 0
  OBVIOUS

PageRecord ==
    [level : {"leaf", "interior"}, index : BOOLEAN, cells : Seq(Cell), children : Seq(Nat)]
PageFits(page) ==
    IF page.level = "leaf"
    THEN LeafHeader + Taken(LeafSizes(page.cells, page.index)) <= PageSize
    ELSE InteriorHeader + Taken(InteriorSizes(page.cells, page.index)) <= PageSize

\* What Built says of the leaves, in numbers.
LEMMA LeavesStand ==
    ASSUME NEW cells \in Seq(Cell), Len(cells) > 0, NEW index \in BOOLEAN,
           NEW tree, NEW s, Built(tree, s, cells, index), NEW j \in 1..Len(s)
    PROVE  LET n == Len(cells)
               end == LeafEnd(s, n, index, j)
           IN  /\ s[j] \in 1..n /\ EndOf(s, n, j) \in s[j]..n /\ end \in Nat
               /\ end = (IF index /\ j < Len(s) THEN EndOf(s, n, j) - 1 ELSE EndOf(s, n, j))
               /\ tree.leaves[j] \in Seq(Cell) /\ Len(tree.leaves[j]) = end - s[j] + 1
               /\ \A i \in 1..end - s[j] + 1 : tree.leaves[j][i] = cells[s[j] + i - 1]
<1>. DEFINE n == Len(cells)
            end == LeafEnd(s, n, index, j)
            a == s[j]
            leaf == tree.leaves[j]
<1>1. n \in Nat /\ a \in 1..n /\ EndOf(s, n, j) \in a..n /\ Len(s) \in Nat
  <2>1. Begins(s, n) /\ EndOf(s, n, j) \in a..n
    BY Zenon DEF Built, Laid
  <2>2. s \in Seq(1..n)
    BY <2>1 DEF Begins
  <2>3. a \in 1..n
    BY <2>2, ElementTyped
  <2>. QED
    BY <2>1, <2>2, <2>3 DEF n
<1>2. end = (IF index /\ j < Len(s) THEN EndOf(s, n, j) - 1 ELSE EndOf(s, n, j))
  BY Zenon DEF LeafEnd
<1>3. leaf = SubSeq(cells, a, end)
  BY Zenon DEF Built
<1>. HIDE DEF end, a, leaf
<1>4. end \in Nat /\ a - 1 <= end /\ end <= n
  BY <1>1, <1>2
<1>5. leaf \in Seq(Cell) /\ Len(leaf) = end - a + 1 /\ \A i \in 1..end - a + 1 : leaf[i] = cells[a + i - 1]
  <2>. QED
    BY <1>1, <1>3, <1>4 DEF n
<1>. QED
  BY <1>1, <1>2, <1>4, <1>5, Zenon DEF n, a, end, leaf

\* No leaf is longer than its page, with or without its divider.
LEMMA LeafFits ==
    ASSUME SqliteWriterAssumption, NEW cells \in Seq(Cell), Len(cells) > 0, NEW index \in BOOLEAN,
           NEW tree, NEW s, Built(tree, s, cells, index), NEW j \in 1..Len(s)
    PROVE  LeafHeader + Taken(LeafSizes(tree.leaves[j], index)) <= PageSize
<1>. DEFINE n == Len(cells)
            a == s[j]
            b == EndOf(s, n, j)
<1>1. n \in Nat /\ a \in 1..n /\ b \in a..n
  BY LeavesStand
<1>2. tree.leaves[j] = SubSeq(cells, a, LeafEnd(s, n, index, j))
  BY Zenon DEF Built
<1>3. LeafHeader + Run(cells, index, a, b) <= PageSize
  BY Zenon DEF Built, Laid, RoomFor
<1>. HIDE DEF a, b
<1>4. /\ Run(cells, index, a, b) = Run(cells, index, a, b - 1) + LeafCellSize(cells[b], index) + PointerSize
      /\ b \in 1..n /\ cells[b] \in Cell
  BY <1>1, RunGrows
<1>5. LeafCellSize(cells[b], index) \in Nat
  <2>1. cells[b].size \in Nat
    BY <1>4 DEF Cell
  <2>2. LeafCellSize(cells[b], index) \in cells[b].size + 1..cells[b].size + 8
    BY <1>4, CellSizesTyped, Zenon
  <2>. QED
    BY <2>1, <2>2
<1>6. Run(cells, index, a, b - 1) \in Nat /\ Run(cells, index, a, b) \in Nat
  <2>1. a \in 1..n + 1 /\ b - 1 \in 0..n /\ b \in 0..n
    BY <1>1
  <2>. QED
    BY <2>1, RunTyped
<1>7. LeafHeader + Run(cells, index, a, b - 1) <= PageSize
  BY <1>3, <1>4, <1>5, <1>6, SMTT(30) DEF SqliteWriterAssumption, LeafHeader, PointerSize
<1>8. LeafEnd(s, n, index, j) \in {b, b - 1}
  BY Zenon DEF LeafEnd, b
<1>9. LeafHeader + Run(cells, index, a, LeafEnd(s, n, index, j)) <= PageSize
  BY <1>3, <1>7, <1>8
<1>. QED
  BY <1>2, <1>9 DEF Run

LeafPage(tree, j) == Page("leaf", tree.index, tree.leaves[j], <<>>)

\* The pages of a tree: a leaf, or an interior page and its leaves.
LEMMA PagesLaid ==
    ASSUME SqliteWriterAssumption, NEW cells \in Seq(Cell), Len(cells) > 0, NEW index \in BOOLEAN,
           NEW tree, NEW s, Built(tree, s, cells, index), NEW root \in Nat
    PROVE  LET pages == PagesOf(tree, root)
               k == Len(s)
           IN  /\ pages \in Seq(PageRecord) /\ Len(pages) >= 1 /\ \A i \in 1..Len(pages) : PageFits(pages[i])
               /\ k = 1 => Len(pages) = 1 /\ pages[1] = LeafPage(tree, 1)
               /\ k # 1 => /\ Len(pages) = k + 1
                           /\ pages[1] = Page("interior", index, tree.dividers, [i \in 1..k |-> root + i])
                           /\ \A j \in 1..k : pages[j + 1] = LeafPage(tree, j)
<1>. DEFINE k == Len(s)
            pages == PagesOf(tree, root)
            leaves == [i \in DOMAIN tree.leaves |-> LeafPage(tree, i)]
            interior == Page("interior", tree.index, tree.dividers, [i \in DOMAIN leaves |-> root + i])
<1>1. /\ k \in Nat /\ k >= 1 /\ DOMAIN tree.leaves = 1..k
      /\ tree.index = index /\ tree.dividers \in Seq(Cell) /\ Len(tree.dividers) = k - 1
  BY DEF Built, Laid, Begins
<1>2. pages = IF tree.dividers = <<>> THEN leaves ELSE <<interior>> \o leaves
  BY Zenon DEF PagesOf, LeafPage
<1>3. tree.dividers = <<>> <=> k = 1
  <2>. DEFINE d == tree.dividers
  <2>1. d \in Seq(Cell) /\ Len(d) = k - 1
    BY <1>1
  <2>. HIDE DEF d, k
  <2>2. d = <<>> <=> Len(d) = 0
    BY <2>1, EmptyIsShort, Zenon
  <2>. QED
    BY <1>1, <2>1, <2>2 DEF d
<1>4. \A j \in 1..k : LeafPage(tree, j) \in PageRecord /\ PageFits(LeafPage(tree, j))
  <2>1. TAKE j \in 1..k
  <2>2. tree.leaves[j] \in Seq(Cell)
    <3>1. tree.leaves \in Seq(Seq(Cell)) /\ j \in 1..Len(tree.leaves)
      BY Zenon DEF Built
    <3>. QED
      BY <3>1, ElementTyped
  <2>3. LeafPage(tree, j) = [level |-> "leaf", index |-> index, cells |-> tree.leaves[j], children |-> <<>>]
    BY <1>1 DEF LeafPage, Page
  <2>4. LeafHeader + Taken(LeafSizes(tree.leaves[j], index)) <= PageSize
    BY LeafFits
  <2>. HIDE DEF k
  <2>5. LeafPage(tree, j) \in PageRecord
    BY <2>2, <2>3 DEF PageRecord
  <2>6. PageFits(LeafPage(tree, j))
    <3>. DEFINE page == LeafPage(tree, j)
    <3>1. page.level = "leaf" /\ page.cells = tree.leaves[j] /\ page.index = index
      BY <2>3
    <3>. HIDE DEF page
    <3>. QED
      BY <2>4, <3>1, Zenon DEF PageFits, page
  <2>. QED
    BY <2>5, <2>6
<1>5. leaves = [j \in 1..k |-> LeafPage(tree, j)] /\ leaves \in Seq(PageRecord) /\ Len(leaves) = k
  <2>1. leaves = [j \in 1..k |-> LeafPage(tree, j)]
    BY <1>1, Zenon
  <2>. HIDE DEF leaves, k
  <2>. QED
    BY <1>1, <1>4, <2>1
<1>6. interior = [level |-> "interior", index |-> index, cells |-> tree.dividers,
                  children |-> [i \in 1..k |-> root + i]]
  <2>1. DOMAIN leaves = 1..k
    BY <1>5
  <2>. HIDE DEF leaves, k
  <2>. QED
    BY <1>1, <2>1, Zenon DEF Page
<1>7. interior \in PageRecord /\ PageFits(interior)
  <2>. DEFINE children == [i \in 1..k |-> root + i]
  <2>1. children \in Seq(Nat)
    BY <1>1
  <2>. HIDE DEF children, interior, k
  <2>2. interior = [level |-> "interior", index |-> index, cells |-> tree.dividers, children |-> children]
    BY <1>6 DEF children
  <2>3. interior \in PageRecord
    BY <1>1, <2>1, <2>2 DEF PageRecord
  <2>4. interior.level # "leaf" /\ interior.index = index /\ interior.cells = tree.dividers
    BY <2>2
  <2>5. InteriorHeader + Taken(InteriorSizes(tree.dividers, index)) <= PageSize
    BY Zenon DEF Built
  <2>. QED
    BY <2>3, <2>4, <2>5, Zenon DEF PageFits
<1>. HIDE DEF leaves, interior
<1>8. CASE k = 1
  <2>1. pages = leaves
    BY <1>2, <1>3, <1>8
  <2>. HIDE DEF pages, k
  <2>2. Len(pages) = 1 /\ pages[1] = LeafPage(tree, 1) /\ pages \in Seq(PageRecord)
    BY <1>5, <1>8, <2>1
  <2>3. \A i \in 1..Len(pages) : PageFits(pages[i])
    BY <1>4, <1>8, <2>2
  <2>. QED
    BY <1>8, <2>2, <2>3 DEF pages, k
<1>9. CASE k # 1
  <2>1. pages = <<interior>> \o leaves
    BY <1>2, <1>3, <1>9
  <2>. HIDE DEF pages, k
  <2>2. /\ pages \in Seq(PageRecord) /\ Len(pages) = k + 1 /\ pages[1] = interior
        /\ \A j \in 1..k : pages[j + 1] = leaves[j]
    BY <1>1, <1>5, <1>7, <2>1
  <2>3. \A j \in 1..k : pages[j + 1] = LeafPage(tree, j)
    BY <1>5, <2>2
  <2>4. \A i \in 1..Len(pages) : PageFits(pages[i])
    <3>1. TAKE i \in 1..Len(pages)
    <3>2. CASE i = 1
      BY <1>7, <2>2, <3>2
    <3>3. CASE i # 1
      <4>1. i - 1 \in 1..k /\ (i - 1) + 1 = i
        BY <1>1, <2>2, <3>3
      <4>2. pages[i] = LeafPage(tree, i - 1)
        BY <2>3, <4>1
      <4>. QED
        BY <1>4, <4>1, <4>2
    <3>. QED
      BY <3>2, <3>3
  <2>5. pages[1] = Page("interior", index, tree.dividers, [i \in 1..k |-> root + i])
    BY <1>6, <2>2 DEF Page
  <2>. QED
    BY <1>1, <1>9, <2>2, <2>3, <2>4, <2>5 DEF pages, k
<1>. QED
  BY <1>8, <1>9

-----------------------------------------------------------------------------
(* Finding a row *)

\* A tree in numbers: leaf j holds the cells s[j] to end[j], and the divider
\* behind it is the cell up[j].
Numbered(tree, s, up, end, cells, index) ==
    /\ Len(s) \in Nat /\ Len(s) >= 1 /\ tree.index = index
    /\ s \in [1..Len(s) -> Nat] /\ up \in [1..Len(s) -> Nat] /\ end \in [1..Len(s) -> Nat]
    /\ \A j \in 1..Len(s) :
         /\ 1 <= s[j] /\ s[j] <= up[j] /\ up[j] <= Len(cells)
         /\ end[j] = (IF index /\ j < Len(s) THEN up[j] - 1 ELSE up[j])
    /\ \A i, j \in 1..Len(s) : i < j => up[i] < s[j]
    /\ \A i \in 1..Len(cells) : \E j \in 1..Len(s) : s[j] <= i /\ i <= up[j]
    /\ \A j \in 1..Len(s) : /\ DOMAIN tree.leaves[j] = 1..end[j] - s[j] + 1
                            /\ \A i \in 1..end[j] - s[j] + 1 : tree.leaves[j][i] = cells[s[j] + i - 1]
    /\ DOMAIN tree.dividers = 1..Len(s) - 1
    /\ \A j \in 1..Len(s) - 1 : tree.dividers[j] = cells[up[j]]

LEMMA TreeNumbered ==
    ASSUME NEW cells \in Seq(Cell), Len(cells) > 0, NEW index \in BOOLEAN,
           NEW tree, NEW s, Built(tree, s, cells, index)
    PROVE  \E up, end : Numbered(tree, s, up, end, cells, index)
<1>. DEFINE n == Len(cells)
            k == Len(s)
            up == [j \in 1..k |-> EndOf(s, n, j)]
            end == [j \in 1..k |-> LeafEnd(s, n, index, j)]
<1>1. Begins(s, n) /\ tree.index = index
  BY Zenon DEF Built, Laid
<1>2. n \in Nat /\ k \in Nat /\ k >= 1 /\ s \in Seq(1..n) /\ \A j \in 1..k : s[j] \in 1..n
  BY <1>1 DEF Begins
<1>3. ASSUME NEW j \in 1..k
      PROVE  /\ s[j] \in Nat /\ 1 <= s[j] /\ s[j] <= up[j] /\ up[j] <= n /\ up[j] \in Nat
             /\ end[j] \in Nat /\ end[j] = (IF index /\ j < k THEN up[j] - 1 ELSE up[j])
             /\ DOMAIN tree.leaves[j] = 1..end[j] - s[j] + 1
             /\ \A i \in 1..end[j] - s[j] + 1 : tree.leaves[j][i] = cells[s[j] + i - 1]
  <2>. DEFINE a == s[j]
              b == EndOf(s, n, j)
              c == LeafEnd(s, n, index, j)
              leaf == tree.leaves[j]
  <2>1. /\ a \in 1..n /\ b \in a..n /\ c \in Nat /\ c = (IF index /\ j < k THEN b - 1 ELSE b)
        /\ leaf \in Seq(Cell) /\ Len(leaf) = c - a + 1
        /\ \A i \in 1..c - a + 1 : leaf[i] = cells[a + i - 1]
    BY LeavesStand
  <2>2. up[j] = b /\ end[j] = c
    BY Zenon
  <2>. HIDE DEF a, b, c, leaf, up, end, n, k
  <2>3. DOMAIN leaf = 1..c - a + 1
    BY <2>1
  <2>4. a \in Nat /\ b \in Nat /\ 1 <= a /\ a <= b /\ b <= n
    BY <1>2, <2>1
  <2>5. /\ a \in Nat /\ 1 <= a /\ a <= up[j] /\ up[j] <= n /\ up[j] \in Nat
        /\ end[j] \in Nat /\ end[j] = (IF index /\ j < k THEN up[j] - 1 ELSE up[j])
        /\ DOMAIN leaf = 1..end[j] - a + 1
        /\ \A i \in 1..end[j] - a + 1 : leaf[i] = cells[a + i - 1]
    BY <2>1, <2>2, <2>3, <2>4, Zenon
  <2>. QED
    BY <2>5, Zenon DEF a, leaf
<1>4. ASSUME NEW i \in 1..k, NEW j \in 1..k, i < j PROVE up[i] < s[j]
  <2>1. EndOf(s, n, i) < s[j]
    BY <1>1, <1>2, <1>4, BeginsRises, Zenon
  <2>. QED
    BY <2>1, Zenon
<1>5. ASSUME NEW i \in 1..n PROVE \E j \in 1..k : s[j] <= i /\ i <= up[j]
  <2>1. PICK j \in 1..k : s[j] <= i /\ i <= EndOf(s, n, j)
    BY <1>1, <1>2, LeafOfCell, Zenon
  <2>. QED
    BY <2>1, Zenon
<1>6. /\ DOMAIN tree.dividers = 1..k - 1
      /\ \A j \in 1..k - 1 : tree.dividers[j] = cells[EndOf(s, n, j)]
  <2>1. /\ tree.dividers \in Seq(Cell) /\ Len(tree.dividers) = k - 1
        /\ \A j \in 1..k - 1 : tree.dividers[j] = cells[EndOf(s, n, j)]
    BY Zenon DEF Built
  <2>2. \A d \in Seq(Cell) : DOMAIN d = 1..Len(d)
    OBVIOUS
  <2>. QED
    BY <2>1, <2>2, Zenon
<1>7. \A j \in 1..k - 1 : tree.dividers[j] = cells[up[j]]
  <2>1. TAKE j \in 1..k - 1
  <2>2. j \in 1..k
    BY <1>2
  <2>. QED
    BY <1>6, <2>2, Zenon
<1>8. s \in [1..k -> Nat] /\ up \in [1..k -> Nat] /\ end \in [1..k -> Nat]
  <2>1. s \in [1..k -> Nat]
    BY <1>2
  <2>2. \A j \in 1..k : EndOf(s, n, j) \in Nat /\ LeafEnd(s, n, index, j) \in Nat
    <3>1. TAKE j \in 1..k
    <3>2. up[j] = EndOf(s, n, j) /\ end[j] = LeafEnd(s, n, index, j)
      BY Zenon
    <3>. QED
      BY <1>3, <3>2, Zenon
  <2>. QED
    BY <2>1, <2>2, Zenon
<1>. HIDE DEF n, k, up, end
<1>9. /\ \A j \in 1..k :
           /\ 1 <= s[j] /\ s[j] <= up[j] /\ up[j] <= n
           /\ end[j] = (IF index /\ j < k THEN up[j] - 1 ELSE up[j])
      /\ \A i, j \in 1..k : i < j => up[i] < s[j]
      /\ \A i \in 1..n : \E j \in 1..k : s[j] <= i /\ i <= up[j]
      /\ \A j \in 1..k : /\ DOMAIN tree.leaves[j] = 1..end[j] - s[j] + 1
                         /\ \A i \in 1..end[j] - s[j] + 1 : tree.leaves[j][i] = cells[s[j] + i - 1]
  BY <1>3, <1>4, <1>5, Zenon
<1>10. Numbered(tree, s, up, end, cells, index)
  BY <1>1, <1>2, <1>6, <1>7, <1>8, <1>9, Zenon DEF Numbered, n, k
<1>. QED
  BY <1>10, Zenon

\* The pages of a tree are on file, from its root on.
OnFile(root, tree, s, index) ==
    /\ Len(s) = 1 => file.pages[root] = LeafPage(tree, 1)
    /\ Len(s) # 1 =>
         /\ file.pages[root] = Page("interior", index, tree.dividers, [i \in 1..Len(s) |-> root + i])
         /\ \A j \in 1..Len(s) : file.pages[root + j] = LeafPage(tree, j)

\* The cell numbered x is at place p of a tree with an interior page.
AsDivider(root, s, up, index, p, x) == index /\ \E j \in 1..Len(s) - 1 : p = <<root, j>> /\ x = up[j]
OnLeaf(root, s, end, p, x) ==
    \E j \in 1..Len(s) : \E i \in 1..end[j] - s[j] + 1 : p = <<root + j, i>> /\ x = s[j] + i - 1

LEMMA Within ==
    ASSUME NEW c \in Int, NEW d \in Int, NEW x \in 1..c - d + 1
    PROVE  x \in Int /\ 1 <= x /\ d + x - 1 <= c
  OBVIOUS

HeldAt(root, s, up, end, index, p, x) == AsDivider(root, s, up, index, p, x) \/ OnLeaf(root, s, end, p, x)

\* No cell is in two places.
LEMMA PlacesApart ==
    ASSUME NEW tree, NEW s, NEW up, NEW end, NEW cells \in Seq(Cell), NEW index \in BOOLEAN,
           Numbered(tree, s, up, end, cells, index), NEW root \in Nat, NEW x, NEW p, NEW q,
           HeldAt(root, s, up, end, index, p, x), HeldAt(root, s, up, end, index, q, x)
    PROVE  p = q
<1>. DEFINE k == Len(s)
<1>1. /\ k \in Nat
      /\ s \in [1..k -> Nat] /\ up \in [1..k -> Nat] /\ end \in [1..k -> Nat]
      /\ \A j \in 1..k : /\ s[j] <= up[j]
                         /\ end[j] = (IF index /\ j < k THEN up[j] - 1 ELSE up[j])
      /\ \A i, j \in 1..k : i < j => up[i] < s[j]
  BY Zenon DEF Numbered
<1>. HIDE DEF k
<1>2. ASSUME NEW i \in 1..k
      PROVE  /\ i \in Int /\ s[i] \in Nat /\ up[i] \in Nat /\ end[i] \in Nat /\ s[i] <= up[i] /\ end[i] <= up[i]
             /\ index /\ i < k => end[i] = up[i] - 1
  <2>1. i \in Int /\ s[i] \in Nat /\ up[i] \in Nat /\ end[i] \in Nat
    BY <1>1
  <2>2. s[i] <= up[i] /\ end[i] = (IF index /\ i < k THEN up[i] - 1 ELSE up[i])
    BY <1>1, Zenon
  <2>3. end[i] <= up[i]
    BY <2>1, <2>2
  <2>4. index /\ i < k => end[i] = up[i] - 1
    BY <2>2, Zenon
  <2>. QED
    BY <2>1, <2>2, <2>3, <2>4
<1>3. ASSUME NEW i \in 1..k, NEW j \in 1..k
      PROVE  (i < j => up[i] < s[j]) /\ (j < i => up[j] < s[i])
  BY <1>1, Zenon
<1>4. ASSUME NEW i \in 1..k - 1, NEW j \in 1..k - 1, up[i] = up[j] PROVE i = j
  <2>1. i \in 1..k /\ j \in 1..k
    BY <1>1
  <2>2. /\ i \in Int /\ s[i] \in Nat /\ up[i] \in Nat /\ s[i] <= up[i]
        /\ j \in Int /\ s[j] \in Nat /\ up[j] \in Nat /\ s[j] <= up[j]
        /\ (i < j => up[i] < s[j]) /\ (j < i => up[j] < s[i])
    BY <1>2, <1>3, <2>1, Zenon
  <2>. QED
    BY <1>4, <2>2
<1>5. ASSUME NEW i \in 1..k, NEW j \in 1..k, NEW a \in 1..end[i] - s[i] + 1, NEW b \in 1..end[j] - s[j] + 1,
             s[i] + a - 1 = s[j] + b - 1
      PROVE  i = j /\ a = b
  <2>1. /\ i \in Int /\ s[i] \in Nat /\ up[i] \in Nat /\ end[i] \in Nat /\ end[i] <= up[i]
        /\ j \in Int /\ s[j] \in Nat /\ up[j] \in Nat /\ end[j] \in Nat /\ end[j] <= up[j]
        /\ (i < j => up[i] < s[j]) /\ (j < i => up[j] < s[i])
    BY <1>2, <1>3, Zenon
  <2>2. a \in Int /\ 1 <= a /\ s[i] + a - 1 <= end[i] /\ b \in Int /\ 1 <= b /\ s[j] + b - 1 <= end[j]
    <3>1. end[i] \in Int /\ s[i] \in Int /\ end[j] \in Int /\ s[j] \in Int
      BY <2>1
    <3>. QED
      BY <3>1, Within, Zenon
  <2>. DEFINE c == end[i]
              d == end[j]
              u == up[i]
              v == up[j]
              first == s[i]
              second == s[j]
  <2>3. /\ i \in Int /\ first \in Nat /\ u \in Nat /\ c \in Nat /\ c <= u
        /\ j \in Int /\ second \in Nat /\ v \in Nat /\ d \in Nat /\ d <= v
        /\ (i < j => u < second) /\ (j < i => v < first) /\ (i = j => first = second)
        /\ a \in Int /\ 1 <= a /\ first + a - 1 <= c /\ b \in Int /\ 1 <= b /\ second + b - 1 <= d
        /\ first + a - 1 = second + b - 1
    BY <1>5, <2>1, <2>2, Zenon
  <2>. HIDE DEF c, d, u, v, first, second
  <2>4. i = j
    BY <2>3
  <2>. QED
    BY <2>3, <2>4
<1>6. ASSUME index, NEW i \in 1..k - 1, NEW j \in 1..k, NEW b \in 1..end[j] - s[j] + 1, up[i] = s[j] + b - 1
      PROVE  FALSE
  <2>1. i \in 1..k /\ i < k
    BY <1>1
  <2>2. /\ i \in Int /\ s[i] \in Nat /\ up[i] \in Nat /\ s[i] <= up[i] /\ end[i] = up[i] - 1
        /\ j \in Int /\ s[j] \in Nat /\ up[j] \in Nat /\ end[j] \in Nat /\ end[j] <= up[j]
        /\ (i < j => up[i] < s[j]) /\ (j < i => up[j] < s[i])
    BY <1>6, <1>2, <1>3, <2>1, Zenon
  <2>3. b \in Int /\ 1 <= b /\ s[j] + b - 1 <= end[j]
    BY <2>2
  <2>4. i # j
    BY <1>6, <2>2, <2>3
  <2>. QED
    BY <1>6, <2>2, <2>3, <2>4, SMTT(30)
<1>7. CASE AsDivider(root, s, up, index, p, x)
  <2>1. PICK i \in 1..k - 1 : p = <<root, i>> /\ x = up[i]
    BY <1>7 DEF AsDivider, k
  <2>2. ~OnLeaf(root, s, end, q, x)
    BY <1>6, <1>7, <2>1, Zenon DEF AsDivider, OnLeaf, k
  <2>3. PICK j \in 1..k - 1 : q = <<root, j>> /\ x = up[j]
    BY <2>2, Zenon DEF HeldAt, AsDivider, k
  <2>4. i = j
    BY <1>4, <2>1, <2>3, Zenon
  <2>. QED
    BY <2>1, <2>3, <2>4
<1>8. CASE OnLeaf(root, s, end, p, x)
  <2>1. PICK i \in 1..k : \E a \in 1..end[i] - s[i] + 1 : p = <<root + i, a>> /\ x = s[i] + a - 1
    BY <1>8, Zenon DEF OnLeaf, k
  <2>2. PICK a \in 1..end[i] - s[i] + 1 : p = <<root + i, a>> /\ x = s[i] + a - 1
    BY <2>1
  <2>3. ~AsDivider(root, s, up, index, q, x)
    BY <1>6, <2>2, Zenon DEF AsDivider, k
  <2>4. PICK j \in 1..k : \E b \in 1..end[j] - s[j] + 1 : q = <<root + j, b>> /\ x = s[j] + b - 1
    BY <2>3, Zenon DEF HeldAt, OnLeaf, k
  <2>5. PICK b \in 1..end[j] - s[j] + 1 : q = <<root + j, b>> /\ x = s[j] + b - 1
    BY <2>4
  <2>6. s[i] + a - 1 = s[j] + b - 1
    BY <2>2, <2>5, Zenon
  <2>7. i = j /\ a = b
    BY <1>5, <2>6
  <2>. QED
    BY <2>2, <2>5, <2>7
<1>. QED
  BY <1>7, <1>8 DEF HeldAt

\* Every place of a tree with an interior page holds one of its cells.
LEMMA PlacesHeld ==
    ASSUME NEW tree, NEW s, NEW up, NEW end, NEW cells \in Seq(Cell), NEW index \in BOOLEAN,
           Numbered(tree, s, up, end, cells, index), NEW root \in Nat,
           OnFile(root, tree, s, index), Len(s) # 1, NEW p \in Places(root)
    PROVE  \E x \in 1..Len(cells) : HeldAt(root, s, up, end, index, p, x) /\ CellAt(p) = cells[x]
<1>. DEFINE n == Len(cells)
            k == Len(s)
            children == [i \in 1..k |-> root + i]
            top == file.pages[root]
<1>1. /\ n \in Nat /\ k \in Nat /\ tree.index = index
      /\ s \in [1..k -> Nat] /\ up \in [1..k -> Nat] /\ end \in [1..k -> Nat]
      /\ DOMAIN tree.dividers = 1..k - 1 /\ \A j \in 1..k - 1 : tree.dividers[j] = cells[up[j]]
  <2>1. n \in Nat
    OBVIOUS
  <2>. QED
    BY <2>1, Zenon DEF Numbered
<1>2. ASSUME NEW j \in 1..k
      PROVE  /\ s[j] \in Nat /\ up[j] \in Nat /\ end[j] \in Nat
             /\ 1 <= s[j] /\ s[j] <= up[j] /\ up[j] <= n /\ end[j] <= up[j]
  <2>1. s[j] \in Nat /\ up[j] \in Nat /\ end[j] \in Nat
    BY <1>1
  <2>2. 1 <= s[j] /\ s[j] <= up[j] /\ up[j] <= n /\ end[j] = (IF index /\ j < k THEN up[j] - 1 ELSE up[j])
    BY Zenon DEF Numbered
  <2>. HIDE DEF n, k
  <2>. QED
    BY <2>1, <2>2
<1>3. top.level = "interior" /\ top.index = index /\ top.cells = tree.dividers /\ top.children = children
  <2>1. top = Page("interior", index, tree.dividers, children)
    BY Zenon DEF OnFile
  <2>. HIDE DEF top, children
  <2>. QED
    BY <2>1 DEF Page
<1>4. ASSUME NEW j \in 1..k
      PROVE  /\ file.pages[root + j].level = "leaf" /\ file.pages[root + j].index = index
             /\ file.pages[root + j].cells = tree.leaves[j]
  <2>1. file.pages[root + j] = Page("leaf", index, tree.leaves[j], <<>>)
    BY <1>1, Zenon DEF OnFile, LeafPage
  <2>. DEFINE page == file.pages[root + j]
              leaf == tree.leaves[j]
  <2>2. page = Page("leaf", index, leaf, <<>>)
    BY <2>1
  <2>. HIDE DEF page, leaf
  <2>3. page.level = "leaf" /\ page.index = index /\ page.cells = leaf
    BY <2>2 DEF Page
  <2>. QED
    BY <2>3 DEF page, leaf
<1>5. PagesUnder(root) = {root} \cup {root + i : i \in 1..k}
  <2>1. DOMAIN top.children = 1..k /\ \A i \in 1..k : top.children[i] = root + i
    BY <1>3, Zenon
  <2>2. PagesUnder(root) = {root} \cup {top.children[i] : i \in DOMAIN top.children}
    BY Zenon DEF PagesUnder
  <2>. HIDE DEF top, k, children
  <2>. QED
    BY <2>1, <2>2
<1>. HIDE DEF top, k, n, children
<1>6. PICK m \in PagesUnder(root) : /\ p \in {m} \X DOMAIN file.pages[m].cells
                                    /\ file.pages[m].level = "leaf" \/ file.pages[m].index
  BY Zenon DEF Places
<1>7. CASE m = root
  <2>1. index /\ p \in {root} \X DOMAIN tree.dividers
    BY <1>3, <1>6, <1>7, Zenon DEF top
  <2>2. p[2] \in 1..k - 1 /\ p = <<root, p[2]>>
    BY <1>1, <2>1
  <2>3. CellAt(p) = cells[up[p[2]]]
    <3>1. CellAt(p) = tree.dividers[p[2]]
      <4>1. p[1] = root
        BY <2>2
      <4>. QED
        BY <1>3, <4>1, Zenon DEF CellAt, top
    <3>. QED
      BY <1>1, <2>2, <3>1, Zenon
  <2>4. up[p[2]] \in 1..n
    <3>1. p[2] \in 1..k
      BY <1>1, <2>2
    <3>2. s[p[2]] \in Nat /\ up[p[2]] \in Nat /\ 1 <= s[p[2]] /\ s[p[2]] <= up[p[2]] /\ up[p[2]] <= n
      BY <1>2, <3>1, Zenon
    <3>. QED
      BY <1>1, <3>2, SMTT(30)
  <2>5. AsDivider(root, s, up, index, p, up[p[2]])
    BY <2>1, <2>2, Zenon DEF AsDivider, k
  <2>. QED
    BY <2>3, <2>4, <2>5, Zenon DEF HeldAt, n
<1>8. CASE m # root
  <2>1. PICK j \in 1..k : m = root + j
    BY <1>5, <1>6, <1>8
  <2>. DEFINE leaf == tree.leaves[j]
  <2>2. p \in {root + j} \X DOMAIN leaf
    BY <1>4, <1>6, <2>1, Zenon
  <2>3. DOMAIN leaf = 1..end[j] - s[j] + 1 /\ \A i \in 1..end[j] - s[j] + 1 : leaf[i] = cells[s[j] + i - 1]
    BY Zenon DEF Numbered, k
  <2>4. p[2] \in 1..end[j] - s[j] + 1 /\ p = <<root + j, p[2]>> /\ p[1] = root + j
    <3>. HIDE DEF leaf
    <3>. QED
      BY <2>2, <2>3
  <2>5. CellAt(p) = cells[s[j] + p[2] - 1]
    <3>1. CellAt(p) = leaf[p[2]]
      BY <1>4, <2>4, Zenon DEF CellAt
    <3>. QED
      BY <2>3, <2>4, <3>1, Zenon
  <2>6. s[j] + p[2] - 1 \in 1..n
    <3>. DEFINE a == s[j]
                b == end[j]
                i == p[2]
    <3>1. a \in Nat /\ b \in Nat /\ 1 <= a /\ b <= n /\ i \in 1..b - a + 1
      <4>1. up[j] \in Nat /\ end[j] <= up[j] /\ up[j] <= n /\ end[j] \in Nat
        BY <1>2, Zenon
      <4>2. end[j] <= n
        BY <1>1, <4>1
      <4>. QED
        BY <1>2, <2>4, <4>2, Zenon
    <3>. HIDE DEF a, b, i
    <3>2. a + i - 1 \in 1..n
      BY <1>1, <3>1
    <3>. QED
      BY <3>2 DEF a, i
  <2>7. OnLeaf(root, s, end, p, s[j] + p[2] - 1)
    BY <2>4, Zenon DEF OnLeaf, k
  <2>. QED
    BY <2>5, <2>6, <2>7, Zenon DEF HeldAt, n
<1>. QED
  BY <1>7, <1>8

\* What is sought leads to a leaf that holds the first cell not before it, or
\* to the divider behind that leaf.
LEMMA PathLeads ==
    ASSUME NEW tree, NEW s, NEW up, NEW end, NEW cells \in Seq(Cell), NEW index \in BOOLEAN,
           Numbered(tree, s, up, end, cells, index), NEW root \in Nat,
           OnFile(root, tree, s, index), Len(s) # 1,
           \A x, y \in 1..Len(cells) : x <= y => Bound(cells[x], index) <= Bound(cells[y], index),
           \A x \in 1..Len(cells) : Bound(cells[x], index) \in Nat,
           NEW sought \in Nat, NEW x \in 1..Len(cells), sought <= Bound(cells[x], index),
           \A y \in 1..Len(cells) : sought <= Bound(cells[y], index) => x <= y
    PROVE  cells[x] \in CellsOnPath(root, sought)
<1>. DEFINE n == Len(cells)
            k == Len(s)
            top == file.pages[root]
            children == [i \in 1..k |-> root + i]
            larger == NotSmaller(top, sought)
<1>1. /\ n \in Nat /\ k \in Nat /\ k >= 1 /\ tree.index = index
      /\ s \in [1..k -> Nat] /\ up \in [1..k -> Nat] /\ end \in [1..k -> Nat]
      /\ DOMAIN tree.dividers = 1..k - 1 /\ \A j \in 1..k - 1 : tree.dividers[j] = cells[up[j]]
  <2>1. n \in Nat
    OBVIOUS
  <2>. QED
    BY <2>1, Zenon DEF Numbered
<1>2. ASSUME NEW j \in 1..k
      PROVE  /\ j \in Nat /\ s[j] \in Nat /\ up[j] \in Nat /\ end[j] \in Nat
             /\ 1 <= s[j] /\ s[j] <= up[j] /\ up[j] <= n
             /\ end[j] = (IF index /\ j < k THEN up[j] - 1 ELSE up[j])
             /\ up[j] \in 1..n
  <2>1. s[j] \in Nat /\ up[j] \in Nat /\ end[j] \in Nat
    BY <1>1, Zenon
  <2>2. 1 <= s[j] /\ s[j] <= up[j] /\ up[j] <= n /\ end[j] = (IF index /\ j < k THEN up[j] - 1 ELSE up[j])
    BY Zenon DEF Numbered
  <2>. HIDE DEF n, k
  <2>3. up[j] \in 1..n
    BY <1>1, <2>1, <2>2
  <2>4. j \in Nat
    BY <1>1
  <2>. QED
    BY <2>1, <2>2, <2>3, <2>4
<1>3. top.level = "interior" /\ top.index = index /\ top.cells = tree.dividers /\ top.children = children
  <2>1. top = Page("interior", index, tree.dividers, children)
    BY Zenon DEF OnFile
  <2>. HIDE DEF top, children
  <2>. QED
    BY <2>1 DEF Page
<1>4. PICK j \in 1..k : s[j] <= x /\ x <= up[j]
  BY Zenon DEF Numbered
<1>5. \A i \in 1..k : (i < j => up[i] < s[j]) /\ (j < i => up[j] < s[i])
  BY Zenon DEF Numbered
<1>6. /\ file.pages[root + j].cells = tree.leaves[j]
      /\ DOMAIN tree.leaves[j] = 1..end[j] - s[j] + 1
      /\ \A i \in 1..end[j] - s[j] + 1 : tree.leaves[j][i] = cells[s[j] + i - 1]
  <2>1. file.pages[root + j] = Page("leaf", index, tree.leaves[j], <<>>)
    BY <1>1, Zenon DEF OnFile, LeafPage
  <2>. DEFINE page == file.pages[root + j]
              leaf == tree.leaves[j]
  <2>2. page = Page("leaf", index, leaf, <<>>)
    BY <2>1
  <2>3. /\ DOMAIN leaf = 1..end[j] - s[j] + 1
        /\ \A i \in 1..end[j] - s[j] + 1 : leaf[i] = cells[s[j] + i - 1]
    BY Zenon DEF Numbered
  <2>. HIDE DEF page, leaf
  <2>4. page.cells = leaf
    BY <2>2 DEF Page
  <2>. QED
    BY <2>3, <2>4 DEF page, leaf
<1>7. larger = {i \in 1..k - 1 : sought <= Bound(cells[up[i]], index)}
  <2>1. larger = {i \in 1..k - 1 : sought <= Bound(tree.dividers[i], index)}
    BY <1>1, <1>3, Zenon DEF NotSmaller, Bound
  <2>. HIDE DEF larger, k
  <2>2. \A i \in 1..k - 1 : tree.dividers[i] = cells[up[i]]
    BY <1>1
  <2>. QED
    BY <2>1, <2>2, Zenon
<1>. HIDE DEF n, k, top, larger
<1>8. ASSUME NEW i \in 1..k PROVE sought <= Bound(cells[up[i]], index) <=> x <= up[i]
  <2>. DEFINE u == up[i]
  <2>1. u \in 1..n /\ x \in 1..n
    BY <1>2, Zenon DEF n
  <2>2. sought <= Bound(cells[u], index) => x <= u
    BY <2>1, Zenon DEF n
  <2>3. ASSUME x <= u PROVE sought <= Bound(cells[u], index)
    <3>. DEFINE a == Bound(cells[x], index)
                b == Bound(cells[u], index)
    <3>1. a <= b /\ a \in Nat /\ b \in Nat /\ sought <= a
      BY <2>1, <2>3, Zenon DEF n
    <3>. HIDE DEF a, b
    <3>2. sought <= b
      BY <3>1
    <3>. QED
      BY <3>2 DEF b
  <2>. QED
    BY <2>2, <2>3
<1>9. /\ j < k => j \in larger
      /\ \A i \in larger : j <= i /\ j < k
  <2>1. j \in Nat /\ s[j] \in Nat /\ up[j] \in Nat /\ x \in Nat
    BY <1>1, <1>2, SMTT(30)
  <2>2. j < k => j \in larger
    <3>1. j < k => j \in 1..k - 1
      BY <1>1, <2>1
    <3>. QED
      BY <1>4, <1>7, <1>8, <3>1, Zenon
  <2>3. ASSUME NEW i \in larger PROVE j <= i /\ j < k
    <3>1. i \in 1..k - 1 /\ sought <= Bound(cells[up[i]], index)
      BY <1>7
    <3>2. i \in 1..k /\ i < k /\ i \in Nat
      BY <1>1, <3>1
    <3>3. x <= up[i] /\ up[i] \in Nat /\ (i < j => up[i] < s[j])
      BY <1>2, <1>5, <1>8, <3>1, <3>2, Zenon
    <3>4. ~(i < j)
      <4>. DEFINE u == up[i]
                  a == s[j]
      <4>1. x <= u /\ u \in Nat /\ (i < j => u < a) /\ a <= x /\ a \in Nat
        BY <1>4, <2>1, <3>3
      <4>. HIDE DEF u, a
      <4>. QED
        BY <2>1, <4>1
    <3>. QED
      BY <1>1, <2>1, <3>2, <3>4
  <2>. QED
    BY <2>2, <2>3
<1>10. Child(top, sought) = root + j
  <2>1. Child(top, sought) = children[IF larger = {} THEN Len(children)
                                      ELSE CHOOSE i \in larger : \A h \in larger : i <= h]
    <3>1. Child(top, sought) = top.children[IF larger = {} THEN Len(top.children)
                                            ELSE CHOOSE i \in larger : \A h \in larger : i <= h]
      BY Zenon DEF Child, larger
    <3>. HIDE DEF children
    <3>. QED
      BY <1>3, <3>1
  <2>2. Len(children) = k /\ \A i \in 1..k : children[i] = root + i
    BY <1>1
  <2>. HIDE DEF children
  <2>3. j \in Nat /\ j <= k /\ larger \subseteq Nat
    BY <1>1, <1>2, <1>7
  <2>4. CASE larger = {}
    <3>1. j = k
      BY <1>1, <1>9, <2>3, <2>4
    <3>. QED
      BY <2>1, <2>2, <2>4, <3>1
  <2>5. CASE larger # {}
    <3>1. j \in larger /\ \A h \in larger : j <= h
      BY <1>9, <2>5, Zenon
    <3>2. \A i \in larger : (\A h \in larger : i <= h) => i = j
      <4>1. \A i \in larger : (\A h \in larger : i <= h) => i <= j /\ j <= i
        BY <3>1, Zenon
      <4>2. \A a, b \in Nat : a <= b /\ b <= a => a = b
        OBVIOUS
      <4>. QED
        BY <2>3, <4>1, <4>2, Zenon
    <3>3. (CHOOSE i \in larger : \A h \in larger : i <= h) = j
      BY <3>1, <3>2, Zenon
    <3>. QED
      BY <2>1, <2>2, <2>5, <3>3, Zenon
  <2>. QED
    BY <2>4, <2>5
<1>11. CellsOnPath(root, sought)
         = CellsOn(file.pages[root + j]) \cup (IF index THEN CellsOn(top) ELSE {})
  <2>1. top.level # "leaf"
    BY <1>3
  <2>. QED
    BY <1>3, <1>10, <2>1, Zenon DEF CellsOnPath, top
<1>12. CASE x <= end[j]
  <2>. DEFINE a == s[j]
              b == end[j]
              i == x - a + 1
  <2>1. a \in Nat /\ b \in Nat /\ x \in Nat /\ a <= x /\ x <= b
    BY <1>1, <1>2, <1>4, <1>12 DEF n
  <2>2. i \in 1..b - a + 1 /\ a + i - 1 = x
    <3>. HIDE DEF a, b
    <3>. QED
      BY <2>1
  <2>. HIDE DEF i
  <2>3. tree.leaves[j][i] = cells[a + i - 1] /\ i \in DOMAIN tree.leaves[j]
    BY <1>6, <2>2, Zenon
  <2>4. tree.leaves[j][i] = cells[x]
    BY <2>2, <2>3
  <2>5. cells[x] \in CellsOn(file.pages[root + j])
    BY <1>6, <2>3, <2>4, Zenon DEF CellsOn
  <2>. QED
    BY <1>11, <2>5, Zenon
<1>13. CASE ~(x <= end[j])
  <2>. DEFINE b == end[j]
              u == up[j]
  <2>1. /\ b \in Nat /\ u \in Nat /\ x \in Nat /\ x <= u /\ ~(x <= b)
        /\ b = (IF index /\ j < k THEN u - 1 ELSE u)
    <3>1. x \in Nat
      OBVIOUS
    <3>. QED
      BY <1>2, <1>4, <1>13, <3>1, Zenon
  <2>2. index /\ j < k /\ x = u
    <3>. HIDE DEF b, u
    <3>. QED
      BY <2>1
  <2>3. j \in 1..k - 1
    BY <1>1, <2>2
  <2>4. cells[x] = tree.dividers[j] /\ j \in DOMAIN tree.dividers
    BY <1>1, <2>2, <2>3, Zenon
  <2>5. cells[x] \in CellsOn(top)
    BY <1>3, <2>4, Zenon DEF CellsOn
  <2>. QED
    BY <1>11, <2>2, <2>5, Zenon
<1>. QED
  BY <1>12, <1>13

\* A tree that is one leaf.
OneLeafHolds(root, cells) ==
    /\ \A p \in Places(root) : \E x \in 1..Len(cells) : p = <<root, x>> /\ CellAt(p) = cells[x]
    /\ \A sought : \A x \in 1..Len(cells) : cells[x] \in CellsOnPath(root, sought)

LEMMA OneLeaf ==
    ASSUME NEW tree, NEW s, NEW up, NEW end, NEW cells \in Seq(Cell), NEW index \in BOOLEAN,
           Numbered(tree, s, up, end, cells, index), NEW root \in Nat,
           OnFile(root, tree, s, index), Len(s) = 1
    PROVE  OneLeafHolds(root, cells)
<1>. DEFINE n == Len(cells)
            top == file.pages[root]
            leaf == tree.leaves[1]
<1>1. n \in Nat
  OBVIOUS
<1>2. top = Page("leaf", index, leaf, <<>>)
  BY Zenon DEF OnFile, LeafPage, Numbered
<1>3. /\ DOMAIN leaf = 1..end[1] - s[1] + 1 /\ \A i \in 1..end[1] - s[1] + 1 : leaf[i] = cells[s[1] + i - 1]
      /\ s[1] \in Nat /\ up[1] \in Nat /\ end[1] = up[1] /\ up[1] <= n /\ 1 <= s[1]
      /\ \A i \in 1..n : s[1] <= i /\ i <= up[1]
  <2>1. 1 \in 1..Len(s) /\ ~(1 < Len(s)) /\ \A j \in 1..Len(s) : j = 1
    OBVIOUS
  <2>2. /\ DOMAIN leaf = 1..end[1] - s[1] + 1
        /\ \A i \in 1..end[1] - s[1] + 1 : leaf[i] = cells[s[1] + i - 1]
    BY <2>1, Zenon DEF Numbered
  <2>3. s[1] \in Nat /\ up[1] \in Nat
    BY <2>1, Zenon DEF Numbered
  <2>4. end[1] = up[1] /\ up[1] <= n /\ 1 <= s[1]
    BY <2>1, Zenon DEF Numbered
  <2>5. \A i \in 1..n : s[1] <= i /\ i <= up[1]
    BY <2>1, Zenon DEF Numbered
  <2>. QED
    BY <2>2, <2>3, <2>4, <2>5
<1>. HIDE DEF n, leaf, top
<1>4. top.level = "leaf" /\ top.cells = leaf /\ top.children = <<>>
  BY <1>2 DEF Page
<1>5. \A x \in 1..n : x \in DOMAIN leaf /\ leaf[x] = cells[x]
  <2>1. TAKE x \in 1..n
  <2>. DEFINE a == s[1]
              b == up[1]
  <2>2. a = 1 /\ b = n
    <3>1. 1 \in 1..n /\ n \in 1..n
      BY <1>1
    <3>2. a <= 1 /\ n <= b /\ a \in Nat /\ b \in Nat /\ b <= n /\ 1 <= a
      BY <1>3, <3>1, Zenon
    <3>. HIDE DEF a, b
    <3>. QED
      BY <1>1, <3>2
  <2>3. DOMAIN leaf = 1..n - 1 + 1 /\ \A i \in 1..n - 1 + 1 : leaf[i] = cells[1 + i - 1]
    BY <1>3, <2>2, Zenon
  <2>. QED
    BY <1>1, <2>3
<1>6. \A x \in DOMAIN leaf : x \in 1..n
  <2>1. TAKE x \in DOMAIN leaf
  <2>. DEFINE a == s[1]
              b == up[1]
  <2>2. x \in 1..b - a + 1 /\ a \in Nat /\ b \in Nat /\ b <= n /\ 1 <= a
    BY <1>3
  <2>. HIDE DEF a, b
  <2>. QED
    BY <1>1, <2>2
<1>7. ASSUME NEW p \in Places(root) PROVE \E x \in 1..n : p = <<root, x>> /\ CellAt(p) = cells[x]
  <2>1. PagesUnder(root) = {root}
    <3>1. DOMAIN top.children = {}
      BY <1>4
    <3>. QED
      BY <3>1 DEF PagesUnder, top
  <2>2. p \in {root} \X DOMAIN leaf
    BY <1>4, <2>1 DEF Places, top
  <2>3. p[2] \in DOMAIN leaf /\ p = <<root, p[2]>> /\ p[1] = root
    BY <2>2
  <2>4. CellAt(p) = leaf[p[2]]
    BY <1>4, <2>3, Zenon DEF CellAt, top
  <2>. QED
    BY <1>5, <1>6, <2>3, <2>4, Zenon
<1>8. \A sought : CellsOnPath(root, sought) = CellsOn(top)
  BY <1>4, Zenon DEF CellsOnPath, top
<1>9. \A x \in 1..n : cells[x] \in CellsOn(top)
  BY <1>4, <1>5, Zenon DEF CellsOn
<1>. QED
  BY <1>7, <1>8, <1>9, Zenon DEF OneLeafHolds, n

\* A tree on file leads to every row, and holds none twice.
LEMMA TreeFound ==
    ASSUME SqliteWriterAssumption, NEW table \in Table, Len(table.rows) > 0, NEW index \in BOOLEAN,
           TreeOf(table, index).ok, NEW root \in Nat,
           OnFile(root, TreeOf(table, index), Starts(CellsOf(table, index), index), index)
    PROVE  /\ \A p, q \in Places(root) : CellAt(p).rowid = CellAt(q).rowid => p = q
           /\ \A p \in Places(root) : CellAt(p).rowid \in DOMAIN table.rows
           /\ \A r \in DOMAIN table.rows :
                \E c \in CellsOnPath(root, IF index THEN table.rows[r].key ELSE r) :
                   /\ c.key = table.rows[r].key
                   /\ \/ c.rowid = r
                      \/ index /\ \E o \in DOMAIN table.rows \ {r} : table.rows[o].key = table.rows[r].key
<1>. DEFINE rows == table.rows
            cells == CellsOf(table, index)
            n == Len(cells)
            tree == TreeOf(table, index)
            s == Starts(cells, index)
<1>1. /\ rows \in Seq(Row) /\ n \in Nat /\ cells \in Seq(Cell) /\ Len(rows) = n
      /\ \A x \in 1..n :
           /\ RowAt(rows, index, x) \in 1..n /\ cells[x] \in Cell
           /\ cells[x].rowid = RowAt(rows, index, x)
           /\ cells[x].key = rows[RowAt(rows, index, x)].key
      /\ \A x, y \in 1..n : cells[x].rowid = cells[y].rowid => x = y
      /\ \A r \in 1..n : \E x \in 1..n : cells[x].rowid = r
      /\ \A x, y \in 1..n : x <= y => Bound(cells[x], index) <= Bound(cells[y], index)
  <2>. DEFINE m == Len(rows)
  <2>1. /\ rows \in Seq(Row) /\ m \in Nat /\ cells \in Seq(Cell) /\ n = m
        /\ \A x \in 1..m :
             /\ RowAt(rows, index, x) \in 1..m /\ cells[x] \in Cell
             /\ cells[x].rowid = RowAt(rows, index, x)
             /\ cells[x].key = rows[RowAt(rows, index, x)].key
        /\ \A x, y \in 1..m : cells[x].rowid = cells[y].rowid => x = y
        /\ \A r \in 1..m : \E x \in 1..m : cells[x].rowid = r
        /\ \A x, y \in 1..m : x <= y => Bound(cells[x], index) <= Bound(cells[y], index)
    BY CellsStand
  <2>. HIDE DEF rows, m, n, cells
  <2>2. n = m
    BY <2>1
  <2>. QED
    BY <2>1, <2>2 DEF m
<1>2. tree = BTree(cells, index)
  BY Zenon DEF TreeOf, CellsOf
<1>3. n > 0 /\ DOMAIN rows = 1..n
  BY <1>1
<1>4. cells \in Seq(Cell) /\ Len(cells) > 0
  BY <1>1, <1>3
<1>. HIDE DEF rows, cells, tree
<1>5. Built(tree, s, cells, index)
  <2>1. BTree(cells, index).ok
    BY <1>2 DEF tree
  <2>2. Built(BTree(cells, index), Starts(cells, index), cells, index)
    BY <1>4, <2>1, BTreeBuilt
  <2>. QED
    BY <1>2, <2>2
<1>. HIDE DEF s
<1>6. PICK up, end : Numbered(tree, s, up, end, cells, index)
  BY <1>4, <1>5, TreeNumbered
<1>7. OnFile(root, tree, s, index)
  BY DEF cells, tree, s
<1>8. ASSUME NEW p \in Places(root)
      PROVE  \E x \in 1..n :
               /\ CellAt(p) = cells[x]
               /\ \A q \in Places(root) : CellAt(q).rowid = CellAt(p).rowid => p = q
  <2>1. CASE Len(s) = 1
    <3>1. \A o \in Places(root) : \E x \in 1..n : o = <<root, x>> /\ CellAt(o) = cells[x]
      <4>1. OneLeafHolds(root, cells)
        BY <1>4, <1>6, <1>7, <2>1, OneLeaf
      <4>. QED
        BY <4>1, Zenon DEF OneLeafHolds
    <3>2. PICK x \in 1..n : p = <<root, x>> /\ CellAt(p) = cells[x]
      BY <3>1
    <3>3. ASSUME NEW q \in Places(root), CellAt(q).rowid = CellAt(p).rowid PROVE p = q
      <4>1. PICK y \in 1..n : q = <<root, y>> /\ CellAt(q) = cells[y]
        BY <3>1
      <4>2. cells[x].rowid = cells[y].rowid
        BY <3>2, <3>3, <4>1
      <4>. QED
        BY <1>1, <3>2, <4>1, <4>2
    <3>. QED
      BY <3>2, <3>3
  <2>2. CASE Len(s) # 1
    <3>. DEFINE Held(o, x) == HeldAt(root, s, up, end, index, o, x)
    <3>1. \A o \in Places(root) : \E x \in 1..n : Held(o, x) /\ CellAt(o) = cells[x]
      BY <1>4, <1>6, <1>7, <2>2, PlacesHeld
    <3>2. PICK x \in 1..n : Held(p, x) /\ CellAt(p) = cells[x]
      BY <3>1
    <3>3. ASSUME NEW q \in Places(root), CellAt(q).rowid = CellAt(p).rowid PROVE p = q
      <4>1. PICK y \in 1..n : Held(q, y) /\ CellAt(q) = cells[y]
        BY <3>1
      <4>2. cells[x].rowid = cells[y].rowid
        BY <3>2, <3>3, <4>1
      <4>3. x = y
        BY <1>1, <4>2
      <4>4. Held(p, x) /\ Held(q, x)
        BY <3>2, <4>1, <4>3
      <4>. QED
        BY <1>4, <1>6, <4>4, PlacesApart
    <3>. QED
      BY <3>2, <3>3
  <2>. QED
    BY <2>1, <2>2
<1>9. ASSUME NEW r \in 1..n
      PROVE  \E c \in CellsOnPath(root, IF index THEN rows[r].key ELSE r) :
                /\ c.key = rows[r].key
                /\ \/ c.rowid = r
                   \/ index /\ \E o \in (1..n) \ {r} : rows[o].key = rows[r].key
  <2>. DEFINE sought == IF index THEN rows[r].key ELSE r
              bound(x) == Bound(cells[x], index)
              P == {x \in 1..n : sought <= Bound(cells[x], index)}
  <2>1. PICK z \in 1..n : cells[z].rowid = r
    BY <1>1
  <2>2. cells[z].key = rows[r].key
    BY <1>1, <2>1
  <2>3. Bound(cells[z], index) = sought
    BY <2>1, <2>2 DEF Bound
  <2>4. \A x \in 1..n : Bound(cells[x], index) \in Nat
    BY <1>1 DEF Bound, Cell
  <2>5. sought \in Nat
    BY <2>3, <2>4
  <2>. HIDE DEF sought
  <2>6. P \in SUBSET Nat /\ z \in P
    <3>1. sought <= Bound(cells[z], index)
      BY <2>3, <2>5
    <3>. QED
      BY <3>1
  <2>7. PICK x \in P : \A y \in P : x <= y
    <3>. HIDE DEF P
    <3>. QED
      BY <2>6, HasLeast
  <2>8. x \in 1..n /\ sought <= Bound(cells[x], index) /\ \A y \in 1..n : sought <= Bound(cells[y], index) => x <= y
    BY <2>7
  <2>9. Bound(cells[x], index) = sought
    <3>1. x <= z
      BY <2>6, <2>7
    <3>. DEFINE a == Bound(cells[x], index)
                b == Bound(cells[z], index)
    <3>2. a <= b /\ a \in Nat /\ b = sought /\ sought <= a
      BY <1>1, <2>3, <2>4, <2>8, <3>1, Zenon
    <3>. HIDE DEF a, b
    <3>3. a = sought
      BY <2>5, <3>2
    <3>. QED
      BY <3>3 DEF a
  <2>10. cells[x] \in CellsOnPath(root, sought)
    <3>1. CASE Len(s) = 1
      <4>1. OneLeafHolds(root, cells)
        BY <1>4, <1>6, <1>7, <3>1, OneLeaf
      <4>. QED
        BY <2>8, <4>1, Zenon DEF OneLeafHolds
    <3>2. CASE Len(s) # 1
      <4>1. \A u, v \in 1..n : u <= v => Bound(cells[u], index) <= Bound(cells[v], index)
        BY <1>1
      <4>. QED
        BY <1>4, <1>6, <1>7, <2>4, <2>5, <2>8, <3>2, <4>1, PathLeads, SMTT(30)
    <3>. QED
      BY <3>1, <3>2
  <2>. DEFINE o == RowAt(rows, index, x)
  <2>11. cells[x].rowid = o /\ cells[x].key = rows[o].key /\ o \in 1..n
    BY <1>1, <2>8
  <2>12. CASE index
    <3>1. cells[x].key = rows[r].key
      BY <2>9, <2>12 DEF Bound, sought
    <3>2. cells[x].rowid = r \/ \E t \in (1..n) \ {r} : rows[t].key = rows[r].key
      <4>. HIDE DEF o
      <4>. QED
        BY <2>11, <3>1
    <3>. QED
      BY <2>10, <2>12, <3>1, <3>2, Zenon DEF sought
  <2>13. CASE ~index
    <3>1. cells[x].rowid = r
      BY <2>9, <2>13 DEF Bound, sought
    <3>2. cells[x].key = rows[r].key
      BY <2>11, <3>1
    <3>. QED
      BY <2>10, <2>13, <3>1, <3>2, Zenon DEF sought
  <2>. QED
    BY <2>12, <2>13
<1>10. \A p \in Places(root) : CellAt(p).rowid \in 1..n
  <2>1. \A x \in 1..n : cells[x].rowid \in 1..n
    <3>1. TAKE x \in 1..n
    <3>2. cells[x].rowid = RowAt(rows, index, x) /\ RowAt(rows, index, x) \in 1..n
      BY <1>1
    <3>. QED
      BY <3>2
  <2>. QED
    BY <1>8, <2>1, Zenon
<1>11. \A p, q \in Places(root) : CellAt(p).rowid = CellAt(q).rowid => p = q
  BY <1>8, Zenon
<1>. QED
  BY <1>3, <1>9, <1>10, <1>11, Zenon DEF rows

-----------------------------------------------------------------------------
(* The trees of a database, one after another *)

MasterRow == [rowid : Nat, table : Nat, index : BOOLEAN, root : Nat, size : Nat]
PlacedType == [pages : Seq(PageRecord), master : Seq(MasterRow)]

\* The tree of a table stands on pages that follow page 1.
StandsIn(pages, root, table, index) ==
    /\ root \in Nat /\ root >= 2
    /\ \A i \in 1..Len(PagesOf(TreeOf(table, index), root)) :
         /\ root - 2 + i \in 1..Len(pages)
         /\ pages[root - 2 + i] = PagesOf(TreeOf(table, index), root)[i]

\* The trees of the tables and kinds in D are placed, each once.
PlacedInv(q, tables, D) ==
    /\ q \in PlacedType
    /\ \A i \in 1..Len(q.pages) : PageFits(q.pages[i])
    /\ \A i \in 1..Len(q.master) :
         /\ <<q.master[i].table, q.master[i].index>> \in D
         /\ StandsIn(q.pages, q.master[i].root, tables[q.master[i].table], q.master[i].index)
    /\ \A d \in D : \E i \in 1..Len(q.master) : d = <<q.master[i].table, q.master[i].index>>

\* A table as buildBTree accepts it, with a tree of each kind.
Sound(table) ==
    table \in Table /\ Len(table.rows) > 0 /\ \A index \in Kinds(table) : TreeOf(table, index).ok

LEMMA TreeOfSound ==
    ASSUME SqliteWriterAssumption, NEW table, Sound(table), NEW index \in Kinds(table)
    PROVE  LET cells == CellsOf(table, index)
           IN  /\ index \in BOOLEAN /\ cells \in Seq(Cell) /\ Len(cells) > 0
               /\ Built(TreeOf(table, index), Starts(cells, index), cells, index)
<1>. DEFINE cells == CellsOf(table, index)
            rows == table.rows
<1>1. index \in BOOLEAN /\ table \in Table /\ Len(rows) > 0 /\ TreeOf(table, index).ok
  BY DEF Sound, Kinds
<1>2. cells \in Seq(Cell) /\ Len(cells) = Len(rows)
  BY <1>1, CellsStand
<1>3. TreeOf(table, index) = BTree(cells, index)
  BY Zenon DEF TreeOf, CellsOf
<1>. HIDE DEF cells, rows
<1>4. cells \in Seq(Cell) /\ Len(cells) > 0
  BY <1>1, <1>2
<1>5. BTree(cells, index).ok
  BY <1>1, <1>3
<1>6. Built(BTree(cells, index), Starts(cells, index), cells, index)
  BY <1>1, <1>4, <1>5, BTreeBuilt
<1>. QED
  BY <1>1, <1>3, <1>4, <1>6, Zenon DEF cells

\* What is added behind leaves the trees that stand.
LEMMA StandsLonger ==
    ASSUME NEW p \in Seq(PageRecord), NEW q \in Seq(PageRecord), Len(p) <= Len(q),
           \A i \in 1..Len(p) : q[i] = p[i],
           NEW root, NEW table, NEW index, StandsIn(p, root, table, index)
    PROVE  StandsIn(q, root, table, index)
<1>. DEFINE pages == PagesOf(TreeOf(table, index), root)
<1>1. /\ root \in Nat /\ root >= 2
      /\ \A i \in 1..Len(pages) : root - 2 + i \in 1..Len(p) /\ p[root - 2 + i] = pages[i]
  BY Zenon DEF StandsIn
<1>2. \A i \in 1..Len(p) : i \in 1..Len(q)
  OBVIOUS
<1>3. \A i \in 1..Len(pages) : root - 2 + i \in 1..Len(q) /\ q[root - 2 + i] = pages[i]
  BY <1>1, <1>2, Zenon
<1>. QED
  BY <1>1, <1>3, Zenon DEF StandsIn

LEMMA AssignStep ==
    ASSUME SqliteWriterAssumption, NEW tables, NEW D, NEW q, PlacedInv(q, tables, D),
           NEW t \in Nat, Sound(tables[t]), NEW index \in Kinds(tables[t])
    PROVE  PlacedInv(Assign(q, t, TreeOf(tables[t], index)), tables, D \cup {<<t, index>>})
<1>. DEFINE tree == TreeOf(tables[t], index)
            root == Len(q.pages) + 2
            more == PagesOf(tree, root)
            row == [rowid |-> Len(q.master) + 1, table |-> t, index |-> index, root |-> root, size |-> MasterSize]
            r == Assign(q, t, tree)
            cells == CellsOf(tables[t], index)
            p == q.pages
            m == q.master
<1>1. index \in BOOLEAN /\ cells \in Seq(Cell) /\ Len(cells) > 0 /\ Built(tree, Starts(cells, index), cells, index)
  BY TreeOfSound
<1>2. tree.index = index
  BY <1>1, Zenon DEF Built
<1>3. p \in Seq(PageRecord) /\ m \in Seq(MasterRow) /\ root \in Nat /\ root = Len(p) + 2
  <2>1. q \in PlacedType
    BY Zenon DEF PlacedInv
  <2>2. p \in Seq(PageRecord) /\ m \in Seq(MasterRow)
    BY <2>1 DEF PlacedType
  <2>. HIDE DEF p, m
  <2>3. Len(p) \in Nat
    BY <2>2
  <2>4. root = Len(p) + 2
    BY DEF p
  <2>. HIDE DEF root
  <2>5. root \in Nat
    BY <2>3, <2>4
  <2>. QED
    BY <2>2, <2>4, <2>5
<1>4. more \in Seq(PageRecord) /\ Len(more) >= 1 /\ \A i \in 1..Len(more) : PageFits(more[i])
  <2>. HIDE DEF tree, root, cells
  <2>. QED
    BY <1>1, <1>3, PagesLaid, ZenonT(30)
<1>5. r = [pages |-> p \o more, master |-> Append(m, row)]
  BY <1>2, Zenon DEF Assign
<1>. HIDE DEF tree, root, more, row, r, p, m, cells
<1>6. /\ p \o more \in Seq(PageRecord) /\ Len(p \o more) = Len(p) + Len(more)
      /\ \A i \in 1..Len(p) : (p \o more)[i] = p[i]
      /\ \A i \in 1..Len(more) : (p \o more)[Len(p) + i] = more[i]
  BY <1>3, <1>4
<1>7. /\ row \in MasterRow /\ row.table = t /\ row.index = index /\ row.root = root
  <2>1. Len(m) + 1 \in Nat /\ MasterSize \in Nat
    BY <1>3 DEF SqliteWriterAssumption
  <2>. QED
    BY <1>1, <1>3, <2>1 DEF row, MasterRow, m
<1>8. /\ Append(m, row) \in Seq(MasterRow) /\ Len(Append(m, row)) = Len(m) + 1
      /\ Append(m, row)[Len(m) + 1] = row /\ \A i \in 1..Len(m) : Append(m, row)[i] = m[i]
  BY <1>3, <1>7
<1>. DEFINE rp == p \o more
            rm == Append(m, row)
            E == D \cup {<<t, index>>}
<1>9. r.pages = rp /\ r.master = rm /\ r \in PlacedType
  <2>1. rp \in Seq(PageRecord) /\ rm \in Seq(MasterRow) /\ r = [pages |-> rp, master |-> rm]
    BY <1>5, <1>6, <1>8
  <2>. HIDE DEF rp, rm
  <2>. QED
    BY <2>1 DEF PlacedType
<1>10. \A i \in 1..Len(rp) : PageFits(rp[i])
  <2>1. TAKE i \in 1..Len(rp)
  <2>2. Len(p) \in Nat /\ Len(more) \in Nat
    BY <1>3, <1>4
  <2>3. CASE i <= Len(p)
    <3>1. i \in 1..Len(p)
      BY <1>6, <2>2, <2>3
    <3>2. PageFits(p[i])
      BY <3>1, Zenon DEF PlacedInv, p
    <3>. QED
      BY <1>6, <3>1, <3>2
  <2>4. CASE ~(i <= Len(p))
    <3>1. i - Len(p) \in 1..Len(more) /\ Len(p) + (i - Len(p)) = i
      BY <1>6, <2>2, <2>4
    <3>2. rp[Len(p) + (i - Len(p))] = more[i - Len(p)]
      BY <1>6, <3>1, Zenon
    <3>. QED
      BY <1>4, <3>1, <3>2
  <2>. QED
    BY <2>3, <2>4
<1>11. StandsIn(rp, root, tables[t], index)
  <2>1. \A i \in 1..Len(more) : root - 2 + i \in 1..Len(rp) /\ rp[root - 2 + i] = more[i]
    <3>1. TAKE i \in 1..Len(more)
    <3>2. root - 2 + i = Len(p) + i /\ Len(p) + i \in 1..Len(rp)
      <4>1. Len(p) \in Nat /\ Len(more) \in Nat /\ Len(rp) = Len(p) + Len(more)
        BY <1>3, <1>4, <1>6
      <4>. HIDE DEF rp
      <4>. QED
        BY <1>3, <4>1
    <3>. QED
      BY <1>6, <3>2
  <2>2. root >= 2
    <3>1. Len(p) \in Nat
      BY <1>3
    <3>. QED
      BY <1>3, <3>1
  <2>. QED
    BY <1>3, <2>1, <2>2, Zenon DEF StandsIn, more, tree
<1>12. ASSUME NEW i \in 1..Len(m)
       PROVE  /\ <<m[i].table, m[i].index>> \in D /\ StandsIn(rp, m[i].root, tables[m[i].table], m[i].index)
  <2>1. <<m[i].table, m[i].index>> \in D /\ StandsIn(p, m[i].root, tables[m[i].table], m[i].index)
    BY Zenon DEF PlacedInv, p, m
  <2>2. rp \in Seq(PageRecord) /\ Len(p) <= Len(rp) /\ \A j \in 1..Len(p) : rp[j] = p[j]
    BY <1>3, <1>4, <1>6
  <2>. HIDE DEF rp
  <2>. QED
    BY <1>3, <2>1, <2>2, StandsLonger
<1>13. ASSUME NEW i \in 1..Len(rm)
       PROVE  /\ <<rm[i].table, rm[i].index>> \in E
              /\ StandsIn(rp, rm[i].root, tables[rm[i].table], rm[i].index)
  <2>1. Len(m) \in Nat /\ Len(rm) = Len(m) + 1
    BY <1>3, <1>8
  <2>2. CASE i = Len(m) + 1
    <3>1. rm[i] = row
      BY <1>8, <2>2
    <3>. HIDE DEF rm, rp
    <3>. QED
      BY <1>7, <1>11, <3>1
  <2>3. CASE i # Len(m) + 1
    <3>1. i \in 1..Len(m)
      BY <2>1, <2>3
    <3>2. rm[i] = m[i]
      BY <1>8, <3>1
    <3>3. <<m[i].table, m[i].index>> \in D /\ StandsIn(rp, m[i].root, tables[m[i].table], m[i].index)
      BY <1>12, <3>1
    <3>. HIDE DEF rm, rp
    <3>. QED
      BY <3>2, <3>3
  <2>. QED
    BY <2>2, <2>3
<1>14. ASSUME NEW d \in E PROVE \E i \in 1..Len(rm) : d = <<rm[i].table, rm[i].index>>
  <2>1. Len(m) \in Nat /\ Len(rm) = Len(m) + 1
    BY <1>3, <1>8
  <2>2. CASE d = <<t, index>>
    <3>1. rm[Len(m) + 1] = row /\ Len(m) + 1 \in 1..Len(rm)
      BY <1>8, <2>1
    <3>. HIDE DEF rm
    <3>. QED
      BY <1>7, <2>2, <3>1
  <2>3. CASE d \in D
    <3>1. PICK i \in 1..Len(m) : d = <<m[i].table, m[i].index>>
      BY <2>3, Zenon DEF PlacedInv, m
    <3>2. rm[i] = m[i] /\ i \in 1..Len(rm)
      BY <1>8, <2>1
    <3>. HIDE DEF rm
    <3>. QED
      BY <3>1, <3>2
  <2>. QED
    BY <2>2, <2>3
<1>15. PlacedInv(r, tables, E)
  <2>. HIDE DEF rp, rm, E
  <2>. QED
    BY <1>9, <1>10, <1>13, <1>14, Zenon DEF PlacedInv
<1>. QED
  BY <1>15 DEF r, tree

\* A table and its index.
LEMMA AssignTableStep ==
    ASSUME SqliteWriterAssumption, NEW tables, NEW D, NEW q, PlacedInv(q, tables, D),
           NEW t \in Nat, Sound(tables[t])
    PROVE  PlacedInv(AssignTable(q, t, tables[t]), tables, D \cup {<<t, index>> : index \in Kinds(tables[t])})
<1>. DEFINE table == tables[t]
            first == Assign(q, t, TreeOf(table, FALSE))
            second == Assign(first, t, TreeOf(table, TRUE))
            one == D \cup {<<t, FALSE>>}
<1>1. FALSE \in Kinds(table) /\ (table.primaryKey => TRUE \in Kinds(table))
  BY DEF Kinds
<1>2. PlacedInv(first, tables, one)
  BY <1>1, AssignStep
<1>3. CASE table.primaryKey
  <2>1. TRUE \in Kinds(table)
    BY <1>1, <1>3
  <2>. HIDE DEF one, first
  <2>2. PlacedInv(second, tables, one \cup {<<t, TRUE>>})
    BY <1>2, <2>1, AssignStep
  <2>3. AssignTable(q, t, table) = second
    BY <1>3, Zenon DEF AssignTable, first
  <2>4. D \cup {<<t, index>> : index \in Kinds(table)} = one \cup {<<t, TRUE>>}
    BY <1>3 DEF one, Kinds
  <2>. QED
    BY <2>2, <2>3, <2>4
<1>4. CASE ~table.primaryKey
  <2>1. AssignTable(q, t, table) = first
    BY <1>4, Zenon DEF AssignTable
  <2>2. D \cup {<<t, index>> : index \in Kinds(table)} = one
    BY <1>4 DEF Kinds
  <2>. HIDE DEF first, one
  <2>. QED
    BY <1>2, <2>1, <2>2
<1>. QED
  BY <1>3, <1>4

\* The trees of the first t tables.
TreesUpTo(tables, t) == {d \in (1..t) \X BOOLEAN : d[2] \in Kinds(tables[d[1]])}
NonePlaced == [pages |-> <<>>, master |-> <<>>]

LEMMA NothingPlaced == ASSUME NEW tables PROVE PlacedInv(NonePlaced, tables, TreesUpTo(tables, 0))
<1>1. NonePlaced \in PlacedType /\ Len(NonePlaced.pages) = 0 /\ Len(NonePlaced.master) = 0
  BY DEF NonePlaced, PlacedType
<1>2. TreesUpTo(tables, 0) = {}
  <2>1. \A d \in TreesUpTo(tables, 0) : d[1] \in 1..0
    BY DEF TreesUpTo
  <2>2. 1..0 = {}
    OBVIOUS
  <2>. QED
    BY <2>1, <2>2
<1>3. 1..0 = {}
  OBVIOUS
<1>. QED
  BY <1>1, <1>2, <1>3 DEF PlacedInv

\* placed[t] holds the trees of the first t tables.
LEMMA AllPlaced ==
    ASSUME SqliteWriterAssumption, NEW tables, Len(tables) \in Nat,
           \A t \in 1..Len(tables) : Sound(tables[t])
    PROVE  PlacedInv(Placed(tables), tables, TreesUpTo(tables, Len(tables)))
<1>. DEFINE n == Len(tables)
            V == {q \in PlacedType : \E D : PlacedInv(q, tables, D)}
            step(q, t) == AssignTable(q, t, tables[t])
            F == [p \in V \X (1..n) |-> step(p[1], p[2])]
            Fixed(f) == f = [t \in 0..n |-> IF t = 0 THEN NonePlaced ELSE step(f[t - 1], t)]
            upTo == CHOOSE f : Fixed(f)
<1>1. Placed(tables) = upTo[n]
  BY Zenon DEF Placed, NonePlaced
<1>2. n \in Nat /\ NonePlaced \in V
  <2>1. PlacedInv(NonePlaced, tables, TreesUpTo(tables, 0))
    BY NothingPlaced
  <2>2. NonePlaced \in PlacedType
    BY <2>1, Zenon DEF PlacedInv
  <2>. QED
    BY <2>1, <2>2, Zenon
<1>3. \A q \in V, t \in 1..n : step(q, t) \in V
  <2>1. TAKE q \in V, t \in 1..n
  <2>2. PICK D : PlacedInv(q, tables, D)
    BY <2>1
  <2>3. t \in Nat /\ Sound(tables[t])
    BY <1>2
  <2>4. PlacedInv(step(q, t), tables, D \cup {<<t, index>> : index \in Kinds(tables[t])})
    BY <2>2, <2>3, AssignTableStep
  <2>5. step(q, t) \in PlacedType
    BY <2>4, Zenon DEF PlacedInv
  <2>. HIDE DEF step
  <2>. QED
    BY <2>4, <2>5, Zenon
<1>4. F \in StepFunctions(V, n)
  <2>. HIDE DEF V, step
  <2>. QED
    BY <1>3 DEF StepFunctions
<1>5. PICK u : BuiltBy(u, V, NonePlaced, F, n)
  <2>. HIDE DEF V, F, n
  <2>. QED
    BY <1>2, <1>4, StepsExist
<1>6. u \in [0..n -> V] /\ u[0] = NonePlaced /\ \A t \in 1..n : u[t] = F[<<u[t - 1], t>>]
  BY <1>5, Zenon DEF BuiltBy
<1>7. \A t \in 1..n : u[t] = step(u[t - 1], t)
  <2>1. TAKE t \in 1..n
  <2>2. t - 1 \in 0..n
    BY <1>2
  <2>3. u[t - 1] \in V
    BY <1>6, <2>2
  <2>. HIDE DEF V, step, n
  <2>. QED
    BY <1>6, <2>3
<1>8. Fixed(u)
  <2>1. u = [t \in 0..n |-> u[t]]
    BY <1>6
  <2>2. \A t \in 0..n : u[t] = IF t = 0 THEN NonePlaced ELSE step(u[t - 1], t)
    <3>. HIDE DEF step, V, n
    <3>. QED
      BY <1>2, <1>6, <1>7
  <2>. HIDE DEF V, n, step
  <2>. QED
    BY <2>1, <2>2
<1>9. Fixed(upTo)
  <2>. HIDE DEF Fixed
  <2>. QED
    BY <1>8, Zenon
<1>10. upTo[0] = NonePlaced /\ \A t \in 1..n : upTo[t] = step(upTo[t - 1], t)
  <2>. HIDE DEF upTo, step, n, V
  <2>. QED
    BY <1>2, <1>9
<1>. HIDE DEF upTo, V, F, Fixed
<1>. DEFINE S == {t \in 0..n : PlacedInv(upTo[t], tables, TreesUpTo(tables, t))}
<1>11. 0 \in S
  BY <1>2, <1>10, NothingPlaced
<1>12. ASSUME NEW t \in 1..n, t - 1 \in S PROVE t \in S
  <2>1. PlacedInv(upTo[t - 1], tables, TreesUpTo(tables, t - 1)) /\ t \in Nat /\ t \in 0..n
    BY <1>2, <1>12
  <2>2. Sound(tables[t])
    OBVIOUS
  <2>3. PlacedInv(step(upTo[t - 1], t), tables,
                  TreesUpTo(tables, t - 1) \cup {<<t, index>> : index \in Kinds(tables[t])})
    BY <2>1, <2>2, AssignTableStep
  <2>4. TreesUpTo(tables, t - 1) \cup {<<t, index>> : index \in Kinds(tables[t])} = TreesUpTo(tables, t)
    <3>1. Kinds(tables[t]) \subseteq BOOLEAN
      BY DEF Kinds
    <3>2. 1..t = (1..t - 1) \cup {t} /\ t \notin 1..t - 1
      BY <2>1
    <3>. QED
      BY <3>1, <3>2 DEF TreesUpTo
  <2>5. PlacedInv(upTo[t], tables, TreesUpTo(tables, t))
    <3>. HIDE DEF step
    <3>. QED
      BY <1>10, <2>3, <2>4
  <2>. QED
    BY <2>1, <2>5
<1>13. n \in S
  <2>. HIDE DEF S
  <2>1. 0..n \subseteq S
    BY <1>2, <1>11, <1>12, UpTo
  <2>. QED
    BY <1>2, <2>1
<1>. QED
  BY <1>1, <1>13

-----------------------------------------------------------------------------
(* The file *)

\* A file that is not an error is that of the tables given, all of them sound.
SqliteInv ==
    /\ given \in Databases \cup {<<>>}
    /\ file \in {Failed, Database(given)}

LEMMA DatabaseSound ==
    ASSUME SqliteWriterAssumption, SqliteInv, file.ok
    PROVE  /\ Len(given) \in Nat /\ DOMAIN given = 1..Len(given)
           /\ \A t \in 1..Len(given) : Sound(given[t])
           /\ file.pages = <<Page("leaf", FALSE, Placed(given).master, <<>>)>> \o Placed(given).pages
<1>. DEFINE bad == \/ given = <<>>
                   \/ \E t \in DOMAIN given : given[t].rows = <<>>
                   \/ \E t \in DOMAIN given : \E index \in Kinds(given[t]) : ~TreeOf(given[t], index).ok
            pages == <<Page("leaf", FALSE, Placed(given).master, <<>>)>> \o Placed(given).pages
            good == [ok |-> TRUE, pages |-> pages]
<1>1. Database(given) = IF bad THEN Failed ELSE good
  BY Zenon DEF Database
<1>2. ~Failed.ok
  BY DEF Failed
<1>. HIDE DEF bad, pages
<1>3. ~bad /\ file = good
  BY <1>1, <1>2 DEF SqliteInv
<1>4. file.pages = pages
  BY <1>3
<1>5. given \in Seq(Table)
  <2>1. given # <<>>
    BY <1>3 DEF bad
  <2>. QED
    BY <2>1 DEF SqliteInv, SqliteWriterAssumption
<1>6. Len(given) \in Nat /\ DOMAIN given = 1..Len(given)
  BY <1>5
<1>7. ASSUME NEW t \in 1..Len(given) PROVE Sound(given[t])
  <2>. DEFINE table == given[t]
              rows == table.rows
  <2>1. table \in Table
    BY <1>5
  <2>2. rows # <<>> /\ \A index \in Kinds(table) : TreeOf(table, index).ok
    BY <1>3, <1>6, Zenon DEF bad
  <2>. HIDE DEF table
  <2>3. rows \in Seq(Row)
    BY <2>1 DEF Table
  <2>. HIDE DEF rows
  <2>4. Len(rows) \in Nat /\ Len(rows) # 0
    <3>1. rows = <<>> <=> Len(rows) = 0
      BY <2>3, EmptyIsShort, Zenon
    <3>2. Len(rows) \in Nat
      BY <2>3
    <3>. QED
      BY <2>2, <3>1, <3>2
  <2>5. Len(rows) > 0
    BY <2>4
  <2>. QED
    BY <2>1, <2>2, <2>5, Zenon DEF Sound, table, rows
<1>. QED
  BY <1>4, <1>6, <1>7, Zenon DEF pages

\* The pages of the file: page 1, then those of the trees.
LEMMA FilePages ==
    ASSUME SqliteWriterAssumption, SqliteInv, file.ok
    PROVE  LET q == Placed(given)
           IN  /\ PlacedInv(q, given, TreesUpTo(given, Len(given)))
               /\ q.pages \in Seq(PageRecord) /\ q.master \in Seq(MasterRow)
               /\ DOMAIN file.pages = 1..Len(q.pages) + 1
               /\ file.pages[1].cells = q.master
               /\ \A i \in 1..Len(q.pages) : file.pages[i + 1] = q.pages[i]
<1>. DEFINE q == Placed(given)
            p == q.pages
            first == Page("leaf", FALSE, q.master, <<>>)
<1>1. file.pages = <<first>> \o p
  BY DatabaseSound, Zenon
<1>2. PlacedInv(q, given, TreesUpTo(given, Len(given)))
  BY DatabaseSound, AllPlaced
<1>3. p \in Seq(PageRecord) /\ q.master \in Seq(MasterRow)
  <2>1. q \in PlacedType
    BY <1>2, Zenon DEF PlacedInv
  <2>. HIDE DEF q
  <2>. QED
    BY <2>1 DEF PlacedType
<1>4. first.cells = q.master
  <2>. HIDE DEF q
  <2>. QED
    BY DEF Page
<1>. HIDE DEF p, first
<1>5. LET f == <<first>> \o p
      IN  DOMAIN f = 1..Len(p) + 1 /\ f[1] = first /\ \A i \in 1..Len(p) : f[i + 1] = p[i]
  <2>. DEFINE W == PageRecord \cup {first}
  <2>1. p \in Seq(W) /\ <<first>> \in Seq(W)
    <3>1. first \in W /\ \A i \in 1..Len(p) : p[i] \in W
      BY <1>3
    <3>. HIDE DEF W
    <3>2. p \in Seq(W)
      BY <1>3, <3>1
    <3>. QED
      BY <3>1, <3>2
  <2>. HIDE DEF W
  <2>. QED
    BY <2>1
<1>. QED
  BY <1>1, <1>2, <1>3, <1>4, <1>5, Zenon DEF p

\* sqlite_master leads to the tree.
LEMMA RootStands ==
    ASSUME SqliteWriterAssumption, SqliteInv, file.ok,
           NEW t \in 1..Len(given), NEW index \in Kinds(given[t])
    PROVE  LET root == RootOf(t, index)
           IN  /\ root \in Nat
               /\ OnFile(root, TreeOf(given[t], index), Starts(CellsOf(given[t], index), index), index)
<1>. DEFINE q == Placed(given)
            m == q.master
            p == q.pages
            at(i) == m[i].table = t /\ m[i].index = index
            j == CHOOSE i \in DOMAIN m : at(i)
            table == given[t]
            tree == TreeOf(table, index)
            cells == CellsOf(table, index)
            s == Starts(cells, index)
            root == RootOf(t, index)
            pages == PagesOf(tree, root)
<1>1. /\ PlacedInv(q, given, TreesUpTo(given, Len(given)))
      /\ p \in Seq(PageRecord) /\ m \in Seq(MasterRow)
      /\ file.pages[1].cells = m
      /\ \A i \in 1..Len(p) : file.pages[i + 1] = p[i]
  BY FilePages, Zenon
<1>2. Sound(table) /\ Len(given) \in Nat
  BY DatabaseSound, Zenon
<1>3. /\ index \in BOOLEAN /\ cells \in Seq(Cell) /\ Len(cells) > 0 /\ Built(tree, s, cells, index)
  BY <1>2, TreeOfSound
<1>4. DOMAIN m = 1..Len(m)
  BY <1>1
<1>5. root = m[j].root
  BY <1>1, ZenonT(30) DEF RootOf
<1>6. j \in 1..Len(m) /\ at(j)
  <2>1. <<t, index>> \in TreesUpTo(given, Len(given))
    BY <1>3 DEF TreesUpTo
  <2>2. PICK i \in 1..Len(m) : <<t, index>> = <<m[i].table, m[i].index>>
    BY <1>1, <2>1, Zenon DEF PlacedInv
  <2>3. at(i)
    BY <2>2
  <2>. HIDE DEF at, m
  <2>4. \E h \in DOMAIN m : at(h)
    BY <1>4, <2>3, Zenon
  <2>. QED
    BY <1>4, <2>4, Zenon
<1>7. StandsIn(p, root, table, index)
  <2>1. StandsIn(p, m[j].root, given[m[j].table], m[j].index)
    BY <1>1, <1>6, Zenon DEF PlacedInv
  <2>. HIDE DEF j, m, root
  <2>. QED
    BY <1>5, <1>6, <2>1
<1>. HIDE DEF root, j, m, p, tree, cells, s, pages
<1>8. /\ root \in Nat /\ root >= 2
      /\ \A i \in 1..Len(pages) : root - 2 + i \in 1..Len(p) /\ p[root - 2 + i] = pages[i]
  BY <1>7, Zenon DEF StandsIn, pages, tree
<1>9. ASSUME NEW i \in 1..Len(pages), NEW h \in Nat, h = root + i - 1 PROVE file.pages[h] = pages[i]
  <2>1. root - 2 + i \in 1..Len(p) /\ p[root - 2 + i] = pages[i]
    BY <1>8
  <2>2. file.pages[(root - 2 + i) + 1] = p[root - 2 + i]
    BY <1>1, <2>1, Zenon DEF p, q
  <2>3. (root - 2 + i) + 1 = h
    BY <1>8, <1>9
  <2>. QED
    BY <2>1, <2>2, <2>3
<1>10. /\ pages \in Seq(PageRecord) /\ Len(pages) >= 1
       /\ Len(s) = 1 => Len(pages) = 1 /\ pages[1] = LeafPage(tree, 1)
       /\ Len(s) # 1 => /\ Len(pages) = Len(s) + 1
                        /\ pages[1] = Page("interior", index, tree.dividers, [i \in 1..Len(s) |-> root + i])
                        /\ \A i \in 1..Len(s) : pages[i + 1] = LeafPage(tree, i)
  BY <1>3, <1>8, PagesLaid DEF pages
<1>11. file.pages[root] = pages[1]
  <2>1. 1 \in 1..Len(pages) /\ root = root + 1 - 1
    BY <1>8, <1>10
  <2>. QED
    BY <1>8, <1>9, <2>1
<1>12. ASSUME Len(s) # 1, NEW i \in 1..Len(s) PROVE file.pages[root + i] = LeafPage(tree, i)
  <2>1. Len(s) \in Nat
    <3>1. Begins(s, Len(cells))
      BY <1>3, Zenon DEF Built, Laid
    <3>. QED
      BY <3>1 DEF Begins
  <2>2. i + 1 \in 1..Len(pages) /\ root + i \in Nat /\ root + i = root + (i + 1) - 1
    <3>. DEFINE l == Len(pages)
    <3>1. l = Len(s) + 1
      BY <1>10, <1>12
    <3>. HIDE DEF l
    <3>2. i + 1 \in 1..l
      BY <2>1, <3>1
    <3>. QED
      BY <1>8, <2>1, <3>2 DEF l
  <2>3. file.pages[root + i] = pages[i + 1]
    BY <1>9, <2>2
  <2>. QED
    BY <1>10, <1>12, <2>3
<1>13. OnFile(root, tree, s, index)
  BY <1>10, <1>11, <1>12, Zenon DEF OnFile
<1>. QED
  BY <1>8, <1>13, Zenon DEF root, tree, s, cells, table

LEMMA FileSound ==
    ASSUME SqliteWriterAssumption, SqliteInv PROVE EveryRowFound /\ PagesHoldTheirCells
<1>1. ASSUME file.ok, NEW n \in DOMAIN file.pages \ {1} PROVE PageFits(file.pages[n])
  <2>. DEFINE p == Placed(given).pages
  <2>1. /\ PlacedInv(Placed(given), given, TreesUpTo(given, Len(given)))
        /\ DOMAIN file.pages = 1..Len(p) + 1 /\ p \in Seq(PageRecord)
        /\ \A i \in 1..Len(p) : file.pages[i + 1] = p[i]
    BY <1>1, FilePages, Zenon
  <2>2. \A i \in 1..Len(p) : PageFits(p[i])
    BY <2>1, Zenon DEF PlacedInv
  <2>. HIDE DEF p
  <2>3. n - 1 \in 1..Len(p) /\ (n - 1) + 1 = n
    BY <2>1
  <2>. QED
    BY <2>1, <2>2, <2>3
<1>2. PagesHoldTheirCells
  BY <1>1, Zenon DEF PagesHoldTheirCells, PageFits
<1>3. ASSUME file.ok, NEW t \in DOMAIN given, NEW index \in Kinds(given[t])
      PROVE  LET rows == given[t].rows
                 root == RootOf(t, index)
             IN  /\ \A p, q \in Places(root) : CellAt(p).rowid = CellAt(q).rowid => p = q
                 /\ \A p \in Places(root) : CellAt(p).rowid \in DOMAIN rows
                 /\ \A r \in DOMAIN rows :
                      \E c \in CellsOnPath(root, IF index THEN rows[r].key ELSE r) :
                         /\ c.key = rows[r].key
                         /\ \/ c.rowid = r
                            \/ index /\ \E o \in DOMAIN rows \ {r} : rows[o].key = rows[r].key
  <2>. DEFINE table == given[t]
              root == RootOf(t, index)
  <2>1. t \in 1..Len(given) /\ Sound(table)
    BY <1>3, DatabaseSound, Zenon
  <2>2. table \in Table /\ Len(table.rows) > 0 /\ index \in BOOLEAN /\ TreeOf(table, index).ok
    <3>1. index \in BOOLEAN
      BY DEF Kinds
    <3>. QED
      BY <2>1, <3>1, Zenon DEF Sound
  <2>3. root \in Nat /\ OnFile(root, TreeOf(table, index), Starts(CellsOf(table, index), index), index)
    BY <1>3, <2>1, RootStands, Zenon
  <2>. HIDE DEF table, root
  <2>4. /\ \A p, q \in Places(root) : CellAt(p).rowid = CellAt(q).rowid => p = q
        /\ \A p \in Places(root) : CellAt(p).rowid \in DOMAIN table.rows
        /\ \A r \in DOMAIN table.rows :
             \E c \in CellsOnPath(root, IF index THEN table.rows[r].key ELSE r) :
                /\ c.key = table.rows[r].key
                /\ \/ c.rowid = r
                   \/ index /\ \E o \in DOMAIN table.rows \ {r} : table.rows[o].key = table.rows[r].key
    BY <2>2, <2>3, TreeFound
  <2>. QED
    BY <2>4, Zenon DEF table, root
<1>4. EveryRowFound
  BY <1>3, Zenon DEF EveryRowFound
<1>. QED
  BY <1>2, <1>4

THEOREM SqliteInvHolds == SqliteWriterSpec => []SqliteInv
<1>1. SqliteWriterInit => SqliteInv
  BY DEF SqliteWriterInit, SqliteInv
<1>2. ASSUME SqliteInv, [SqliteWriterNext]_writerVars PROVE SqliteInv'
  <2>1. CASE \E tables \in Databases : CreateDatabase(tables)
    BY <2>1, Zenon DEF CreateDatabase, SqliteInv
  <2>2. CASE FileTaken
    BY <2>2, Zenon DEF FileTaken, SqliteInv
  <2>3. CASE UNCHANGED writerVars
    BY <1>2, <2>3, Zenon DEF writerVars, SqliteInv
  <2>. QED
    BY <1>2, <2>1, <2>2, <2>3, Zenon DEF SqliteWriterNext
<1>. QED
  BY <1>1, <1>2, PTL DEF SqliteWriterSpec

\* No page of the file but the first, which is not measured, has cells that
\* meet its pointers: buildBTree measures the leaves while it fills them, and
\* the interior page before it is written.
THEOREM PagesNeverOverflow == SqliteWriterSpec => []PagesHoldTheirCells
<1>1. SqliteInv => PagesHoldTheirCells
  BY SqliteWriterAssumption, FileSound
<1>. QED
  BY <1>1, SqliteInvHolds, PTL

\* Whatever the sizes of the rows, a reader that goes down a tree from its root
\* finds every row of every table by its number, and by its key in the index;
\* no tree holds a row twice.
THEOREM RowsAlwaysFound == SqliteWriterSpec => []EveryRowFound
<1>1. SqliteInv => EveryRowFound
  BY SqliteWriterAssumption, FileSound
<1>. QED
  BY <1>1, SqliteInvHolds, PTL
=============================================================================
