----------------------------- MODULE SqliteWriter -----------------------------
(***************************************************************************)
(* The writer of SQLite files behind the export of wallets                 *)
(* (src/src/js/sqlite-writer.js): the rows of each table are packed into   *)
(* the leaves of a B-tree, with one interior page over them if there are   *)
(* several, and again by primary key into an index; pages are numbered     *)
(* afterwards.  Bytes are abstract: a cell is known by its row, its key    *)
(* and its size, keys are numbers in the order of bytewiseCompare.         *)
(***************************************************************************)
EXTENDS Integers, Sequences, FiniteSets, SequencesExt

CONSTANTS
    PageSize,       \* PAGE_SIZE
    MaxLeaves,      \* leaves an interior page may have (200)
    MasterSize,     \* size of a cell of sqlite_master
    Databases       \* the tables createDatabase is called with

\* Sizes and row numbers whose varint takes four bytes at most.
Largest == 268435455
Row == [key : Nat, size : 0..Largest, keySize : 0..Largest]
Table == [rows : Seq(Row), primaryKey : BOOLEAN]

ASSUME SqliteWriterAssumption ==
    /\ PageSize \in Nat /\ MaxLeaves \in Nat \ {0} /\ MasterSize \in Nat
    /\ Databases \subseteq Seq(Table)
    /\ \A tables \in Databases : \A t \in DOMAIN tables : Len(tables[t].rows) <= Largest

VARIABLES
    given,      \* the tables of the last call: rows, and whether there is an index
    file        \* the file it returned, or an error

writerVars == <<given, file>>

LeafHeader == 8
InteriorHeader == 12
PointerSize == 2

Failed == [ok |-> FALSE]

-----------------------------------------------------------------------------
\* varint: seven bits a byte.
VarintSize(v) == 1 + Cardinality({full \in {128, 16384, 2097152} : full <= v})

\* tableLeafCell, indexLeafCell.
LeafCellSize(cell, index) ==
    VarintSize(cell.size) + cell.size + (IF index THEN 0 ELSE VarintSize(cell.rowid))

\* tableInteriorCell, indexInteriorCell: the child's page, and the bound.
InteriorCellSize(cell, index) ==
    4 + (IF index THEN VarintSize(cell.size) + cell.size ELSE VarintSize(cell.rowid))

\* maxInlinePayload.
InlineLimit(index) ==
    IF index THEN (((PageSize - 12) * 64) \div 255) - 23 ELSE PageSize - 35

\* What cells of some sizes take on a page, with their pointers.
Taken(sizes) ==
    LET upTo[i \in 0..Len(sizes)] == IF i = 0 THEN 0 ELSE upTo[i - 1] + sizes[i] + PointerSize
    IN  upTo[Len(sizes)]

LeafSizes(cells, index) == [i \in DOMAIN cells |-> LeafCellSize(cells[i], index)]
InteriorSizes(cells, index) == [i \in DOMAIN cells |-> InteriorCellSize(cells[i], index)]

\* Mutant: the pointer of the new cell is forgotten.
FitsLeafWithoutPointer(used, size) == used + size <= PageSize

FitsLeaf(used, size) == used + size + PointerSize <= PageSize

\* The cells in order, each leaf filled before the next is begun: where the
\* leaves begin, and what is used of the last.
Pack(packed, cells, index, i) ==
    LET size == LeafCellSize(cells[i], index) IN
    IF Last(packed.starts) = i \/ FitsLeaf(packed.used, size)
    THEN [packed EXCEPT !.used = @ + size + PointerSize]
    ELSE [starts |-> Append(packed.starts, i), used |-> LeafHeader + size + PointerSize]

Starts(cells, index) ==
    LET upTo[i \in 0..Len(cells)] ==
            IF i = 0 THEN [starts |-> <<1>>, used |-> LeafHeader]
            ELSE Pack(upTo[i - 1], cells, index, i)
    IN  upTo[Len(cells)].starts

EndOf(starts, n, j) == IF j = Len(starts) THEN n ELSE starts[j + 1] - 1
Leaves(cells, index) ==
    LET starts == Starts(cells, index) IN
    [j \in DOMAIN starts |-> SubSeq(cells, starts[j], EndOf(starts, Len(cells), j))]

\* Mutant: the divider of an index stays in its leaf.
DividedKeeping(leaves, index) == leaves

\* The last cell of a leaf of an index moves up into the interior page; of a
\* table only its row number is repeated there.
Divided(leaves, index) ==
    [i \in DOMAIN leaves |->
        IF index /\ i < Len(leaves) THEN Front(leaves[i]) ELSE leaves[i]]

\* buildBTree: the leaves and the dividers between them.
BTree(cells, index) ==
    LET leaves == Leaves(cells, index)
        dividers == [i \in 1..Len(leaves) - 1 |-> Last(leaves[i])]
    IN
    IF \/ \E i \in DOMAIN cells : cells[i].size > InlineLimit(index)
       \/ Len(leaves) > MaxLeaves
       \/ index /\ \E i \in DOMAIN dividers : Len(leaves[i]) < 2
       \/ InteriorHeader + Taken(InteriorSizes(dividers, index)) > PageSize
    THEN Failed
    ELSE [ok |-> TRUE, index |-> index, leaves |-> Divided(leaves, index), dividers |-> dividers]

-----------------------------------------------------------------------------
\* The cells of a table, numbered as given.
TableCells(table) ==
    [i \in DOMAIN table.rows |->
        [rowid |-> i, key |-> table.rows[i].key, size |-> table.rows[i].size]]

\* The cells of its index, sorted by key: a row stands behind those before it.
Precedes(rows, s, r) == rows[s].key < rows[r].key \/ (rows[s].key = rows[r].key /\ s < r)
Rank(rows, r) == Cardinality({s \in DOMAIN rows : Precedes(rows, s, r)}) + 1
Ranked(rows, n) == CHOOSE r \in DOMAIN rows : Rank(rows, r) = n
IndexCells(table) ==
    [n \in DOMAIN table.rows |->
        LET r == Ranked(table.rows, n)
        IN  [rowid |-> r, key |-> table.rows[r].key, size |-> table.rows[r].keySize]]

\* A table has a tree, and another if it has a primary key.
Kinds(table) == IF table.primaryKey THEN {FALSE, TRUE} ELSE {FALSE}
TreeOf(table, index) == BTree(IF index THEN IndexCells(table) ELSE TableCells(table), index)

\* The pages of a tree whose root has the number given, the interior page first.
Page(level, index, cells, children) ==
    [level |-> level, index |-> index, cells |-> cells, children |-> children]
PagesOf(tree, root) ==
    LET leaves == [i \in DOMAIN tree.leaves |-> Page("leaf", tree.index, tree.leaves[i], <<>>)] IN
    IF tree.dividers = <<>> THEN leaves
    ELSE <<Page("interior", tree.index, tree.dividers, [i \in DOMAIN leaves |-> root + i])>> \o leaves

\* assign: page 1 is kept for sqlite_master, which gets a row for the tree.
Assign(placed, t, tree) ==
    LET root == Len(placed.pages) + 2 IN
    [pages |-> placed.pages \o PagesOf(tree, root),
     master |-> Append(placed.master,
                       [rowid |-> Len(placed.master) + 1, table |-> t, index |-> tree.index,
                        root |-> root, size |-> MasterSize])]

AssignTable(placed, t, table) ==
    LET withTree == Assign(placed, t, TreeOf(table, FALSE))
    IN  IF table.primaryKey THEN Assign(withTree, t, TreeOf(table, TRUE)) ELSE withTree

Placed(tables) ==
    LET upTo[t \in 0..Len(tables)] ==
            IF t = 0 THEN [pages |-> <<>>, master |-> <<>>]
            ELSE AssignTable(upTo[t - 1], t, tables[t])
    IN  upTo[Len(tables)]

\* createDatabase.
Database(tables) ==
    IF \/ tables = <<>>
       \/ \E t \in DOMAIN tables : tables[t].rows = <<>>
       \/ \E t \in DOMAIN tables : \E index \in Kinds(tables[t]) : ~TreeOf(tables[t], index).ok
    THEN Failed
    ELSE [ok |-> TRUE,
          pages |-> <<Page("leaf", FALSE, Placed(tables).master, <<>>)>> \o Placed(tables).pages]

-----------------------------------------------------------------------------
SqliteWriterInit == given = <<>> /\ file = Failed

CreateDatabase(tables) ==
    /\ given = <<>>
    /\ given' = tables /\ file' = Database(tables)

\* The file, or the error, is the caller's: nothing is kept for the next call.
FileTaken == given # <<>> /\ given' = <<>> /\ file' = Failed

SqliteWriterNext == (\E tables \in Databases : CreateDatabase(tables)) \/ FileTaken

SqliteWriterSpec == SqliteWriterInit /\ [][SqliteWriterNext]_writerVars

-----------------------------------------------------------------------------
(* Properties *)

\* How a reader of the format goes down a tree, from the root that
\* sqlite_master gives for it: at an interior page to the child left of the
\* first divider that is not smaller, or to the rightmost.
RootOf(t, index) ==
    LET master == file.pages[1].cells
    IN  master[CHOOSE i \in DOMAIN master : master[i].table = t /\ master[i].index = index].root

NotSmaller(page, sought) ==
    {i \in DOMAIN page.cells : sought <= IF page.index THEN page.cells[i].key ELSE page.cells[i].rowid}
Child(page, sought) ==
    LET larger == NotSmaller(page, sought) IN
    page.children[IF larger = {} THEN Len(page.children)
                  ELSE CHOOSE i \in larger : \A j \in larger : i <= j]

CellsOn(page) == {page.cells[i] : i \in DOMAIN page.cells}
CellsOnPath(root, sought) ==
    LET page == file.pages[root] IN
    IF page.level = "leaf" THEN CellsOn(page)
    ELSE CellsOn(file.pages[Child(page, sought)]) \cup (IF page.index THEN CellsOn(page) ELSE {})

\* Where a tree holds cells: on its leaves, and between those of an index.
PagesUnder(root) == {root} \cup {file.pages[root].children[i] : i \in DOMAIN file.pages[root].children}
Places(root) ==
    UNION {{n} \X DOMAIN file.pages[n].cells :
              n \in {m \in PagesUnder(root) : file.pages[m].level = "leaf" \/ file.pages[m].index}}
CellAt(place) == file.pages[place[1]].cells[place[2]]

\* Every row of every table is found by its number and by its key, and the trees
\* hold no cell twice, whatever the sizes that decide where leaves end.  Of rows
\* with one key the index leads to one.
EveryRowFound ==
    file.ok => \A t \in DOMAIN given : \A index \in Kinds(given[t]) :
        LET rows == given[t].rows
            root == RootOf(t, index)
        IN
        /\ \A p, q \in Places(root) : CellAt(p).rowid = CellAt(q).rowid => p = q
        /\ \A p \in Places(root) : CellAt(p).rowid \in DOMAIN rows
        /\ \A r \in DOMAIN rows :
             \E c \in CellsOnPath(root, IF index THEN rows[r].key ELSE r) :
                /\ c.key = rows[r].key
                /\ \/ c.rowid = r
                   \/ index /\ \E s \in DOMAIN rows \ {r} : rows[s].key = rows[r].key

\* The cells of a page and their pointers never meet ("throws instead of writing a
\* corrupt file", sqlite-writer.js 16-18).  Page 1 is never measured: that
\* its few rows fit is a matter of MasterSize.
PagesHoldTheirCells ==
    file.ok => \A n \in DOMAIN file.pages \ {1} :
        LET page == file.pages[n] IN
        IF page.level = "leaf"
        THEN LeafHeader + Taken(LeafSizes(page.cells, page.index)) <= PageSize
        ELSE InteriorHeader + Taken(InteriorSizes(page.cells, page.index)) <= PageSize
=============================================================================
