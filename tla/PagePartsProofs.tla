---------------------------- MODULE PagePartsProofs ----------------------------
(***************************************************************************)
(* Safety of the strip of tabs and of the Delete key that repeats, and the *)
(* page as the sum of its parts.                                           *)
(*   - Tabs: two of the strip's operators choose an extreme: the first     *)
(*     free default name, which exists because the tabs are fewer than the *)
(*     names tried (a pigeonhole), and the largest number.  The invariant  *)
(*     adds what the editor's index is worth: while it is in the page it   *)
(*     is that of the active tab.                                          *)
(*   - Delete: the flag repeated is what the release looks at, and the     *)
(*     invariant says what it knows: no hold timer is armed while it is    *)
(*     set, and it is set once a timer of this press has deleted.          *)
(*   - Page: a behaviour of the page is one of every part, so that what is *)
(*     proved of a part holds of the page.                                 *)
(***************************************************************************)
EXTENDS PageParts, EntryProofs

-----------------------------------------------------------------------------
(* What the strip's operators return *)

LEMMA IntervalSize ==
    ASSUME NEW n \in Nat
    PROVE  IsFiniteSet(1..n) /\ Cardinality(1..n) = n
<1>1. IsFiniteSet(1..n) /\ Cardinality(1..n) = IF 1 > n THEN 0 ELSE n - 1 + 1
  BY FS_Interval
<1>. QED
  BY <1>1

\* Fewer tabs than default names to try: one of them is free.
LEMMA SomeDefaultNameFree ==
    ASSUME tabs \in Seq(Tabs), Len(tabs) < MaxTabs, NEW number \in Nat
    PROVE  \E k \in 1..MaxTabs : ~NameTaken(Plain(<<number, k>>), 0)
<1>. SUFFICES ASSUME \A k \in 1..MaxTabs : NameTaken(Plain(<<number, k>>), 0) PROVE FALSE
  OBVIOUS
<1>. DEFINE f == [k \in 1..MaxTabs |->
                    CHOOSE i \in 1..Len(tabs) : tabs[i].name.text = <<number, k>>]
<1>1. \A k \in 1..MaxTabs :
        f[k] \in 1..Len(tabs) /\ tabs[f[k]].name.text = <<number, k>>
  <2>1. TAKE k \in 1..MaxTabs
  <2>2. \E i \in 1..Len(tabs) : tabs[i].name.text = <<number, k>>
    BY DEF NameTaken, Plain
  <2>. QED
    BY <2>2
<1>2. /\ IsFiniteSet(1..MaxTabs) /\ Cardinality(1..MaxTabs) = MaxTabs
      /\ IsFiniteSet(1..Len(tabs)) /\ Cardinality(1..Len(tabs)) = Len(tabs)
  BY IntervalSize, TabStripAssumption
<1>3. f \in [1..MaxTabs -> 1..Len(tabs)]
  BY <1>1
<1>4. PICK x, y \in 1..MaxTabs : x # y /\ f[x] = f[y]
  <2>. HIDE DEF f
  <2>. QED
    BY <1>2, <1>3, FS_PigeonHole
<1>5. <<number, x>> = <<number, y>>
  <2>. HIDE DEF f
  <2>. QED
    BY <1>1, <1>4
<1>. QED
  BY <1>4, <1>5

LEMMA DefaultNameFree ==
    ASSUME tabs \in Seq(Tabs), Len(tabs) < MaxTabs, NEW number \in 1..MaxNumber
    PROVE  /\ DefaultName(number) \in TabNames
           /\ \A i \in 1..Len(tabs) : tabs[i].name.text # DefaultName(number).text
<1>. DEFINE free == {k \in 1..MaxTabs : ~NameTaken(Plain(<<number, k>>), 0)}
<1>1. free # {}
  <2>1. \E k \in 1..MaxTabs : ~NameTaken(Plain(<<number, k>>), 0)
    BY SomeDefaultNameFree, TabStripAssumption
  <2>. QED
    BY <2>1
<1>2. \E k \in free : \A j \in free : k <= j
  <2>1. free \in SUBSET Nat
    BY TabStripAssumption
  <2>. HIDE DEF free
  <2>. QED
    BY <1>1, <2>1, HasLeast
<1>3. PICK k \in free : DefaultName(number) = Plain(<<number, k>>)
  BY <1>2 DEF DefaultName
<1>. QED
  BY <1>3 DEF Plain, TabNames, NameTexts, NameTaken

\* The number after those of a strip is above each of them and no higher than it
\* must be.
LEMMA NumberAfterAbove ==
    ASSUME NEW strip \in Seq(Tabs), Len(strip) > 0
    PROVE  /\ NumberAfter(strip) \in 1..(MaxNumber + 1)
           /\ \A i \in 1..Len(strip) : strip[i].number < NumberAfter(strip)
<1>. DEFINE numbers == {strip[i].number : i \in DOMAIN strip}
<1>0. DOMAIN strip = 1..Len(strip) /\ Len(strip) \in Nat
  OBVIOUS
<1>1. \A i \in DOMAIN strip : strip[i].number \in 1..MaxNumber
  <2>1. \A i \in DOMAIN strip : strip[i] \in Tabs
    OBVIOUS
  <2>. QED
    BY <2>1 DEF Tabs
<1>2. numbers \in SUBSET Nat /\ \A n \in numbers : n <= MaxNumber
  BY <1>1, TabStripAssumption
<1>3. numbers # {}
  <2>1. 1 \in DOMAIN strip
    BY <1>0
  <2>. QED
    BY <2>1
<1>4. \E m \in numbers : \A n \in numbers : n <= m
  <2>. HIDE DEF numbers
  <2>. QED
    BY <1>2, <1>3, HasLargest, TabStripAssumption
<1>5. \E m \in numbers : \A i \in DOMAIN strip : strip[i].number <= m
  BY <1>4
<1>6. PICK m \in numbers : /\ \A i \in DOMAIN strip : strip[i].number <= m
                           /\ NumberAfter(strip) = 1 + m
  BY <1>5 DEF NumberAfter
<1>7. m \in 1..MaxNumber
  BY <1>1, <1>6
<1>8. \A i \in 1..Len(strip) : strip[i].number \in Nat /\ strip[i].number <= m
  BY <1>0, <1>1, <1>6, TabStripAssumption
<1>. HIDE DEF numbers
<1>. QED
  BY <1>6, <1>7, <1>8, TabStripAssumption

\* Without the tab at i, those after it have moved up by one.
LEMMA RemoveAtMovesUp ==
    ASSUME NEW strip \in Seq(Tabs), NEW a \in 1..Len(strip)
    PROVE  /\ RemoveAt(strip, a) \in Seq(Tabs)
           /\ Len(RemoveAt(strip, a)) = Len(strip) - 1
           /\ \A k \in 1..(Len(strip) - 1) :
                RemoveAt(strip, a)[k] = strip[IF k < a THEN k ELSE k + 1]
<1>. DEFINE front == SubSeq(strip, 1, a - 1)
            rest == SubSeq(strip, a + 1, Len(strip))
<1>1. /\ front \in Seq(Tabs) /\ Len(front) = a - 1
      /\ \A k \in 1..(a - 1) : front[k] = strip[k]
  OBVIOUS
<1>2. /\ rest \in Seq(Tabs) /\ Len(rest) = Len(strip) - a
      /\ \A k \in 1..(Len(strip) - a) : rest[k] = strip[a + k]
  OBVIOUS
<1>3. RemoveAt(strip, a) = front \o rest
  BY DEF RemoveAt
<1>. HIDE DEF front, rest
<1>4. /\ front \o rest \in Seq(Tabs)
      /\ Len(front \o rest) = Len(strip) - 1
  <2>1. /\ front \o rest \in Seq(Tabs)
        /\ Len(front \o rest) = Len(front) + Len(rest)
    BY <1>1, <1>2, ConcatTyped, Zenon
  <2>. QED
    BY <1>1, <1>2, <2>1
<1>5. ASSUME NEW k \in 1..(Len(strip) - 1)
      PROVE  (front \o rest)[k] = strip[IF k < a THEN k ELSE k + 1]
  <2>1. CASE k < a
    BY <1>1, <1>2, <2>1
  <2>2. CASE ~(k < a)
    <3>1. (front \o rest)[k] = rest[k - (a - 1)]
      BY <1>1, <1>2, <2>2
    <3>2. k - (a - 1) \in 1..(Len(strip) - a)
      BY <2>2
    <3>. QED
      BY <1>2, <2>2, <3>1, <3>2
  <2>. QED
    BY <2>1, <2>2
<1>. QED
  BY <1>3, <1>4, <1>5

-----------------------------------------------------------------------------
(* The invariant *)

\* While the editor is in the page it is the active tab's.
EditorOnActive ==
    editor.at = "page" =>
      editor.index = activeTab /\ editor.number = tabs[activeTab].number

TabStripInv == TabStripTypeOK /\ NumbersApart /\ NamesApart /\ EditorOnActive

LEMMA TabStripInit_Inv == TabStripInit => TabStripInv
<1>. SUFFICES ASSUME TabStripInit PROVE TabStripInv
  OBVIOUS
<1>1. [number |-> 1, name |-> Plain(<<1, 1>>)] \in Tabs
  BY TabStripAssumption DEF Tabs, TabNames, NameTexts, Plain
<1>2. tabs \in Seq(Tabs) /\ Len(tabs) = 1 /\ tabs[1].number = 1
  BY <1>1 DEF TabStripInit
<1>. QED
  BY <1>2, TabStripAssumption
  DEF TabStripInit, TabStripInv, TabStripTypeOK, NumbersApart, NamesApart, EditorOnActive, NoEditor

\* Rendering leaves an editor that is no longer in the page, of the same shape.
LEMMA RenderedEditor ==
    ASSUME TabStripTypeOK, RenderTabs
    PROVE  /\ editor'.at # "page"
           /\ \/ editor' = NoEditor
              \/ editor' \in [at: {"page", "removed"}, index: 1..MaxTabs,
                             number: 1..MaxNumber, draft: TabNames \cup {Plain(NoText)},
                             current: BOOLEAN]
<1>1. CASE editor.at = "page"
  <2>1. editor' = [editor EXCEPT !.at = "removed"]
    BY <1>1 DEF RenderTabs
  <2>2. editor # NoEditor
    BY <1>1 DEF NoEditor
  <2>. QED
    BY <2>1, <2>2 DEF TabStripTypeOK
<1>2. CASE editor.at # "page"
  <2>1. editor' = editor
    BY <1>2 DEF RenderTabs
  <2>. QED
    BY <1>2, <2>1, Zenon DEF TabStripTypeOK
<1>. QED
  BY <1>1, <1>2

LEMMA AddTab_Inv == ASSUME TabStripInv, AddTab PROVE TabStripInv'
<1>. DEFINE new == [number |-> nextNumber, name |-> DefaultName(nextNumber)]
<1>1. /\ tabs \in Seq(Tabs) /\ Len(tabs) \in 1..MaxTabs /\ Len(tabs) < MaxTabs
      /\ nextNumber \in 1..MaxNumber
  BY TabStripAssumption DEF TabStripInv, TabStripTypeOK, AddTab
<1>2. /\ DefaultName(nextNumber) \in TabNames
      /\ \A i \in 1..Len(tabs) : tabs[i].name.text # DefaultName(nextNumber).text
  BY <1>1, DefaultNameFree
<1>3. new \in Tabs /\ new.number = nextNumber /\ new.name = DefaultName(nextNumber)
  BY <1>1, <1>2 DEF Tabs
<1>4. tabs' = Append(tabs, new) /\ nextNumber' = nextNumber + 1 /\ activeTab' = Len(tabs')
  BY DEF AddTab
<1>. HIDE DEF new
<1>5. /\ tabs' \in Seq(Tabs) /\ Len(tabs') = Len(tabs) + 1
      /\ \A i \in 1..Len(tabs) : tabs'[i] = tabs[i]
      /\ tabs'[Len(tabs) + 1] = new
  BY <1>1, <1>3, <1>4
<1>6. TabStripTypeOK' /\ EditorOnActive'
  BY <1>1, <1>4, <1>5, RenderedEditor, TabStripAssumption
  DEF TabStripInv, TabStripTypeOK, AddTab, EditorOnActive
<1>7. NumbersApart'
  <2>1. \A i \in 1..Len(tabs) : tabs[i].number \in Nat /\ tabs[i].number < nextNumber
    <3>1. \A i \in 1..Len(tabs) : tabs[i] \in Tabs
      BY <1>1
    <3>. QED
      BY <3>1 DEF Tabs, TabStripInv, NumbersApart
  <2>. QED
    BY <1>1, <1>3, <1>4, <1>5, <2>1 DEF TabStripInv, NumbersApart
<1>8. NamesApart'
  BY <1>1, <1>2, <1>3, <1>5 DEF TabStripInv, NamesApart
<1>. QED
  BY <1>6, <1>7, <1>8 DEF TabStripInv

LEMMA DeleteActiveTab_Inv == ASSUME TabStripInv, DeleteActiveTab PROVE TabStripInv'
<1>1. /\ tabs \in Seq(Tabs) /\ Len(tabs) \in 2..MaxTabs /\ activeTab \in 1..Len(tabs)
      /\ tabs' = RemoveAt(tabs, activeTab) /\ nextNumber' = NumberAfter(tabs')
  BY DEF TabStripInv, TabStripTypeOK, DeleteActiveTab
<1>2. /\ tabs' \in Seq(Tabs) /\ Len(tabs') = Len(tabs) - 1
      /\ \A k \in 1..(Len(tabs) - 1) : tabs'[k] = tabs[IF k < activeTab THEN k ELSE k + 1]
  BY <1>1, RemoveAtMovesUp
<1>3. /\ nextNumber' \in 1..(MaxNumber + 1)
      /\ \A i \in 1..Len(tabs') : tabs'[i].number < nextNumber'
  BY <1>1, <1>2, NumberAfterAbove
<1>4. activeTab' \in 1..Len(tabs')
  BY <1>1, <1>2 DEF DeleteActiveTab
<1>5. TabStripTypeOK' /\ EditorOnActive'
  BY <1>1, <1>2, <1>3, <1>4, RenderedEditor, TabStripAssumption
  DEF TabStripInv, TabStripTypeOK, DeleteActiveTab, EditorOnActive
<1>6. \A i, j \in 1..Len(tabs') : i # j =>
        \E p, q \in 1..Len(tabs) : p # q /\ tabs'[i] = tabs[p] /\ tabs'[j] = tabs[q]
  <2>1. TAKE i, j \in 1..Len(tabs')
  <2>2. HAVE i # j
  <2>. DEFINE p == IF i < activeTab THEN i ELSE i + 1
              q == IF j < activeTab THEN j ELSE j + 1
  <2>3. p \in 1..Len(tabs) /\ q \in 1..Len(tabs) /\ p # q
    BY <1>1, <1>2, <2>2
  <2>4. tabs'[i] = tabs[p] /\ tabs'[j] = tabs[q]
    BY <1>1, <1>2
  <2>. HIDE DEF p, q
  <2>. QED
    BY <2>3, <2>4
<1>7. NumbersApart'
  BY <1>3, <1>6 DEF TabStripInv, NumbersApart
<1>8. NamesApart'
  BY <1>6 DEF TabStripInv, NamesApart
<1>. QED
  BY <1>5, <1>7, <1>8 DEF TabStripInv

\* A name is given to one tab only, the active one, and to none that has it.
LEMMA GiveName_Inv ==
    ASSUME TabStripInv, editor.at = "page", editor.draft.text # NoText,
           ~NameTaken(editor.draft, editor.index),
           GiveName, editor' = NoEditor, UNCHANGED <<activeTab, nextNumber>>
    PROVE  TabStripInv'
<1>1. /\ tabs \in Seq(Tabs) /\ Len(tabs) \in 1..MaxTabs /\ activeTab \in 1..Len(tabs)
      /\ editor.index = activeTab /\ editor.number = tabs[activeTab].number
  BY DEF TabStripInv, TabStripTypeOK, EditorOnActive
<1>2. editor.draft \in TabNames
  BY DEF TabStripInv, TabStripTypeOK, NoEditor, Plain
<1>3. \A i \in 1..Len(tabs) : tabs[i] \in Tabs
  BY <1>1
<1>4. \A i \in 1..Len(tabs) : tabs[i].number = editor.number => i = activeTab
  BY <1>1 DEF TabStripInv, NumbersApart
<1>5. /\ tabs' \in Seq(Tabs) /\ Len(tabs') = Len(tabs)
      /\ \A i \in 1..Len(tabs) :
           /\ tabs'[i].number = tabs[i].number
           /\ \/ tabs'[i].name = tabs[i].name
              \/ i = activeTab /\ tabs'[i].name = editor.draft
  <2>1. tabs' = [i \in 1..Len(tabs) |->
                   IF editor.current /\ tabs[i].number = editor.number
                   THEN [tabs[i] EXCEPT !.name = editor.draft] ELSE tabs[i]]
    BY <1>1 DEF GiveName
  <2>2. \A i \in 1..Len(tabs) :
          /\ tabs'[i] \in Tabs
          /\ tabs'[i].number = tabs[i].number
          /\ \/ tabs'[i].name = tabs[i].name
             \/ i = activeTab /\ tabs'[i].name = editor.draft
    BY <1>2, <1>3, <1>4, <2>1 DEF Tabs
  <2>. QED
    BY <1>1, <2>1, <2>2
<1>6. \A i \in (1..Len(tabs)) \ {activeTab} : tabs[i].name.text # editor.draft.text
  BY <1>1 DEF NameTaken
<1>7. NamesApart'
  BY <1>1, <1>5, <1>6 DEF TabStripInv, NamesApart
<1>8. NumbersApart'
  BY <1>5 DEF TabStripInv, NumbersApart
<1>9. TabStripTypeOK' /\ EditorOnActive'
  BY <1>1, <1>5 DEF TabStripInv, TabStripTypeOK, EditorOnActive, NoEditor
<1>. QED
  BY <1>7, <1>8, <1>9 DEF TabStripInv

LEMMA FinishRename_Inv ==
    ASSUME TabStripInv, NEW commit \in BOOLEAN, FinishRename(commit)
    PROVE  TabStripInv'
<1>1. CASE /\ editor.at = "page" /\ commit /\ editor.draft.text # NoText
           /\ ~NameTaken(editor.draft, editor.index)
  <2>1. GiveName /\ editor' = NoEditor /\ UNCHANGED <<activeTab, nextNumber>>
    BY <1>1 DEF FinishRename
  <2>. QED
    BY <1>1, <2>1, GiveName_Inv
<1>2. CASE ~(/\ editor.at = "page" /\ commit /\ editor.draft.text # NoText
             /\ ~NameTaken(editor.draft, editor.index))
  <2>1. editor' = NoEditor /\ UNCHANGED <<tabs, activeTab, nextNumber>>
    BY <1>2 DEF FinishRename
  <2>. QED
    BY <2>1 DEF TabStripInv, TabStripTypeOK, NumbersApart, NamesApart, EditorOnActive, NoEditor
<1>. QED
  BY <1>1, <1>2

LEMMA TabStripNext_Inv == TabStripInv /\ [TabStripNext]_tabStripVars => TabStripInv'
<1>. SUFFICES ASSUME TabStripInv, [TabStripNext]_tabStripVars PROVE TabStripInv'
  OBVIOUS
<1>. USE DEF TabStripInv, TabStripTypeOK, NumbersApart, NamesApart, EditorOnActive
<1>1. CASE AddTab
  BY <1>1, AddTab_Inv
<1>2. CASE DeleteActiveTab
  BY <1>2, DeleteActiveTab_Inv
<1>3. ASSUME NEW i \in 1..MaxTabs, SelectTab(i) PROVE TabStripInv'
  BY <1>3, RenderedEditor DEF SelectTab
<1>4. CASE BeginRename
  <2>1. tabs[activeTab] \in Tabs
    OBVIOUS
  <2>. QED
    BY <1>4, <2>1, TabStripAssumption DEF BeginRename, Tabs
<1>5. ASSUME NEW draft \in Drafts, TypeName(draft) PROVE TabStripInv'
  BY <1>5, TabStripAssumption, SMTT(30) DEF TypeName, NoEditor
<1>6. ASSUME NEW commit \in BOOLEAN, FinishRename(commit) PROVE TabStripInv'
  BY <1>6, FinishRename_Inv
<1>7. CASE ClearOnPageHide
  BY <1>7 DEF ClearOnPageHide, NoEditor
<1>8. CASE UNCHANGED tabStripVars
  BY <1>8 DEF tabStripVars
<1>. QED
  BY <1>1, <1>2, <1>3, <1>4, <1>5, <1>6, <1>7, <1>8 DEF TabStripNext

LEMMA TabStripInvariant == TabStripSpec => []TabStripInv
BY TabStripInit_Inv, TabStripNext_Inv, PTL DEF TabStripSpec

\* The active tab is one of the strip's, and the next number stays in range,
\* whatever is added and deleted (hodlAddKey, hodlDeleteActiveKey).
THEOREM StripTyped == TabStripSpec => []TabStripTypeOK
<1>1. TabStripInv => TabStripTypeOK
  BY DEF TabStripInv
<1>. QED
  BY <1>1, TabStripInvariant, PTL

\* However many tabs come and go, no two names are one text (hodlKeyNameTaken).
THEOREM NamesStayApart == TabStripSpec => []NamesApart
<1>1. TabStripInv => NamesApart
  BY DEF TabStripInv
<1>. QED
  BY <1>1, TabStripInvariant, PTL

\* Numbers given back by a deletion are never given twice (hodlDeleteActiveKey).
THEOREM NumbersStayApart == TabStripSpec => []NumbersApart
<1>1. TabStripInv => NumbersApart
  BY DEF TabStripInv
<1>. QED
  BY <1>1, TabStripInvariant, PTL

-----------------------------------------------------------------------------
(* The Delete key that repeats *)

FlagKnowsTimers ==
    /\ hold => ~repeated
    /\ repeat => repeated
    /\ down /\ byTimer => repeated

LongPressInv == LongPressTypeOK /\ DeletesOnlyWhileHeld /\ FlagKnowsTimers

LEMMA LongPressInit_Inv == LongPressInit => LongPressInv
BY MaxBeforeAssumption DEF LongPressInit, LongPressInv, LongPressTypeOK, DeletesOnlyWhileHeld,
   FlagKnowsTimers

LEMMA BeforeStaysBounded ==
    ASSUME before \in 0..MaxBefore, MaxBefore \in Nat
    PROVE  /\ KeyLit => before - 1 \in 0..MaxBefore
           /\ KeyLit <=> before # 0
BY DEF KeyLit

LEMMA Click_Type ==
    ASSUME LongPressTypeOK, KeyLit, Click
    PROVE  before' \in 0..MaxBefore /\ repeated' \in BOOLEAN
<1>1. before - 1 \in 0..MaxBefore
  BY MaxBeforeAssumption, BeforeStaysBounded DEF LongPressTypeOK
<1>. QED
  BY <1>1, Zenon DEF LongPressTypeOK, Click

LEMMA LongPressNext_Type ==
    ASSUME LongPressTypeOK, [LongPressNext]_longPressVars
    PROVE  LongPressTypeOK'
<1>0. KeyLit => before - 1 \in 0..MaxBefore
  BY MaxBeforeAssumption, BeforeStaysBounded DEF LongPressTypeOK
<1>. USE DEF LongPressTypeOK
<1>1. CASE Press
  BY <1>1, Zenon DEF Press
<1>2. CASE Release
  <2>1. before' \in 0..MaxBefore /\ repeated' \in BOOLEAN
    BY <1>2, Click_Type, Zenon DEF Release
  <2>. QED
    BY <1>2, <2>1, Zenon DEF Release, StopTimers
<1>3. CASE Leave
  BY <1>3, Zenon DEF Leave, StopTimers
<1>4. CASE KeyboardClick
  <2>1. before' \in 0..MaxBefore /\ repeated' \in BOOLEAN
    BY <1>4, Click_Type, Zenon DEF KeyboardClick
  <2>. QED
    BY <1>4, <2>1, Zenon DEF KeyboardClick, timersOfKey
<1>5. CASE HoldFires
  <2>1. before' \in 0..MaxBefore
    BY <1>0, <1>5, Zenon DEF HoldFires
  <2>2. repeat' \in BOOLEAN /\ byTimer' \in BOOLEAN
    BY <1>5 DEF HoldFires, KeyLit
  <2>. QED
    BY <1>5, <2>1, <2>2, Zenon DEF HoldFires
<1>6. CASE RepeatFires
  BY <1>0, <1>6, Zenon DEF RepeatFires, StopTimers, timersOfKey
<1>7. CASE OrphanFires
  <2>1. before' \in 0..MaxBefore
    BY <1>7, MaxBeforeAssumption DEF OrphanFires
  <2>. QED
    BY <1>7, <2>1, Zenon DEF OrphanFires, timersOfKey
<1>8. CASE EditBefore
  BY <1>8, Zenon DEF EditBefore, timersOfKey
<1>9. ASSUME NEW outlives \in BOOLEAN, RenderAnew(outlives) PROVE LongPressTypeOK'
  BY <1>9, Zenon DEF RenderAnew, StopTimers
<1>10. CASE UNCHANGED longPressVars
  BY <1>10, Zenon DEF longPressVars
<1>. QED
  BY <1>1, <1>2, <1>3, <1>4, <1>5, <1>6, <1>7, <1>8, <1>9, <1>10, Zenon DEF LongPressNext

LEMMA LongPressNext_Flags ==
    ASSUME LongPressInv, [LongPressNext]_longPressVars
    PROVE  DeletesOnlyWhileHeld' /\ FlagKnowsTimers'
<1>. USE DEF LongPressInv, DeletesOnlyWhileHeld, FlagKnowsTimers
<1>1. CASE Press
  BY <1>1, Zenon DEF Press
<1>2. CASE Release
  BY <1>2, Zenon DEF Release, StopTimers
<1>3. CASE Leave
  BY <1>3, Zenon DEF Leave, StopTimers
<1>4. CASE KeyboardClick
  BY <1>4, Zenon DEF KeyboardClick, timersOfKey
<1>5. CASE HoldFires
  BY <1>5, Zenon DEF HoldFires
<1>6. CASE RepeatFires
  BY <1>6, Zenon DEF RepeatFires, StopTimers, timersOfKey
<1>7. CASE OrphanFires
  BY <1>7, Zenon DEF OrphanFires, timersOfKey
<1>8. CASE EditBefore
  BY <1>8, Zenon DEF EditBefore, timersOfKey
<1>9. ASSUME NEW outlives \in BOOLEAN, RenderAnew(outlives)
      PROVE DeletesOnlyWhileHeld' /\ FlagKnowsTimers'
  BY <1>9, Zenon DEF RenderAnew, StopTimers
<1>10. CASE UNCHANGED longPressVars
  BY <1>10, Zenon DEF longPressVars
<1>. QED
  BY <1>1, <1>2, <1>3, <1>4, <1>5, <1>6, <1>7, <1>8, <1>9, <1>10, Zenon DEF LongPressNext

LEMMA LongPressNext_Inv == LongPressInv /\ [LongPressNext]_longPressVars => LongPressInv'
BY LongPressNext_Type, LongPressNext_Flags DEF LongPressInv

\* The invariant holds throughout (hodlBindSeedKeyboardDelete).
LEMMA LongPressInvariant == LongPressSpec => []LongPressInv
BY LongPressInit_Inv, LongPressNext_Inv, PTL DEF LongPressSpec

\* Whichever way the pointer goes, no timer of a key in the page outlives it
\* (stop, on every event that ends a press).
THEOREM NothingDeletedAfterRelease == LongPressSpec => []DeletesOnlyWhileHeld
<1>1. LongPressInv => DeletesOnlyWhileHeld
  BY DEF LongPressInv
<1>. QED
  BY <1>1, LongPressInvariant, PTL

\* The click of a release adds nothing to what the timers of its press deleted.
THEOREM HoldThenClickDeletesOnce == LongPressSpec => HeldReleaseDeletesNothing
<1>1. LongPressInv /\ [LongPressNext]_longPressVars
        => [Release /\ byTimer => before' = before]_longPressVars
  BY DEF LongPressInv, FlagKnowsTimers, Release, Click
<1>. QED
  BY <1>1, LongPressInvariant, PTL DEF LongPressSpec, HeldReleaseDeletesNothing

\* The click of a press too short for the hold timer is never swallowed, in
\* whatever state the presses before it left the flag.
THEOREM ShortPressNeverSwallowed == LongPressSpec => ShortPressDeletes
<1>1. LongPressInv /\ [LongPressNext]_longPressVars
        => [Release /\ hold /\ KeyLit => before' = before - 1]_longPressVars
  BY DEF LongPressInv, FlagKnowsTimers, Release, Click
<1>. QED
  BY <1>1, LongPressInvariant, PTL DEF LongPressSpec, ShortPressDeletes

-----------------------------------------------------------------------------
(* The parts together *)

\* Parts change one at a time: what one does is a stutter of every other.
LEMMA OnePartMoves ==
    [PartsNext]_partsVars =>
        /\ [NumberBasesNext]_nbVars /\ [DirectDrawsNext]_ddVars /\ [CardDealNext]_cdVars
        /\ [LongPressNext]_longPressVars /\ [TabStripNext]_tabStripVars
        /\ [SqliteWriterNext]_writerVars /\ part' = part
<1>. SUFFICES ASSUME [PartsNext]_partsVars
     PROVE  /\ [NumberBasesNext]_nbVars /\ [DirectDrawsNext]_ddVars /\ [CardDealNext]_cdVars
            /\ [LongPressNext]_longPressVars /\ [TabStripNext]_tabStripVars
            /\ [SqliteWriterNext]_writerVars /\ part' = part
  OBVIOUS
<1>1. CASE UseBases
  BY <1>1, Zenon DEF UseBases
<1>2. CASE UseDraws
  BY <1>2, Zenon DEF UseDraws
<1>3. CASE UseCards
  BY <1>3, Zenon DEF UseCards
<1>4. CASE UseDelete
  BY <1>4, Zenon DEF UseDelete
<1>5. CASE UseTabs
  BY <1>5, Zenon DEF UseTabs
<1>6. CASE UseExport
  BY <1>6, Zenon DEF UseExport
<1>7. CASE UNCHANGED partsVars
  BY <1>7, Zenon DEF partsVars
<1>. QED
  BY <1>1, <1>2, <1>3, <1>4, <1>5, <1>6, <1>7, Zenon DEF PartsNext

\* The page does with each part what that part's own specification allows.
THEOREM PartsImplementEach ==
    PartsSpec => /\ NumberBasesSpec /\ DirectDrawsSpec /\ CardDealSpec
                 /\ LongPressSpec /\ TabStripSpec /\ SqliteWriterSpec
<1>1. PartsInit => /\ NumberBasesInit /\ DirectDrawsInit /\ CardDealInit
                   /\ LongPressInit /\ TabStripInit /\ SqliteWriterInit
  BY Zenon DEF PartsInit
<1>. QED
  BY <1>1, OnePartMoves, PTL
  DEF PartsSpec, NumberBasesSpec, DirectDrawsSpec, CardDealSpec, LongPressSpec, TabStripSpec,
      SqliteWriterSpec

\* Every part of the page keeps its types together with the others.
THEOREM PartsTyped == PartsSpec => []PartsTypeOK
<1>1. PartsSpec => []NumberBasesTypeOK
  BY PartsImplementEach, BasesTyped, PTL
<1>2. PartsSpec => []DirectDrawsTypeOK
  BY PartsImplementEach, DrawsTextTyped, PTL
<1>3. PartsSpec => []CardDealTypeOK
  BY PartsImplementEach, CardsTyped, PTL
<1>4. PartsSpec => []LongPressTypeOK
  <2>1. LongPressInv => LongPressTypeOK
    BY DEF LongPressInv
  <2>. QED
    BY <2>1, PartsImplementEach, LongPressInvariant, PTL
<1>5. PartsSpec => []TabStripTypeOK
  BY PartsImplementEach, StripTyped, PTL
<1>6. PartsSpec => [](part \in Parts)
  <2>1. PartsInit => part \in Parts
    BY DEF PartsInit
  <2>2. part \in Parts /\ [PartsNext]_partsVars => (part \in Parts)'
    BY OnePartMoves
  <2>. QED
    BY <2>1, <2>2, PTL DEF PartsSpec
<1>7. (/\ part \in Parts /\ NumberBasesTypeOK /\ DirectDrawsTypeOK /\ CardDealTypeOK
       /\ LongPressTypeOK /\ TabStripTypeOK) => PartsTypeOK
  BY DEF PartsTypeOK
<1>. QED
  BY <1>1, <1>2, <1>3, <1>4, <1>5, <1>6, <1>7, PTL
=============================================================================
