-------------------------------- MODULE TabStrip --------------------------------
(***************************************************************************)
(* The strip of key tabs: their numbers, their names and the editor that   *)
(* renames the active one (src/src/js/app.js 7132-7267); the strip of      *)
(* multisig tabs repeats the code (7357-7491).  The editor's closure holds *)
(* the state object and the index its tab had when it opened; rendering    *)
(* the strip takes the editor out of the page, and its blur may come after *)
(* that.  The page's clearing on pagehide puts a new object in the place   *)
(* of each tab's.                                                          *)
(* Bounds: MaxTabs tabs at a time, numbers up to MaxNumber, the Drafts.    *)
(***************************************************************************)
EXTENDS Naturals, Sequences, SequencesExt

CONSTANTS
    UserTexts,      \* names a user may type, beside the default ones
    Drafts,         \* what a user may leave in the editor
    NoText,         \* an editor left blank
    MaxTabs,
    MaxNumber

VARIABLES
    tabs,           \* hodlKeys: the number and the name of each tab, in order
    activeTab,      \* hodlActiveKey, counted from 1
    nextNumber,     \* hodlNextKeyNumber
    editor          \* the rename editor and what its closure holds

tabStripVars == <<tabs, activeTab, nextNumber, editor>>

\* "Key 3" is <<3, 1>> and "Key 3 (2)" is <<3, 2>>.  Two spellings of one text
\* differ in case or in spaces, which hodlNormalizeKeyName takes away.
NameTexts == UserTexts \cup ((1..MaxNumber) \X (1..MaxTabs))
TabNames == [text: NameTexts, spelling: {"given", "other"}]
Plain(text) == [text |-> text, spelling |-> "given"]

ASSUME TabStripAssumption ==
    /\ MaxTabs \in Nat \ {0} /\ MaxNumber \in Nat \ {0}
    /\ Drafts \subseteq TabNames \cup {Plain(NoText)}

Tabs == [number: 1..MaxNumber, name: TabNames]
NoEditor == [at |-> "closed"]

TabStripTypeOK ==
    /\ tabs \in Seq(Tabs) /\ Len(tabs) \in 1..MaxTabs
    /\ activeTab \in 1..Len(tabs)
    /\ nextNumber \in 1..(MaxNumber + 1)
    /\ \/ editor = NoEditor
       \/ editor \in [at: {"page", "removed"}, index: 1..MaxTabs,
                      number: 1..MaxNumber, draft: TabNames \cup {Plain(NoText)},
                      current: BOOLEAN]

-----------------------------------------------------------------------------

\* hodlKeyNameTaken: some other tab has this name, however spelled.
NameTaken(name, index) ==
    \E i \in (1..Len(tabs)) \ {index} : tabs[i].name.text = name.text

\* hodlDefaultKeyName: the first of "Key n", "Key n (2)", ... not taken.
DefaultName(number) ==
    LET free == {k \in 1..MaxTabs : ~NameTaken(Plain(<<number, k>>), 0)}
    IN  Plain(<<number, CHOOSE k \in free : \A j \in free : k <= j>>)

\* Mutant: the next number is the count of the tabs.
NumberAfterByCount(strip) == Len(strip) + 1

\* The number that follows the largest in use (hodlDeleteActiveKey).
NumberAfter(strip) ==
    1 + (CHOOSE n \in {strip[i].number : i \in DOMAIN strip} :
           \A i \in DOMAIN strip : strip[i].number <= n)

TabStripInit ==
    /\ tabs = <<[number |-> 1, name |-> Plain(<<1, 1>>)]>>
    /\ activeTab = 1 /\ nextNumber = 2
    /\ editor = NoEditor

-----------------------------------------------------------------------------

\* Rendering the strip takes an open editor out of the page (innerHTML = "").
RenderTabs ==
    editor' = IF editor.at = "page" THEN [editor EXCEPT !.at = "removed"] ELSE editor

\* hodlAddKey.
AddTab ==
    /\ Len(tabs) < MaxTabs /\ nextNumber <= MaxNumber
    /\ tabs' = Append(tabs, [number |-> nextNumber, name |-> DefaultName(nextNumber)])
    /\ nextNumber' = nextNumber + 1
    /\ activeTab' = Len(tabs')
    /\ RenderTabs

\* hodlSelectKey, by a click or an arrow key.
SelectTab(i) ==
    /\ i \in 1..Len(tabs) /\ i # activeTab
    /\ activeTab' = i
    /\ RenderTabs
    /\ UNCHANGED <<tabs, nextNumber>>

\* hodlDeleteActiveKey: never the last tab.
DeleteActiveTab ==
    /\ Len(tabs) > 1
    /\ tabs' = RemoveAt(tabs, activeTab)
    /\ nextNumber' = NumberAfter(tabs')
    /\ activeTab' = IF activeTab > Len(tabs') THEN Len(tabs') ELSE activeTab
    /\ RenderTabs

\* hodlBeginKeyRename: a click or F2 on the active tab.
BeginRename ==
    /\ editor.at # "page"
    /\ editor' = [at |-> "page", index |-> activeTab, number |-> tabs[activeTab].number,
                  draft |-> tabs[activeTab].name, current |-> TRUE]
    /\ UNCHANGED <<tabs, activeTab, nextNumber>>

\* The text of the editor changes.
TypeName(draft) ==
    /\ editor.at = "page"
    /\ editor' = [editor EXCEPT !.draft = draft]
    /\ UNCHANGED <<tabs, activeTab, nextNumber>>

\* The name is given to the object the closure holds; the strip shows it while
\* that object is still a tab's.
GiveName ==
    LET named(tab) == IF editor.current /\ tab.number = editor.number
                        THEN [tab EXCEPT !.name = editor.draft] ELSE tab
    IN  tabs' = [i \in DOMAIN tabs |-> named(tabs[i])]

\* Mutant: a late blur renames with the index of a strip that is gone.
FinishRenameRemoved(commit) ==
    /\ editor # NoEditor
    /\ IF /\ commit /\ editor.draft.text # NoText
          /\ ~NameTaken(editor.draft, editor.index)
         THEN GiveName
         ELSE UNCHANGED tabs
    /\ editor' = NoEditor
    /\ UNCHANGED <<activeTab, nextNumber>>

\* finish: Enter and the blur commit, Escape does not; an editor that is out of
\* the page does nothing.
FinishRename(commit) ==
    /\ editor # NoEditor
    /\ IF /\ editor.at = "page"
          /\ commit /\ editor.draft.text # NoText
          /\ ~NameTaken(editor.draft, editor.index)
         THEN GiveName
         ELSE UNCHANGED tabs
    /\ editor' = NoEditor
    /\ UNCHANGED <<activeTab, nextNumber>>

\* pagehide, or pageshow of a restored page: hodlNewKeyState keeps the name, the
\* number and the id in an object of its own; the strip is not rendered.
ClearOnPageHide ==
    /\ editor # NoEditor
    /\ editor' = [editor EXCEPT !.current = FALSE]
    /\ UNCHANGED <<tabs, activeTab, nextNumber>>

TabStripNext ==
    \/ AddTab \/ DeleteActiveTab
    \/ \E i \in 1..MaxTabs : SelectTab(i)
    \/ BeginRename
    \/ \E draft \in Drafts : TypeName(draft)
    \/ \E commit \in BOOLEAN : FinishRename(commit)
    \/ ClearOnPageHide

TabStripSpec == TabStripInit /\ [][TabStripNext]_tabStripVars

-----------------------------------------------------------------------------
(* Properties *)

\* No two tabs bear the same name, however spelled: not by a default name, not
\* by a rename that ends after the tabs have moved (hodlKeyNameTaken).
NamesApart ==
    \A i, j \in 1..Len(tabs) : i # j => tabs[i].name.text # tabs[j].name.text

\* No two tabs bear the same number, and the next one is free, although a
\* deletion gives numbers back.
NumbersApart ==
    /\ \A i \in 1..Len(tabs) : tabs[i].number < nextNumber
    /\ \A i, j \in 1..Len(tabs) : i # j => tabs[i].number # tabs[j].number
=============================================================================
