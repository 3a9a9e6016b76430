-------------------------- MODULE MsigManagerProofs --------------------------
(***************************************************************************)
(* Proofs about the multisig manager and the workspace switch, for any     *)
(* number of tabs, co-signers, texts and script types.  A form that is     *)
(* shown (FormOK) and a state object (StateOK) are related by two          *)
(* hand-overs, capture and restore; what each keeps is stated once, and    *)
(* every action is one of them around an edit.                             *)
(***************************************************************************)
EXTENDS MsigManager, TLAPS, FiniteSetTheorems

FormOK(f) == f \in Inputs /\ f.m <= f.n /\ f.xpubs = Rows(f.xpubs, f.n)
StateOK(s) == s \in MsigState /\ s.m <= s.n

\* Co-signer i as told by form f over state object s.
SeenIn(s, f, i) == IF i <= f.n THEN f.xpubs[i] ELSE s.xpubs[i]

-----------------------------------------------------------------------------
(* Sequences, rows, forms and state objects.                                 *)

\* Removing a tab keeps the others in order.
LEMMA RemoveAtLemma ==
    ASSUME NEW S, NEW s \in Seq(S), NEW i \in 1..Len(s)
    PROVE  /\ RemoveAt(s, i) \in Seq(S)
           /\ Len(RemoveAt(s, i)) = Len(s) - 1
           /\ \A j \in 1..(Len(s) - 1) :
                RemoveAt(s, i)[j] = IF j < i THEN s[j] ELSE s[j + 1]
<1> DEFINE before == SubSeq(s, 1, i - 1)
           after == SubSeq(s, i + 1, Len(s))
<1>1. /\ before \in Seq(S) /\ Len(before) = i - 1
      /\ \A j \in 1..(i - 1) : before[j] = s[j]
  OBVIOUS
<1>2. /\ after \in Seq(S) /\ Len(after) = Len(s) - i
      /\ \A j \in 1..(Len(s) - i) : after[j] = s[j + i]
  OBVIOUS
<1>3. RemoveAt(s, i) = before \o after
  BY DEF RemoveAt
<1> HIDE DEF before, after
<1>4. /\ before \o after \in Seq(S)
      /\ Len(before \o after) = Len(s) - 1
      /\ \A j \in 1..(Len(s) - 1) :
           (before \o after)[j] = IF j < i THEN before[j] ELSE after[j - (i - 1)]
  <2> SUFFICES ASSUME NEW p \in Seq(S), NEW q \in Seq(S), p = before, q = after
               PROVE  /\ p \o q \in Seq(S)
                      /\ Len(p \o q) = Len(s) - 1
                      /\ \A j \in 1..(Len(s) - 1) :
                           (p \o q)[j] = IF j < i THEN p[j] ELSE q[j - (i - 1)]
    BY <1>1, <1>2
  <2>1. Len(p) = i - 1 /\ Len(q) = Len(s) - i
    BY <1>1, <1>2
  <2>2. /\ p \o q \in Seq(S) /\ Len(p \o q) = Len(p) + Len(q)
        /\ \A j \in 1..(Len(p) + Len(q)) :
             (p \o q)[j] = IF j <= Len(p) THEN p[j] ELSE q[j - Len(p)]
    OBVIOUS
  <2> QED
    BY <2>1, <2>2
<1>5. \A j \in 1..(Len(s) - 1) :
        (before \o after)[j] = IF j < i THEN s[j] ELSE s[j + 1]
  <2> SUFFICES ASSUME NEW j \in 1..(Len(s) - 1)
               PROVE  (before \o after)[j] = IF j < i THEN s[j] ELSE s[j + 1]
    OBVIOUS
  <2>1. CASE j < i
    BY <2>1, <1>1, <1>4
  <2>2. CASE ~(j < i)
    <3>1. j - (i - 1) \in 1..(Len(s) - i) /\ j - (i - 1) + i = j + 1
      BY <2>2
    <3>2. after[j - (i - 1)] = s[j + 1]
      BY <3>1, <1>2
    <3> QED
      BY <2>2, <3>2, <1>4
  <2> QED
    BY <2>1, <2>2
<1> QED
  BY <1>3, <1>4, <1>5

LEMMA RowsLemma ==
    ASSUME NEW x \in [Cosigners -> Texts], NEW n
    PROVE  /\ Rows(x, n) \in [Cosigners -> Texts]
           /\ Rows(Rows(x, n), n) = Rows(x, n)
           /\ \A i \in Cosigners : i <= n => Rows(x, n)[i] = x[i]
BY EvidenceAssumption DEF Rows

LEMMA InputsOfLemma ==
    ASSUME NEW s, StateOK(s)
    PROVE  FormOK(InputsOf(s)) /\ InputsOf(s).n = s.n
           /\ \A i \in Cosigners : SeenIn(s, InputsOf(s), i) = s.xpubs[i]
<1>1. s.xpubs \in [Cosigners -> Texts]
  BY DEF StateOK, MsigState
<1>2. /\ Rows(s.xpubs, s.n) \in [Cosigners -> Texts]
      /\ Rows(Rows(s.xpubs, s.n), s.n) = Rows(s.xpubs, s.n)
      /\ \A i \in Cosigners : i <= s.n => Rows(s.xpubs, s.n)[i] = s.xpubs[i]
  BY <1>1, RowsLemma
<1>. QED
  BY <1>2 DEF StateOK, MsigState, FormOK, InputsOf, Inputs, SeenIn

\* A capture keeps in the object what the form shows, and shows it again.
LEMMA CapturedLemma ==
    ASSUME NEW s, StateOK(s), NEW f, FormOK(f), NEW r \in Results, NEW e \in BOOLEAN
    PROVE  LET c == Captured(s, f, r, e) IN
           /\ StateOK(c) /\ InputsOf(c) = f
           /\ c.result = IF r \in Inputs THEN r ELSE NoResult
           /\ \A i \in Cosigners : c.xpubs[i] = SeenIn(s, f, i)
<1>. DEFINE x == MergeMsigXpubs(s.xpubs, f)
<1>1. /\ f.xpubs \in [Cosigners -> Texts] /\ s.xpubs \in [Cosigners -> Texts]
      /\ f.xpubs = Rows(f.xpubs, f.n)
  BY DEF FormOK, StateOK, Inputs, MsigState
<1>2. x \in [Cosigners -> Texts] /\ \A i \in Cosigners : x[i] = SeenIn(s, f, i)
  BY <1>1 DEF MergeMsigXpubs, SeenIn
<1>3. Rows(x, f.n) = f.xpubs
  <2>1. Rows(x, f.n) = Rows(f.xpubs, f.n)
    BY <1>2 DEF Rows, SeenIn
  <2>. QED
    BY <1>1, <2>1
<1>. HIDE DEF x
<1>4. Captured(s, f, r, e) =
        [m |-> f.m, n |-> f.n, script |-> f.script, bip87 |-> f.bip87, order |-> f.order,
         network |-> f.network, count |-> f.count, xpubs |-> x,
         result |-> IF r \in Inputs THEN r ELSE NoResult, error |-> e]
  BY DEF Captured, x
<1>5. f = [m |-> f.m, n |-> f.n, script |-> f.script, bip87 |-> f.bip87, order |-> f.order,
           network |-> f.network, count |-> f.count, xpubs |-> f.xpubs]
  BY DEF FormOK, Inputs
<1>6. Captured(s, f, r, e) \in MsigState
  BY <1>2, <1>4 DEF MsigState, FormOK, Inputs, Results
<1>. QED
  BY <1>2, <1>3, <1>4, <1>5, <1>6 DEF InputsOf, StateOK, FormOK

LEMMA NewMsigStateLemma ==
    StateOK(NewMsigState) /\ NewMsigState.result = NoResult
BY FirstAssumption, EvidenceAssumption, BoundAssumption
   DEF StateOK, NewMsigState, MsigState, Results, Orders

\* What the co-signers of a form speak for, and nothing else, is a script type or
\* a standard.
LEMMA SpokenLemma ==
    ASSUME NEW f, FormOK(f)
    PROVE  /\ Kinds(f) \subseteq Scripts
           /\ Valid(f) => Kinds(f) = Wanted(f).kinds /\ Standards(f) = Wanted(f).standards
<1>1. /\ f.xpubs \in [Cosigners -> Texts] /\ 1..f.n \subseteq Cosigners /\ 1 \in 1..f.n
  BY BoundAssumption DEF FormOK, Inputs, Cosigners
<1>2. \A i \in 1..f.n : Evidence[f.xpubs[i]] \in Evidences
  BY <1>1, EvidenceAssumption
<1>3. \A i \in 1..f.n : Evidence[f.xpubs[i]].kinds \subseteq Scripts
  BY <1>2 DEF Evidences
<1>4. ASSUME Valid(f)
      PROVE  Kinds(f) = Wanted(f).kinds /\ Standards(f) = Wanted(f).standards
  <2>1. \A i \in 1..f.n : /\ Evidence[f.xpubs[i]].kinds = Wanted(f).kinds
                          /\ Evidence[f.xpubs[i]].standards = Wanted(f).standards
    BY <1>4 DEF Valid
  <2>. QED
    BY <1>1, <2>1 DEF Kinds, Standards
<1>. QED
  BY <1>3, <1>4 DEF Kinds

\* Detection leaves valid inputs as they are: their keys speak for the script on
\* display and, for Legacy, for the standard its checkbox shows.
LEMMA ValidDetected ==
    ASSUME NEW f, FormOK(f), Valid(f), NEW l
    PROVE  Detected(f, l) = f.script /\ Bip87(f, l) = f.bip87
<1>1. /\ f.script \in Scripts /\ f.script # Mixed /\ f.bip87 \in BOOLEAN
  BY DEF FormOK, Inputs, Valid
<1>2. Kinds(f) = Wanted(f).kinds /\ Standards(f) = Wanted(f).standards
  BY SpokenLemma
<1>3. CASE f.script # Legacy
  <2>1. Kinds(f) = {f.script} /\ Standards(f) = {}
    BY <1>2, <1>3 DEF Wanted
  <2>2. Cardinality(Kinds(f)) = 1
    BY <2>1, FS_Singleton
  <2>3. ~Conflict(f)
    BY <2>1, <2>2 DEF Conflict
  <2>4. Detected(f, l) = f.script
    BY <2>1, <2>3 DEF Detected, Spoken
  <2>. QED
    BY <1>3, <2>4 DEF Bip87
<1>4. CASE f.script = Legacy /\ f.bip87
  <2>1. Kinds(f) = {} /\ Standards(f) = {"bip87"}
    BY <1>2, <1>4 DEF Wanted
  <2>2. Cardinality(Kinds(f)) = 0 /\ Cardinality(Standards(f)) = 1
    BY <2>1, FS_Singleton, FS_EmptySet
  <2>3. ~Conflict(f)
    BY <2>1, <2>2 DEF Conflict
  <2>4. Detected(f, l) = f.script
    BY <1>1, <2>1, <2>3 DEF Detected, Spoken
  <2>. QED
    BY <1>4, <2>1, <2>2, <2>4 DEF Bip87
<1>5. CASE f.script = Legacy /\ ~f.bip87
  <2>1. Kinds(f) = {Legacy} /\ Standards(f) = {"bip45"}
    BY <1>2, <1>5 DEF Wanted
  <2>2. Cardinality(Kinds(f)) = 1 /\ Cardinality(Standards(f)) = 1
    BY <2>1, FS_Singleton
  <2>3. ~Conflict(f)
    BY <2>1, <2>2 DEF Conflict
  <2>4. Detected(f, l) = f.script
    BY <1>5, <2>1, <2>3 DEF Detected, Spoken
  <2>5. Standards(f) # {"bip87"}
    BY <2>1
  <2>. QED
    BY <1>1, <1>5, <2>2, <2>4, <2>5 DEF Bip87
<1>. QED
  BY <1>1, <1>3, <1>4, <1>5

LEMMA DetectedLemma ==
    ASSUME NEW f, FormOK(f), NEW l \in Scripts
    PROVE  /\ Detected(f, l) \in Scripts \cup {Mixed} /\ Concrete(f, l) \in Scripts
           /\ Bip87(f, l) \in BOOLEAN
<1>1. f.script \in Scripts \cup {Mixed} /\ f.bip87 \in BOOLEAN
  BY DEF FormOK, Inputs
<1>2. Spoken(f, l) \in Scripts
  BY <1>1, SpokenLemma DEF Spoken
<1>. QED
  BY <1>1, <1>2 DEF Detected, Concrete, Bip87

LEMMA DetectLemma ==
    ASSUME NEW f, FormOK(f), lastConcrete \in Scripts, Detect(f) \/ Undetected(f)
    PROVE  /\ FormOK(form') /\ lastConcrete' \in Scripts
           /\ form'.n = f.n /\ form'.xpubs = f.xpubs
           /\ Valid(f) => form' = f
<1>1. /\ Detected(f, lastConcrete) \in Scripts \cup {Mixed}
      /\ Concrete(f, lastConcrete) \in Scripts /\ Bip87(f, lastConcrete) \in BOOLEAN
  BY DetectedLemma
<1>2. Valid(f) => Detected(f, lastConcrete) = f.script /\ Bip87(f, lastConcrete) = f.bip87
  BY ValidDetected
<1>3. CASE Detect(f)
  BY <1>1, <1>2, <1>3 DEF Detect, FormOK, Inputs
<1>4. CASE Undetected(f)
  BY <1>4 DEF Undetected
<1>. QED
  BY <1>3, <1>4

\* The thresholds move together, and the rows are filled from the cache.
LEMMA ThresholdsLemma ==
    ASSUME NEW h \in {"m", "n"}, NEW v \in 1..MaxN, form.m \in 1..MaxN, form.n \in 1..MaxN,
           form.m <= form.n
    PROVE  /\ Thresholds(h, v)[1] \in 1..MaxN /\ Thresholds(h, v)[2] \in 1..MaxN
           /\ Thresholds(h, v)[1] <= Thresholds(h, v)[2]
BY BoundAssumption DEF Thresholds, Min2, Max2

LEMMA RefilledLemma ==
    ASSUME StateOK(msigs[Id]), FormOK(form), NEW h \in {"m", "n"}, NEW v \in 1..MaxN
    PROVE  /\ FormOK(Refilled(h, v)) /\ StateOK(Merged)
           /\ \A i \in Cosigners :
                /\ SeenIn(Merged, Refilled(h, v), i) = SeenIn(msigs[Id], form, i)
                /\ Merged.xpubs[i] = SeenIn(msigs[Id], form, i)
           /\ Merged.m = msigs[Id].m /\ Merged.n = msigs[Id].n
<1>. DEFINE x == MergeMsigXpubs(msigs[Id].xpubs, form)
           mn == Thresholds(h, v)
<1>1. /\ form \in Inputs /\ form.xpubs \in [Cosigners -> Texts]
      /\ msigs[Id] \in MsigState /\ msigs[Id].xpubs \in [Cosigners -> Texts]
  BY DEF FormOK, StateOK, Inputs, MsigState
<1>2. x \in [Cosigners -> Texts] /\ \A i \in Cosigners : x[i] = SeenIn(msigs[Id], form, i)
  BY <1>1 DEF MergeMsigXpubs, SeenIn
<1>3. mn[1] \in 1..MaxN /\ mn[2] \in 1..MaxN /\ mn[1] <= mn[2]
  BY ThresholdsLemma DEF FormOK, Inputs
<1>4. /\ Rows(x, mn[2]) \in [Cosigners -> Texts]
      /\ Rows(Rows(x, mn[2]), mn[2]) = Rows(x, mn[2])
      /\ \A i \in Cosigners : i <= mn[2] => Rows(x, mn[2])[i] = x[i]
  BY <1>2, RowsLemma
<1>5. Refilled(h, v) = [form EXCEPT !.m = mn[1], !.n = mn[2], !.xpubs = Rows(x, mn[2])]
  BY DEF Refilled
<1>6. Merged = [msigs[Id] EXCEPT !.xpubs = x]
  BY DEF Merged
<1>. HIDE DEF x, mn
<1>7. FormOK(Refilled(h, v))
  BY <1>1, <1>3, <1>4, <1>5 DEF FormOK, Inputs
<1>8. StateOK(Merged)
  BY <1>1, <1>2, <1>6 DEF StateOK, MsigState
<1>9. /\ Merged.xpubs = x /\ Merged.m = msigs[Id].m /\ Merged.n = msigs[Id].n
      /\ Refilled(h, v).n = mn[2] /\ Refilled(h, v).xpubs = Rows(x, mn[2])
  BY <1>1, <1>5, <1>6 DEF Inputs, MsigState
<1>. QED
  BY <1>2, <1>4, <1>7, <1>8, <1>9 DEF SeenIn

-----------------------------------------------------------------------------
(* Type correctness.                                                         *)

LEMMA MsigIdLemma == MsigTypeOK => Id \in Ids /\ StateOK(msigs[Id]) /\ FormOK(form)
BY DEF MsigTypeOK, Id, StateOK, FormOK

\* An edit that makes the form f, with or without detection, over object s.
Edits(s, f) ==
    /\ StateOK(s) /\ FormOK(f) /\ InMsig
    /\ Detect(f) \/ Undetected(f)
    /\ Edited(s)

\* The form with one control but a co-signer or a threshold changed.
Chosen(f) ==
    \/ \E k \in Scripts : f = [form EXCEPT !.script = k]
    \/ \E b \in BOOLEAN : f = [form EXCEPT !.bip87 = b]
    \/ \E o \in Orders : f = [form EXCEPT !.order = o]
    \/ \E w \in Networks : f = [form EXCEPT !.network = w]
    \/ \E c \in Counts : f = [form EXCEPT !.count = c]

LEMMA ChosenLemma ==
    ASSUME NEW f, Chosen(f),
           FormOK(form)
    PROVE  FormOK(f) /\ f.n = form.n /\ f.xpubs = form.xpubs
BY DEF Chosen, FormOK, Inputs

\* A row that is replaced leaves the rows beyond n blank.
LEMMA RowEditLemma ==
    ASSUME NEW i \in Cosigners, NEW t \in Texts, FormOK(form), i <= form.n
    PROVE  LET f == [form EXCEPT !.xpubs[i] = t] IN
           /\ FormOK(f) /\ f.n = form.n
           /\ \A j \in Cosigners : f.xpubs[j] = IF j = i THEN t ELSE form.xpubs[j]
<1>. DEFINE f == [form EXCEPT !.xpubs[i] = t]
            x == [form.xpubs EXCEPT ![i] = t]
<1>1. /\ form.xpubs \in [Cosigners -> Texts] /\ form.xpubs = Rows(form.xpubs, form.n)
      /\ form \in Inputs
  BY DEF FormOK, Inputs
<1>2. x \in [Cosigners -> Texts]
      /\ \A j \in Cosigners : x[j] = IF j = i THEN t ELSE form.xpubs[j]
  BY <1>1
<1>3. x = Rows(x, form.n)
  <2>1. \A j \in Cosigners : x[j] = IF j <= form.n THEN x[j] ELSE Blank
    BY <1>1, <1>2 DEF Rows
  <2>. QED
    BY <1>2, <2>1 DEF Rows
<1>4. f \in Inputs /\ f.m = form.m /\ f.n = form.n /\ f.xpubs = x
  BY <1>1, <1>2 DEF Inputs
<1>. QED
  BY <1>2, <1>3, <1>4 DEF FormOK

LEMMA MovedRowLemma ==
    ASSUME NEW i \in Cosigners, FormOK(form), i < form.n
    PROVE  LET f == [form EXCEPT !.xpubs[i] = form.xpubs[i + 1], !.xpubs[i + 1] = form.xpubs[i]]
           IN  /\ FormOK(f) /\ f.n = form.n
               /\ \A j \in Cosigners : j \notin {i, i + 1} => f.xpubs[j] = form.xpubs[j]
<1>. DEFINE x == [form.xpubs EXCEPT ![i] = form.xpubs[i + 1], ![i + 1] = form.xpubs[i]]
            f == [form EXCEPT !.xpubs[i] = form.xpubs[i + 1], !.xpubs[i + 1] = form.xpubs[i]]
<1>1. /\ form.xpubs \in [Cosigners -> Texts] /\ form.xpubs = Rows(form.xpubs, form.n)
      /\ form \in Inputs /\ form.n \in 1..MaxN
  BY DEF FormOK, Inputs
<1>2. i + 1 \in Cosigners /\ i + 1 <= form.n
  BY <1>1, BoundAssumption DEF Cosigners
<1>3. x \in [Cosigners -> Texts]
      /\ \A j \in Cosigners : j \notin {i, i + 1} => x[j] = form.xpubs[j]
  BY <1>1, <1>2
<1>4. x = Rows(x, form.n)
  <2>1. \A j \in Cosigners : x[j] = IF j <= form.n THEN x[j] ELSE Blank
    BY <1>1, <1>2, <1>3, BoundAssumption DEF Rows, Cosigners
  <2>. QED
    BY <1>3, <2>1 DEF Rows
<1>5. f \in Inputs /\ f.m = form.m /\ f.n = form.n /\ f.xpubs = x
  BY <1>1, <1>3 DEF Inputs
<1>. QED
  BY <1>3, <1>4, <1>5 DEF FormOK

\* An edit that keeps every co-signer, one that replaces or moves one.
EditsOthers == \E s, f : Edits(s, f) /\ \A i \in Cosigners : SeenIn(s, f, i) = Cosigner(Id, i)
EditsRow(i) == \E f : /\ Edits(msigs[Id], f) /\ f.n = form.n
                      /\ \A j \in Cosigners : j # i => f.xpubs[j] = form.xpubs[j]
MovesRow(i) == \E f : /\ Edits(msigs[Id], f) /\ f.n = form.n
                      /\ \A j \in Cosigners : j \notin {i, i + 1} => f.xpubs[j] = form.xpubs[j]

LEMMA SeenOnForm == InMsig => \A i : Cosigner(Id, i) = SeenIn(msigs[Id], form, i)
BY DEF Cosigner, Live, SeenIn

LEMMA TypeXpubEdits ==
    ASSUME MsigTypeOK, NEW i \in Cosigners, NEW t \in Texts, TypeXpub(i, t)
    PROVE  EditsRow(i)
<1>1. FormOK(form) /\ StateOK(msigs[Id]) /\ i <= form.n
  BY MsigIdLemma DEF TypeXpub
<1>. DEFINE f == [form EXCEPT !.xpubs[i] = t]
<1>2. /\ FormOK(f) /\ f.n = form.n
      /\ \A j \in Cosigners : f.xpubs[j] = IF j = i THEN t ELSE form.xpubs[j]
  BY <1>1, RowEditLemma
<1>3. InMsig /\ Detect(f) /\ Edited(msigs[Id])
  BY DEF TypeXpub
<1>. QED
  BY <1>1, <1>2, <1>3 DEF EditsRow, Edits

LEMMA MoveEdits ==
    ASSUME MsigTypeOK, NEW i \in Cosigners, MoveMsigKeyRow(i)
    PROVE  MovesRow(i)
<1>1. FormOK(form) /\ StateOK(msigs[Id]) /\ i < form.n
  BY MsigIdLemma DEF MoveMsigKeyRow
<1>. DEFINE f == [form EXCEPT !.xpubs[i] = form.xpubs[i + 1], !.xpubs[i + 1] = form.xpubs[i]]
<1>2. /\ FormOK(f) /\ f.n = form.n
      /\ \A j \in Cosigners : j \notin {i, i + 1} => f.xpubs[j] = form.xpubs[j]
  BY <1>1, MovedRowLemma
<1>3. InMsig /\ Undetected(f) /\ Edited(msigs[Id])
  BY DEF MoveMsigKeyRow
<1>. QED
  BY <1>1, <1>2, <1>3 DEF MovesRow, Edits

\* The events that make one choice.
ChoiceEvent ==
    \/ \E k \in Scripts : ChooseScript(k)
    \/ \E w \in Networks : ChangeNetwork(w)
    \/ \E c \in Counts : ChangeCount(c)
    \/ \E o \in Orders : ChangeOrder(o)
    \/ ToggleBip87

\* A choice of script, standard, order or settings is an edit that keeps the
\* co-signers.
LEMMA ChoiceEdits ==
    ASSUME MsigTypeOK, ChoiceEvent
    PROVE  EditsOthers
<1>1. FormOK(form) /\ StateOK(msigs[Id]) /\ (~form.bip87) \in BOOLEAN
  BY MsigIdLemma
<1>2. \E f : Chosen(f) /\ (Detect(f) \/ Undetected(f)) /\ Edited(msigs[Id]) /\ InMsig
  <2>1. ASSUME NEW k \in Scripts, ChooseScript(k)
        PROVE  \E f : Chosen(f) /\ (Detect(f) \/ Undetected(f)) /\ Edited(msigs[Id]) /\ InMsig
    BY <2>1, Zenon DEF ChooseScript, Chosen
  <2>2. ASSUME NEW w \in Networks, ChangeNetwork(w)
        PROVE  \E f : Chosen(f) /\ (Detect(f) \/ Undetected(f)) /\ Edited(msigs[Id]) /\ InMsig
    BY <2>2, Zenon DEF ChangeNetwork, Chosen
  <2>3. ASSUME NEW c \in Counts, ChangeCount(c)
        PROVE  \E f : Chosen(f) /\ (Detect(f) \/ Undetected(f)) /\ Edited(msigs[Id]) /\ InMsig
    BY <2>3, Zenon DEF ChangeCount, Chosen
  <2>4. ASSUME NEW o \in Orders, ChangeOrder(o)
        PROVE  \E f : Chosen(f) /\ (Detect(f) \/ Undetected(f)) /\ Edited(msigs[Id]) /\ InMsig
    BY <2>4, Zenon DEF ChangeOrder, Chosen
  <2>5. ASSUME ToggleBip87
        PROVE  \E f : Chosen(f) /\ (Detect(f) \/ Undetected(f)) /\ Edited(msigs[Id]) /\ InMsig
    BY <1>1, <2>5, Zenon DEF ToggleBip87, Chosen
  <2>. QED
    BY <2>1, <2>2, <2>3, <2>4, <2>5, Zenon DEF ChoiceEvent
<1>3. PICK f : Chosen(f) /\ (Detect(f) \/ Undetected(f)) /\ Edited(msigs[Id]) /\ InMsig
  BY <1>2, Zenon
<1>4. FormOK(f) /\ f.n = form.n /\ f.xpubs = form.xpubs
  BY <1>1, <1>3, ChosenLemma
<1>5. \A i \in Cosigners : SeenIn(msigs[Id], f, i) = Cosigner(Id, i)
  BY <1>3, <1>4, SeenOnForm DEF SeenIn
<1>. QED
  BY <1>1, <1>3, <1>4, <1>5, Zenon DEF EditsOthers, Edits

LEMMA ThresholdEdits ==
    ASSUME MsigTypeOK, NEW h \in {"m", "n"}, NEW v \in 1..MaxN, TypeThreshold(h, v)
    PROVE  EditsOthers
<1>1. FormOK(form) /\ StateOK(msigs[Id])
  BY MsigIdLemma
<1>2. /\ FormOK(Refilled(h, v)) /\ StateOK(Merged)
      /\ \A i \in Cosigners : SeenIn(Merged, Refilled(h, v), i) = SeenIn(msigs[Id], form, i)
  BY <1>1, RefilledLemma
<1>3. InMsig /\ Edited(Merged) /\ (Detect(Refilled(h, v)) \/ Undetected(Refilled(h, v)))
  BY DEF TypeThreshold, Refill
<1>. QED
  BY <1>2, <1>3, SeenOnForm DEF EditsOthers, Edits

\* The events of the form, by what they do to it.
FormEvent ==
    \/ EditsOthers \/ \E i \in Cosigners : EditsRow(i) \/ MovesRow(i)
    \/ \E h \in {"m", "n"}, v \in 1..MaxN : DragThreshold(h, v)
    \/ PanelClick \/ \E ok \in BOOLEAN : BuildMsig(ok)

TabEvent == WipeActiveMsig \/ AddMsig \/ DeleteActiveMsig \/ \E i \in 1..Len(tabs) : SelectMsig(i)

KeyEvent ==
    \/ \E r \in KeyWallets \cup {NoResult} : DeriveKey(r)
    \/ \E b \in BOOLEAN : RevealPrivate(b)
    \/ ClearSecrets

LEMMA NextByShape ==
    ASSUME MsigTypeOK, Next
    PROVE  \/ FormEvent \/ TabEvent \/ KeyEvent
           \/ \E w \in {"calc", "msig", "psbt"} : ShowWorkspace(w)
<1>1. ASSUME NEW i \in Cosigners, MoveMsigKeyRow(i) PROVE FormEvent
  BY <1>1, MoveEdits DEF FormEvent
<1>2. ASSUME NEW i \in Cosigners, NEW t \in Texts, TypeXpub(i, t) PROVE FormEvent
  BY <1>2, TypeXpubEdits DEF FormEvent
<1>3. ASSUME ChoiceEvent PROVE FormEvent
  BY <1>3, ChoiceEdits DEF FormEvent
<1>4. ASSUME NEW h \in {"m", "n"}, NEW v \in 1..MaxN, TypeThreshold(h, v) PROVE FormEvent
  BY <1>4, ThresholdEdits DEF FormEvent
<1>. QED
  BY <1>1, <1>2, <1>3, <1>4, Zenon DEF Next, ChoiceEvent, FormEvent, TabEvent, KeyEvent

-----------------------------------------------------------------------------
(* What the events do: the object they write, the form and registers left.   *)

Writes(c) == StateOK(c) /\ msigs' = [msigs EXCEPT ![Id] = c]
FormLeft == FormOK(form') /\ lastConcrete' \in Scripts /\ msigError' \in BOOLEAN
Captures == Captured(msigs[Id], form, re, msigError)

LEMMA WritesLemma ==
    ASSUME MsigTypeOK, NEW c, Writes(c)
    PROVE  /\ msigs' \in [Ids -> MsigState] /\ \A k \in Ids : msigs'[k].m <= msigs'[k].n
           /\ msigs'[Id] = c /\ \A k \in Ids : k # Id => msigs'[k] = msigs[k]
BY MsigIdLemma DEF MsigTypeOK, Writes, StateOK

LEMMA EditEffect ==
    ASSUME MsigTypeOK, NEW s, NEW f, Edits(s, f)
    PROVE  /\ FormLeft /\ form'.n = f.n /\ form'.xpubs = f.xpubs
           /\ re' = NoResult /\ InMsig /\ UNCHANGED <<strip, Ge, workspace, key>>
           /\ \E c : /\ Writes(c) /\ c.result = NoResult /\ InputsOf(c) = form'
                     /\ \A i \in Cosigners : c.xpubs[i] = SeenIn(s, f, i)
<1>1. /\ StateOK(s) /\ FormOK(f) /\ lastConcrete \in Scripts
      /\ Detect(f) \/ Undetected(f)
      /\ re' = NoResult /\ msigError' = FALSE /\ InMsig /\ UNCHANGED <<strip, Ge, workspace, key>>
      /\ msigs' = [msigs EXCEPT ![Id] = Captured(s, form', NoResult, FALSE)]
  BY DEF Edits, Edited, Unswitched, MsigTypeOK
<1>2. /\ FormOK(form') /\ lastConcrete' \in Scripts
      /\ form'.n = f.n /\ form'.xpubs = f.xpubs
  BY <1>1, DetectLemma
<1>. DEFINE c == Captured(s, form', NoResult, FALSE)
<1>3. /\ StateOK(c) /\ InputsOf(c) = form' /\ c.result = NoResult
      /\ \A i \in Cosigners : c.xpubs[i] = SeenIn(s, form', i)
  <2>1. NoResult \in Results /\ NoResult \notin Inputs
    BY ResultAssumption DEF Results
  <2>. QED
    BY <1>1, <1>2, <2>1, CapturedLemma
<1>4. \A i \in Cosigners : SeenIn(s, form', i) = SeenIn(s, f, i)
  BY <1>2 DEF SeenIn
<1>5. Writes(c)
  BY <1>1, <1>3 DEF Writes
<1>. HIDE DEF c
<1>6. \E d : /\ Writes(d) /\ d.result = NoResult /\ InputsOf(d) = form'
             /\ \A i \in Cosigners : d.xpubs[i] = SeenIn(s, f, i)
  BY <1>3, <1>4, <1>5
<1>. QED
  BY <1>1, <1>2, <1>6 DEF FormLeft

LEMMA DragEffect ==
    ASSUME MsigTypeOK, NEW h \in {"m", "n"}, NEW v \in 1..MaxN, DragThreshold(h, v)
    PROVE  /\ FormLeft
           /\ re' = NoResult /\ InMsig /\ UNCHANGED <<strip, Ge, workspace, key>>
           /\ \E c : /\ Writes(c) /\ c.result = NoResult
                     /\ \A i \in Cosigners : /\ c.xpubs[i] = Cosigner(Id, i)
                                             /\ SeenIn(c, form', i) = Cosigner(Id, i)
<1>1. StateOK(msigs[Id]) /\ FormOK(form) /\ InMsig /\ lastConcrete \in Scripts
  BY MsigIdLemma DEF DragThreshold, MsigTypeOK
<1>2. /\ FormOK(Refilled(h, v)) /\ StateOK(Merged)
      /\ \A i \in Cosigners :
           /\ SeenIn(Merged, Refilled(h, v), i) = SeenIn(msigs[Id], form, i)
           /\ Merged.xpubs[i] = SeenIn(msigs[Id], form, i)
  BY <1>1, RefilledLemma
<1>. DEFINE c == [Merged EXCEPT !.result = NoResult, !.error = FALSE]
<1>3. /\ Detect(Refilled(h, v)) \/ Undetected(Refilled(h, v))
      /\ re' = NoResult /\ msigError' = FALSE
      /\ msigs' = [msigs EXCEPT ![Id] = c]
      /\ UNCHANGED <<strip, Ge, workspace, key>>
  BY DEF DragThreshold, Refill, Unswitched
<1>4. /\ FormOK(form') /\ lastConcrete' \in Scripts
      /\ form'.n = Refilled(h, v).n /\ form'.xpubs = Refilled(h, v).xpubs
  BY <1>1, <1>2, <1>3, DetectLemma
<1>5. StateOK(c) /\ c.result = NoResult /\ c.xpubs = Merged.xpubs
  BY <1>2 DEF StateOK, MsigState, Results
<1>6. Writes(c)
  BY <1>3, <1>5 DEF Writes
<1>. HIDE DEF c
<1>7. \A i \in Cosigners : /\ c.xpubs[i] = Cosigner(Id, i)
                           /\ SeenIn(c, form', i) = Cosigner(Id, i)
  BY <1>1, <1>2, <1>4, <1>5, SeenOnForm DEF SeenIn
<1>. QED
  BY <1>1, <1>3, <1>4, <1>5, <1>6, <1>7 DEF FormLeft

LEMMA CaptureEffect ==
    ASSUME MsigTypeOK
    PROVE  /\ StateOK(Captures) /\ InputsOf(Captures) = form
           /\ Captures.result = IF re \in Inputs THEN re ELSE NoResult
           /\ \A i \in Cosigners : Captures.xpubs[i] = SeenIn(msigs[Id], form, i)
           /\ msigs' = CaptureMsig => Writes(Captures)
<1>1. StateOK(msigs[Id]) /\ FormOK(form) /\ re \in Results /\ msigError \in BOOLEAN
  BY MsigIdLemma DEF MsigTypeOK
<1>2. /\ StateOK(Captures) /\ InputsOf(Captures) = form
      /\ Captures.result = IF re \in Inputs THEN re ELSE NoResult
      /\ \A i \in Cosigners : Captures.xpubs[i] = SeenIn(msigs[Id], form, i)
  BY <1>1, CapturedLemma DEF Captures
<1>. QED
  BY <1>2 DEF CaptureMsig, Captures, Writes

LEMMA BuildEffect ==
    ASSUME MsigTypeOK, NEW ok \in BOOLEAN, BuildMsig(ok)
    PROVE  /\ InMsig /\ Valid(form) /\ UNCHANGED <<form, lastConcrete, strip, Ge, workspace, key>>
           /\ re' \in {form, NoResult} /\ msigError' \in BOOLEAN
           /\ \E c : /\ Writes(c) /\ c.result \in {form, NoResult} /\ InputsOf(c) = form
                     /\ \A i \in Cosigners : c.xpubs[i] = Cosigner(Id, i)
<1>1. StateOK(msigs[Id]) /\ FormOK(form)
  BY MsigIdLemma
<1>2. /\ InMsig /\ Valid(form) /\ UNCHANGED <<form, lastConcrete, strip, Ge, workspace, key>>
      /\ re' \in {form, NoResult} /\ msigError' \in BOOLEAN
      /\ msigs' = [msigs EXCEPT ![Id] = Captured(@, form, re', msigError')]
  BY DEF BuildMsig, Unswitched
<1>. DEFINE c == Captured(msigs[Id], form, re', msigError')
<1>3. re' \in Results
  BY <1>1, <1>2 DEF Results, FormOK
<1>4. /\ StateOK(c) /\ InputsOf(c) = form
      /\ c.result = IF re' \in Inputs THEN re' ELSE NoResult
      /\ \A i \in Cosigners : c.xpubs[i] = SeenIn(msigs[Id], form, i)
  BY <1>1, <1>2, <1>3, CapturedLemma
<1>5. Writes(c)
  BY <1>2, <1>4 DEF Writes
<1>. HIDE DEF c
<1>6. c.result \in {form, NoResult}
  BY <1>2, <1>4
<1>7. \E d : /\ Writes(d) /\ d.result \in {form, NoResult} /\ InputsOf(d) = form
             /\ \A i \in Cosigners : d.xpubs[i] = Cosigner(Id, i)
  BY <1>2, <1>4, <1>5, <1>6, SeenOnForm
<1>. QED
  BY <1>2, <1>7

LEMMA RestoreEffect ==
    ASSUME MsigTypeOK, NEW s, StateOK(s), RestoreMsig(s)
    PROVE  /\ FormLeft /\ re' = s.result /\ Ge' = FALSE /\ re' \in Results
           /\ \A i \in Cosigners : SeenIn(s, form', i) = s.xpubs[i]
           /\ Valid(InputsOf(s)) => form' = InputsOf(s)
<1>1. FormOK(InputsOf(s)) /\ \A i \in Cosigners : SeenIn(s, InputsOf(s), i) = s.xpubs[i]
  BY InputsOfLemma
<1>2. /\ Detect(InputsOf(s)) /\ lastConcrete \in Scripts
      /\ msigError' = s.error /\ re' = s.result /\ Ge' = FALSE
  BY DEF RestoreMsig, MsigTypeOK
<1>3. /\ FormOK(form') /\ lastConcrete' \in Scripts
      /\ form'.n = InputsOf(s).n /\ form'.xpubs = InputsOf(s).xpubs
      /\ Valid(InputsOf(s)) => form' = InputsOf(s)
  BY <1>1, <1>2, DetectLemma
<1>4. s.error \in BOOLEAN /\ s.result \in Results
  BY DEF StateOK, MsigState
<1>. QED
  BY <1>1, <1>2, <1>3, <1>4 DEF FormLeft, SeenIn

-----------------------------------------------------------------------------
(* The strip: a number is given once, so two tabs never share an object.     *)

StripOK == tabs \in Seq(Ids) /\ active \in 1..Len(tabs) /\ nextId \in 1..(MaxId + 1)
TabsApart ==
    /\ \A i, j \in 1..Len(tabs) : tabs[i] = tabs[j] => i = j
    /\ \A i \in 1..Len(tabs) : tabs[i] < nextId

LEMMA TypeStrip == MsigTypeOK => StripOK
BY DEF MsigTypeOK, StripOK

LEMMA DeleteStrip ==
    ASSUME MsigTypeOK, TabsApart, DeleteActiveMsig
    PROVE  /\ (StripOK /\ TabsApart)' /\ Id' # Id /\ Id' \in OpenMsigs
           /\ OpenMsigs' \subseteq OpenMsigs \ {Id}
<1>1. /\ tabs \in Seq(Ids) /\ active \in 1..Len(tabs) /\ Len(tabs) > 1 /\ Len(tabs) \in Nat
      /\ tabs' = RemoveAt(tabs, active) /\ active' = Min2(active, Len(tabs'))
      /\ UNCHANGED nextId /\ nextId \in 1..(MaxId + 1)
  BY DEF MsigTypeOK, DeleteActiveMsig
<1>2. /\ tabs' \in Seq(Ids) /\ Len(tabs') = Len(tabs) - 1
      /\ \A j \in 1..(Len(tabs) - 1) : tabs'[j] = IF j < active THEN tabs[j] ELSE tabs[j + 1]
  BY <1>1, RemoveAtLemma
<1>3. active' \in 1..Len(tabs')
  BY <1>1, <1>2 DEF Min2
<1>4. \A j \in 1..Len(tabs') : \E i \in 1..Len(tabs) : i # active /\ tabs'[j] = tabs[i]
                                                     /\ i = IF j < active THEN j ELSE j + 1
  <2>1. TAKE j \in 1..Len(tabs')
  <2>2. CASE j < active
    BY <1>1, <1>2, <2>2
  <2>3. CASE ~(j < active)
    BY <1>1, <1>2, <2>3
  <2>. QED
    BY <2>2, <2>3
<1>5. TabsApart'
  <2>1. ASSUME NEW i \in 1..Len(tabs'), NEW j \in 1..Len(tabs'), tabs'[i] = tabs'[j] PROVE i = j
    <3>1. PICK x \in 1..Len(tabs) : tabs'[i] = tabs[x] /\ x = IF i < active THEN i ELSE i + 1
      BY <1>4
    <3>2. PICK y \in 1..Len(tabs) : tabs'[j] = tabs[y] /\ y = IF j < active THEN j ELSE j + 1
      BY <1>4
    <3>3. x = y
      BY <2>1, <3>1, <3>2 DEF TabsApart
    <3>. QED
      BY <1>1, <1>2, <3>1, <3>2, <3>3
  <2>2. \A j \in 1..Len(tabs') : tabs'[j] < nextId'
    BY <1>1, <1>4 DEF TabsApart
  <2>. QED
    BY <2>1, <2>2 DEF TabsApart
<1>6. Id' # Id /\ Id' \in OpenMsigs
  <2>1. PICK i \in 1..Len(tabs) : i # active /\ tabs'[active'] = tabs[i]
    BY <1>3, <1>4
  <2>. QED
    BY <1>1, <2>1 DEF TabsApart, Id, OpenMsigs
<1>7. OpenMsigs' \subseteq OpenMsigs \ {Id}
  BY <1>1, <1>4 DEF OpenMsigs, TabsApart, Id
<1>. QED
  BY <1>1, <1>2, <1>3, <1>5, <1>6, <1>7 DEF StripOK

LEMMA AddStrip ==
    ASSUME MsigTypeOK, TabsApart, AddMsig
    PROVE  /\ (StripOK /\ TabsApart)' /\ Id' = nextId /\ nextId \in Ids
           /\ OpenMsigs' = OpenMsigs \cup {nextId} /\ nextId # Id
<1>1. /\ tabs \in Seq(Ids) /\ active \in 1..Len(tabs) /\ Len(tabs) \in Nat
      /\ nextId \in Ids /\ Ids = 1..MaxId /\ MaxId \in Nat
      /\ tabs' = Append(tabs, nextId) /\ active' = Len(tabs) + 1 /\ nextId' = nextId + 1
  BY BoundAssumption DEF MsigTypeOK, AddMsig, Ids
<1>2. /\ tabs' \in Seq(Ids) /\ Len(tabs') = Len(tabs) + 1
      /\ \A j \in 1..Len(tabs) : tabs'[j] = tabs[j]
      /\ tabs'[Len(tabs) + 1] = nextId
  BY <1>1
<1>3. \A j \in 1..Len(tabs) : tabs[j] \in Ids
  BY <1>1
<1>4. \A i, j \in 1..Len(tabs') : tabs'[i] = tabs'[j] => i = j
  <2>1. TAKE i, j \in 1..Len(tabs')
  <2>2. \A k \in 1..Len(tabs') : k = Len(tabs) + 1 \/ (k \in 1..Len(tabs) /\ tabs'[k] < nextId)
    BY <1>1, <1>2 DEF TabsApart
  <2>. QED
    BY <1>1, <1>2, <1>3, <2>2 DEF TabsApart
<1>5. \A i \in 1..Len(tabs') : tabs'[i] < nextId'
  <2>1. TAKE i \in 1..Len(tabs')
  <2>2. CASE i \in 1..Len(tabs)
    BY <1>1, <1>2, <1>3, <2>2 DEF TabsApart
  <2>3. CASE i = Len(tabs) + 1
    BY <1>1, <1>2, <2>3
  <2>. QED
    BY <1>1, <1>2, <2>2, <2>3
<1>6. OpenMsigs' = OpenMsigs \cup {nextId}
  BY <1>1, <1>2 DEF OpenMsigs
<1>7. nextId # Id
  BY <1>1, <1>3 DEF Id, TabsApart
<1>. QED
  BY <1>1, <1>2, <1>4, <1>5, <1>6, <1>7 DEF StripOK, TabsApart, Id

\* The object of a tab that is selected.
LEMMA SelectStrip ==
    ASSUME MsigTypeOK, TabsApart, NEW i \in 1..Len(tabs), SelectMsig(i)
    PROVE  /\ (StripOK /\ TabsApart)' /\ Id' = tabs[i] /\ Id' # Id /\ Id' \in Ids
           /\ OpenMsigs' = OpenMsigs
BY DEF MsigTypeOK, SelectMsig, TabsApart, StripOK, Id, OpenMsigs

LEMMA StripKept ==
    ASSUME MsigTypeOK, TabsApart, UNCHANGED strip
    PROVE  (StripOK /\ TabsApart)' /\ Id' = Id /\ OpenMsigs' = OpenMsigs
BY DEF MsigTypeOK, TabsApart, StripOK, strip, Id, OpenMsigs

-----------------------------------------------------------------------------
(* Type correctness of each event. *)

TypeInv == MsigTypeOK /\ TabsApart

\* What is left to show of a step, its strip and its object being known.
LEMMA TypedByParts ==
    ASSUME MsigTypeOK, StripOK', FormLeft, NEW c, Writes(c) \/ UNCHANGED msigs,
           re' \in Results, Ge' \in BOOLEAN, workspace' \in {"calc", "msig", "psbt"},
           key' \in [result: Results, reveal: BOOLEAN]
    PROVE  MsigTypeOK'
<1>1. msigs' \in [Ids -> MsigState] /\ \A k \in Ids : msigs'[k].m <= msigs'[k].n
  <2>1. CASE Writes(c)
    BY <2>1, WritesLemma
  <2>2. CASE UNCHANGED msigs
    BY <2>2 DEF MsigTypeOK
  <2>. QED
    BY <2>1, <2>2
<1>. QED
  BY <1>1 DEF MsigTypeOK, StripOK, FormLeft, FormOK

LEMMA FormEvent_Type ==
    ASSUME TypeInv, FormEvent PROVE TypeInv'
<1>. USE DEF TypeInv
<1>0. Ge \in BOOLEAN /\ workspace \in {"calc", "msig", "psbt"} /\ NoResult \in Results
      /\ key \in [result: Results, reveal: BOOLEAN]
  BY DEF MsigTypeOK, Results
<1>1. ASSUME NEW s, NEW f, Edits(s, f) PROVE TypeInv'
  <2>1. /\ FormLeft /\ re' = NoResult /\ UNCHANGED <<strip, Ge, workspace, key>>
        /\ \E c : Writes(c)
    BY <1>1, EditEffect
  <2>. QED
    BY <1>0, <2>1, StripKept, TypedByParts
<1>2. ASSUME NEW h \in {"m", "n"}, NEW v \in 1..MaxN, DragThreshold(h, v) PROVE TypeInv'
  <2>1. /\ FormLeft /\ re' = NoResult /\ UNCHANGED <<strip, Ge, workspace, key>>
        /\ \E c : Writes(c)
    BY <1>2, DragEffect
  <2>. QED
    BY <1>0, <2>1, StripKept, TypedByParts
<1>3. CASE PanelClick
  <2>1. /\ UNCHANGED <<form, lastConcrete, msigError, re, strip, Ge, workspace, key>>
        /\ Writes(Captures)
    BY <1>3, CaptureEffect DEF PanelClick, Unswitched
  <2>2. FormLeft /\ re' \in Results
    BY <2>1, MsigIdLemma DEF FormLeft, MsigTypeOK
  <2>. QED
    BY <1>0, <2>1, <2>2, StripKept, TypedByParts
<1>4. ASSUME NEW ok \in BOOLEAN, BuildMsig(ok) PROVE TypeInv'
  <2>1. /\ UNCHANGED <<form, lastConcrete, strip, Ge, workspace, key>>
        /\ re' \in {form, NoResult} /\ msigError' \in BOOLEAN
        /\ \E c : Writes(c)
    BY <1>4, BuildEffect
  <2>2. FormLeft /\ re' \in Results
    BY <1>0, <2>1, MsigIdLemma DEF FormLeft, MsigTypeOK, Results, FormOK
  <2>. QED
    BY <1>0, <2>1, <2>2, StripKept, TypedByParts
<1>. QED
  BY <1>1, <1>2, <1>3, <1>4 DEF FormEvent, EditsOthers, EditsRow, MovesRow

LEMMA TabEvent_Type ==
    ASSUME TypeInv, TabEvent PROVE TypeInv'
<1>. USE DEF TypeInv
<1>0. /\ workspace \in {"calc", "msig", "psbt"} /\ msigs \in [Ids -> MsigState]
      /\ key \in [result: Results, reveal: BOOLEAN]
      /\ Id \in Ids /\ \A k \in Ids : StateOK(msigs[k])
  BY MsigIdLemma DEF MsigTypeOK, StateOK
<1>1. CASE WipeActiveMsig
  <2>1. /\ Writes(NewMsigState) /\ RestoreMsig(NewMsigState) /\ StateOK(NewMsigState)
        /\ UNCHANGED <<strip, workspace, key>>
    BY <1>1, NewMsigStateLemma DEF WipeActiveMsig, Writes
  <2>2. FormLeft /\ re' \in Results /\ Ge' = FALSE
    BY <2>1, RestoreEffect
  <2>. QED
    BY <1>0, <2>1, <2>2, StripKept, TypedByParts
<1>2. CASE AddMsig
  <2>1. /\ msigs' = CaptureMsig /\ RestoreMsig(NewMsigState) /\ StateOK(NewMsigState)
        /\ UNCHANGED <<workspace, key>>
    BY <1>2, NewMsigStateLemma DEF AddMsig
  <2>2. FormLeft /\ re' \in Results /\ Ge' = FALSE
    BY <2>1, RestoreEffect
  <2>. QED
    BY <1>0, <1>2, <2>1, <2>2, AddStrip, CaptureEffect, TypedByParts
<1>3. CASE DeleteActiveMsig
  <2>1. /\ Writes(NewMsigState) /\ RestoreMsig(msigs[Id']) /\ UNCHANGED <<workspace, key>>
    BY <1>3, NewMsigStateLemma DEF DeleteActiveMsig, Writes, Id
  <2>2. (StripOK /\ TabsApart)' /\ Id' \in Ids
    BY <1>3, DeleteStrip DEF OpenMsigs, MsigTypeOK
  <2>3. FormLeft /\ re' \in Results /\ Ge' = FALSE
    BY <1>0, <2>1, <2>2, RestoreEffect
  <2>. QED
    BY <1>0, <2>1, <2>2, <2>3, TypedByParts
<1>4. ASSUME NEW i \in 1..Len(tabs), SelectMsig(i) PROVE TypeInv'
  <2>1. /\ msigs' = CaptureMsig /\ RestoreMsig(msigs'[tabs[i]]) /\ UNCHANGED <<workspace, key>>
    BY <1>4 DEF SelectMsig
  <2>2. (StripOK /\ TabsApart)' /\ tabs[i] \in Ids
    BY <1>4, SelectStrip
  <2>3. Writes(Captures)
    BY <2>1, CaptureEffect
  <2>4. StateOK(msigs'[tabs[i]])
    BY <2>2, <2>3, WritesLemma DEF StateOK
  <2>5. FormLeft /\ re' \in Results /\ Ge' = FALSE
    BY <2>1, <2>4, RestoreEffect
  <2>. QED
    BY <1>0, <2>1, <2>2, <2>3, <2>5, TypedByParts
<1>. QED
  BY <1>1, <1>2, <1>3, <1>4 DEF TabEvent

\* Leaving a workspace: what has been captured there.
LEMMA LeaveEffect ==
    ASSUME MsigTypeOK, NEW w \in {"calc", "msig", "psbt"}, ShowWorkspace(w)
    PROVE  /\ key' \in [result: Results, reveal: BOOLEAN]
           /\ IF InMsig THEN Writes(Captures) ELSE UNCHANGED msigs
           /\ msigs'[Id] = IF InMsig THEN Captures ELSE msigs[Id]
           /\ StateOK(msigs'[Id]) /\ UNCHANGED strip /\ workspace' = w
<1>1. /\ key' \in [result: Results, reveal: BOOLEAN]
      /\ UNCHANGED strip /\ workspace' = w
      /\ msigs' = IF InMsig THEN CaptureMsig ELSE msigs
  BY DEF ShowWorkspace, MsigTypeOK, InMsig
<1>2. IF InMsig THEN Writes(Captures) ELSE UNCHANGED msigs
  BY <1>1, CaptureEffect
<1>3. /\ msigs'[Id] = IF InMsig THEN Captures ELSE msigs[Id]
      /\ StateOK(msigs'[Id])
  BY <1>2, WritesLemma, CaptureEffect, MsigIdLemma
<1>. QED
  BY <1>1, <1>2, <1>3

LEMMA ShowWorkspace_Type ==
    ASSUME TypeInv, NEW w \in {"calc", "msig", "psbt"}, ShowWorkspace(w)
    PROVE  TypeInv'
<1>. USE DEF TypeInv
<1>1. /\ key' \in [result: Results, reveal: BOOLEAN] /\ UNCHANGED strip /\ workspace' = w
      /\ Writes(Captures) \/ UNCHANGED msigs
      /\ StateOK(msigs'[Id])
  BY LeaveEffect
<1>2. FormLeft /\ re' \in Results /\ Ge' \in BOOLEAN
  <2>1. CASE w = "msig"
    <3>1. RestoreMsig(msigs'[Id])
      BY <2>1 DEF ShowWorkspace
    <3>. QED
      BY <1>1, <3>1, RestoreEffect
  <2>2. CASE w # "msig"
    <3>1. UNCHANGED <<form, lastConcrete, msigError>> /\ re' \in Results /\ Ge' \in BOOLEAN
      BY <2>2 DEF ShowWorkspace, MsigTypeOK, Results
    <3>. QED
      BY <3>1, MsigIdLemma DEF FormLeft, MsigTypeOK
  <2>. QED
    BY <2>1, <2>2
<1>. QED
  BY <1>1, <1>2, StripKept, TypedByParts

LEMMA KeyEvent_Type ==
    ASSUME TypeInv, KeyEvent PROVE TypeInv'
<1>. DEFINE Left == /\ UNCHANGED msigVars /\ UNCHANGED workspace /\ re' \in Results
                    /\ Ge' \in BOOLEAN /\ key' \in [result: Results, reveal: BOOLEAN]
<1>1. Left
  <2>0. re \in Results /\ key \in [result: Results, reveal: BOOLEAN]
    BY DEF TypeInv, MsigTypeOK
  <2>1. ASSUME NEW r \in KeyWallets \cup {NoResult}, DeriveKey(r) PROVE Left
    BY <2>1 DEF DeriveKey, Results
  <2>2. ASSUME NEW b \in BOOLEAN, RevealPrivate(b) PROVE Left
    BY <2>0, <2>2 DEF RevealPrivate
  <2>3. CASE ClearSecrets
    BY <2>3 DEF ClearSecrets, Results
  <2>. QED
    BY <2>1, <2>2, <2>3 DEF KeyEvent
<1>2. FormLeft /\ UNCHANGED <<strip, msigs>>
  BY <1>1, MsigIdLemma DEF TypeInv, MsigTypeOK, FormLeft, msigVars
<1>. QED
  BY <1>1, <1>2, StripKept, TypedByParts DEF TypeInv, MsigTypeOK

LEMMA Init_Type == Init => TypeInv
<1>. SUFFICES ASSUME Init PROVE TypeInv
  OBVIOUS
<1>1. /\ tabs = <<1>> /\ active = 1 /\ nextId = 2 /\ msigs = [k \in Ids |-> NewMsigState]
      /\ form = InputsOf(NewMsigState) /\ lastConcrete = FirstScript /\ msigError = FALSE
      /\ re = NoResult /\ Ge = FALSE /\ workspace = "calc"
      /\ key = [result |-> NoResult, reveal |-> FALSE]
  BY DEF Init
<1>2. FormOK(form) /\ StateOK(NewMsigState)
  BY <1>1, NewMsigStateLemma, InputsOfLemma
<1>3. /\ StripOK /\ TabsApart
  BY <1>1, BoundAssumption DEF StripOK, TabsApart, Ids
<1>. QED
  BY <1>1, <1>2, <1>3, FirstAssumption
     DEF TypeInv, MsigTypeOK, StripOK, FormOK, StateOK, Results

LEMMA Next_Type == TypeInv /\ [Next]_vars => TypeInv'
<1>. SUFFICES ASSUME TypeInv, [Next]_vars PROVE TypeInv'
  OBVIOUS
<1>1. CASE Next
  BY <1>1, NextByShape, FormEvent_Type, TabEvent_Type, ShowWorkspace_Type, KeyEvent_Type
     DEF TypeInv
<1>2. CASE UNCHANGED vars
  <2>1. UNCHANGED <<tabs, active, nextId, msigs, form, lastConcrete, msigError, re, Ge, workspace, key>>
    BY <1>2 DEF vars, msigVars, strip
  <2>. QED
    BY <2>1 DEF TypeInv, MsigTypeOK, TabsApart
<1>. QED
  BY <1>1, <1>2

\* Every tab has an object of its own, every object and form is well formed, the
\* thresholds in order (m <= n), after every event, for any number of tabs.
THEOREM MsigTypeCorrect == Spec => []MsigTypeOK
<1>1. TypeInv => MsigTypeOK
  BY DEF TypeInv
<1>. QED
  BY <1>1, Init_Type, Next_Type, PTL DEF Spec

-----------------------------------------------------------------------------
(* Results and registers.  A result fits inputs it was built from, if they   *)
(* are valid.  The invariant asks it of every object, on the strip or not,   *)
(* and of the register beside the form while the multisigs are on screen;    *)
(* the registers hold what belongs to the workspace on screen.               *)

ResultFits(r, f) == r # NoResult => r = f /\ Valid(f)
ResultsKept ==
    /\ \A k \in Ids : ResultFits(msigs[k].result, InputsOf(msigs[k]))
    /\ InMsig => ResultFits(re, form)

MsigInv == TypeInv /\ ResultsKept /\ RegistersApart

\* What the registers may hold in workspace w.
Belongs(w, r, g) ==
    CASE w = "calc" -> r \in KeyWallets \cup {NoResult}
      [] w = "msig" -> r \in Inputs \cup {NoResult} /\ ~g
      [] OTHER -> r = NoResult /\ ~g

\* An object that fits, as RegistersApart and ResultsKept ask.
Fits(c) == StateOK(c) /\ ResultFits(c.result, InputsOf(c))

LEMMA FitsApart ==
    ASSUME NEW c, Fits(c) PROVE c.result \in Inputs \cup {NoResult}
<1>1. InputsOf(c) \in Inputs
  BY InputsOfLemma DEF Fits, FormOK
<1>. QED
  BY <1>1 DEF Fits, ResultFits

\* What is left to show of a step.
LEMMA FitsByParts ==
    ASSUME MsigInv, TypeInv', NEW c, (Writes(c) /\ Fits(c)) \/ UNCHANGED msigs,
           Belongs(workspace', re', Ge'), InMsig' => ResultFits(re', form'),
           key'.result \in KeyWallets \cup {NoResult}
    PROVE  MsigInv'
<1>1. \A k \in Ids : Fits(msigs'[k])
  <2>1. \A k \in Ids : Fits(msigs[k])
    BY DEF MsigInv, ResultsKept, Fits, TypeInv, MsigTypeOK, StateOK
  <2>2. CASE Writes(c) /\ Fits(c)
    BY <2>1, <2>2, WritesLemma DEF MsigInv, TypeInv
  <2>3. CASE UNCHANGED msigs
    BY <2>1, <2>3
  <2>. QED
    BY <2>2, <2>3
<1>2. ResultsKept'
  BY <1>1 DEF ResultsKept, Fits, InputsOf, InMsig
<1>3. \A k \in Ids : msigs'[k].result \in Inputs \cup {NoResult}
  BY <1>1, FitsApart
<1>4. RegistersApart'
  BY <1>3 DEF RegistersApart, Belongs
<1>. QED
  BY <1>2, <1>4 DEF MsigInv

LEMMA NewFits == Fits(NewMsigState)
BY NewMsigStateLemma DEF Fits, ResultFits

\* In the multisig workspace a capture fits, and takes the result along.
LEMMA CaptureFits ==
    ASSUME MsigInv, InMsig
    PROVE  Fits(Captures) /\ Captures.result = re
<1>1. /\ StateOK(Captures) /\ InputsOf(Captures) = form
      /\ Captures.result = IF re \in Inputs THEN re ELSE NoResult
  BY CaptureEffect DEF MsigInv, TypeInv
<1>2. re \in Inputs \cup {NoResult} /\ ResultFits(re, form)
  BY DEF MsigInv, RegistersApart, ResultsKept, InMsig
<1>. QED
  BY <1>1, <1>2 DEF Fits, ResultFits

\* A restore of an object that fits fills form and registers with what fits.
LEMMA RestoreFits ==
    ASSUME MsigTypeOK, NEW s, Fits(s), RestoreMsig(s)
    PROVE  /\ ResultFits(re', form') /\ re' = s.result
           /\ re' \in Inputs \cup {NoResult} /\ ~Ge'
<1>1. /\ re' = s.result /\ Ge' = FALSE
      /\ Valid(InputsOf(s)) => form' = InputsOf(s)
  BY RestoreEffect DEF Fits
<1>2. s.result \in Inputs \cup {NoResult}
  BY FitsApart
<1>. QED
  BY <1>1, <1>2 DEF Fits, ResultFits

LEMMA FormEvent_Fits ==
    ASSUME MsigInv, FormEvent PROVE MsigInv'
<1>0. /\ MsigTypeOK /\ TypeInv' /\ NoResult \in Inputs \cup {NoResult}
      /\ key.result \in KeyWallets \cup {NoResult}
      /\ InMsig => ~Ge /\ workspace = "msig"
  BY FormEvent_Type DEF MsigInv, TypeInv, RegistersApart, InMsig
<1>1. ASSUME NEW s, NEW f, Edits(s, f) PROVE MsigInv'
  <2>1. /\ re' = NoResult /\ InMsig /\ UNCHANGED <<Ge, workspace, key>>
    BY <1>0, <1>1, EditEffect
  <2>2. PICK c : Writes(c) /\ c.result = NoResult
    BY <1>0, <1>1, EditEffect
  <2>3. Fits(c)
    BY <2>2 DEF Writes, Fits, ResultFits
  <2>. QED
    BY <1>0, <2>1, <2>2, <2>3, FitsByParts DEF Belongs, ResultFits
<1>2. ASSUME NEW h \in {"m", "n"}, NEW v \in 1..MaxN, DragThreshold(h, v) PROVE MsigInv'
  <2>1. /\ re' = NoResult /\ InMsig /\ UNCHANGED <<Ge, workspace, key>>
    BY <1>0, <1>2, DragEffect
  <2>2. PICK c : Writes(c) /\ c.result = NoResult
    BY <1>0, <1>2, DragEffect
  <2>3. Fits(c)
    BY <2>2 DEF Writes, Fits, ResultFits
  <2>. QED
    BY <1>0, <2>1, <2>2, <2>3, FitsByParts DEF Belongs, ResultFits
<1>3. CASE PanelClick
  <2>1. /\ InMsig /\ UNCHANGED <<form, re, Ge, workspace, key>> /\ Writes(Captures)
    BY <1>0, <1>3, CaptureEffect DEF PanelClick, Unswitched
  <2>2. Fits(Captures) /\ ResultFits(re', form') /\ re' \in Inputs \cup {NoResult}
    BY <2>1, CaptureFits DEF MsigInv, ResultsKept, RegistersApart, InMsig
  <2>. QED
    BY <1>0, <2>1, <2>2, FitsByParts DEF Belongs
<1>4. ASSUME NEW ok \in BOOLEAN, BuildMsig(ok) PROVE MsigInv'
  <2>1. /\ InMsig /\ Valid(form) /\ UNCHANGED <<form, Ge, workspace, key>>
        /\ re' \in {form, NoResult}
    BY <1>0, <1>4, BuildEffect
  <2>2. PICK c : Writes(c) /\ c.result \in {form, NoResult} /\ InputsOf(c) = form
    BY <1>0, <1>4, BuildEffect
  <2>3. Fits(c) /\ ResultFits(re', form')
    BY <2>1, <2>2 DEF Writes, Fits, ResultFits
  <2>4. re' \in Inputs \cup {NoResult}
    BY <1>0, <2>1 DEF MsigTypeOK
  <2>. QED
    BY <1>0, <2>1, <2>2, <2>3, <2>4, FitsByParts DEF Belongs
<1>. QED
  BY <1>1, <1>2, <1>3, <1>4 DEF FormEvent, EditsOthers, EditsRow, MovesRow

LEMMA TabEvent_Fits ==
    ASSUME MsigInv, TabEvent PROVE MsigInv'
<1>0. /\ MsigTypeOK /\ TypeInv /\ TabsApart /\ TypeInv' /\ key.result \in KeyWallets \cup {NoResult}
      /\ \A k \in Ids : Fits(msigs[k])
  BY TabEvent_Type
     DEF MsigInv, TypeInv, RegistersApart, ResultsKept, Fits, MsigTypeOK, StateOK
<1>1. InMsig /\ workspace' = "msig" /\ workspace = "msig" /\ UNCHANGED key
  BY DEF TabEvent, WipeActiveMsig, AddMsig, DeleteActiveMsig, SelectMsig, InMsig
<1>2. CASE WipeActiveMsig
  <2>1. Writes(NewMsigState) /\ RestoreMsig(NewMsigState)
    BY <1>2, NewMsigStateLemma DEF WipeActiveMsig, Writes
  <2>. QED
    BY <1>0, <1>1, <2>1, NewFits, RestoreFits, FitsByParts DEF Belongs
<1>3. CASE AddMsig
  <2>1. Writes(Captures) /\ RestoreMsig(NewMsigState)
    BY <1>0, <1>3, CaptureEffect DEF AddMsig
  <2>2. Fits(Captures)
    BY <1>1, CaptureFits
  <2>. QED
    BY <1>0, <1>1, <2>1, <2>2, NewFits, RestoreFits, FitsByParts DEF Belongs
<1>4. CASE DeleteActiveMsig
  <2>1. Writes(NewMsigState) /\ RestoreMsig(msigs[Id'])
    BY <1>4, NewMsigStateLemma DEF DeleteActiveMsig, Writes, Id
  <2>2. Fits(msigs[Id'])
    BY <1>0, <1>4, DeleteStrip DEF OpenMsigs, MsigTypeOK
  <2>. QED
    BY <1>0, <1>1, <2>1, <2>2, NewFits, RestoreFits, FitsByParts DEF Belongs
<1>5. ASSUME NEW i \in 1..Len(tabs), SelectMsig(i) PROVE MsigInv'
  <2>1. Writes(Captures) /\ RestoreMsig(msigs'[tabs[i]])
    BY <1>0, <1>5, CaptureEffect DEF SelectMsig
  <2>2. Fits(Captures)
    BY <1>1, CaptureFits
  <2>3. Fits(msigs'[tabs[i]])
    BY <1>0, <1>5, <2>1, <2>2, SelectStrip, WritesLemma
  <2>. QED
    BY <1>0, <1>1, <2>1, <2>2, <2>3, RestoreFits, FitsByParts DEF Belongs
<1>. QED
  BY <1>2, <1>3, <1>4, <1>5 DEF TabEvent

\* A switch hands the registers over: what is left behind is kept by the key or
\* the multisig it belongs to.
LEMMA ShowWorkspace_Fits ==
    ASSUME MsigInv, NEW w \in {"calc", "msig", "psbt"}, ShowWorkspace(w)
    PROVE  MsigInv'
<1>0. /\ MsigTypeOK /\ TypeInv /\ TypeInv' /\ Fits(msigs[Id]) /\ Id \in Ids
      /\ key.result \in KeyWallets \cup {NoResult}
      /\ workspace = "calc" => re \in KeyWallets \cup {NoResult}
  BY ShowWorkspace_Type, MsigIdLemma
     DEF MsigInv, TypeInv, RegistersApart, ResultsKept, Fits, MsigTypeOK, StateOK
<1>1. /\ IF InMsig THEN Writes(Captures) ELSE UNCHANGED msigs
      /\ msigs'[Id] = IF InMsig THEN Captures ELSE msigs[Id]
      /\ workspace' = w
  BY <1>0, LeaveEffect
<1>2. InMsig => Fits(Captures)
  BY CaptureFits
<1>3. key'.result \in KeyWallets \cup {NoResult}
  BY <1>0 DEF ShowWorkspace
<1>4. Belongs(w, re', Ge') /\ (w = "msig" => ResultFits(re', form'))
  <2>1. CASE w = "msig"
    <3>1. RestoreMsig(msigs'[Id]) /\ Fits(msigs'[Id])
      BY <1>0, <1>1, <1>2, <2>1 DEF ShowWorkspace
    <3>. QED
      BY <1>0, <2>1, <3>1, RestoreFits DEF Belongs
  <2>2. CASE w = "calc"
    BY <1>0, <2>2 DEF ShowWorkspace, Belongs
  <2>3. CASE w = "psbt"
    BY <2>3 DEF ShowWorkspace, Belongs
  <2>. QED
    BY <2>1, <2>2, <2>3
<1>5. \E c : (Writes(c) /\ Fits(c)) \/ UNCHANGED msigs
  BY <1>1, <1>2
<1>. QED
  BY <1>0, <1>1, <1>3, <1>4, <1>5, FitsByParts DEF InMsig

LEMMA KeyEvent_Fits ==
    ASSUME MsigInv, KeyEvent PROVE MsigInv'
<1>0. MsigTypeOK /\ TypeInv' /\ RegistersApart /\ ResultsKept
  BY KeyEvent_Type DEF MsigInv, TypeInv
<1>1. UNCHANGED <<msigs, form, workspace>>
  BY DEF KeyEvent, DeriveKey, RevealPrivate, ClearSecrets, msigVars
<1>2. key'.result \in KeyWallets \cup {NoResult} /\ Belongs(workspace', re', Ge')
  <2>1. ASSUME NEW r \in KeyWallets \cup {NoResult}, DeriveKey(r)
        PROVE  key'.result \in KeyWallets \cup {NoResult} /\ Belongs(workspace', re', Ge')
    BY <2>1 DEF DeriveKey, Belongs
  <2>2. ASSUME NEW b \in BOOLEAN, RevealPrivate(b)
        PROVE  key'.result \in KeyWallets \cup {NoResult} /\ Belongs(workspace', re', Ge')
    BY <1>0, <2>2 DEF RevealPrivate, Belongs, RegistersApart
  <2>3. CASE ClearSecrets
    BY <1>0, <2>3 DEF ClearSecrets, Belongs, MsigTypeOK
  <2>. QED
    BY <2>1, <2>2, <2>3 DEF KeyEvent
<1>3. InMsig' => ResultFits(re', form')
  BY <1>0, <1>1 DEF KeyEvent, DeriveKey, RevealPrivate, ClearSecrets, InMsig, ResultFits
<1>. QED
  BY <1>0, <1>1, <1>2, <1>3, FitsByParts

LEMMA Init_Fits == Init => MsigInv
<1>. SUFFICES ASSUME Init PROVE MsigInv
  OBVIOUS
<1>1. \A k \in Ids : msigs[k].result = NoResult
  BY NewMsigStateLemma DEF Init
<1>2. workspace = "calc" /\ re = NoResult /\ key.result = NoResult
  BY DEF Init
<1>. QED
  BY <1>1, <1>2, Init_Type DEF MsigInv, ResultsKept, ResultFits, RegistersApart, InMsig

LEMMA Next_Fits == MsigInv /\ [Next]_vars => MsigInv'
<1>. SUFFICES ASSUME MsigInv, [Next]_vars PROVE MsigInv'
  OBVIOUS
<1>1. CASE Next
  BY <1>1, NextByShape, FormEvent_Fits, TabEvent_Fits, ShowWorkspace_Fits, KeyEvent_Fits
     DEF MsigInv, TypeInv
<1>2. CASE UNCHANGED vars
  <2>1. UNCHANGED <<tabs, active, nextId, msigs, form, lastConcrete, msigError, re, Ge, workspace, key>>
    BY <1>2 DEF vars, msigVars, strip
  <2>2. TypeInv'
    BY <1>2, Next_Type DEF MsigInv
  <2>. QED
    BY <2>1, <2>2 DEF MsigInv, ResultsKept, RegistersApart, InputsOf, InMsig
<1>. QED
  BY <1>1, <1>2

\* However tabs and workspaces are switched and thresholds moved, a multisig's
\* result, on screen or cached with its tab, is the valid policy the tab's form
\* shows (hodlInvalidateMsig, hodlCaptureMsig, hodlRestoreMsig).
THEOREM MsigResultsStayCurrent == Spec => []MsigResultsCurrent
<1>1. MsigInv => MsigResultsCurrent
  <2>. SUFFICES ASSUME MsigInv, NEW k \in OpenMsigs, ResultOf(k) # NoResult
                PROVE  ResultOf(k) = Shown(k) /\ Valid(Shown(k))
    BY DEF MsigResultsCurrent
  <2>1. k \in Ids
    BY DEF MsigInv, TypeInv, MsigTypeOK, OpenMsigs
  <2>. QED
    BY <2>1 DEF MsigInv, ResultsKept, ResultFits, ResultOf, Shown, Live
<1>. QED
  BY <1>1, Init_Fits, Next_Fits, PTL DEF Spec

\* The key and the multisig workspace never take each other's result from the
\* registers they share, and private material stays in the key workspace
\* (hodlShowWorkspace).
THEOREM RegistersStayApart == Spec => []RegistersApart
<1>1. MsigInv => RegistersApart
  BY DEF MsigInv
<1>. QED
  BY <1>1, Init_Fits, Next_Fits, PTL DEF Spec

-----------------------------------------------------------------------------
(* Action properties: what a switch and an event leave as it is.             *)

LEMMA SwitchStep ==
    ASSUME MsigInv, NEW w \in {"calc", "msig", "psbt"}, ShowWorkspace(w)
    PROVE  KeyView' = KeyView /\ \A k \in OpenMsigs : ResultOf(k)' = ResultOf(k)
<1>0. /\ MsigTypeOK /\ TypeInv /\ Id' = Id /\ OpenMsigs \subseteq Ids
      /\ workspace' = w /\ w # workspace
  <2>1. TypeInv /\ MsigTypeOK
    BY DEF MsigInv, TypeInv
  <2>2. UNCHANGED strip /\ workspace' = w /\ w # workspace
    BY DEF ShowWorkspace
  <2>. QED
    BY <2>1, <2>2, StripKept DEF TypeInv, MsigTypeOK, OpenMsigs
<1>1. KeyView' = KeyView
  <2>1. CASE workspace = "calc"
    BY <1>0, <2>1 DEF KeyView, ShowWorkspace
  <2>2. CASE workspace # "calc" /\ w = "calc"
    <3>1. key = [result |-> key.result, reveal |-> key.reveal] /\ key.reveal \in BOOLEAN
      BY <1>0 DEF MsigTypeOK
    <3>2. re' = key.result /\ Ge' = key.reveal
      BY <2>2, <3>1 DEF ShowWorkspace
    <3>. QED
      BY <1>0, <2>2, <3>1, <3>2 DEF KeyView
  <2>3. CASE workspace # "calc" /\ w # "calc"
    BY <1>0, <2>3 DEF KeyView, ShowWorkspace
  <2>. QED
    BY <2>1, <2>2, <2>3
<1>2. ASSUME NEW k \in OpenMsigs PROVE ResultOf(k)' = ResultOf(k)
  <2>1. /\ IF InMsig THEN Writes(Captures) ELSE UNCHANGED msigs
        /\ msigs'[Id] = IF InMsig THEN Captures ELSE msigs[Id]
    BY <1>0, LeaveEffect
  <2>2. InMsig => Captures.result = re
    BY CaptureFits
  <2>3. msigs'[k].result = ResultOf(k)
    <3>1. CASE InMsig /\ k = Id
      BY <2>1, <2>2, <3>1 DEF ResultOf, Live
    <3>2. CASE InMsig /\ k # Id
      BY <1>0, <2>1, <3>2, WritesLemma DEF ResultOf, Live
    <3>3. CASE ~InMsig
      BY <2>1, <3>3 DEF ResultOf, Live
    <3>. QED
      BY <3>1, <3>2, <3>3
  <2>4. InMsig' => re' = msigs'[Id].result
    BY <1>0 DEF ShowWorkspace, RestoreMsig, InMsig
  <2>5. ResultOf(k)' = IF InMsig' /\ k = Id THEN re' ELSE msigs'[k].result
    BY <1>0 DEF ResultOf, Live
  <2>. QED
    BY <2>3, <2>4, <2>5
<1>. QED
  BY <1>1, <1>2

\* Between the three workspaces neither the key's result and reveal flag nor any
\* multisig's result is lost, replaced or revealed (hodlShowWorkspace).
THEOREM SwitchingKeepsResults == Spec => SwitchKeepsResults
<1>1. MsigInv /\ [Next]_vars =>
        [(\E w \in {"calc", "msig", "psbt"} : ShowWorkspace(w)) =>
           /\ KeyView' = KeyView
           /\ \A k \in OpenMsigs : ResultOf(k)' = ResultOf(k)]_vars
  BY SwitchStep
<1>. QED
  BY <1>1, Init_Fits, Next_Fits, PTL DEF Spec, SwitchKeepsResults

\* The co-signers of multisig k that a step may change.
Keeps(k, S) == \A i \in Cosigners \ S : Cosigner(k, i)' = Cosigner(k, i)

\* An event of the form that writes object c, seen through the new form.
LEMMA FormKeeps ==
    ASSUME TypeInv, InMsig, UNCHANGED <<strip, workspace>>, NEW c, Writes(c), NEW S,
           \A i \in Cosigners \ S : SeenIn(c, form', i) = Cosigner(Id, i)
    PROVE  \A k \in Ids : Keeps(k, IF k = Id THEN S ELSE {})
<1>1. InMsig' /\ Id' = Id /\ MsigTypeOK
  BY StripKept DEF InMsig, TypeInv
<1>2. msigs'[Id] = c /\ \A k \in Ids : k # Id => msigs'[k] = msigs[k]
  BY <1>1, WritesLemma
<1>3. \A i : Cosigner(Id, i)' = SeenIn(c, form', i)
  BY <1>1, <1>2 DEF Cosigner, Live, SeenIn
<1>4. \A k \in Ids : k # Id => \A i : Cosigner(k, i)' = Cosigner(k, i)
  BY <1>1, <1>2 DEF Cosigner, Live
<1>5. Keeps(Id, S)
  <2>1. \A i \in Cosigners \ S : Cosigner(Id, i)' = Cosigner(Id, i)
    BY <1>3
  <2>. QED
    BY <2>1 DEF Keeps
<1>6. ASSUME NEW k \in Ids PROVE Keeps(k, IF k = Id THEN S ELSE {})
  <2>1. CASE k = Id
    BY <1>5, <2>1
  <2>2. CASE k # Id
    BY <1>4, <2>2 DEF Keeps
  <2>. QED
    BY <2>1, <2>2
<1>. QED
  BY <1>6

LEMMA EditKeeps ==
    ASSUME TypeInv, NEW s, NEW f, Edits(s, f), NEW S,
           \A i \in Cosigners \ S : SeenIn(s, f, i) = Cosigner(Id, i)
    PROVE  \A k \in Ids : Keeps(k, IF k = Id THEN S ELSE {})
<1>1. /\ form'.n = f.n /\ form'.xpubs = f.xpubs /\ InMsig /\ UNCHANGED <<strip, workspace>>
  BY EditEffect DEF TypeInv
<1>2. PICK c : Writes(c) /\ \A i \in Cosigners : c.xpubs[i] = SeenIn(s, f, i)
  BY EditEffect DEF TypeInv
<1>3. \A i \in Cosigners \ S : SeenIn(c, form', i) = Cosigner(Id, i)
  BY <1>1, <1>2 DEF SeenIn
<1>. QED
  BY <1>1, <1>2, <1>3, FormKeeps

\* Co-signers outside the rows edited or moved stay as they are.
LEMMA EditRowKeeps ==
    ASSUME TypeInv, NEW S, NEW f, Edits(msigs[Id], f), f.n = form.n,
           \A j \in Cosigners : j \notin S => f.xpubs[j] = form.xpubs[j]
    PROVE  \A k \in Ids : Keeps(k, IF k = Id THEN S ELSE {})
<1>1. InMsig
  BY DEF Edits
<1>2. \A i \in Cosigners \ S : SeenIn(msigs[Id], f, i) = Cosigner(Id, i)
  BY <1>1, SeenOnForm DEF SeenIn
<1>. QED
  BY <1>2, EditKeeps

LEMMA RestKeeps ==
    ASSUME TypeInv,
           \/ EditsOthers \/ PanelClick \/ \E ok \in BOOLEAN : BuildMsig(ok)
           \/ \E h \in {"m", "n"}, v \in 1..MaxN : DragThreshold(h, v)
    PROVE  \A k \in Ids : Keeps(k, {})
<1>0. MsigTypeOK
  BY DEF TypeInv
<1>1. CASE EditsOthers
  <2>1. PICK s, f : Edits(s, f) /\ \A i \in Cosigners : SeenIn(s, f, i) = Cosigner(Id, i)
    BY <1>1 DEF EditsOthers
  <2>. QED
    BY <2>1, EditKeeps
<1>2. CASE PanelClick
  <2>1. /\ InMsig /\ UNCHANGED <<form, strip, workspace>> /\ Writes(Captures)
        /\ \A i \in Cosigners : Captures.xpubs[i] = SeenIn(msigs[Id], form, i)
    BY <1>0, <1>2, CaptureEffect DEF PanelClick, Unswitched
  <2>2. \A i \in Cosigners : SeenIn(Captures, form', i) = Cosigner(Id, i)
    BY <2>1, SeenOnForm DEF SeenIn
  <2>. QED
    BY <2>1, <2>2, FormKeeps
<1>3. ASSUME NEW ok \in BOOLEAN, BuildMsig(ok) PROVE \A k \in Ids : Keeps(k, {})
  <2>1. InMsig /\ UNCHANGED <<form, strip, workspace>>
    BY <1>0, <1>3, BuildEffect
  <2>2. PICK c : Writes(c) /\ \A i \in Cosigners : c.xpubs[i] = Cosigner(Id, i)
    BY <1>0, <1>3, BuildEffect
  <2>3. \A i \in Cosigners : SeenIn(c, form', i) = Cosigner(Id, i)
    BY <2>1, <2>2, SeenOnForm DEF SeenIn
  <2>. QED
    BY <2>1, <2>2, <2>3, FormKeeps
<1>4. ASSUME NEW h \in {"m", "n"}, NEW v \in 1..MaxN, DragThreshold(h, v)
      PROVE  \A k \in Ids : Keeps(k, {})
  <2>1. InMsig /\ UNCHANGED <<strip, workspace>>
    BY <1>0, <1>4, DragEffect
  <2>2. PICK c : Writes(c) /\ \A i \in Cosigners : SeenIn(c, form', i) = Cosigner(Id, i)
    BY <1>0, <1>4, DragEffect
  <2>. QED
    BY <2>1, <2>2, FormKeeps
<1>. QED
  BY <1>1, <1>2, <1>3, <1>4

\* A restore shows the co-signers of the object restored, wherever the form was.
LEMMA RestoreKeeps ==
    ASSUME TypeInv, NEW k, StateOK(msigs'[k]), RestoreMsig(msigs'[k])
    PROVE  \A i \in Cosigners : SeenIn(msigs'[k], form', i) = msigs'[k].xpubs[i]
BY RestoreEffect DEF TypeInv

\* A capture leaves each co-signer in its object.
LEMMA CaptureKeeps ==
    ASSUME TypeInv, InMsig, msigs' = CaptureMsig
    PROVE  \A k \in Ids, i \in Cosigners : msigs'[k].xpubs[i] = Cosigner(k, i)
<1>1. /\ Writes(Captures) /\ MsigTypeOK
      /\ \A i \in Cosigners : Captures.xpubs[i] = SeenIn(msigs[Id], form, i)
  BY CaptureEffect DEF TypeInv
<1>2. msigs'[Id] = Captures /\ \A k \in Ids : k # Id => msigs'[k] = msigs[k]
  BY <1>1, WritesLemma
<1>3. \A i \in Cosigners : Captures.xpubs[i] = Cosigner(Id, i)
  BY <1>1, SeenOnForm
<1>4. ASSUME NEW k \in Ids, NEW i \in Cosigners PROVE msigs'[k].xpubs[i] = Cosigner(k, i)
  <2>1. CASE k = Id
    BY <1>2, <1>3, <2>1
  <2>2. CASE k # Id
    BY <1>2, <2>2 DEF Cosigner, Live
  <2>. QED
    BY <2>1, <2>2
<1>. QED
  BY <1>4

\* What is read of an object after a step that shows object Id' as it is.
LEMMA ReadBack ==
    ASSUME NEW k, InMsig' => \A i \in Cosigners : SeenIn(msigs'[Id'], form', i) = msigs'[Id'].xpubs[i]
    PROVE  \A i \in Cosigners : Cosigner(k, i)' = msigs'[k].xpubs[i]
<1>1. ASSUME NEW i \in Cosigners PROVE Cosigner(k, i)' = msigs'[k].xpubs[i]
  <2>1. CASE InMsig' /\ k = Id' /\ i <= form'.n
    <3>1. SeenIn(msigs'[Id'], form', i) = msigs'[Id'].xpubs[i]
      BY <2>1
    <3>. QED
      BY <2>1, <3>1 DEF Cosigner, Live, SeenIn
  <2>2. CASE ~(InMsig' /\ k = Id' /\ i <= form'.n)
    BY <2>2 DEF Cosigner, Live
  <2>. QED
    BY <2>1, <2>2
<1>. QED
  BY <1>1

LEMMA TabKeeps ==
    ASSUME TypeInv, TabEvent, NEW k \in OpenMsigs,
           k = Id => ~(WipeActiveMsig \/ DeleteActiveMsig)
    PROVE  Keeps(k, {})
<1>0. /\ MsigTypeOK /\ TabsApart /\ k \in Ids /\ Id \in Ids /\ \A j \in Ids : StateOK(msigs[j])
  BY MsigIdLemma DEF TypeInv, MsigTypeOK, OpenMsigs, StateOK
<1>1. InMsig
  BY DEF TabEvent, WipeActiveMsig, AddMsig, DeleteActiveMsig, SelectMsig
<1>2. CASE WipeActiveMsig
  <2>1. /\ k # Id /\ Id' = Id /\ Writes(NewMsigState)
    BY <1>0, <1>2, StripKept, NewMsigStateLemma DEF WipeActiveMsig, Writes
  <2>2. msigs'[k] = msigs[k]
    BY <1>0, <2>1, WritesLemma
  <2>. QED
    BY <2>1, <2>2 DEF Keeps, Cosigner, Live
<1>3. CASE AddMsig
  <2>1. msigs' = CaptureMsig /\ Id' # k
    BY <1>0, <1>3, AddStrip DEF AddMsig, OpenMsigs, TabsApart, MsigTypeOK, Ids
  <2>2. \A i \in Cosigners : msigs'[k].xpubs[i] = Cosigner(k, i)
    BY <1>0, <1>1, <2>1, CaptureKeeps
  <2>. QED
    BY <2>1, <2>2 DEF Keeps, Cosigner, Live
<1>4. CASE DeleteActiveMsig
  <2>1. /\ k # Id /\ Writes(NewMsigState) /\ RestoreMsig(msigs[Id'])
    BY <1>4, NewMsigStateLemma DEF DeleteActiveMsig, Writes, Id
  <2>2. Id' # Id /\ Id' \in Ids
    BY <1>0, <1>4, DeleteStrip DEF OpenMsigs, MsigTypeOK
  <2>3. msigs'[k] = msigs[k] /\ msigs'[Id'] = msigs[Id']
    BY <1>0, <2>1, <2>2, WritesLemma
  <2>4. \A i \in Cosigners : SeenIn(msigs'[Id'], form', i) = msigs'[Id'].xpubs[i]
    BY <1>0, <2>1, <2>2, <2>3, RestoreKeeps
  <2>5. \A i \in Cosigners : Cosigner(k, i)' = msigs'[k].xpubs[i]
    BY <2>4, ReadBack
  <2>. QED
    BY <2>1, <2>3, <2>5 DEF Keeps, Cosigner, Live
<1>5. ASSUME NEW j \in 1..Len(tabs), SelectMsig(j) PROVE Keeps(k, {})
  <2>1. /\ msigs' = CaptureMsig /\ RestoreMsig(msigs'[Id'])
    BY <1>0, <1>5, SelectStrip DEF SelectMsig
  <2>2. StateOK(msigs'[Id'])
    BY <1>0, <1>5, <2>1, CaptureEffect, WritesLemma, SelectStrip DEF StateOK
  <2>3. \A i \in Cosigners : SeenIn(msigs'[Id'], form', i) = msigs'[Id'].xpubs[i]
    BY <2>1, <2>2, RestoreKeeps
  <2>4. \A i \in Cosigners : Cosigner(k, i)' = msigs'[k].xpubs[i]
    BY <2>3, ReadBack
  <2>5. \A i \in Cosigners : msigs'[k].xpubs[i] = Cosigner(k, i)
    BY <1>0, <1>1, <2>1, CaptureKeeps
  <2>. QED
    BY <2>4, <2>5 DEF Keeps
<1>. QED
  BY <1>2, <1>3, <1>4, <1>5 DEF TabEvent

LEMMA ShowWorkspaceKeeps ==
    ASSUME TypeInv, NEW w \in {"calc", "msig", "psbt"}, ShowWorkspace(w), NEW k \in Ids
    PROVE  Keeps(k, {})
<1>0. MsigTypeOK /\ Id' = Id
  BY StripKept DEF TypeInv, ShowWorkspace
<1>1. StateOK(msigs'[Id]) /\ workspace' = w
  BY <1>0, LeaveEffect
<1>2. \A i \in Cosigners : msigs'[k].xpubs[i] = Cosigner(k, i)
  <2>1. CASE InMsig
    BY <2>1, CaptureKeeps DEF ShowWorkspace, InMsig
  <2>2. CASE ~InMsig
    BY <2>2 DEF ShowWorkspace, InMsig, Cosigner, Live
  <2>. QED
    BY <2>1, <2>2
<1>3. InMsig' => \A i \in Cosigners : SeenIn(msigs'[Id'], form', i) = msigs'[Id'].xpubs[i]
  <2>1. InMsig' => RestoreMsig(msigs'[Id])
    BY <1>1 DEF ShowWorkspace, InMsig
  <2>. QED
    BY <1>0, <1>1, <2>1, RestoreKeeps
<1>4. \A i \in Cosigners : Cosigner(k, i)' = msigs'[k].xpubs[i]
  BY <1>3, ReadBack
<1>. QED
  BY <1>2, <1>4 DEF Keeps

LEMMA KeyEventKeeps ==
    ASSUME TypeInv, KeyEvent, NEW k \in Ids PROVE Keeps(k, {})
<1>1. UNCHANGED <<tabs, active, msigs, form, workspace>>
  BY DEF KeyEvent, DeriveKey, RevealPrivate, ClearSecrets, msigVars, strip
<1>. QED
  BY <1>1 DEF Keeps, Cosigner, Live, InMsig, Id

LEMMA CosignerStep ==
    ASSUME TypeInv, Next, NEW k \in OpenMsigs, NEW i \in Cosigners,
           Cosigner(k, i)' # Cosigner(k, i)
    PROVE  \/ k = Id /\ \E t \in Texts : TypeXpub(i, t)
           \/ k = Id /\ \E j \in {i - 1, i} \cap Cosigners : MoveMsigKeyRow(j)
           \/ k = Id /\ (WipeActiveMsig \/ DeleteActiveMsig)
<1>0. MsigTypeOK /\ k \in Ids /\ ~Keeps(k, {})
  BY DEF TypeInv, MsigTypeOK, OpenMsigs, Keeps
<1>1. ASSUME NEW j \in Cosigners, NEW t \in Texts, TypeXpub(j, t)
      PROVE  k = Id /\ j = i
  <2>1. PICK f : /\ Edits(msigs[Id], f) /\ f.n = form.n
                 /\ \A x \in Cosigners : x # j => f.xpubs[x] = form.xpubs[x]
    BY <1>0, <1>1, TypeXpubEdits DEF EditsRow
  <2>2. Keeps(k, IF k = Id THEN {j} ELSE {})
    BY <1>0, <2>1, EditRowKeeps
  <2>. QED
    BY <1>0, <2>2 DEF Keeps
<1>2. ASSUME NEW j \in Cosigners, MoveMsigKeyRow(j)
      PROVE  k = Id /\ j \in {i - 1, i}
  <2>1. PICK f : /\ Edits(msigs[Id], f) /\ f.n = form.n
                 /\ \A x \in Cosigners : x \notin {j, j + 1} => f.xpubs[x] = form.xpubs[x]
    BY <1>0, <1>2, MoveEdits DEF MovesRow
  <2>2. Keeps(k, IF k = Id THEN {j, j + 1} ELSE {})
    BY <1>0, <2>1, EditRowKeeps
  <2>3. k = Id /\ i \in {j, j + 1}
    BY <1>0, <2>2 DEF Keeps
  <2>. QED
    BY <2>3, BoundAssumption DEF Cosigners
<1>3. ~(\/ EditsOthers \/ PanelClick \/ \E ok \in BOOLEAN : BuildMsig(ok)
        \/ \E h \in {"m", "n"}, v \in 1..MaxN : DragThreshold(h, v))
  BY <1>0, RestKeeps
<1>4. /\ ~ChoiceEvent
      /\ ~ \E h \in {"m", "n"}, v \in 1..MaxN : TypeThreshold(h, v)
  BY <1>0, <1>3, ChoiceEdits, ThresholdEdits
<1>5. ~KeyEvent /\ ~ \E w \in {"calc", "msig", "psbt"} : ShowWorkspace(w)
  BY <1>0, KeyEventKeeps, ShowWorkspaceKeeps
<1>6. TabEvent => k = Id /\ (WipeActiveMsig \/ DeleteActiveMsig)
  BY <1>0, TabKeeps
<1>7. \/ \E j \in Cosigners : MoveMsigKeyRow(j) \/ \E t \in Texts : TypeXpub(j, t)
      \/ TabEvent
  BY <1>3, <1>4, <1>5, Zenon DEF Next, ChoiceEvent, TabEvent, KeyEvent
<1>8. ASSUME NEW j \in Cosigners, MoveMsigKeyRow(j)
      PROVE  k = Id /\ \E x \in {i - 1, i} \cap Cosigners : MoveMsigKeyRow(x)
  BY <1>2, <1>8
<1>9. ASSUME NEW j \in Cosigners, NEW t \in Texts, TypeXpub(j, t)
      PROVE  k = Id /\ TypeXpub(i, t)
  BY <1>1, <1>9
<1>. QED
  BY <1>6, <1>7, <1>8, <1>9

\* No text of a co-signer is lost but by typing over it, moving it, wiping or
\* deleting its tab: not by a lower n, which hides it, and not by a switch
\* (hodlMergeMsigXpubs, hodlFillKeys).
THEOREM CosignersAlwaysSurvive == Spec => CosignersSurvive
<1>1. TypeInv /\ [Next]_vars =>
        [\A k \in OpenMsigs, i \in Cosigners :
           Cosigner(k, i)' # Cosigner(k, i) =>
              \/ k = Id /\ \E t \in Texts : TypeXpub(i, t)
              \/ k = Id /\ \E j \in {i - 1, i} \cap Cosigners : MoveMsigKeyRow(j)
              \/ k = Id /\ (WipeActiveMsig \/ DeleteActiveMsig)]_vars
  BY CosignerStep
<1>. QED
  BY <1>1, Init_Type, Next_Type, PTL DEF Spec, CosignersSurvive
=============================================================================
