-------------------------- MODULE KeyManagerProofs --------------------------
(***************************************************************************)
(* Proofs about the key manager, for any number of keys, methods, formats, *)
(* texts and settings.                                                     *)
(*   - What it keeps: its types, and with every text the result of that    *)
(*     text.                                                               *)
(*   - What it displays: an error never beside a result, private material  *)
(*     only by the reveal checkbox.  Both speak of the registers re, Ge    *)
(*     and err and of their copies in the state objects, and of nothing    *)
(*     else, so the steps are first reduced to what they do to those       *)
(*     (Shape): twenty events come down to nine shapes, and each theorem   *)
(*     is proved over the shapes.                                          *)
(*   - What it lets go: no text or passphrase cleared on pagehide comes    *)
(*     back to any place.                                                  *)
(*   - What it implements: KeyStore, where every key has an entry of its   *)
(*     own.  Every event is one operation of the store, or changes nothing *)
(*     that the store knows.                                               *)
(***************************************************************************)
EXTENDS KeyManagerRefinement, TLAPS

-----------------------------------------------------------------------------
(* The helpers on sequences, forms and state objects.                        *)

\* Removing a tab keeps the others in order.
LEMMA RemoveAtLemma ==
    ASSUME NEW S, NEW s \in Seq(S), NEW i \in 1..Len(s)
    PROVE  /\ RemoveAt(s, i) \in Seq(S)
           /\ Len(RemoveAt(s, i)) = Len(s) - 1
           /\ \A j \in 1..(Len(s) - 1) :
                RemoveAt(s, i)[j] = IF j < i THEN s[j] ELSE s[j + 1]
<1> DEFINE before == SubSeq(s, 1, i - 1)
           after == SubSeq(s, i + 1, Len(s))
<1>1. /\ before \in Seq(S) /\ Len(before) = i - 1
      /\ \A j \in 1..(i - 1) : before[j] = s[j]
  OBVIOUS
<1>2. /\ after \in Seq(S) /\ Len(after) = Len(s) - i
      /\ \A j \in 1..(Len(s) - i) : after[j] = s[j + i]
  OBVIOUS
<1>3. RemoveAt(s, i) = before \o after
  BY DEF RemoveAt
<1> HIDE DEF before, after
<1>4. /\ before \o after \in Seq(S)
      /\ Len(before \o after) = Len(s) - 1
      /\ \A j \in 1..(Len(s) - 1) :
           (before \o after)[j] = IF j < i THEN before[j] ELSE after[j - (i - 1)]
  <2> SUFFICES ASSUME NEW p \in Seq(S), NEW q \in Seq(S), p = before, q = after
               PROVE  /\ p \o q \in Seq(S)
                      /\ Len(p \o q) = Len(s) - 1
                      /\ \A j \in 1..(Len(s) - 1) :
                           (p \o q)[j] = IF j < i THEN p[j] ELSE q[j - (i - 1)]
    BY <1>1, <1>2
  <2>1. Len(p) = i - 1 /\ Len(q) = Len(s) - i
    BY <1>1, <1>2
  <2>2. /\ p \o q \in Seq(S) /\ Len(p \o q) = Len(p) + Len(q)
        /\ \A j \in 1..(Len(p) + Len(q)) :
             (p \o q)[j] = IF j <= Len(p) THEN p[j] ELSE q[j - Len(p)]
    OBVIOUS
  <2> QED
    BY <2>1, <2>2
<1>5. \A j \in 1..(Len(s) - 1) :
        (before \o after)[j] = IF j < i THEN s[j] ELSE s[j + 1]
  <2> SUFFICES ASSUME NEW j \in 1..(Len(s) - 1)
               PROVE  (before \o after)[j] = IF j < i THEN s[j] ELSE s[j + 1]
    OBVIOUS
  <2>1. CASE j < i
    BY <2>1, <1>1, <1>4
  <2>2. CASE ~(j < i)
    <3>1. j - (i - 1) \in 1..(Len(s) - i) /\ j - (i - 1) + i = j + 1
      BY <2>2
    <3>2. after[j - (i - 1)] = s[j + 1]
      BY <3>1, <1>2
    <3> QED
      BY <2>2, <3>2, <1>4
  <2> QED
    BY <2>1, <2>2
<1> QED
  BY <1>3, <1>4, <1>5

\* The form shown for a state object is a form, and shows that object's text.
LEMMA FormOfLemma ==
    ASSUME NEW s \in KeyState
    PROVE  /\ FormOf(s) \in Form
           /\ FormOf(s).slot = Shown(s.slot)
           /\ FormOf(s).text = s.fields[Shown(s.slot)]
           /\ Settings(FormOf(s)) = Settings(s)
  BY SlotAssumption DEF FormOf, Form, KeyState, Shown, Slots, Settings

\* What a capture writes into a state object.
LEMMA CapturedLemma ==
    ASSUME NEW s \in KeyState, NEW f \in Form, NEW r \in Result \cup {NoResult},
           NEW g \in BOOLEAN, NEW e \in BOOLEAN
    PROVE  LET c == Captured(s, f, r, g, e) IN
           /\ c \in KeyState
           /\ c.slot = f.slot /\ c.result = r /\ c.reveal = g /\ c.error = e
           /\ Settings(c) = Settings(f)
           /\ \A x \in Slots : c.fields[x] = IF x = f.slot THEN f.text ELSE s.fields[x]
  BY DEF Captured, KeyState, Form, Settings

\* After a capture the object's texts are its own but for the one on the form.
LEMMA CapturedFields ==
    ASSUME NEW s \in KeyState, NEW f \in Form, NEW r \in Result \cup {NoResult},
           NEW g \in BOOLEAN, NEW e \in BOOLEAN
    PROVE  \A x \in Slots : Captured(s, f, r, g, e).fields[x] =
                              IF x = f.slot THEN f.text ELSE s.fields[x]
  BY CapturedLemma

\* Dropping a result keeps the inputs.
LEMMA DroppedLemma ==
    ASSUME NEW s \in KeyState
    PROVE  LET d == Dropped(s) IN
           /\ d \in KeyState
           /\ d.slot = s.slot /\ d.fields = s.fields /\ Settings(d) = Settings(s)
           /\ d.result = NoResult
  BY DEF Dropped, KeyState, Settings

LEMMA NewKeyStateLemma ==
    /\ NewKeyState \in KeyState
    /\ NewKeyState.result = NoResult
  BY SlotAssumption, TextAssumption, SettingAssumption
     DEF NewKeyState, KeyState, Slots

LEMMA FilterKeyLemma ==
    ASSUME NEW t \in Texts, NEW d PROVE FilterKey(t, d) \in Texts
  BY TextAssumption DEF FilterKey

-----------------------------------------------------------------------------
(* Type correctness.                                                         *)

Areas == [KeyIds -> Texts \cup {NoArea}]

LEMMA IdLemma == KeyTypeOK => Id \in KeyIds /\ keys[Id] \in KeyState /\ form.slot \in Slots
  BY DEF KeyTypeOK, Id, Form

LEMMA CaptureKeyType ==
    KeyTypeOK => CaptureKey \in [KeyIds -> KeyState] /\ CaptureKey[Id] \in KeyState
  BY IdLemma, CapturedLemma DEF KeyTypeOK, CaptureKey

\* The variables a hand-over to state object s assigns keep their types.
LEMMA RestoreKeyType ==
    ASSUME NEW k \in KeyIds, NEW s \in KeyState,
           NEW ks \in [KeyIds -> KeyState], NEW as \in Areas,
           RestoreKey(k, s, ks, as)
    PROVE  /\ keys' \in [KeyIds -> KeyState] /\ form' \in Form
           /\ re' \in Result \cup {NoResult}
           /\ Ge' \in BOOLEAN /\ err' \in BOOLEAN /\ go' \in BOOLEAN
           /\ area' \in Areas
<1> DEFINE f == FormOf(s)
           t == [s EXCEPT !.slot = f.slot]
<1>1. f \in Form /\ f.slot \in Slots /\ f.text \in Texts
  BY FormOfLemma DEF Form
<1>2. t \in KeyState
  BY <1>1 DEF KeyState
<1>3. keys' = [ks EXCEPT ![k] = t] /\ form' = f
  BY DEF RestoreKey
<1>4. re' = s.result /\ Ge' = s.reveal /\ err' = s.error /\ go' = CanDerive(f)
  BY DEF RestoreKey
<1>5. area' = [as EXCEPT ![k] = IF f.slot \in Kinds THEN f.text ELSE @]
  BY DEF RestoreKey
<1>6. /\ s.result \in Result \cup {NoResult}
      /\ s.reveal \in BOOLEAN /\ s.error \in BOOLEAN
  BY DEF KeyState
<1>7. CanDerive(f) \in BOOLEAN
  BY DEF CanDerive
<1> HIDE DEF f, t
<1>8. keys' \in [KeyIds -> KeyState]
  BY <1>2, <1>3
<1>9. area' \in Areas
  BY <1>1, <1>5 DEF Areas
<1> QED
  BY <1>1, <1>3, <1>4, <1>6, <1>7, <1>8, <1>9

LEMMA InvalidatingEditType ==
    ASSUME KeyTypeOK, NEW s \in KeyState, NEW f \in Form, NEW e \in BOOLEAN,
           InvalidatingEdit(s, f, e)
    PROVE  /\ keys' \in [KeyIds -> KeyState] /\ form' \in Form
           /\ re' \in Result \cup {NoResult}
           /\ Ge' \in BOOLEAN /\ go' \in BOOLEAN
<1>1. Dropped(Captured(s, f, re, Ge, e)) \in KeyState
  BY CapturedLemma, DroppedLemma DEF KeyTypeOK
<1>2. CanDerive(f) \in BOOLEAN
  BY DEF CanDerive
<1> QED
  BY <1>1, <1>2 DEF InvalidatingEdit, KeyTypeOK

LEMMA SilentEditType ==
    ASSUME KeyTypeOK, NEW f \in Form, SilentEdit(f)
    PROVE  /\ keys' \in [KeyIds -> KeyState] /\ form' \in Form
           /\ re' \in Result \cup {NoResult}
           /\ Ge' \in BOOLEAN /\ err' \in BOOLEAN /\ go' \in BOOLEAN
<1>1. Captured(keys[Id], f, re, Ge, err) \in KeyState
  BY CapturedLemma, IdLemma DEF KeyTypeOK
<1>2. CanDerive(f) \in BOOLEAN
  BY DEF CanDerive
<1> QED
  BY <1>1, <1>2 DEF SilentEdit, KeyTypeOK

LEMMA RetypedType ==
    ASSUME KeyTypeOK, NEW t \in Texts PROVE Retyped(t) \in Areas
  BY IdLemma DEF Retyped, Areas, KeyTypeOK

\* The page starts well typed.
LEMMA InitType == Init => KeyTypeOK
<1> SUFFICES ASSUME Init PROVE KeyTypeOK
  OBVIOUS
<1>1. 1 \in KeyIds /\ 2 \in 1..(MaxId + 1)
  BY BoundAssumption DEF KeyIds
<1>2. <<1>> \in Seq(KeyIds) /\ Len(<<1>>) = 1
  BY <1>1
<1>3. FormOf(NewKeyState) \in Form
  BY FormOfLemma, NewKeyStateLemma
<1>4. keys \in [KeyIds -> KeyState]
  BY NewKeyStateLemma DEF Init
<1>5. /\ tabs \in Seq(KeyIds) /\ active \in 1..Len(tabs)
      /\ nextId \in 1..(MaxId + 1)
  BY <1>1, <1>2 DEF Init
<1>6. /\ re \in Result \cup {NoResult}
      /\ area \in [KeyIds -> Texts \cup {NoArea}]
      /\ Ge \in BOOLEAN /\ err \in BOOLEAN /\ go \in BOOLEAN
      /\ seen \subseteq Texts \cup Passes
  BY DEF Init
<1> QED
  BY <1>3, <1>4, <1>5, <1>6 DEF Init, KeyTypeOK

\* What the leaked network listeners leave in the state objects.
LEMMA RewrittenType ==
    ASSUME KeyTypeOK, NEW k \in KeyIds, Rewrites(k)
    PROVE  /\ KindNow \in Kinds /\ Rewritten(k) \in Texts
           /\ [keys[k] EXCEPT !.fields[KindNow] = Rewritten(k),
                  !.slot = IF @ \in Kinds THEN KindNow ELSE @] \in KeyState
<1>1. KindNow \in Kinds /\ KindNow \in Slots
  BY SlotAssumption, IdLemma DEF KindNow, Slots
<1>2. area[k] \in Texts
  BY DEF Rewrites, KeyTypeOK
<1>3. Rewritten(k) \in Texts
  BY <1>2, FilterKeyLemma DEF Rewritten
<1>4. keys[k] \in KeyState
  BY DEF KeyTypeOK
<1> QED
  BY <1>1, <1>3, <1>4 DEF KeyState

LEMMA NextType == KeyTypeOK /\ [Next]_vars => KeyTypeOK'
<1> SUFFICES ASSUME KeyTypeOK, [Next]_vars PROVE KeyTypeOK'
  OBVIOUS
<1>id. Id \in KeyIds /\ keys[Id] \in KeyState /\ form.slot \in Slots /\ form \in Form
  BY IdLemma DEF KeyTypeOK
<1>cap. CaptureKey \in [KeyIds -> KeyState] /\ CaptureKey[Id] \in KeyState
  BY CaptureKeyType
<1> USE DEF Areas
<1>1. ASSUME NEW t \in Texts, TypeText(t) PROVE KeyTypeOK'
  <2>1. [form EXCEPT !.text = t] \in Form
    BY <1>id DEF Form
  <2> QED
    BY <1>1, <1>id, <2>1, InvalidatingEditType DEF TypeText, Note, strip, KeyTypeOK
<1>2. ASSUME NEW t \in Texts, TypePrivateKey(t) PROVE KeyTypeOK'
  <2> DEFINE u == FilterKey(t, form.slot)
  <2>1. u \in Texts
    BY FilterKeyLemma
  <2>2. [form EXCEPT !.text = u] \in Form /\ Retyped(u) \in Areas
    BY <1>id, <2>1, RetypedType DEF Form
  <2> QED
    BY <1>2, <2>1, <2>2, SilentEditType DEF TypePrivateKey, Note, strip, KeyTypeOK
<1>3. ASSUME NEW t \in Texts, NEW d \in Kinds, PastePrivateKey(t, d) PROVE KeyTypeOK'
  <2> DEFINE u == FilterKey(t, d)
  <2>1. u \in Texts /\ d \in Slots
    BY FilterKeyLemma DEF Slots
  <2>2. [form EXCEPT !.slot = d, !.text = u] \in Form /\ Retyped(u) \in Areas
    BY <1>id, <2>1, RetypedType DEF Form
  <2> QED
    BY <1>3, <2>1, <2>2, SilentEditType DEF PastePrivateKey, Note, strip, KeyTypeOK
<1>4. ASSUME NEW d \in Kinds, ChooseKind(d) PROVE KeyTypeOK'
  <2> DEFINE c == CaptureKey[Id]
             u == FilterKey(c.fields[d], d)
             f == [form EXCEPT !.slot = d, !.text = u]
  <2>1. d \in Slots /\ u \in Texts
    BY <1>cap, FilterKeyLemma DEF Slots, KeyState
  <2>2. f \in Form /\ Retyped(u) \in Areas
    BY <1>id, <2>1, RetypedType DEF Form
  <2>3. Captured(c, f, re, Ge, err) \in KeyState
    BY <1>cap, <2>2, CapturedLemma DEF KeyTypeOK
  <2>4. CanDerive(f) \in BOOLEAN
    BY DEF CanDerive
  <2>5. /\ form' = f /\ go' = CanDerive(f) /\ area' = Retyped(u)
        /\ keys' = [keys EXCEPT ![Id] = Captured(c, f, re, Ge, err)]
        /\ UNCHANGED <<tabs, active, nextId, re, Ge, err, seen>>
    BY <1>4 DEF ChooseKind, strip
  <2> HIDE DEF c, u, f
  <2> QED
    BY <2>2, <2>3, <2>4, <2>5 DEF KeyTypeOK
<1>5. ASSUME NEW s \in Slots, SetMode(s) PROVE KeyTypeOK'
  <2> DEFINE c == CaptureKey[Id]
             f == [form EXCEPT !.slot = s, !.text = c.fields[s]]
  <2>1. f \in Form /\ f.text \in Texts
    BY <1>id, <1>cap DEF Form, KeyState
  <2>2. InvalidatingEdit(c, f, err) /\ UNCHANGED <<tabs, active, nextId, err, seen>>
    BY <1>5 DEF SetMode, strip
  <2>3. area' = [area EXCEPT ![Id] = IF s \in Kinds THEN f.text ELSE @]
    BY <1>5 DEF SetMode
  <2> HIDE DEF c, f
  <2>4. area' \in Areas
    BY <2>1, <2>3 DEF KeyTypeOK
  <2>5. c \in KeyState
    BY <1>cap DEF c
  <2> QED
    BY <2>1, <2>2, <2>4, <2>5, InvalidatingEditType DEF KeyTypeOK
<1>6. ASSUME NEW p \in Passes, TypePassphrase(p) PROVE KeyTypeOK'
  <2>1. [form EXCEPT !.pass = p] \in Form
    BY <1>id DEF Form
  <2> QED
    BY <1>6, <1>id, <2>1, InvalidatingEditType DEF TypePassphrase, Note, strip, KeyTypeOK
<1>7. ASSUME NEW o \in Opts, ChangeDerivation(o) PROVE KeyTypeOK'
  <2>1. [form EXCEPT !.opts = o] \in Form
    BY <1>id DEF Form
  <2> QED
    BY <1>7, <1>id, <2>1, InvalidatingEditType DEF ChangeDerivation, strip, KeyTypeOK
<1>s. ASSUME NEW o \in Opts, SetSeedLength(o) PROVE KeyTypeOK'
  <2>1. [form EXCEPT !.opts = o] \in Form
    BY <1>id DEF Form
  <2> QED
    BY <1>s, <1>cap, <2>1, InvalidatingEditType DEF SetSeedLength, strip, KeyTypeOK
<1>8. ASSUME NEW n \in Nets, ChangeNetwork(n) PROVE KeyTypeOK'
  <2> DEFINE ks == [k \in KeyIds |->
                      IF Rewrites(k)
                      THEN [keys[k] EXCEPT !.fields[KindNow] = Rewritten(k),
                               !.slot = IF @ \in Kinds THEN KindNow ELSE @]
                      ELSE keys[k]]
             f == [form EXCEPT !.net = n]
  <2>1. f \in Form
    BY <1>id DEF Form
  <2>2. ks \in [KeyIds -> KeyState]
    BY RewrittenType DEF KeyTypeOK
  <2>3. [k \in KeyIds |-> IF Rewrites(k) THEN Rewritten(k) ELSE area[k]] \in Areas
    BY RewrittenType DEF KeyTypeOK
  <2>4. /\ form' = f /\ go' = CanDerive(f)
        /\ keys' = [ks EXCEPT ![Id] = Dropped(Captured(@, f, re, Ge, err))]
        /\ area' = [k \in KeyIds |-> IF Rewrites(k) THEN Rewritten(k) ELSE area[k]]
        /\ re' = NoResult /\ Ge' = FALSE /\ err' = FALSE
        /\ UNCHANGED <<tabs, active, nextId, seen>>
    BY <1>8 DEF ChangeNetwork, strip
  <2>5. CanDerive(f) \in BOOLEAN
    BY DEF CanDerive
  <2> HIDE DEF ks, f
  <2>6. Dropped(Captured(ks[Id], f, re, Ge, err)) \in KeyState
    BY <1>id, <2>1, <2>2, CapturedLemma, DroppedLemma DEF KeyTypeOK
  <2>7. keys' \in [KeyIds -> KeyState]
    BY <2>2, <2>4, <2>6
  <2> QED
    BY <2>1, <2>3, <2>4, <2>5, <2>7 DEF KeyTypeOK
<1>9. CASE PanelClick
  BY <1>9, <1>id, SilentEditType DEF PanelClick, strip, KeyTypeOK
<1>10. ASSUME NEW b \in BOOLEAN, CalculateKey(b) PROVE KeyTypeOK'
  <2>1. /\ re' \in Result \cup {NoResult}
        /\ Ge' \in BOOLEAN /\ err' \in BOOLEAN /\ go' \in BOOLEAN
    BY <1>10, <1>id DEF CalculateKey, KeyTypeOK, Result, CanDerive
  <2>2. Captured(keys[Id], form, re', Ge', err') \in KeyState
    BY <1>id, <2>1, CapturedLemma
  <2>3. keys' = [keys EXCEPT ![Id] = Captured(@, form, re', Ge', err')]
    BY <1>10 DEF CalculateKey
  <2>4. keys' \in [KeyIds -> KeyState]
    BY <2>2, <2>3 DEF KeyTypeOK
  <2> QED
    BY <1>10, <2>1, <2>4 DEF CalculateKey, strip, KeyTypeOK
<1>11. ASSUME NEW b \in BOOLEAN, RevealPrivate(b) PROVE KeyTypeOK'
  BY <1>11 DEF RevealPrivate, strip, KeyTypeOK
<1>12. CASE WipeActiveKey
  <2>1. [area EXCEPT ![Id] = NoArea] \in Areas
    BY DEF KeyTypeOK
  <2> QED
    BY <1>12, <1>id, <2>1, NewKeyStateLemma, RestoreKeyType
       DEF WipeActiveKey, strip, KeyTypeOK
<1>13. CASE AddKey
  <2>1. /\ nextId \in KeyIds /\ RestoreKey(nextId, NewKeyState, CaptureKey, area)
        /\ tabs' = Append(tabs, nextId) /\ active' = Len(tabs) + 1
        /\ nextId' = nextId + 1 /\ seen' = seen
    BY <1>13 DEF AddKey
  <2>2. tabs' \in Seq(KeyIds) /\ active' \in 1..Len(tabs') /\ nextId' \in 1..(MaxId + 1)
    BY <2>1, BoundAssumption DEF KeyTypeOK, KeyIds
  <2> QED
    BY <1>cap, <2>1, <2>2, NewKeyStateLemma, RestoreKeyType DEF KeyTypeOK
<1>14. CASE DeleteActiveKey
  <2> DEFINE rest == RemoveAt(tabs, active)
             next == IF active <= Len(rest) THEN active ELSE Len(rest)
             ks == [keys EXCEPT ![Id] = NewKeyState]
             as == [area EXCEPT ![Id] = NoArea]
  <2>1. /\ Len(tabs) > 1 /\ tabs' = rest /\ active' = next
        /\ RestoreKey(rest[next], keys[rest[next]], ks, as)
        /\ UNCHANGED <<nextId, seen>>
    BY <1>14 DEF DeleteActiveKey
  <2>2. rest \in Seq(KeyIds) /\ Len(rest) = Len(tabs) - 1
    BY RemoveAtLemma DEF KeyTypeOK
  <2>3. Len(tabs) \in Nat /\ active \in 1..Len(tabs)
    BY DEF KeyTypeOK
  <2>4. next \in 1..Len(rest)
    BY <2>1, <2>2, <2>3
  <2>5. ks \in [KeyIds -> KeyState] /\ as \in Areas
    BY NewKeyStateLemma DEF KeyTypeOK
  <2> HIDE DEF rest, next, ks, as
  <2>6. rest[next] \in KeyIds
    BY <2>2, <2>4
  <2>7. keys[rest[next]] \in KeyState
    BY <2>6 DEF KeyTypeOK
  <2> QED
    BY <2>1, <2>2, <2>4, <2>5, <2>6, <2>7, RestoreKeyType DEF KeyTypeOK
<1>15. CASE ClearSecrets
  <2>1. [form EXCEPT !.text = Blank, !.pass = NoPass] \in Form
    BY <1>id, TextAssumption, SettingAssumption DEF Form
  <2> QED
    BY <1>15, <2>1, NewKeyStateLemma DEF ClearSecrets, strip, KeyTypeOK
<1>16. ASSUME NEW i \in 1..Len(tabs), SelectKey(i) PROVE KeyTypeOK'
  <2>1. tabs[i] \in KeyIds
    BY DEF KeyTypeOK
  <2>2. RestoreKey(tabs[i], CaptureKey[tabs[i]], CaptureKey, area)
    BY <1>16 DEF SelectKey
  <2> QED
    BY <1>16, <1>cap, <2>1, <2>2, RestoreKeyType DEF SelectKey, KeyTypeOK
<1>17. CASE UNCHANGED vars
  BY <1>17 DEF vars, KeyTypeOK
<1> QED
  BY <1>1, <1>2, <1>3, <1>4, <1>5, <1>6, <1>7, <1>s, <1>8, <1>9, <1>10, <1>11, <1>12,
     <1>13, <1>14, <1>15, <1>16, <1>17 DEF Next

\* Whatever the user does, tabs, cached objects, form and registers keep their
\* shape: the active index always names an open key.
THEOREM TypeCorrect == Spec => []KeyTypeOK
<1> QED
  BY InitType, NextType, PTL DEF Spec

-----------------------------------------------------------------------------
(* Results are current.  ResultsCurrent looks at the live registers for the  *)
(* active key and at the object for the others, so it does not tell enough   *)
(* of the object that is deleted, cleared or captured over.  The inductive   *)
(* invariant asks the same of the form and of EVERY object, open or not.     *)

\* Result w, if any, can come from form f.
Current(f, w) == w # NoResult => /\ Shown(w.slot) = Shown(f.slot)
                                 /\ Settings(w) = Settings(f)
                                 /\ f.slot \in Plain => w.text = f.text
ObjectCurrent(s) == Current(FormOf(s), s.result)

IInv == /\ KeyTypeOK
        /\ Current(form, re)
        /\ \A k \in KeyIds : ObjectCurrent(keys[k])

\* Showing a slot twice changes nothing more, and only formats are replaced.
LEMMA ShownLemma ==
    ASSUME NEW s \in Slots
    PROVE  /\ Shown(s) \in Slots /\ Shown(Shown(s)) = Shown(s)
           /\ s \in Plain => Shown(s) = s
           /\ Shown(s) \in Plain <=> s \in Plain
  BY SlotAssumption DEF Shown, Slots

\* A capture hands a current form over to a current object.
LEMMA CaptureCurrent ==
    ASSUME NEW s \in KeyState, NEW f \in Form, NEW r \in Result \cup {NoResult},
           NEW g \in BOOLEAN, NEW e \in BOOLEAN, Current(f, r)
    PROVE  ObjectCurrent(Captured(s, f, r, g, e))
<1> DEFINE c == Captured(s, f, r, g, e)
<1>1. /\ c \in KeyState /\ c.slot = f.slot /\ c.result = r
      /\ Settings(c) = Settings(f)
      /\ \A x \in Slots : c.fields[x] = IF x = f.slot THEN f.text ELSE s.fields[x]
  BY CapturedLemma
<1>2. f.slot \in Slots
  BY DEF Form
<1> HIDE DEF c
<1>3. /\ FormOf(c).slot = Shown(f.slot) /\ FormOf(c).text = c.fields[Shown(f.slot)]
      /\ Settings(FormOf(c)) = Settings(f)
  BY <1>1, FormOfLemma
<1>4. f.slot \in Plain => FormOf(c).text = f.text
  BY <1>1, <1>2, <1>3, ShownLemma
<1>5. Current(FormOf(c), r)
  BY <1>2, <1>3, <1>4, ShownLemma DEF Current
<1> QED
  BY <1>1, <1>5 DEF ObjectCurrent, c

\* An object without a result is current.
LEMMA DroppedCurrent ==
    /\ \A s \in KeyState : ObjectCurrent(Dropped(s))
    /\ ObjectCurrent(NewKeyState)
    /\ \A f : Current(f, NoResult)
  BY DroppedLemma, NewKeyStateLemma DEF ObjectCurrent, Current

\* A hand-over to a current object leaves a current form.
LEMMA RestoreCurrent ==
    ASSUME NEW k \in KeyIds, NEW s \in KeyState, NEW ks \in [KeyIds -> KeyState],
           NEW as, RestoreKey(k, s, ks, as), ObjectCurrent(s),
           \A x \in KeyIds \ {k} : ObjectCurrent(ks[x])
    PROVE  Current(form, re)' /\ \A x \in KeyIds : ObjectCurrent(keys'[x])
<1> DEFINE t == [s EXCEPT !.slot = FormOf(s).slot]
<1>1. keys' = [ks EXCEPT ![k] = t] /\ form' = FormOf(s) /\ re' = s.result
  BY DEF RestoreKey
<1>2. s.slot \in Slots
  BY DEF KeyState
<1>3. FormOf(s).slot = Shown(s.slot)
  BY FormOfLemma
<1>4. FormOf(t) = FormOf(s) /\ t.result = s.result
  BY <1>2, <1>3, ShownLemma DEF KeyState, FormOf
<1> HIDE DEF t
<1>5. Current(form', re')
  BY <1>1 DEF ObjectCurrent
<1>6. ObjectCurrent(t)
  BY <1>4 DEF ObjectCurrent
<1> QED
  BY <1>1, <1>5, <1>6 DEF Current

\* Dropping the result on an edit leaves form and object current.
LEMMA InvalidatingCurrent ==
    ASSUME IInv, NEW s \in KeyState, NEW f \in Form, NEW e \in BOOLEAN,
           InvalidatingEdit(s, f, e)
    PROVE  Current(form, re)' /\ \A x \in KeyIds : ObjectCurrent(keys'[x])
<1>1. Captured(s, f, re, Ge, e) \in KeyState
  BY CapturedLemma DEF IInv, KeyTypeOK
<1>2. ObjectCurrent(Dropped(Captured(s, f, re, Ge, e)))
  BY <1>1, DroppedCurrent
<1>3. /\ keys' = [keys EXCEPT ![Id] = Dropped(Captured(s, f, re, Ge, e))]
      /\ re' = NoResult
  BY DEF InvalidatingEdit
<1> QED
  BY <1>2, <1>3, DroppedCurrent DEF IInv, KeyTypeOK, Current

\* An edit the code drops nothing for is harmless when the shown method, the
\* settings and any plain text stay.
LEMMA SilentCurrent ==
    ASSUME IInv, NEW s \in KeyState, NEW f \in Form, Current(f, re), form' = f, re' = re,
           keys' = [keys EXCEPT ![Id] = Captured(s, f, re, Ge, err)]
    PROVE  Current(form, re)' /\ \A x \in KeyIds : ObjectCurrent(keys'[x])
<1>1. ObjectCurrent(Captured(s, f, re, Ge, err))
  BY CaptureCurrent DEF IInv, KeyTypeOK
<1> QED
  BY <1>1 DEF IInv, KeyTypeOK, Current

\* A private-key form stays current when format and text are changed.
LEMMA KindsCurrent ==
    ASSUME IInv, form.slot \in Kinds, NEW d \in Kinds, NEW t \in Texts
    PROVE  /\ [form EXCEPT !.slot = d, !.text = t] \in Form
           /\ Current([form EXCEPT !.slot = d, !.text = t], re)
  BY SlotAssumption DEF IInv, KeyTypeOK, Form, Current, Shown, Settings, Slots

LEMMA CurrentInit == Init => IInv
<1> SUFFICES ASSUME Init PROVE IInv
  OBVIOUS
<1>1. re = NoResult /\ \A k \in KeyIds : keys[k] = NewKeyState
  BY DEF Init
<1> QED
  BY <1>1, InitType, DroppedCurrent DEF IInv

LEMMA CurrentNext == IInv /\ [Next]_vars => IInv'
<1> SUFFICES ASSUME IInv, [Next]_vars
             PROVE  Current(form, re)' /\ \A x \in KeyIds : ObjectCurrent(keys'[x])
  BY NextType DEF IInv
<1>ty. KeyTypeOK
  BY DEF IInv
<1>id. Id \in KeyIds /\ keys[Id] \in KeyState /\ form.slot \in Slots /\ form \in Form
  BY <1>ty, IdLemma DEF KeyTypeOK
<1>cap. CaptureKey \in [KeyIds -> KeyState] /\ CaptureKey[Id] \in KeyState
  BY <1>ty, CaptureKeyType
<1>cur. Current(form, re) /\ \A k \in KeyIds : ObjectCurrent(keys[k])
  BY DEF IInv
<1>capcur. \A k \in KeyIds : ObjectCurrent(CaptureKey[k])
  <2>1. ObjectCurrent(Captured(keys[Id], form, re, Ge, err))
    BY <1>ty, <1>id, <1>cur, CaptureCurrent DEF KeyTypeOK
  <2> QED
    BY <2>1, <1>ty, <1>cur DEF CaptureKey, KeyTypeOK
<1>1. ASSUME NEW t \in Texts, TypeText(t)
      PROVE  Current(form, re)' /\ \A x \in KeyIds : ObjectCurrent(keys'[x])
  <2>1. [form EXCEPT !.text = t] \in Form
    BY <1>id DEF Form
  <2> QED
    BY <1>1, <1>ty, <1>id, <2>1, InvalidatingCurrent DEF TypeText, KeyTypeOK
<1>2. ASSUME NEW t \in Texts, TypePrivateKey(t)
      PROVE  Current(form, re)' /\ \A x \in KeyIds : ObjectCurrent(keys'[x])
  <2> DEFINE u == FilterKey(t, form.slot)
             f == [form EXCEPT !.text = u]
  <2>1. u \in Texts /\ form.slot \in Kinds
    BY <1>2, FilterKeyLemma DEF TypePrivateKey
  <2>2. f = [form EXCEPT !.slot = form.slot, !.text = u]
    BY <1>id DEF Form
  <2>3. f \in Form /\ Current(f, re)
    BY <2>1, <2>2, KindsCurrent
  <2>4. SilentEdit(f)
    BY <1>2 DEF TypePrivateKey
  <2> HIDE DEF f
  <2> QED
    BY <2>3, <2>4, <1>id, SilentCurrent DEF SilentEdit
<1>3. ASSUME NEW t \in Texts, NEW d \in Kinds, PastePrivateKey(t, d)
      PROVE  Current(form, re)' /\ \A x \in KeyIds : ObjectCurrent(keys'[x])
  <2> DEFINE f == [form EXCEPT !.slot = d, !.text = FilterKey(t, d)]
  <2>1. f \in Form /\ Current(f, re)
    BY <1>3, KindsCurrent, FilterKeyLemma DEF PastePrivateKey
  <2>2. SilentEdit(f)
    BY <1>3 DEF PastePrivateKey
  <2> HIDE DEF f
  <2> QED
    BY <2>1, <2>2, <1>id, SilentCurrent DEF SilentEdit
<1>4. ASSUME NEW d \in Kinds, ChooseKind(d)
      PROVE  Current(form, re)' /\ \A x \in KeyIds : ObjectCurrent(keys'[x])
  <2> DEFINE c == CaptureKey[Id]
             u == FilterKey(c.fields[d], d)
             f == [form EXCEPT !.slot = d, !.text = u]
  <2>1. u \in Texts
    BY <1>cap, FilterKeyLemma DEF Slots, KeyState
  <2>2. f \in Form /\ Current(f, re)
    BY <1>4, <2>1, KindsCurrent DEF ChooseKind
  <2>3. /\ form' = f /\ re' = re /\ c \in KeyState
        /\ keys' = [keys EXCEPT ![Id] = Captured(c, f, re, Ge, err)]
    BY <1>4, <1>cap DEF ChooseKind
  <2> HIDE DEF c, u, f
  <2> QED
    BY <2>2, <2>3, SilentCurrent
<1>5. ASSUME NEW s \in Slots, SetMode(s)
      PROVE  Current(form, re)' /\ \A x \in KeyIds : ObjectCurrent(keys'[x])
  <2> DEFINE f == [form EXCEPT !.slot = s, !.text = CaptureKey[Id].fields[s]]
  <2>1. f \in Form
    BY <1>id, <1>cap DEF Form, KeyState
  <2>2. InvalidatingEdit(CaptureKey[Id], f, err)
    BY <1>5 DEF SetMode
  <2> HIDE DEF f
  <2> QED
    BY <2>1, <2>2, <1>ty, <1>cap, InvalidatingCurrent DEF KeyTypeOK
<1>6. ASSUME NEW p \in Passes, TypePassphrase(p)
      PROVE  Current(form, re)' /\ \A x \in KeyIds : ObjectCurrent(keys'[x])
  <2>1. [form EXCEPT !.pass = p] \in Form
    BY <1>id DEF Form
  <2> QED
    BY <1>6, <1>ty, <1>id, <2>1, InvalidatingCurrent DEF TypePassphrase, KeyTypeOK
<1>7. ASSUME NEW o \in Opts, ChangeDerivation(o)
      PROVE  Current(form, re)' /\ \A x \in KeyIds : ObjectCurrent(keys'[x])
  <2>1. [form EXCEPT !.opts = o] \in Form
    BY <1>id DEF Form
  <2> QED
    BY <1>7, <1>ty, <1>id, <2>1, InvalidatingCurrent DEF ChangeDerivation, KeyTypeOK
<1>s. ASSUME NEW o \in Opts, SetSeedLength(o)
      PROVE  Current(form, re)' /\ \A x \in KeyIds : ObjectCurrent(keys'[x])
  <2>1. [form EXCEPT !.opts = o] \in Form
    BY <1>id DEF Form
  <2> QED
    BY <1>s, <1>cap, <2>1, InvalidatingCurrent DEF SetSeedLength
<1>8. ASSUME NEW n \in Nets, ChangeNetwork(n)
      PROVE  Current(form, re)' /\ \A x \in KeyIds : ObjectCurrent(keys'[x])
  <2> DEFINE rewrite(k) == [keys[k] EXCEPT !.fields[KindNow] = Rewritten(k),
                              !.slot = IF @ \in Kinds THEN KindNow ELSE @]
             ks == [k \in KeyIds |-> IF Rewrites(k) THEN rewrite(k) ELSE keys[k]]
             f == [form EXCEPT !.net = n]
  <2>1. f \in Form
    BY <1>id DEF Form
  <2>2. ks \in [KeyIds -> KeyState]
    BY <1>ty, RewrittenType DEF KeyTypeOK
  <2>3. ASSUME NEW k \in KeyIds, Rewrites(k) PROVE ObjectCurrent(rewrite(k))
    <3> DEFINE s == keys[k]
               r == rewrite(k)
    <3>1. KindNow \in Kinds /\ Rewritten(k) \in Texts /\ r \in KeyState /\ s \in KeyState
      BY <2>3, <1>ty, RewrittenType DEF KeyTypeOK
    <3>2. /\ r.result = s.result /\ Settings(r) = Settings(s)
          /\ r.slot = IF s.slot \in Kinds THEN KindNow ELSE s.slot
          /\ \A x \in Plain : r.fields[x] = s.fields[x]
      BY <3>1, SlotAssumption DEF KeyState, Settings, Slots
    <3>3. /\ FormOf(r).slot = Shown(r.slot) /\ FormOf(r).text = r.fields[Shown(r.slot)]
          /\ FormOf(s).slot = Shown(s.slot) /\ FormOf(s).text = s.fields[Shown(s.slot)]
          /\ Settings(FormOf(r)) = Settings(r) /\ Settings(FormOf(s)) = Settings(s)
      BY <3>1, FormOfLemma
    <3>4. ObjectCurrent(s)
      BY <1>cur
    <3>5. Shown(r.slot) = Shown(s.slot)
      BY <3>1, <3>2 DEF Shown
    <3> HIDE DEF r, s
    <3>6. ObjectCurrent(r)
      BY <3>2, <3>3, <3>4, <3>5 DEF ObjectCurrent, Current
    <3> QED
      BY <3>6 DEF r
  <2>4. \A k \in KeyIds : ObjectCurrent(ks[k])
    BY <2>3, <1>cur
  <2>5. /\ re' = NoResult
        /\ keys' = [ks EXCEPT ![Id] = Dropped(Captured(@, f, re, Ge, err))]
    BY <1>8 DEF ChangeNetwork
  <2> HIDE DEF ks, f
  <2>6. Captured(ks[Id], f, re, Ge, err) \in KeyState
    BY <1>ty, <1>id, <2>1, <2>2, CapturedLemma DEF KeyTypeOK
  <2>7. ObjectCurrent(Dropped(Captured(ks[Id], f, re, Ge, err)))
    BY <2>6, DroppedCurrent
  <2> QED
    BY <2>2, <2>4, <2>5, <2>7, DroppedCurrent
<1>9. ASSUME PanelClick
      PROVE  Current(form, re)' /\ \A x \in KeyIds : ObjectCurrent(keys'[x])
  BY <1>9, <1>id, <1>cur, SilentCurrent DEF PanelClick, SilentEdit
<1>10. ASSUME NEW b \in BOOLEAN, CalculateKey(b)
       PROVE  Current(form, re)' /\ \A x \in KeyIds : ObjectCurrent(keys'[x])
  <2>1. form' = form /\ Current(form, re')
    BY <1>10, <1>id DEF CalculateKey, Current
  <2>2. /\ re' \in Result \cup {NoResult}
        /\ Ge' \in BOOLEAN /\ err' \in BOOLEAN
    BY <1>10, <1>ty, <1>id DEF CalculateKey, KeyTypeOK, Result, CanDerive
  <2>3. ObjectCurrent(Captured(keys[Id], form, re', Ge', err'))
    BY <1>id, <2>1, <2>2, CaptureCurrent
  <2>4. keys' = [keys EXCEPT ![Id] = Captured(@, form, re', Ge', err')]
    BY <1>10 DEF CalculateKey
  <2> QED
    BY <1>ty, <1>cur, <2>1, <2>3, <2>4 DEF KeyTypeOK
<1>11. ASSUME NEW b \in BOOLEAN, RevealPrivate(b)
       PROVE  Current(form, re)' /\ \A x \in KeyIds : ObjectCurrent(keys'[x])
  BY <1>11, <1>cur DEF RevealPrivate
<1>12. ASSUME WipeActiveKey
       PROVE  Current(form, re)' /\ \A x \in KeyIds : ObjectCurrent(keys'[x])
  <2>1. RestoreKey(Id, NewKeyState, keys, [area EXCEPT ![Id] = NoArea])
    BY <1>12 DEF WipeActiveKey
  <2> QED
    BY <2>1, <1>ty, <1>id, <1>cur, NewKeyStateLemma, DroppedCurrent, RestoreCurrent
       DEF KeyTypeOK
<1>13. ASSUME AddKey
       PROVE  Current(form, re)' /\ \A x \in KeyIds : ObjectCurrent(keys'[x])
  <2>1. nextId \in KeyIds /\ RestoreKey(nextId, NewKeyState, CaptureKey, area)
    BY <1>13 DEF AddKey
  <2> QED
    BY <2>1, <1>cap, <1>capcur, NewKeyStateLemma, DroppedCurrent, RestoreCurrent
<1>14. ASSUME DeleteActiveKey
       PROVE  Current(form, re)' /\ \A x \in KeyIds : ObjectCurrent(keys'[x])
  <2> DEFINE rest == RemoveAt(tabs, active)
             next == IF active <= Len(rest) THEN active ELSE Len(rest)
             ks == [keys EXCEPT ![Id] = NewKeyState]
  <2>1. /\ Len(tabs) > 1
        /\ RestoreKey(rest[next], keys[rest[next]], ks, [area EXCEPT ![Id] = NoArea])
    BY <1>14 DEF DeleteActiveKey
  <2>2. rest \in Seq(KeyIds) /\ Len(rest) = Len(tabs) - 1
    BY <1>ty, RemoveAtLemma DEF KeyTypeOK
  <2>3. Len(tabs) \in Nat /\ active \in 1..Len(tabs)
    BY <1>ty DEF KeyTypeOK
  <2>4. next \in 1..Len(rest)
    BY <2>1, <2>2, <2>3
  <2>5. /\ ks \in [KeyIds -> KeyState]
        /\ \A k \in KeyIds : ObjectCurrent(ks[k])
    BY <1>ty, <1>cur, NewKeyStateLemma, DroppedCurrent DEF KeyTypeOK
  <2> HIDE DEF rest, next, ks
  <2>6. rest[next] \in KeyIds
    BY <2>2, <2>4
  <2> QED
    BY <1>ty, <1>cur, <2>1, <2>5, <2>6, RestoreCurrent DEF KeyTypeOK
<1>15. ASSUME ClearSecrets
       PROVE  Current(form, re)' /\ \A x \in KeyIds : ObjectCurrent(keys'[x])
  BY <1>15, DroppedCurrent DEF ClearSecrets
<1>16. ASSUME NEW i \in 1..Len(tabs), SelectKey(i)
       PROVE  Current(form, re)' /\ \A x \in KeyIds : ObjectCurrent(keys'[x])
  <2>1. RestoreKey(tabs[i], CaptureKey[tabs[i]], CaptureKey, area)
    BY <1>16 DEF SelectKey
  <2>2. tabs[i] \in KeyIds
    BY <1>ty DEF KeyTypeOK
  <2> QED
    BY <1>cap, <1>capcur, <2>1, <2>2, RestoreCurrent
<1>17. CASE UNCHANGED vars
  BY <1>17, <1>cur DEF vars
<1> QED
  BY <1>1, <1>2, <1>3, <1>4, <1>5, <1>6, <1>7, <1>s, <1>8, <1>9, <1>10, <1>11, <1>12,
     <1>13, <1>14, <1>15, <1>16, <1>17 DEF Next

\* The invariant says of each open key what ResultsCurrent asks.
LEMMA CurrentImplies == IInv => ResultsCurrent
<1> SUFFICES ASSUME IInv, NEW k \in OpenKeys, ResultOf(k) # NoResult
             PROVE  DerivesFrom(InputOf(k), ResultOf(k))
  BY DEF ResultsCurrent
<1>1. k \in KeyIds /\ form.slot \in Slots /\ keys[k] \in KeyState
  BY IdLemma DEF IInv, KeyTypeOK, OpenKeys
<1>2. CASE Live(k)
  <2>1. /\ InputOf(k).slot = Shown(form.slot)
        /\ InputOf(k).settings = Settings(form)
        /\ form.slot \in Plain => InputOf(k).fields[form.slot] = form.text
    BY <1>2 DEF InputOf, SlotOf, FieldOf
  <2>2. Current(form, ResultOf(k))
    BY <1>2 DEF IInv, ResultOf
  <2> QED
    BY <1>1, <2>1, <2>2, ShownLemma DEF Current, DerivesFrom
<1>3. CASE ~Live(k)
  <2> DEFINE s == keys[k]
  <2>1. /\ InputOf(k).slot = Shown(s.slot)
        /\ InputOf(k).settings = Settings(s)
        /\ \A x \in Plain : InputOf(k).fields[x] = s.fields[x]
    BY <1>3 DEF InputOf, SlotOf, FieldOf
  <2>2. Current(FormOf(s), ResultOf(k))
    BY <1>1, <1>3 DEF IInv, ResultOf, ObjectCurrent
  <2>3. s.slot \in Slots
    BY <1>1 DEF KeyState
  <2> QED
    BY <1>1, <2>1, <2>2, <2>3, FormOfLemma, ShownLemma DEF Current, DerivesFrom
<1> QED
  BY <1>2, <1>3

\* No key, open in the form or parked behind a tab, ever shows or keeps a
\* wallet that its present inputs would not derive.
THEOREM ResultsStayCurrent == Spec => []ResultsCurrent
<1> QED
  BY CurrentInit, CurrentNext, CurrentImplies, PTL DEF Spec

-----------------------------------------------------------------------------
(* The shapes of an event: what it does to the registers re, Ge and err and  *)
(* to their copies.                                                          *)

\* Two objects with the same copies of the registers; one that has r, g and e.
Holds(s, r, g, e) == s.result = r /\ s.reveal = g /\ s.error = e
Alike(s, t) == Holds(s, t.result, t.reveal, t.error)
OthersAlike(ks, K) == \A k \in KeyIds \ K : Alike(keys'[k], ks[k])

DropsResult ==
    /\ UNCHANGED strip
    /\ re' = NoResult /\ Ge' = FALSE /\ (err' => err)
    /\ keys'[Id].result = NoResult
    /\ OthersAlike(keys, {Id})
KeepsResult ==
    /\ UNCHANGED <<tabs, active, nextId, re, Ge, err>>
    /\ Holds(keys'[Id], re, Ge, err)
    /\ OthersAlike(keys, {Id})
Derives ==
    /\ UNCHANGED strip
    /\ (err' \/ Ge') => re' = NoResult
    /\ Holds(keys'[Id], re', Ge', err')
    /\ OthersAlike(keys, {Id})
Reveals(b) == RevealPrivate(b)
Wipes ==
    /\ UNCHANGED strip
    /\ re' = NoResult /\ Holds(keys'[Id], NoResult, FALSE, FALSE)
    /\ OthersAlike(keys, {Id})
Selects(i) ==
    /\ UNCHANGED <<tabs, nextId>> /\ active' = i
    /\ Holds(keys'[tabs[i]], re', Ge', err') /\ Alike(keys'[tabs[i]], CaptureKey[tabs[i]])
    /\ OthersAlike(CaptureKey, {tabs[i]})
Adds ==
    /\ tabs' = Append(tabs, nextId) /\ active' = Len(tabs) + 1 /\ nextId' = nextId + 1
    /\ nextId \in KeyIds
    /\ re' = NoResult /\ Holds(keys'[nextId], NoResult, FALSE, FALSE)
    /\ OthersAlike(CaptureKey, {nextId})
Deletes ==
    /\ tabs' = RemoveAt(tabs, active) /\ nextId' = nextId /\ Len(tabs) > 1
    /\ active' \in 1..Len(tabs')
    /\ Holds(keys'[Id'], re', Ge', err') /\ Alike(keys'[Id'], keys[Id'])
    /\ Id' # Id => Holds(keys'[Id], NoResult, FALSE, FALSE)
    /\ OthersAlike(keys, {Id, Id'})
Clears ==
    /\ UNCHANGED strip
    /\ re' = NoResult /\ \A k \in KeyIds : Holds(keys'[k], NoResult, FALSE, FALSE)

Shape ==
    \/ DropsResult \/ KeepsResult \/ Derives \/ \E b \in BOOLEAN : Reveals(b)
    \/ Wipes \/ \E i \in 1..Len(tabs) : Selects(i)
    \/ Adds \/ Deletes \/ Clears

-----------------------------------------------------------------------------
(* Every event has one of the shapes. *)

LEMMA CapturedHolds ==
    ASSUME NEW s \in KeyState, NEW f \in Form, NEW r \in Result \cup {NoResult},
           NEW g \in BOOLEAN, NEW e \in BOOLEAN
    PROVE  /\ Holds(Captured(s, f, r, g, e), r, g, e)
           /\ Dropped(Captured(s, f, r, g, e)).result = NoResult
BY CapturedLemma, DroppedLemma DEF Holds

LEMMA NewHolds == Holds(NewKeyState, NoResult, FALSE, FALSE)
BY DEF Holds, NewKeyState

LEMMA RestoreHolds ==
    ASSUME NEW k \in KeyIds, NEW s \in KeyState, NEW ks \in [KeyIds -> KeyState],
           NEW as, RestoreKey(k, s, ks, as)
    PROVE  /\ re' = s.result /\ Holds(keys'[k], re', Ge', err') /\ Alike(keys'[k], s)
           /\ OthersAlike(ks, {k})
<1>1. /\ keys' = [ks EXCEPT ![k] = [s EXCEPT !.slot = FormOf(s).slot]]
      /\ re' = s.result /\ Ge' = s.reveal /\ err' = s.error
  BY DEF RestoreKey
<1>. QED
  BY <1>1 DEF Holds, Alike, OthersAlike, KeyState

LEMMA EditDrops ==
    ASSUME KeyTypeOK, NEW s \in KeyState, NEW f \in Form, NEW e \in BOOLEAN,
           InvalidatingEdit(s, f, e), err' => err, UNCHANGED strip
    PROVE  DropsResult
<1>1. /\ keys' = [keys EXCEPT ![Id] = Dropped(Captured(s, f, re, Ge, e))]
      /\ re' = NoResult /\ Ge' = FALSE
  BY DEF InvalidatingEdit
<1>2. Dropped(Captured(s, f, re, Ge, e)).result = NoResult
  BY CapturedHolds, ZenonT(30) DEF KeyTypeOK
<1>. QED
  BY <1>1, <1>2, IdLemma DEF DropsResult, OthersAlike, Alike, Holds, KeyTypeOK

LEMMA EditKeeps ==
    ASSUME KeyTypeOK, NEW s \in KeyState, NEW f \in Form,
           keys' = [keys EXCEPT ![Id] = Captured(s, f, re, Ge, err)],
           UNCHANGED <<tabs, active, nextId, re, Ge, err>>
    PROVE  KeepsResult
<1>1. Holds(Captured(s, f, re, Ge, err), re, Ge, err)
  BY CapturedHolds DEF KeyTypeOK
<1>. QED
  BY <1>1, IdLemma DEF KeepsResult, OthersAlike, Alike, Holds, KeyTypeOK

LEMMA NetworkDrops ==
    ASSUME KeyTypeOK, NEW n \in Nets, ChangeNetwork(n)
    PROVE  DropsResult
<1>. DEFINE rewrite(k) == [keys[k] EXCEPT !.fields[KindNow] = Rewritten(k),
                             !.slot = IF @ \in Kinds THEN KindNow ELSE @]
            ks == [k \in KeyIds |-> IF Rewrites(k) THEN rewrite(k) ELSE keys[k]]
            f == [form EXCEPT !.net = n]
<1>1. f \in Form
  BY DEF KeyTypeOK, Form
<1>2. ks \in [KeyIds -> KeyState]
  BY RewrittenType DEF KeyTypeOK
<1>3. \A k \in KeyIds : Alike(ks[k], keys[k])
  BY DEF Alike, Holds, KeyTypeOK, KeyState
<1>4. /\ re' = NoResult /\ Ge' = FALSE /\ err' = FALSE /\ UNCHANGED strip
      /\ keys' = [ks EXCEPT ![Id] = Dropped(Captured(@, f, re, Ge, err))]
  BY DEF ChangeNetwork
<1>. HIDE DEF ks, f
<1>5. Id \in KeyIds
  BY IdLemma
<1>6. Dropped(Captured(ks[Id], f, re, Ge, err)).result = NoResult
  BY <1>1, <1>2, <1>5, CapturedHolds DEF KeyTypeOK
<1>7. keys'[Id].result = NoResult /\ \A k \in KeyIds \ {Id} : keys'[k] = ks[k]
  BY <1>2, <1>4, <1>5, <1>6
<1>. QED
  BY <1>3, <1>4, <1>7 DEF DropsResult, OthersAlike

LEMMA CalculateDerives ==
    ASSUME KeyTypeOK, NEW b \in BOOLEAN, CalculateKey(b)
    PROVE  Derives
<1>1. /\ re' \in Result \cup {NoResult} /\ Ge' \in BOOLEAN /\ err' \in BOOLEAN
      /\ (err' \/ Ge') => re' = NoResult
      /\ keys' = [keys EXCEPT ![Id] = Captured(@, form, re', Ge', err')]
      /\ UNCHANGED strip
  BY DEF CalculateKey, KeyTypeOK, Result
<1>2. ASSUME NEW r \in Result \cup {NoResult}, NEW g \in BOOLEAN, NEW e \in BOOLEAN
      PROVE  Holds(Captured(keys[Id], form, r, g, e), r, g, e)
  <2>1. keys[Id] \in KeyState /\ form \in Form
    BY IdLemma DEF KeyTypeOK
  <2>. QED
    BY <1>2, <2>1, CapturedHolds
<1>3. Holds(Captured(keys[Id], form, re', Ge', err'), re', Ge', err')
  BY <1>1, <1>2
<1>. QED
  BY <1>1, <1>3, IdLemma DEF Derives, OthersAlike, Alike, Holds, KeyTypeOK

LEMMA DeleteDeletes ==
    ASSUME KeyTypeOK, DeleteActiveKey
    PROVE  Deletes
<1>. DEFINE rest == RemoveAt(tabs, active)
            next == IF active <= Len(rest) THEN active ELSE Len(rest)
            ks == [keys EXCEPT ![Id] = NewKeyState]
<1>1. /\ Len(tabs) > 1 /\ tabs' = rest /\ active' = next /\ nextId' = nextId
      /\ RestoreKey(rest[next], keys[rest[next]], ks, [area EXCEPT ![Id] = NoArea])
  BY DEF DeleteActiveKey
<1>2. rest \in Seq(KeyIds) /\ Len(rest) = Len(tabs) - 1
  BY RemoveAtLemma DEF KeyTypeOK
<1>3. next \in 1..Len(rest)
  BY <1>1, <1>2 DEF KeyTypeOK
<1>4. Id \in KeyIds /\ ks \in [KeyIds -> KeyState]
  BY IdLemma, NewKeyStateLemma DEF KeyTypeOK
<1>5. ks[Id] = NewKeyState /\ \A k \in KeyIds \ {Id} : ks[k] = keys[k]
  BY <1>4 DEF KeyTypeOK
<1>. HIDE DEF rest, next, ks
<1>6. Id' = rest[next]
  BY <1>1 DEF Id
<1>7. rest[next] \in KeyIds
  BY <1>2, <1>3
<1>8. keys[rest[next]] \in KeyState
  BY <1>7 DEF KeyTypeOK
<1>9. /\ Holds(keys'[Id'], re', Ge', err') /\ Alike(keys'[Id'], keys[Id'])
      /\ OthersAlike(ks, {Id'})
  BY <1>1, <1>4, <1>6, <1>7, <1>8, RestoreHolds
<1>10. OthersAlike(keys, {Id, Id'})
  BY <1>5, <1>9 DEF OthersAlike
<1>11. Id' # Id => Holds(keys'[Id], NoResult, FALSE, FALSE)
  BY <1>4, <1>5, <1>9, NewHolds DEF OthersAlike, Alike, Holds
<1>12. tabs' = RemoveAt(tabs, active) /\ active' \in 1..Len(tabs')
  BY <1>1, <1>3 DEF rest
<1>. QED
  BY <1>1, <1>9, <1>10, <1>11, <1>12 DEF Deletes

LEMMA NextShape == KeyTypeOK /\ Next => Shape
<1>. SUFFICES ASSUME KeyTypeOK, Next PROVE Shape
  OBVIOUS
<1>id. Id \in KeyIds /\ keys[Id] \in KeyState /\ form.slot \in Slots /\ form \in Form
  BY IdLemma DEF KeyTypeOK
<1>cap. CaptureKey \in [KeyIds -> KeyState] /\ CaptureKey[Id] \in KeyState
  BY CaptureKeyType
<1>b. err \in BOOLEAN
  BY DEF KeyTypeOK
<1>1. ASSUME NEW t \in Texts, TypeText(t) PROVE Shape
  <2>1. [form EXCEPT !.text = t] \in Form
    BY <1>id DEF Form
  <2>. QED
    BY <1>1, <1>id, <1>b, <2>1, EditDrops DEF TypeText, Shape
<1>2. ASSUME NEW t \in Texts, TypePrivateKey(t) PROVE Shape
  <2>1. [form EXCEPT !.text = FilterKey(t, form.slot)] \in Form
    BY <1>id, FilterKeyLemma DEF Form
  <2>. QED
    BY <1>2, <1>id, <2>1, EditKeeps DEF TypePrivateKey, SilentEdit, strip, Shape
<1>3. ASSUME NEW t \in Texts, NEW d \in Kinds, PastePrivateKey(t, d) PROVE Shape
  <2>1. [form EXCEPT !.slot = d, !.text = FilterKey(t, d)] \in Form
    BY <1>id, FilterKeyLemma DEF Form, Slots
  <2>. QED
    BY <1>3, <1>id, <2>1, EditKeeps DEF PastePrivateKey, SilentEdit, strip, Shape
<1>4. ASSUME NEW d \in Kinds, ChooseKind(d) PROVE Shape
  <2>. DEFINE f == [form EXCEPT !.slot = d, !.text = FilterKey(CaptureKey[Id].fields[d], d)]
  <2>1. f \in Form
    BY <1>id, <1>cap, FilterKeyLemma DEF Form, Slots, KeyState
  <2>2. /\ keys' = [keys EXCEPT ![Id] = Captured(CaptureKey[Id], f, re, Ge, err)]
        /\ UNCHANGED <<tabs, active, nextId, re, Ge, err>>
    BY <1>4 DEF ChooseKind, strip
  <2>. HIDE DEF f
  <2>. QED
    BY <1>cap, <2>1, <2>2, EditKeeps DEF Shape
<1>5. ASSUME NEW s \in Slots, SetMode(s) PROVE Shape
  <2>. DEFINE f == [form EXCEPT !.slot = s, !.text = CaptureKey[Id].fields[s]]
  <2>1. f \in Form
    BY <1>id, <1>cap DEF Form, KeyState
  <2>2. InvalidatingEdit(CaptureKey[Id], f, err) /\ UNCHANGED strip /\ err' = err
    BY <1>5 DEF SetMode
  <2>. HIDE DEF f
  <2>. QED
    BY <1>cap, <1>b, <2>1, <2>2, EditDrops DEF Shape
<1>6. ASSUME NEW p \in Passes, TypePassphrase(p) PROVE Shape
  <2>1. [form EXCEPT !.pass = p] \in Form
    BY <1>id DEF Form
  <2>. QED
    BY <1>6, <1>id, <1>b, <2>1, EditDrops DEF TypePassphrase, Shape
<1>7. ASSUME NEW o \in Opts, ChangeDerivation(o) PROVE Shape
  <2>1. [form EXCEPT !.opts = o] \in Form
    BY <1>id DEF Form
  <2>. QED
    BY <1>7, <1>id, <1>b, <2>1, EditDrops DEF ChangeDerivation, Shape
<1>s. ASSUME NEW o \in Opts, SetSeedLength(o) PROVE Shape
  <2>1. [form EXCEPT !.opts = o] \in Form
    BY <1>id DEF Form
  <2>. QED
    BY <1>s, <1>cap, <2>1, EditDrops DEF SetSeedLength, Shape
<1>8. ASSUME NEW n \in Nets, ChangeNetwork(n) PROVE Shape
  BY <1>8, NetworkDrops DEF Shape
<1>9. CASE PanelClick
  BY <1>9, <1>id, EditKeeps DEF PanelClick, SilentEdit, strip, Shape
<1>10. ASSUME NEW b \in BOOLEAN, CalculateKey(b) PROVE Shape
  BY <1>10, CalculateDerives DEF Shape
<1>11. ASSUME NEW b \in BOOLEAN, RevealPrivate(b) PROVE Shape
  BY <1>11 DEF Reveals, Shape
<1>12. CASE WipeActiveKey
  <2>1. RestoreKey(Id, NewKeyState, keys, [area EXCEPT ![Id] = NoArea]) /\ UNCHANGED strip
    BY <1>12 DEF WipeActiveKey
  <2>2. /\ re' = NoResult /\ Alike(keys'[Id], NewKeyState) /\ OthersAlike(keys, {Id})
    BY <2>1, <1>id, NewKeyStateLemma, RestoreHolds DEF KeyTypeOK
  <2>. QED
    BY <2>1, <2>2, NewHolds DEF Wipes, Alike, Holds, Shape
<1>13. CASE AddKey
  <2>1. /\ nextId \in KeyIds /\ RestoreKey(nextId, NewKeyState, CaptureKey, area)
        /\ tabs' = Append(tabs, nextId) /\ active' = Len(tabs) + 1 /\ nextId' = nextId + 1
    BY <1>13 DEF AddKey
  <2>2. /\ re' = NoResult /\ Alike(keys'[nextId], NewKeyState)
        /\ OthersAlike(CaptureKey, {nextId})
    BY <2>1, <1>cap, NewKeyStateLemma, RestoreHolds
  <2>. QED
    BY <2>1, <2>2, NewHolds DEF Adds, Alike, Holds, Shape
<1>14. CASE DeleteActiveKey
  BY <1>14, DeleteDeletes DEF Shape
<1>15. CASE ClearSecrets
  BY <1>15, NewHolds DEF ClearSecrets, Clears, Shape
<1>16. ASSUME NEW i \in 1..Len(tabs), SelectKey(i) PROVE Shape
  <2>1. /\ RestoreKey(tabs[i], CaptureKey[tabs[i]], CaptureKey, area)
        /\ UNCHANGED <<tabs, nextId>> /\ active' = i
    BY <1>16 DEF SelectKey
  <2>2. tabs[i] \in KeyIds
    BY DEF KeyTypeOK
  <2>3. /\ Holds(keys'[tabs[i]], re', Ge', err') /\ Alike(keys'[tabs[i]], CaptureKey[tabs[i]])
        /\ OthersAlike(CaptureKey, {tabs[i]})
    BY <2>1, <2>2, <1>cap, RestoreHolds
  <2>. QED
    BY <2>1, <2>3 DEF Selects, Shape
<1>. QED
  BY <1>1, <1>2, <1>3, <1>4, <1>5, <1>6, <1>7, <1>s, <1>8, <1>9, <1>10, <1>11, <1>12,
     <1>13, <1>14, <1>15, <1>16 DEF Next

\* The capture changes the copies of the active key only, to the registers.
LEMMA CaptureKeyHolds ==
    KeyTypeOK => /\ Holds(CaptureKey[Id], re, Ge, err)
              /\ \A k \in KeyIds \ {Id} : CaptureKey[k] = keys[k]
<1>. SUFFICES ASSUME KeyTypeOK
              PROVE  /\ Holds(CaptureKey[Id], re, Ge, err)
                     /\ \A k \in KeyIds \ {Id} : CaptureKey[k] = keys[k]
  OBVIOUS
<1>1. Holds(Captured(keys[Id], form, re, Ge, err), re, Ge, err)
  BY IdLemma, CapturedHolds DEF KeyTypeOK
<1>. QED
  BY <1>1, IdLemma DEF CaptureKey, KeyTypeOK

-----------------------------------------------------------------------------
(* An error never beside a result.  ErrorOrResult lets the object of a key   *)
(* that is not open keep anything, and the active object anything while a    *)
(* result is absent; the invariant asks it of every object.                  *)

Apart(s) == s.error => s.result = NoResult
EInv == /\ err => re = NoResult
        /\ keys[Id].error => re = NoResult
        /\ \A k \in KeyIds : Apart(keys[k])

LEMMA ApartInit == Init => EInv
BY DEF Init, EInv, Apart, NewKeyState

LEMMA ApartNext == KeyTypeOK /\ EInv /\ [Next]_vars => EInv'
<1>. SUFFICES ASSUME KeyTypeOK, EInv, [Next]_vars PROVE EInv'
  OBVIOUS
<1>id. Id \in KeyIds
  BY IdLemma
<1>cap. \A k \in KeyIds : Apart(CaptureKey[k])
  BY CaptureKeyHolds DEF EInv, Apart, Holds
<1>1. CASE DropsResult
  <2>1. Id' = Id
    BY <1>1 DEF DropsResult, strip, Id
  <2>. QED
    BY <1>1, <1>id, <2>1 DEF DropsResult, EInv, Apart, OthersAlike, Alike, Holds
<1>2. CASE KeepsResult
  <2>1. Id' = Id
    BY <1>2 DEF KeepsResult, Id
  <2>. QED
    BY <1>2, <1>id, <2>1 DEF KeepsResult, EInv, Apart, OthersAlike, Alike, Holds
<1>3. CASE Derives
  <2>1. Id' = Id
    BY <1>3 DEF Derives, strip, Id
  <2>. QED
    BY <1>3, <1>id, <2>1 DEF Derives, EInv, Apart, OthersAlike, Alike, Holds
<1>4. ASSUME NEW b \in BOOLEAN, Reveals(b) PROVE EInv'
  BY <1>4 DEF Reveals, RevealPrivate, strip, EInv, Apart, Id
<1>5. CASE Wipes
  BY <1>5, <1>id DEF Wipes, EInv, Apart, OthersAlike, Alike, Holds
<1>6. ASSUME NEW i \in 1..Len(tabs), Selects(i) PROVE EInv'
  <2>1. Id' = tabs[i] /\ tabs[i] \in KeyIds
    BY <1>6 DEF Selects, Id, KeyTypeOK
  <2>2. \A k \in KeyIds : Alike(keys'[k], CaptureKey[k])
    BY <1>6 DEF Selects, OthersAlike
  <2>3. \A k \in KeyIds : Apart(keys'[k])
    BY <1>cap, <2>2 DEF Apart, Alike, Holds
  <2>4. keys'[Id'].error = err' /\ keys'[Id'].result = re'
    BY <1>6, <2>1 DEF Selects, Holds
  <2>. QED
    BY <2>1, <2>3, <2>4 DEF EInv, Apart
<1>7. CASE Adds
  BY <1>7, <1>cap DEF Adds, EInv, Apart, OthersAlike, Alike, Holds
<1>8. CASE Deletes
  <2>1. Id' \in KeyIds
    BY <1>8, RemoveAtLemma DEF Deletes, Id, KeyTypeOK
  <2>2. \A k \in KeyIds : Apart(keys'[k])
    BY <1>8, <2>1 DEF Deletes, EInv, Apart, OthersAlike, Alike, Holds
  <2>3. keys'[Id'].error = err' /\ keys'[Id'].result = re'
    BY <1>8 DEF Deletes, Holds
  <2>. QED
    BY <2>1, <2>2, <2>3 DEF EInv, Apart
<1>9. CASE Clears
  BY <1>9 DEF Clears, EInv, Apart, Holds
<1>10. CASE UNCHANGED vars
  BY <1>10 DEF vars, EInv, Apart, Id
<1>. QED
  BY <1>1, <1>2, <1>3, <1>4, <1>5, <1>6, <1>7, <1>8, <1>9, <1>10, NextShape DEF Shape

LEMMA ApartImplies == KeyTypeOK /\ EInv => ErrorOrResult
BY DEF EInv, Apart, ErrorOrResult, ResultOf, Live, OpenKeys, KeyTypeOK

\* A message on the error line never stands beside a result, on screen or in
\* what is kept for a key behind a tab.
THEOREM ErrorNeverBesideResult == Spec => []ErrorOrResult
<1>1. KeyTypeOK /\ EInv /\ [Next]_vars => (KeyTypeOK /\ EInv)'
  BY NextType, ApartNext
<1>. QED
  BY <1>1, InitType, ApartInit, ApartImplies, PTL DEF Spec

-----------------------------------------------------------------------------
(* Private material is shown only by its checkbox.  A deletion puts another  *)
(* object in the registers: that it is another needs the tabs to name        *)
(* different keys, which the fresh ids give.                                 *)

TabsApart ==
    /\ \A i, j \in 1..Len(tabs) : i # j => tabs[i] # tabs[j]
    /\ \A i \in 1..Len(tabs) : tabs[i] < nextId

LEMMA TabsApartInit == Init => TabsApart
BY DEF Init, TabsApart

LEMMA TabsApartNext == KeyTypeOK /\ TabsApart /\ [Next]_vars => TabsApart'
<1>. SUFFICES ASSUME KeyTypeOK, TabsApart, [Next]_vars PROVE TabsApart'
  OBVIOUS
<1>1. CASE Adds
  <2>1. tabs' = Append(tabs, nextId) /\ nextId' = nextId + 1 /\ nextId \in Nat
    BY <1>1 DEF Adds, KeyTypeOK
  <2>2. \A i \in 1..Len(tabs) : tabs[i] \in Nat
    BY BoundAssumption DEF KeyTypeOK, KeyIds
  <2>3. /\ Len(tabs') = Len(tabs) + 1 /\ tabs'[Len(tabs) + 1] = nextId
        /\ \A i \in 1..Len(tabs) : tabs'[i] = tabs[i]
    BY <2>1 DEF KeyTypeOK
  <2>4. \A i \in 1..Len(tabs) : tabs[i] < nextId /\ tabs[i] < nextId + 1
    BY <2>1, <2>2 DEF TabsApart
  <2>5. \A i \in 1..Len(tabs') : tabs'[i] < nextId'
    <3>1. Len(tabs) \in Nat
      BY DEF KeyTypeOK
    <3>. QED
      BY <2>1, <2>3, <2>4, <3>1
  <2>6. ASSUME NEW i \in 1..Len(tabs'), NEW j \in 1..Len(tabs'), i # j
        PROVE  tabs'[i] # tabs'[j]
    <3>1. Len(tabs) \in Nat
      BY DEF KeyTypeOK
    <3>2. CASE i \in 1..Len(tabs) /\ j \in 1..Len(tabs)
      BY <2>3, <2>6, <3>2 DEF TabsApart
    <3>3. CASE i = Len(tabs) + 1 /\ j \in 1..Len(tabs)
      BY <2>1, <2>2, <2>3, <2>4, <3>3
    <3>4. CASE j = Len(tabs) + 1 /\ i \in 1..Len(tabs)
      BY <2>1, <2>2, <2>3, <2>4, <3>4
    <3>. QED
      BY <2>3, <2>6, <3>1, <3>2, <3>3, <3>4
  <2>. QED
    BY <2>5, <2>6 DEF TabsApart
<1>2. CASE Deletes
  <2>1. /\ Len(tabs') = Len(tabs) - 1 /\ nextId' = nextId
        /\ \A j \in 1..(Len(tabs) - 1) :
             tabs'[j] = IF j < active THEN tabs[j] ELSE tabs[j + 1]
    BY <1>2, RemoveAtLemma DEF Deletes, KeyTypeOK
  <2>2. Len(tabs) \in Nat /\ active \in 1..Len(tabs)
    BY DEF KeyTypeOK
  <2>. QED
    BY <2>1, <2>2 DEF TabsApart
<1>3. CASE UNCHANGED strip \/ UNCHANGED <<tabs, nextId>>
  BY <1>3 DEF strip, TabsApart
<1>4. Shape => Adds \/ Deletes \/ UNCHANGED <<tabs, nextId>>
  BY DEF Shape, DropsResult, KeepsResult, Derives, Reveals, RevealPrivate, Wipes,
         Selects, Clears, strip
<1>. QED
  BY <1>1, <1>2, <1>3, <1>4, NextShape DEF vars, strip

LEMMA DeleteMoves == KeyTypeOK /\ TabsApart /\ Deletes => Id' # Id
<1>. SUFFICES ASSUME KeyTypeOK, TabsApart, Deletes PROVE Id' # Id
  OBVIOUS
<1>1. active \in 1..Len(tabs) /\ Len(tabs) \in Nat /\ tabs \in Seq(KeyIds)
  BY DEF KeyTypeOK
<1>2. /\ Len(RemoveAt(tabs, active)) = Len(tabs) - 1
      /\ \A j \in 1..(Len(tabs) - 1) :
           RemoveAt(tabs, active)[j] = IF j < active THEN tabs[j] ELSE tabs[j + 1]
  BY <1>1, RemoveAtLemma
<1>3. tabs' = RemoveAt(tabs, active) /\ active' \in 1..Len(tabs')
  BY DEF Deletes
<1>. QED
  BY <1>1, <1>2, <1>3 DEF Id, TabsApart

LEMMA ShownStep ==
    ASSUME KeyTypeOK, TabsApart, Next, NEW k \in KeyIds,
           ShownPrivate(k)', ~ShownPrivate(k)
    PROVE  RevealPrivate(TRUE)
<1>. USE DEF ShownPrivate, ResultOf, RevealOf, Live
<1>id. Id \in KeyIds
  BY IdLemma
<1>1. CASE DropsResult
  <2>1. Id' = Id
    BY <1>1 DEF DropsResult, strip, Id
  <2>. QED
    BY <1>1, <2>1 DEF DropsResult, OthersAlike, Alike, Holds
<1>2. CASE KeepsResult
  <2>1. Id' = Id
    BY <1>2 DEF KeepsResult, Id
  <2>. QED
    BY <1>2, <2>1 DEF KeepsResult, OthersAlike, Alike, Holds
<1>3. CASE Derives
  <2>1. Id' = Id
    BY <1>3 DEF Derives, strip, Id
  <2>. QED
    BY <1>3, <2>1 DEF Derives, OthersAlike, Alike, Holds
<1>4. ASSUME NEW b \in BOOLEAN, Reveals(b) PROVE RevealPrivate(TRUE)
  <2>1. Id' = Id /\ re' = re /\ keys' = keys /\ Ge' = b
    BY <1>4 DEF Reveals, RevealPrivate, strip, Id
  <2>2. b = TRUE
    BY <2>1
  <2>. QED
    BY <1>4, <2>2 DEF Reveals
<1>5. CASE Wipes
  <2>1. Id' = Id
    BY <1>5 DEF Wipes, strip, Id
  <2>. QED
    BY <1>5, <2>1 DEF Wipes, OthersAlike, Alike, Holds
<1>6. ASSUME NEW i \in 1..Len(tabs), Selects(i) PROVE RevealPrivate(TRUE)
  <2>1. Id' = tabs[i] /\ tabs[i] \in KeyIds
    BY <1>6 DEF Selects, Id, KeyTypeOK
  <2>2. \A x \in KeyIds : Alike(keys'[x], CaptureKey[x])
    BY <1>6 DEF Selects, OthersAlike
  <2>3. Holds(keys'[Id'], re', Ge', err')
    BY <1>6, <2>1 DEF Selects
  <2>. QED
    BY <2>1, <2>2, <2>3, CaptureKeyHolds DEF Alike, Holds
<1>7. CASE Adds
  <2>1. Id' = nextId
    BY <1>7 DEF Adds, Id, KeyTypeOK
  <2>. QED
    BY <1>7, <2>1, CaptureKeyHolds DEF Adds, OthersAlike, Alike, Holds
<1>8. CASE Deletes
  <2>1. Id' # Id
    BY <1>8, DeleteMoves
  <2>. QED
    BY <1>8, <2>1 DEF Deletes, OthersAlike, Alike, Holds
<1>9. CASE Clears
  BY <1>9 DEF Clears, Holds
<1>. QED
  BY <1>1, <1>2, <1>3, <1>4, <1>5, <1>6, <1>7, <1>8, <1>9, NextShape DEF Shape

\* No derivation, edit, tab change, deletion or clearing brings a private key
\* on display: only ticking its reveal checkbox does.
THEOREM PrivateShownOnlyByReveal == Spec => OnlyRevealShows
<1>1. KeyTypeOK /\ TabsApart /\ [Next]_vars => (KeyTypeOK /\ TabsApart)'
  BY NextType, TabsApartNext
<1>2. KeyTypeOK /\ TabsApart /\ [Next]_vars =>
        [\A k \in KeyIds : ShownPrivate(k)' /\ ~ShownPrivate(k) => RevealPrivate(TRUE)]_vars
  BY ShownStep
<1>. QED
  BY <1>1, <1>2, InitType, TabsApartInit, PTL DEF Spec, OnlyRevealShows

-----------------------------------------------------------------------------
(* What was cleared stays cleared.  ClearedStaysCleared says of every place  *)
(* that holds a text or a passphrase that it holds a known one.  The proof   *)
(* names the places: forms, results, objects, textareas.                     *)

Known == Entered \cup {Blank, NoPass}
FormKnown(f, K) == f.text \in K /\ f.pass \in K
ResultKnown(r, K) == r # NoResult => FormKnown(r, K)
ObjectKnown(s, K) == /\ s.pass \in K /\ \A x \in Slots : s.fields[x] \in K
                     /\ ResultKnown(s.result, K)
AreaKnown(a, K) == a # NoArea => a \in K
KnownIn(K) == /\ FormKnown(form, K) /\ ResultKnown(re, K)
              /\ \A k \in KeyIds : ObjectKnown(keys[k], K) /\ AreaKnown(area[k], K)
KInv == KnownIn(Known)

\* Filtering a known text gives a known text.
Filtered(K) == \A t \in Texts : t \in K => Clean[t] \in K

LEMMA KnownFiltered == Filtered(Known)
<1>. SUFFICES ASSUME NEW t \in Texts, t \in Known PROVE Clean[t] \in Known
  BY DEF Filtered
<1>1. CASE t \in seen
  BY <1>1 DEF Known, Entered
<1>2. CASE t \in {Blank, NoPass}
  <2>1. CASE t = Blank
    BY <2>1, TextAssumption DEF Known
  <2>2. CASE t = NoPass
    <3>1. Clean[t] = t
      BY <2>2, SettingAssumption
    <3>. QED
      BY <2>2, <3>1 DEF Known
  <2>. QED
    BY <1>2, <2>1, <2>2
<1>3. CASE t \in Entered /\ t \notin seen
  <2>1. PICK u \in seen \cap Texts : t = Clean[u]
    BY <1>3 DEF Entered
  <2>2. Clean[t] = t
    BY <2>1, TextAssumption
  <2>. QED
    BY <2>2
<1>. QED
  BY <1>1, <1>2, <1>3 DEF Known

LEMMA FilterKnown ==
    ASSUME NEW K, Filtered(K), NEW t \in Texts, t \in K, NEW d
    PROVE  FilterKey(t, d) \in K
BY DEF Filtered, FilterKey

LEMMA KnownGrows ==
    ASSUME NEW S, Note(S) PROVE Known \subseteq Known' /\ S \subseteq Known'
BY DEF Note, Known, Entered

LEMMA KnownStays == UNCHANGED seen => Known' = Known
BY DEF Known, Entered

LEMMA KnownMonotone ==
    ASSUME NEW K, NEW L, K \subseteq L, KnownIn(K) PROVE KnownIn(L)
BY DEF KnownIn, FormKnown, ResultKnown, ObjectKnown, AreaKnown

LEMMA CapturedKnown ==
    ASSUME NEW K, NEW s \in KeyState, NEW f \in Form, NEW r \in Result \cup {NoResult},
           NEW g \in BOOLEAN, NEW e \in BOOLEAN,
           ObjectKnown(s, K), FormKnown(f, K), ResultKnown(r, K)
    PROVE  ObjectKnown(Captured(s, f, r, g, e), K)
<1>1. LET c == Captured(s, f, r, g, e) IN
      /\ c.result = r /\ Settings(c) = Settings(f)
      /\ \A x \in Slots : c.fields[x] = IF x = f.slot THEN f.text ELSE s.fields[x]
  BY CapturedLemma
<1>. DEFINE c == Captured(s, f, r, g, e)
<1>. HIDE DEF c
<1>2. c.pass = f.pass
  BY <1>1 DEF Settings, c
<1>3. ObjectKnown(c, K)
  BY <1>1, <1>2 DEF ObjectKnown, FormKnown, c
<1>. QED
  BY <1>3 DEF c

LEMMA DroppedKnown ==
    ASSUME NEW K, NEW s \in KeyState, ObjectKnown(s, K) PROVE ObjectKnown(Dropped(s), K)
BY DEF Dropped, ObjectKnown, ResultKnown, KeyState

LEMMA NewKnown == ASSUME NEW K, {Blank, NoPass} \subseteq K PROVE ObjectKnown(NewKeyState, K)
BY DEF NewKeyState, ObjectKnown, ResultKnown


\* What a step leaves, from what it assigns: one lemma per kind of step.
LEMMA RestoreKnown ==
    ASSUME NEW K, NEW k \in KeyIds, NEW s \in KeyState, NEW ks \in [KeyIds -> KeyState],
           NEW as \in Areas, RestoreKey(k, s, ks, as), ObjectKnown(s, K),
           \A x \in KeyIds : ObjectKnown(ks[x], K) /\ AreaKnown(as[x], K)
    PROVE  /\ FormKnown(form', K) /\ ResultKnown(re', K)
           /\ \A x \in KeyIds : ObjectKnown(keys'[x], K) /\ AreaKnown(area'[x], K)
<1>. DEFINE f == FormOf(s)
            t == [s EXCEPT !.slot = f.slot]
<1>1. /\ keys' = [ks EXCEPT ![k] = t] /\ form' = f /\ re' = s.result
      /\ area' = [as EXCEPT ![k] = IF f.slot \in Kinds THEN f.text ELSE @]
  BY DEF RestoreKey
<1>2. Shown(s.slot) \in Slots
  BY ShownLemma DEF KeyState
<1>3. FormKnown(f, K)
  BY <1>2 DEF FormKnown, FormOf, ObjectKnown
<1>4. ObjectKnown(t, K)
  BY DEF ObjectKnown, KeyState
<1>5. ResultKnown(s.result, K)
  BY DEF ObjectKnown
<1>. HIDE DEF f, t
<1>6. \A x \in KeyIds : ObjectKnown(keys'[x], K)
  BY <1>1, <1>4
<1>7. \A x \in KeyIds : AreaKnown(area'[x], K)
  BY <1>1, <1>3 DEF AreaKnown, FormKnown, Areas
<1>. QED
  BY <1>1, <1>3, <1>5, <1>6, <1>7

LEMMA EditKnown ==
    ASSUME KeyTypeOK, NEW K, KnownIn(K), NEW s \in KeyState, ObjectKnown(s, K),
           NEW f \in Form, FormKnown(f, K), NEW e \in BOOLEAN, InvalidatingEdit(s, f, e)
    PROVE  /\ FormKnown(form', K) /\ ResultKnown(re', K)
           /\ \A x \in KeyIds : ObjectKnown(keys'[x], K)
<1>. DEFINE c == Captured(s, f, re, Ge, e)
<1>1. re \in Result \cup {NoResult} /\ Ge \in BOOLEAN /\ ResultKnown(re, K)
  BY DEF KeyTypeOK, KnownIn
<1>2. c \in KeyState /\ ObjectKnown(c, K)
  BY <1>1, CapturedLemma, CapturedKnown
<1>. HIDE DEF c
<1>3. ObjectKnown(Dropped(c), K)
  BY <1>2, DroppedKnown
<1>4. form' = f /\ re' = NoResult /\ keys' = [keys EXCEPT ![Id] = Dropped(c)]
  BY DEF InvalidatingEdit, c
<1>. QED
  BY <1>3, <1>4 DEF KnownIn, ResultKnown, KeyTypeOK

LEMMA SilentKnown ==
    ASSUME KeyTypeOK, NEW K, KnownIn(K), NEW s \in KeyState, ObjectKnown(s, K),
           NEW f \in Form, FormKnown(f, K), form' = f, re' = re,
           keys' = [keys EXCEPT ![Id] = Captured(s, f, re, Ge, err)]
    PROVE  /\ FormKnown(form', K) /\ ResultKnown(re', K)
           /\ \A x \in KeyIds : ObjectKnown(keys'[x], K)
<1>. DEFINE c == Captured(s, f, re, Ge, err)
<1>1. re \in Result \cup {NoResult} /\ Ge \in BOOLEAN /\ err \in BOOLEAN /\ ResultKnown(re, K)
  BY DEF KeyTypeOK, KnownIn
<1>2. ObjectKnown(c, K)
  BY <1>1, CapturedKnown
<1>. HIDE DEF c
<1>. QED
  BY <1>1, <1>2 DEF KnownIn, KeyTypeOK, c

LEMMA RetypedKnown ==
    ASSUME KeyTypeOK, NEW K, KnownIn(K), NEW t \in Texts, t \in K, area' = Retyped(t)
    PROVE  \A x \in KeyIds : AreaKnown(area'[x], K)
<1>1. area \in [KeyIds -> Texts \cup {NoArea}] /\ \A x \in KeyIds : AreaKnown(area[x], K)
  BY DEF KeyTypeOK, KnownIn
<1>. QED
  BY <1>1 DEF Retyped, AreaKnown

LEMMA KnownInit == Init => KInv
<1>. SUFFICES ASSUME Init PROVE KInv
  OBVIOUS
<1>1. {Blank, NoPass} \subseteq Known
  BY DEF Known
<1>2. ObjectKnown(NewKeyState, Known)
  BY <1>1, NewKnown
<1>3. FormKnown(FormOf(NewKeyState), Known)
  BY <1>1, SlotAssumption DEF FormKnown, FormOf, NewKeyState, Shown, Slots
<1>. QED
  BY <1>2, <1>3 DEF Init, KInv, KnownIn, ResultKnown, AreaKnown

LEMMA KnownNext == KeyTypeOK /\ KeyTypeOK' /\ KInv /\ [Next]_vars => KInv'
<1>. SUFFICES ASSUME KeyTypeOK, KeyTypeOK', KInv, [Next]_vars PROVE KInv'
  OBVIOUS
<1>. DEFINE Goal == /\ FormKnown(form', Known') /\ ResultKnown(re', Known')
                    /\ \A k \in KeyIds : ObjectKnown(keys'[k], Known') /\ AreaKnown(area'[k], Known')
<1>goal. SUFFICES Goal
  BY DEF KInv, KnownIn
<1>id. Id \in KeyIds /\ keys[Id] \in KeyState /\ form.slot \in Slots /\ form \in Form
  BY IdLemma DEF KeyTypeOK
<1>reg. /\ re \in Result \cup {NoResult} /\ Ge \in BOOLEAN /\ err \in BOOLEAN
        /\ area \in Areas /\ keys \in [KeyIds -> KeyState]
  BY DEF KeyTypeOK, Areas
<1>now. /\ FormKnown(form, Known) /\ ResultKnown(re, Known)
        /\ \A k \in KeyIds : ObjectKnown(keys[k], Known) /\ AreaKnown(area[k], Known)
  BY DEF KInv, KnownIn
<1>def. {Blank, NoPass} \subseteq Known
  BY DEF Known
<1>cap. /\ CaptureKey \in [KeyIds -> KeyState] /\ CaptureKey[Id] \in KeyState
        /\ \A k \in KeyIds : ObjectKnown(CaptureKey[k], Known)
  <2>1. ObjectKnown(Captured(keys[Id], form, re, Ge, err), Known)
    BY <1>id, <1>reg, <1>now, CapturedKnown
  <2>. QED
    BY <2>1, <1>reg, <1>now, CaptureKeyType DEF CaptureKey
\* Steps that enter a text or a passphrase.
<1>note. ASSUME NEW S, Note(S)
         PROVE  KnownIn(Known') /\ Known \subseteq Known' /\ S \subseteq Known'
  BY <1>note, KnownGrows, KnownMonotone DEF KInv
<1>1. ASSUME NEW t \in Texts, TypeText(t) PROVE Goal
  <2>. DEFINE f == [form EXCEPT !.text = t]
  <2>1. /\ InvalidatingEdit(keys[Id], f, err) /\ Note({t}) /\ area' = area
    BY <1>1 DEF TypeText
  <2>2. KnownIn(Known') /\ t \in Known' /\ Known \subseteq Known'
    BY <2>1, <1>note
  <2>3. f \in Form /\ FormKnown(f, Known')
    BY <1>id, <1>now, <2>2 DEF Form, FormKnown
  <2>. HIDE DEF f
  <2>4. ObjectKnown(keys[Id], Known') /\ \A k \in KeyIds : AreaKnown(area[k], Known')
    BY <1>id, <2>2 DEF KnownIn
  <2>. QED
    BY <1>id, <1>reg, <2>1, <2>2, <2>3, <2>4, EditKnown
<1>2. ASSUME NEW t \in Texts, TypePrivateKey(t) PROVE Goal
  <2>. DEFINE u == FilterKey(t, form.slot)
              f == [form EXCEPT !.text = u]
  <2>1. /\ form' = f /\ re' = re /\ area' = Retyped(u) /\ Note({t, u})
        /\ keys' = [keys EXCEPT ![Id] = Captured(keys[Id], f, re, Ge, err)]
    BY <1>2, <1>id DEF TypePrivateKey, SilentEdit
  <2>2. KnownIn(Known') /\ u \in Known' /\ Known \subseteq Known' /\ u \in Texts
    BY <2>1, <1>note, FilterKeyLemma
  <2>3. f \in Form /\ FormKnown(f, Known')
    BY <1>id, <1>now, <2>2 DEF Form, FormKnown
  <2>. HIDE DEF f, u
  <2>4. ObjectKnown(keys[Id], Known')
    BY <1>id, <2>2 DEF KnownIn
  <2>. QED
    BY <1>id, <2>1, <2>2, <2>3, <2>4, SilentKnown, RetypedKnown
<1>3. ASSUME NEW t \in Texts, NEW d \in Kinds, PastePrivateKey(t, d) PROVE Goal
  <2>. DEFINE u == FilterKey(t, d)
              f == [form EXCEPT !.slot = d, !.text = u]
  <2>1. /\ form' = f /\ re' = re /\ area' = Retyped(u) /\ Note({t, u})
        /\ keys' = [keys EXCEPT ![Id] = Captured(keys[Id], f, re, Ge, err)]
    BY <1>3, <1>id DEF PastePrivateKey, SilentEdit
  <2>2. KnownIn(Known') /\ u \in Known' /\ Known \subseteq Known' /\ u \in Texts
    BY <2>1, <1>note, FilterKeyLemma
  <2>3. f \in Form /\ FormKnown(f, Known')
    BY <1>id, <1>now, <2>2 DEF Form, FormKnown, Slots
  <2>. HIDE DEF f, u
  <2>4. ObjectKnown(keys[Id], Known')
    BY <1>id, <2>2 DEF KnownIn
  <2>. QED
    BY <1>id, <2>1, <2>2, <2>3, <2>4, SilentKnown, RetypedKnown
<1>6. ASSUME NEW p \in Passes, TypePassphrase(p) PROVE Goal
  <2>. DEFINE f == [form EXCEPT !.pass = p]
  <2>1. /\ InvalidatingEdit(keys[Id], f, err) /\ Note({p}) /\ area' = area
    BY <1>6 DEF TypePassphrase
  <2>2. KnownIn(Known') /\ p \in Known' /\ Known \subseteq Known'
    BY <2>1, <1>note
  <2>3. f \in Form /\ FormKnown(f, Known')
    BY <1>id, <1>now, <2>2 DEF Form, FormKnown
  <2>. HIDE DEF f
  <2>4. ObjectKnown(keys[Id], Known') /\ \A k \in KeyIds : AreaKnown(area[k], Known')
    BY <1>id, <2>2 DEF KnownIn
  <2>. QED
    BY <1>id, <1>reg, <2>1, <2>2, <2>3, <2>4, EditKnown
\* Steps that enter nothing.
<1>same. ASSUME UNCHANGED seen PROVE Known' = Known
  BY <1>same, KnownStays
<1>4. ASSUME NEW d \in Kinds, ChooseKind(d) PROVE Goal
  <2>. DEFINE c == CaptureKey[Id]
              u == FilterKey(c.fields[d], d)
              f == [form EXCEPT !.slot = d, !.text = u]
  <2>1. /\ form' = f /\ re' = re /\ area' = Retyped(u) /\ UNCHANGED seen
        /\ keys' = [keys EXCEPT ![Id] = Captured(c, f, re, Ge, err)]
    BY <1>4 DEF ChooseKind
  <2>2. c.fields[d] \in Texts /\ c.fields[d] \in Known /\ c \in KeyState /\ ObjectKnown(c, Known)
    BY <1>id, <1>cap DEF ObjectKnown, KeyState, Slots
  <2>3. u \in Texts /\ u \in Known
    BY <2>2, FilterKeyLemma, FilterKnown, KnownFiltered
  <2>4. f \in Form /\ FormKnown(f, Known)
    BY <1>id, <1>now, <2>3 DEF Form, FormKnown, Slots
  <2>. HIDE DEF f, u, c
  <2>. QED
    BY <1>same, <2>1, <2>2, <2>3, <2>4, SilentKnown, RetypedKnown DEF KInv
<1>5. ASSUME NEW s \in Slots, SetMode(s) PROVE Goal
  <2>. DEFINE c == CaptureKey[Id]
              f == [form EXCEPT !.slot = s, !.text = c.fields[s]]
  <2>1. /\ InvalidatingEdit(c, f, err) /\ UNCHANGED seen
        /\ area' = [area EXCEPT ![Id] = IF s \in Kinds THEN f.text ELSE @]
    BY <1>5 DEF SetMode
  <2>2. c.fields[s] \in Texts /\ c.fields[s] \in Known /\ c \in KeyState /\ ObjectKnown(c, Known)
    BY <1>id, <1>cap DEF ObjectKnown, KeyState
  <2>3. f \in Form /\ FormKnown(f, Known) /\ f.text \in Known
    BY <1>id, <1>now, <2>2 DEF Form, FormKnown
  <2>. HIDE DEF f, c
  <2>4. \A k \in KeyIds : AreaKnown(area'[k], Known)
    BY <1>id, <1>now, <1>reg, <2>1, <2>3 DEF AreaKnown, Areas
  <2>. QED
    BY <1>same, <1>reg, <2>1, <2>2, <2>3, <2>4, EditKnown DEF KInv
<1>7. ASSUME NEW o \in Opts, ChangeDerivation(o) PROVE Goal
  <2>. DEFINE f == [form EXCEPT !.opts = o]
  <2>1. InvalidatingEdit(keys[Id], f, err) /\ UNCHANGED <<seen, area>>
    BY <1>7 DEF ChangeDerivation
  <2>2. f \in Form /\ FormKnown(f, Known)
    BY <1>id, <1>now DEF Form, FormKnown
  <2>. HIDE DEF f
  <2>. QED
    BY <1>same, <1>id, <1>reg, <1>now, <2>1, <2>2, EditKnown DEF KInv
<1>s. ASSUME NEW o \in Opts, SetSeedLength(o) PROVE Goal
  <2>. DEFINE f == [form EXCEPT !.opts = o]
  <2>1. InvalidatingEdit(CaptureKey[Id], f, FALSE) /\ UNCHANGED <<seen, area>>
    BY <1>s DEF SetSeedLength
  <2>2. f \in Form /\ FormKnown(f, Known)
    BY <1>id, <1>now DEF Form, FormKnown
  <2>. HIDE DEF f
  <2>. QED
    BY <1>same, <1>id, <1>cap, <1>now, <2>1, <2>2, EditKnown DEF KInv
<1>8. ASSUME NEW n \in Nets, ChangeNetwork(n) PROVE Goal
  <2>. DEFINE rewrite(k) == [keys[k] EXCEPT !.fields[KindNow] = Rewritten(k),
                               !.slot = IF @ \in Kinds THEN KindNow ELSE @]
              ks == [k \in KeyIds |-> IF Rewrites(k) THEN rewrite(k) ELSE keys[k]]
              f == [form EXCEPT !.net = n]
  <2>1. f \in Form /\ FormKnown(f, Known)
    BY <1>id, <1>now DEF Form, FormKnown
  <2>2. ASSUME NEW k \in KeyIds, Rewrites(k)
        PROVE  Rewritten(k) \in Known /\ rewrite(k) \in KeyState /\ ObjectKnown(rewrite(k), Known)
    <3>1. area[k] \in Texts /\ area[k] \in Known
      BY <2>2, <1>reg, <1>now DEF Rewrites, AreaKnown, Areas
    <3>2. Rewritten(k) \in Known
      BY <3>1, FilterKnown, KnownFiltered DEF Rewritten
    <3>3. KindNow \in Kinds /\ rewrite(k) \in KeyState /\ keys[k] \in KeyState
      BY <2>2, <1>reg, RewrittenType
    <3>4. ObjectKnown(keys[k], Known)
      BY <1>now
    <3>5. ObjectKnown(rewrite(k), Known)
      BY <3>2, <3>3, <3>4 DEF ObjectKnown, KeyState
    <3>. QED
      BY <3>2, <3>3, <3>5
  <2>3. ks \in [KeyIds -> KeyState] /\ \A k \in KeyIds : ObjectKnown(ks[k], Known)
    BY <1>reg, <1>now, <2>2
  <2>4. /\ form' = f /\ re' = NoResult /\ UNCHANGED seen
        /\ keys' = [ks EXCEPT ![Id] = Dropped(Captured(@, f, re, Ge, err))]
        /\ area' = [k \in KeyIds |-> IF Rewrites(k) THEN Rewritten(k) ELSE area[k]]
    BY <1>8 DEF ChangeNetwork
  <2>5. \A k \in KeyIds : AreaKnown(area'[k], Known)
    BY <1>now, <2>2, <2>4 DEF AreaKnown
  <2>. HIDE DEF f, ks
  <2>6. Captured(ks[Id], f, re, Ge, err) \in KeyState
    BY <1>id, <1>reg, <2>1, <2>3, CapturedLemma
  <2>7. ObjectKnown(Captured(ks[Id], f, re, Ge, err), Known)
    BY <1>id, <1>reg, <1>now, <2>1, <2>3, CapturedKnown
  <2>8. ObjectKnown(Dropped(Captured(ks[Id], f, re, Ge, err)), Known)
    BY <2>6, <2>7, DroppedKnown
  <2>. QED
    BY <1>same, <1>id, <2>1, <2>3, <2>4, <2>5, <2>8 DEF ResultKnown
<1>9. ASSUME PanelClick PROVE Goal
  <2>1. /\ form' = form /\ re' = re /\ UNCHANGED <<area, seen>>
        /\ keys' = [keys EXCEPT ![Id] = Captured(keys[Id], form, re, Ge, err)]
    BY <1>9 DEF PanelClick, SilentEdit
  <2>. QED
    BY <1>same, <1>id, <1>now, <2>1, SilentKnown DEF KInv
<1>10. ASSUME NEW b \in BOOLEAN, CalculateKey(b) PROVE Goal
  <2>1. /\ form' = form /\ UNCHANGED <<area, seen>> /\ ResultKnown(re', Known)
        /\ re' \in Result \cup {NoResult} /\ Ge' \in BOOLEAN /\ err' \in BOOLEAN
        /\ keys' = [keys EXCEPT ![Id] = Captured(@, form, re', Ge', err')]
    BY <1>10, <1>id, <1>reg, <1>now DEF CalculateKey, Result, ResultKnown
  <2>2. ASSUME NEW r \in Result \cup {NoResult}, NEW g \in BOOLEAN, NEW e \in BOOLEAN,
               ResultKnown(r, Known)
        PROVE  ObjectKnown(Captured(keys[Id], form, r, g, e), Known)
    BY <1>id, <1>now, <2>2, CapturedKnown
  <2>3. ObjectKnown(Captured(keys[Id], form, re', Ge', err'), Known)
    BY <2>1, <2>2
  <2>. QED
    BY <1>same, <1>id, <1>reg, <1>now, <2>1, <2>3
<1>11. ASSUME NEW b \in BOOLEAN, RevealPrivate(b) PROVE Goal
  BY <1>11, <1>same, <1>now DEF RevealPrivate
<1>12. ASSUME WipeActiveKey PROVE Goal
  <2>. DEFINE as == [area EXCEPT ![Id] = NoArea]
  <2>1. RestoreKey(Id, NewKeyState, keys, as) /\ UNCHANGED seen
    BY <1>12 DEF WipeActiveKey
  <2>2. as \in Areas /\ \A k \in KeyIds : AreaKnown(as[k], Known)
    BY <1>reg, <1>now DEF AreaKnown, Areas
  <2>. HIDE DEF as
  <2>. QED
    BY <1>same, <1>id, <1>reg, <1>now, <1>def, <2>1, <2>2, NewKeyStateLemma, NewKnown, RestoreKnown
<1>13. ASSUME AddKey PROVE Goal
  <2>1. nextId \in KeyIds /\ RestoreKey(nextId, NewKeyState, CaptureKey, area) /\ UNCHANGED seen
    BY <1>13 DEF AddKey
  <2>. QED
    BY <1>same, <1>cap, <1>reg, <1>now, <1>def, <2>1, NewKeyStateLemma, NewKnown, RestoreKnown
<1>14. ASSUME DeleteActiveKey PROVE Goal
  <2>. DEFINE rest == RemoveAt(tabs, active)
              next == IF active <= Len(rest) THEN active ELSE Len(rest)
              ks == [keys EXCEPT ![Id] = NewKeyState]
              as == [area EXCEPT ![Id] = NoArea]
  <2>1. /\ Len(tabs) > 1 /\ UNCHANGED seen
        /\ RestoreKey(rest[next], keys[rest[next]], ks, as)
    BY <1>14 DEF DeleteActiveKey
  <2>2. rest \in Seq(KeyIds) /\ Len(rest) = Len(tabs) - 1
    BY RemoveAtLemma DEF KeyTypeOK
  <2>3. rest[next] \in KeyIds
    BY <2>1, <2>2 DEF KeyTypeOK
  <2>4. as \in Areas /\ \A k \in KeyIds : AreaKnown(as[k], Known)
    BY <1>reg, <1>now DEF AreaKnown, Areas
  <2>5. ks \in [KeyIds -> KeyState] /\ \A k \in KeyIds : ObjectKnown(ks[k], Known)
    BY <1>reg, <1>now, <1>def, NewKeyStateLemma, NewKnown
  <2>. HIDE DEF rest, next, ks, as
  <2>6. keys[rest[next]] \in KeyState /\ ObjectKnown(keys[rest[next]], Known)
    BY <2>3, <1>reg, <1>now
  <2>. QED
    BY <1>same, <2>1, <2>3, <2>4, <2>5, <2>6, RestoreKnown
<1>15. ASSUME ClearSecrets PROVE Goal
  <2>1. /\ form' = [form EXCEPT !.text = Blank, !.pass = NoPass] /\ re' = NoResult
        /\ \A k \in KeyIds : keys'[k] = NewKeyState /\ area'[k] = NoArea
    BY <1>15 DEF ClearSecrets
  <2>2. {Blank, NoPass} \subseteq Known'
    BY DEF Known
  <2>3. FormKnown(form', Known')
    BY <1>id, <2>1, <2>2 DEF FormKnown, Form
  <2>4. ObjectKnown(NewKeyState, Known')
    BY <2>2, NewKnown
  <2>. QED
    BY <2>1, <2>3, <2>4 DEF ResultKnown, AreaKnown
<1>16. ASSUME NEW i \in 1..Len(tabs), SelectKey(i) PROVE Goal
  <2>1. /\ RestoreKey(tabs[i], CaptureKey[tabs[i]], CaptureKey, area) /\ UNCHANGED seen
        /\ tabs[i] \in KeyIds
    BY <1>16 DEF SelectKey, KeyTypeOK
  <2>2. CaptureKey[tabs[i]] \in KeyState
    BY <2>1, <1>cap
  <2>. QED
    BY <1>same, <1>cap, <1>reg, <1>now, <2>1, <2>2, RestoreKnown
<1>17. ASSUME UNCHANGED vars PROVE Goal
  BY <1>17, <1>same, <1>now DEF vars
<1>. QED
  BY <1>1, <1>2, <1>3, <1>4, <1>5, <1>6, <1>7, <1>s, <1>8, <1>9, <1>10, <1>11, <1>12,
     <1>13, <1>14, <1>15, <1>16, <1>17 DEF Next

LEMMA KnownImplies == KeyTypeOK /\ KInv => ClearedStaysCleared
<1>. SUFFICES ASSUME KeyTypeOK, KInv, NEW x \in Secrets PROVE x \in Known
  BY DEF ClearedStaysCleared, Known
<1>1. CASE x \in SecretsOf(form)
  BY <1>1 DEF SecretsOf, KInv, KnownIn, FormKnown
<1>2. CASE re # NoResult /\ x \in SecretsOf(re)
  BY <1>2 DEF SecretsOf, KInv, KnownIn, FormKnown, ResultKnown
<1>3. ASSUME NEW k \in KeyIds,
             \/ x = keys[k].pass \/ \E s \in Slots : x = keys[k].fields[s]
             \/ keys[k].result # NoResult /\ x \in SecretsOf(keys[k].result)
             \/ x = area[k] /\ x # NoArea
      PROVE  x \in Known
  <2>1. ObjectKnown(keys[k], Known) /\ AreaKnown(area[k], Known)
    BY DEF KInv, KnownIn
  <2>. QED
    BY <1>3, <2>1 DEF SecretsOf, ObjectKnown, ResultKnown, FormKnown, AreaKnown
<1>. QED
  BY <1>1, <1>2, <1>3 DEF Secrets

\* After pagehide, or a restore from the back/forward cache, no text and no
\* passphrase entered before comes back, through no textarea, object, result or
\* leaked listener.
THEOREM ClearingLasts == Spec => []ClearedStaysCleared
<1>1. KeyTypeOK /\ KInv /\ [Next]_vars => (KeyTypeOK /\ KInv)'
  BY NextType, KnownNext
<1>. QED
  BY <1>1, InitType, KnownInit, KnownImplies, PTL DEF Spec


-----------------------------------------------------------------------------
(* What the store knows of the key manager's variables.                      *)

\* What the store knows of a state object; of the live form f with object s.
EntryIn(s) ==
    [input |-> [slot |-> Shown(s.slot), fields |-> [p \in Plain |-> s.fields[p]],
                settings |-> Settings(s)],
     result |-> s.result, shown |-> s.result # NoResult /\ s.reveal]
EntryOnForm(f, s, r, g) ==
    [input |-> [slot |-> Shown(f.slot),
                fields |-> [p \in Plain |-> IF f.slot = p THEN f.text ELSE s.fields[p]],
                settings |-> Settings(f)],
     result |-> r, shown |-> r # NoResult /\ g]


\* EXCEPT on an entry.
LEMMA ShownSet ==
    ASSUME NEW i, NEW r, NEW g, NEW b, NEW e, e = [input |-> i, result |-> r, shown |-> g]
    PROVE  [e EXCEPT !.shown = b] = [input |-> i, result |-> r, shown |-> b]
OBVIOUS

\* The entries, now and after a step, by objects and form.
LEMMA EntriesLemma ==
    Entries = [k \in KeyIds |-> IF k = Id THEN EntryOnForm(form, keys[k], re, Ge)
                                          ELSE EntryIn(keys[k])]
BY DEF Entries, EntryOf, InputOf, SlotOf, FieldOf, ResultOf, RevealOf, ShownPrivate, Live,
       EntryIn, EntryOnForm

LEMMA EntriesNext ==
    Entries' = [k \in KeyIds |-> IF k = Id' THEN EntryOnForm(form', keys'[k], re', Ge')
                                            ELSE EntryIn(keys'[k])]
BY DEF Entries, EntryOf, InputOf, SlotOf, FieldOf, ResultOf, RevealOf, ShownPrivate, Live,
       EntryIn, EntryOnForm, Id

\* What the form and an object tell is an input of the store.
LEMMA InputLemma ==
    ASSUME NEW f \in Form, NEW s \in KeyState, NEW r, NEW g
    PROVE  EntryOnForm(f, s, r, g).input \in Inputs
<1>1. f.slot \in Slots /\ f.text \in Texts
  BY DEF Form
<1>2. Shown(f.slot) \in Plain \cup {Wif}
  BY <1>1 DEF Shown, Slots
<1>3. Settings(f) \in [pass: Passes, net: Nets, opts: Opts]
  BY DEF Form, Settings
<1>4. [p \in Plain |-> IF f.slot = p THEN f.text ELSE s.fields[p]] \in [Plain -> Texts]
  BY <1>1 DEF KeyState, Slots
<1>. QED
  BY <1>2, <1>3, <1>4 DEF EntryOnForm, Inputs

-----------------------------------------------------------------------------
(* What the events do to it, by kind; then the whole step.                   *)

\* The page starts with one fresh entry.
LEMMA StoreInit == Init => Store!Init
<1>. SUFFICES ASSUME Init PROVE Store!Init
  OBVIOUS
<1>1. tabs = <<1>> /\ active = 1 /\ 1 \in KeyIds
  BY BoundAssumption DEF Init, KeyIds
<1>2. keys = [k \in KeyIds |-> NewKeyState] /\ form = FormOf(NewKeyState) /\ re = NoResult
  BY DEF Init
<1>3. EntryIn(NewKeyState) = Store!FreshEntry
  BY SlotAssumption
     DEF EntryIn, Store!FreshEntry, Store!Covered, NewKeyState, Shown, Settings, Slots
<1>4. \A g : EntryOnForm(FormOf(NewKeyState), NewKeyState, NoResult, g) = Store!FreshEntry
  BY SlotAssumption
     DEF EntryOnForm, Store!FreshEntry, Store!Covered, NewKeyState, FormOf, Shown, Settings, Slots
<1>5. Entries = [k \in KeyIds |-> Store!FreshEntry]
  BY <1>2, <1>3, <1>4, EntriesLemma
<1>. QED
  BY <1>1, <1>5 DEF Store!Init

\* Edits that drop the result.
LEMMA EditStep ==
    ASSUME KeyTypeOK, KeyTypeOK', UNCHANGED <<tabs, active>>, re' = NoResult,
           \A k \in KeyIds \ {Id} : EntryIn(keys'[k]) = EntryIn(keys[k])
    PROVE  Store!Edit
<1>1. Id' = Id /\ Id \in KeyIds
  BY IdLemma DEF Id
<1>. DEFINE e == EntryOnForm(form', keys'[Id], re', Ge')
<1>2. e.input \in Inputs /\ e = [input |-> e.input, result |-> NoResult, shown |-> FALSE]
  <2>1. form' \in Form /\ keys'[Id] \in KeyState
    BY <1>1 DEF KeyTypeOK
  <2>2. e.input \in Inputs
    BY <2>1, InputLemma
  <2>. QED
    BY <2>2 DEF EntryOnForm
<1>. HIDE DEF e
<1>3. Entries' = [Entries EXCEPT ![Id] = e]
  BY <1>1, EntriesLemma, EntriesNext DEF e
<1>4. Entries'[Id] = e
  BY <1>1, <1>3, EntriesLemma
<1>. QED
  BY <1>2, <1>3, <1>4 DEF Store!Edit, Store!Put, Store!Covered, Id

\* Edits of a private key are not known to the store.
LEMMA SilentStep ==
    ASSUME KeyTypeOK, UNCHANGED <<tabs, active, re, Ge>>,
           NEW s \in KeyState, NEW f \in Form, form' = f,
           keys' = [keys EXCEPT ![Id] = Captured(s, f, re, Ge, err)],
           EntryOnForm(f, s, re, Ge) = EntryOnForm(form, keys[Id], re, Ge)
    PROVE  UNCHANGED Store!storeVars
<1>1. Id' = Id /\ Id \in KeyIds
  BY IdLemma DEF Id
<1>. DEFINE c == Captured(s, f, re, Ge, err)
<1>reg. re \in Result \cup {NoResult} /\ Ge \in BOOLEAN /\ err \in BOOLEAN
  BY DEF KeyTypeOK
<1>2. \A x \in Slots : c.fields[x] = IF x = f.slot THEN f.text ELSE s.fields[x]
  BY <1>reg, CapturedLemma
<1>3. [p \in Plain |-> IF f.slot = p THEN f.text ELSE c.fields[p]]
        = [p \in Plain |-> IF f.slot = p THEN f.text ELSE s.fields[p]]
  BY <1>2 DEF Slots
<1>4. EntryOnForm(f, c, re, Ge) = EntryOnForm(f, s, re, Ge)
  BY <1>3 DEF EntryOnForm
<1>5. keys'[Id] = c /\ \A k \in KeyIds \ {Id} : keys'[k] = keys[k]
  BY <1>1 DEF KeyTypeOK
<1>. HIDE DEF c
<1>6. Entries' = Entries
  BY <1>1, <1>4, <1>5, EntriesLemma, EntriesNext
<1>. QED
  BY <1>6 DEF Store!storeVars

\* The store does not tell private-key formats, nor their texts, apart.
LEMMA KindsSame ==
    ASSUME NEW f \in Form, NEW h \in Form, f.slot \in Kinds, h.slot \in Kinds,
           Settings(f) = Settings(h), NEW s, NEW t, NEW r, NEW g,
           \A p \in Plain : s.fields[p] = t.fields[p]
    PROVE  EntryOnForm(f, s, r, g) = EntryOnForm(h, t, r, g)
<1>1. Shown(f.slot) = Shown(h.slot) /\ f.slot \notin Plain /\ h.slot \notin Plain
  BY SlotAssumption DEF Shown
<1>2. [p \in Plain |-> IF f.slot = p THEN f.text ELSE s.fields[p]]
        = [p \in Plain |-> IF h.slot = p THEN h.text ELSE t.fields[p]]
  BY <1>1
<1>. QED
  BY <1>1, <1>2 DEF EntryOnForm

\* A capture tells the object what the store knew of the live form.
LEMMA CaptureEntries ==
    KeyTypeOK => Entries = [k \in KeyIds |-> EntryIn(CaptureKey[k])]
<1>. SUFFICES ASSUME KeyTypeOK PROVE Entries = [k \in KeyIds |-> EntryIn(CaptureKey[k])]
  OBVIOUS
<1>1. Id \in KeyIds /\ keys[Id] \in KeyState /\ form \in Form /\ form.slot \in Slots
  BY IdLemma DEF KeyTypeOK
<1>. DEFINE c == Captured(keys[Id], form, re, Ge, err)
<1>2. /\ c.slot = form.slot /\ c.result = re /\ c.reveal = Ge /\ Settings(c) = Settings(form)
      /\ \A x \in Slots : c.fields[x] = IF x = form.slot THEN form.text ELSE keys[Id].fields[x]
  BY <1>1, CapturedLemma DEF KeyTypeOK
<1>3. CaptureKey[Id] = c /\ \A k \in KeyIds \ {Id} : CaptureKey[k] = keys[k]
  BY <1>1 DEF CaptureKey, KeyTypeOK
<1>. HIDE DEF c
<1>4. [p \in Plain |-> c.fields[p]]
        = [p \in Plain |-> IF form.slot = p THEN form.text ELSE keys[Id].fields[p]]
  BY <1>2 DEF Slots
<1>5. EntryIn(c) = EntryOnForm(form, keys[Id], re, Ge)
  BY <1>2, <1>4 DEF EntryIn, EntryOnForm
<1>. QED
  BY <1>1, <1>3, <1>5, EntriesLemma

\* A hand-over shows of the object what the store knows of it.
LEMMA RestoreEntries ==
    ASSUME NEW k \in KeyIds, NEW s \in KeyState, NEW ks \in [KeyIds -> KeyState],
           NEW as, RestoreKey(k, s, ks, as), Id' = k
    PROVE  Entries' = [x \in KeyIds |-> IF x = k THEN EntryIn(s) ELSE EntryIn(ks[x])]
<1>. DEFINE f == FormOf(s)
            t == [s EXCEPT !.slot = f.slot]
<1>1. /\ keys' = [ks EXCEPT ![k] = t] /\ form' = f /\ re' = s.result /\ Ge' = s.reveal
  BY DEF RestoreKey
<1>2. /\ f.slot = Shown(s.slot) /\ f.text = s.fields[Shown(s.slot)] /\ Settings(f) = Settings(s)
  BY FormOfLemma
<1>3. t.fields = s.fields
  BY DEF KeyState
<1>. HIDE DEF f, t
<1>4. Shown(f.slot) = Shown(s.slot)
  BY <1>2, ShownLemma DEF KeyState
<1>5. [p \in Plain |-> IF f.slot = p THEN f.text ELSE t.fields[p]] = [p \in Plain |-> s.fields[p]]
  BY <1>2, <1>3
<1>6. EntryOnForm(f, t, s.result, s.reveal) = EntryIn(s)
  BY <1>2, <1>4, <1>5 DEF EntryOnForm, EntryIn
<1>7. keys'[k] = t /\ \A x \in KeyIds \ {k} : keys'[x] = ks[x]
  BY <1>1
<1>. QED
  BY <1>1, <1>6, <1>7, EntriesNext

LEMMA FreshLemma == EntryIn(NewKeyState) = Store!FreshEntry
BY SlotAssumption DEF EntryIn, Store!FreshEntry, Store!Covered, NewKeyState, Shown, Settings, Slots

\* The leaked listeners rewrite private-key texts only.
LEMMA NetworkStep ==
    ASSUME KeyTypeOK, KeyTypeOK', NEW n \in Nets, ChangeNetwork(n)
    PROVE  Store!Edit
<1>. DEFINE rewrite(k) == [keys[k] EXCEPT !.fields[KindNow] = Rewritten(k),
                             !.slot = IF @ \in Kinds THEN KindNow ELSE @]
            ks == [k \in KeyIds |-> IF Rewrites(k) THEN rewrite(k) ELSE keys[k]]
<1>1. ASSUME NEW k \in KeyIds, Rewrites(k) PROVE EntryIn(rewrite(k)) = EntryIn(keys[k])
  <2>. DEFINE s == keys[k]
              r == rewrite(k)
  <2>1. KindNow \in Kinds /\ r \in KeyState /\ s \in KeyState
    BY <1>1, RewrittenType DEF KeyTypeOK
  <2>2. /\ r.result = s.result /\ r.reveal = s.reveal /\ Settings(r) = Settings(s)
        /\ r.slot = IF s.slot \in Kinds THEN KindNow ELSE s.slot
        /\ \A x \in Plain : r.fields[x] = s.fields[x]
    BY <2>1, SlotAssumption DEF KeyState, Settings, Slots
  <2>3. Shown(r.slot) = Shown(s.slot)
    BY <2>1, <2>2 DEF Shown
  <2>. HIDE DEF r, s
  <2>4. [p \in Plain |-> r.fields[p]] = [p \in Plain |-> s.fields[p]]
    BY <2>2
  <2>5. EntryIn(r) = EntryIn(s)
    BY <2>2, <2>3, <2>4 DEF EntryIn
  <2>. QED
    BY <2>5 DEF r, s
<1>2. \A k \in KeyIds : EntryIn(ks[k]) = EntryIn(keys[k])
  BY <1>1
<1>3. /\ re' = NoResult /\ UNCHANGED strip
      /\ keys' = [ks EXCEPT ![Id] = Dropped(Captured(@, [form EXCEPT !.net = n], re, Ge, err))]
  BY DEF ChangeNetwork
<1>4. \A k \in KeyIds \ {Id} : keys'[k] = ks[k]
  BY <1>3
<1>. HIDE DEF ks
<1>. QED
  BY <1>2, <1>3, <1>4, EditStep DEF strip

\* A derivation gives a result of the inputs the store knows, or none.
LEMMA CalculateStep ==
    ASSUME KeyTypeOK, NEW b \in BOOLEAN, CalculateKey(b)
    PROVE  Store!Derive \/ Store!Fail
<1>1. /\ Id \in KeyIds /\ form \in Form /\ form.slot \in Slots /\ keys[Id] \in KeyState
      /\ Id' = Id
  BY IdLemma DEF KeyTypeOK, CalculateKey, strip, Id
<1>2. /\ form' = form /\ re' = (IF b THEN form ELSE NoResult) /\ Ge' = (Ge /\ ~b)
      /\ re' \in Result \cup {NoResult} /\ Ge' \in BOOLEAN /\ err' \in BOOLEAN
      /\ keys' = [keys EXCEPT ![Id] = Captured(@, form, re', Ge', err')]
      /\ UNCHANGED <<tabs, active>>
  BY <1>1 DEF CalculateKey, KeyTypeOK, Result, strip
<1>3. ASSUME NEW r \in Result \cup {NoResult}, NEW g \in BOOLEAN, NEW e \in BOOLEAN
      PROVE  \A x \in Slots : Captured(keys[Id], form, r, g, e).fields[x] =
                                IF x = form.slot THEN form.text ELSE keys[Id].fields[x]
  <2>1. keys[Id] \in KeyState /\ form \in Form
    BY <1>1
  <2>2. r \in Result \cup {NoResult} /\ g \in BOOLEAN /\ e \in BOOLEAN
    BY <1>3
  <2>3. \A s \in KeyState : \A x \in Slots : Captured(s, form, r, g, e).fields[x] =
                                IF x = form.slot THEN form.text ELSE s.fields[x]
    BY <2>1, <2>2, CapturedFields
  <2>. QED
    BY <2>1, <2>3
<1>4. /\ keys'[Id] = Captured(keys[Id], form, re', Ge', err')
      /\ \A k \in KeyIds \ {Id} : keys'[k] = keys[k]
  BY <1>1, <1>2 DEF KeyTypeOK
<1>5. \A x \in Slots : keys'[Id].fields[x] = IF x = form.slot THEN form.text
                                                            ELSE keys[Id].fields[x]
  <2>1. \A x \in Slots : Captured(keys[Id], form, re', Ge', err').fields[x] =
                           IF x = form.slot THEN form.text ELSE keys[Id].fields[x]
    BY <1>2, <1>3, ZenonT(30)
  <2>. QED
    BY <1>4, <2>1
<1>6. [p \in Plain |-> IF form.slot = p THEN form.text ELSE keys'[Id].fields[p]]
        = [p \in Plain |-> IF form.slot = p THEN form.text ELSE keys[Id].fields[p]]
  BY <1>5 DEF Slots
<1>7. re' # NoResult /\ Ge' <=> FALSE
  BY <1>2
<1>. DEFINE old == EntryOnForm(form, keys[Id], re, Ge)
            new == Store!Covered(old.input, re')
<1>8. EntryOnForm(form', keys'[Id], re', Ge') = new
  BY <1>2, <1>6, <1>7, ZenonT(30) DEF EntryOnForm, Store!Covered
<1>9. Entries' = [Entries EXCEPT ![Id] = new] /\ Entries[Id] = old /\ Entries'[Id] = new
  BY <1>1, <1>4, <1>8, EntriesLemma, EntriesNext
<1>10. DerivesFrom(old.input, form)
  <2>1. old.input.slot = Shown(form.slot) /\ old.input.settings = Settings(form)
    BY DEF EntryOnForm
  <2>2. form.slot \in Plain => old.input.fields[form.slot] = form.text
    BY DEF EntryOnForm
  <2>3. Shown(form.slot) \in Plain => Shown(form.slot) = form.slot
    BY <1>1, ShownLemma
  <2>. HIDE DEF old
  <2>. QED
    BY <2>1, <2>2, <2>3 DEF DerivesFrom
<1>11. new.result = re'
  BY DEF Store!Covered
<1>. HIDE DEF old
<1>12. CASE b
  BY <1>1, <1>2, <1>9, <1>10, <1>11, <1>12
     DEF Store!Derive, Store!Put, Store!Now, Id, Result
<1>13. CASE ~b
  BY <1>1, <1>2, <1>9, <1>13 DEF Store!Fail, Store!Put, Store!Now, Id
<1>. QED
  BY <1>12, <1>13

LEMMA RevealStep ==
    ASSUME KeyTypeOK, NEW b \in BOOLEAN, RevealPrivate(b)
    PROVE  Store!Show(b)
<1>1. /\ re # NoResult /\ Ge' = b /\ Id' = Id /\ Id \in KeyIds
      /\ UNCHANGED <<tabs, active, keys, form, re>>
  BY IdLemma DEF RevealPrivate, strip, Id
<1>. DEFINE old == EntryOnForm(form, keys[Id], re, Ge)
            new == EntryOnForm(form, keys[Id], re, b)
<1>2. /\ old.result # NoResult
      /\ old = [input |-> old.input, result |-> re, shown |-> old.shown]
      /\ new = [input |-> old.input, result |-> re, shown |-> b]
  BY <1>1 DEF EntryOnForm
<1>3. Entries' = [Entries EXCEPT ![Id] = new] /\ Entries[Id] = old
  BY <1>1, EntriesLemma, EntriesNext
<1>. HIDE DEF old, new
<1>4. new = [old EXCEPT !.shown = b]
  BY <1>2, ShownSet
<1>. QED
  BY <1>1, <1>2, <1>3, <1>4 DEF Store!Show, Store!Put, Store!Now, Id

LEMMA SelectStep ==
    ASSUME KeyTypeOK, NEW i \in 1..Len(tabs), SelectKey(i)
    PROVE  Store!Switch
<1>1. /\ RestoreKey(tabs[i], CaptureKey[tabs[i]], CaptureKey, area)
      /\ tabs' = tabs /\ active' = i /\ Id' = tabs[i] /\ tabs[i] \in KeyIds
  BY DEF SelectKey, Id, KeyTypeOK
<1>2. CaptureKey \in [KeyIds -> KeyState] /\ CaptureKey[tabs[i]] \in KeyState
  BY <1>1, CaptureKeyType
<1>3. Entries' = [x \in KeyIds |-> IF x = tabs[i] THEN EntryIn(CaptureKey[tabs[i]])
                                                ELSE EntryIn(CaptureKey[x])]
  BY <1>1, <1>2, RestoreEntries
<1>4. Entries' = Entries
  BY <1>3, CaptureEntries
<1>. QED
  BY <1>1, <1>4 DEF Store!Switch

LEMMA AddStep ==
    ASSUME KeyTypeOK, TabsApart, AddKey
    PROVE  Store!Open1
<1>1. /\ nextId \in KeyIds /\ RestoreKey(nextId, NewKeyState, CaptureKey, area)
      /\ tabs' = Append(tabs, nextId) /\ active' = Len(tabs) + 1
  BY DEF AddKey
<1>2. Id' = nextId
  BY <1>1 DEF Id, KeyTypeOK
<1>3. Entries' = [x \in KeyIds |-> IF x = nextId THEN EntryIn(NewKeyState)
                                                ELSE EntryIn(CaptureKey[x])]
  BY <1>1, <1>2, CaptureKeyType, NewKeyStateLemma, RestoreEntries
<1>4. Entries' = [Entries EXCEPT ![nextId] = Store!FreshEntry]
  BY <1>1, <1>3, CaptureEntries, FreshLemma
<1>5. nextId \notin Store!Open
  <2>1. \A i \in 1..Len(tabs) : tabs[i] # nextId
    BY <1>1, BoundAssumption DEF TabsApart, KeyTypeOK, KeyIds
  <2>. QED
    BY <2>1 DEF Store!Open
<1>. QED
  BY <1>1, <1>4, <1>5 DEF Store!Open1

\* The neighbour takes the place, and it is another key.
LEMMA DeleteStep ==
    ASSUME KeyTypeOK, TabsApart, DeleteActiveKey
    PROVE  Store!Close
<1>. DEFINE rest == RemoveAt(tabs, active)
            next == IF active <= Len(rest) THEN active ELSE Len(rest)
            ks == [keys EXCEPT ![Id] = NewKeyState]
<1>1. /\ Len(tabs) > 1 /\ tabs' = rest /\ active' = next
      /\ RestoreKey(rest[next], keys[rest[next]], ks, [area EXCEPT ![Id] = NoArea])
  BY DEF DeleteActiveKey
<1>2. Deletes /\ Id' # Id
  BY DeleteDeletes, DeleteMoves
<1>3. Id \in KeyIds /\ ks \in [KeyIds -> KeyState]
  BY IdLemma, NewKeyStateLemma DEF KeyTypeOK
<1>4. ks[Id] = NewKeyState /\ \A k \in KeyIds \ {Id} : ks[k] = keys[k]
  BY <1>3 DEF KeyTypeOK
<1>5. Id' = rest[next]
  BY <1>1 DEF Id
<1>6. rest[next] \in KeyIds
  <2>1. rest \in Seq(KeyIds) /\ Len(rest) = Len(tabs) - 1
    BY RemoveAtLemma DEF KeyTypeOK
  <2>. QED
    BY <1>1, <2>1 DEF KeyTypeOK
<1>7. tabs' = RemoveAt(tabs, active) /\ active' \in 1..Len(tabs')
  BY <1>2 DEF Deletes
<1>. HIDE DEF rest, next, ks
<1>8. keys[rest[next]] \in KeyState
  BY <1>6 DEF KeyTypeOK
<1>9. Entries' = [x \in KeyIds |-> IF x = rest[next] THEN EntryIn(keys[rest[next]])
                                                    ELSE EntryIn(ks[x])]
  BY <1>1, <1>3, <1>5, <1>6, <1>8, RestoreEntries
<1>10. Entries' = [Entries EXCEPT ![Id] = Store!FreshEntry]
  BY <1>2, <1>3, <1>4, <1>5, <1>9, EntriesLemma, FreshLemma
<1>. QED
  BY <1>1, <1>7, <1>10 DEF Store!Close, Store!RemoveAt, RemoveAt, Id

LEMMA ClearStep ==
    ASSUME KeyTypeOK, KeyTypeOK', ClearSecrets
    PROVE  Store!Forget
<1>1. /\ keys' = [k \in KeyIds |-> NewKeyState] /\ re' = NoResult
      /\ form' = [form EXCEPT !.text = Blank, !.pass = NoPass]
      /\ UNCHANGED <<tabs, active>> /\ Id' = Id /\ Id \in KeyIds
  BY IdLemma DEF ClearSecrets, strip, Id
<1>. DEFINE e == EntryOnForm(form', NewKeyState, NoResult, Ge')
<1>2. e.input \in Inputs
  BY InputLemma, NewKeyStateLemma DEF KeyTypeOK
<1>3. e = Store!Covered(e.input, NoResult)
  BY DEF EntryOnForm, Store!Covered
<1>4. Entries' = [k \in KeyIds |-> IF k = Id THEN e ELSE EntryIn(NewKeyState)]
  BY <1>1, EntriesNext
<1>. HIDE DEF e
<1>5. Entries' = [k \in KeyIds |-> IF k = Id THEN Store!Covered(e.input, NoResult)
                                            ELSE Store!FreshEntry]
  BY <1>3, <1>4, FreshLemma
<1>6. Entries'[Id].input = e.input
  BY <1>1, <1>4
<1>. QED
  BY <1>1, <1>2, <1>5, <1>6 DEF Store!Forget, Id

\* Every event is an operation of the store or none.
LEMMA StoreNext == KeyTypeOK /\ KeyTypeOK' /\ TabsApart /\ [Next]_vars => [Store!Next]_Store!storeVars
<1>. SUFFICES ASSUME KeyTypeOK, KeyTypeOK', TabsApart, [Next]_vars
              PROVE  Store!Next \/ UNCHANGED Store!storeVars
  OBVIOUS
<1>id. Id \in KeyIds /\ keys[Id] \in KeyState /\ form.slot \in Slots /\ form \in Form
  BY IdLemma DEF KeyTypeOK
<1>cap. /\ CaptureKey \in [KeyIds -> KeyState] /\ CaptureKey[Id] \in KeyState
        /\ \A x \in Slots : CaptureKey[Id].fields[x] = IF x = form.slot THEN form.text
                                                                      ELSE keys[Id].fields[x]
  <2>1. re \in Result \cup {NoResult} /\ Ge \in BOOLEAN /\ err \in BOOLEAN
    BY DEF KeyTypeOK
  <2>2. \A x \in Slots : Captured(keys[Id], form, re, Ge, err).fields[x] =
                           IF x = form.slot THEN form.text ELSE keys[Id].fields[x]
    BY <1>id, <2>1, CapturedLemma
  <2>3. CaptureKey[Id] = Captured(keys[Id], form, re, Ge, err)
    BY <1>id DEF CaptureKey, KeyTypeOK
  <2>. QED
    BY <2>2, <2>3, CaptureKeyType
\* The edits: the objects of other keys stay, and the result is dropped.
<1>edit. ASSUME NEW s, NEW f, NEW e, InvalidatingEdit(s, f, e), UNCHANGED strip
         PROVE  Store!Next
  <2>1. re' = NoResult /\ UNCHANGED <<tabs, active>> /\ \A k \in KeyIds \ {Id} : keys'[k] = keys[k]
    BY <1>edit, <1>id DEF InvalidatingEdit, strip, KeyTypeOK
  <2>. QED
    BY <2>1, EditStep DEF Store!Next
<1>1. ASSUME NEW t \in Texts, TypeText(t) PROVE Store!Next
  BY <1>1, <1>edit DEF TypeText
<1>2. ASSUME NEW t \in Texts, TypePrivateKey(t) PROVE UNCHANGED Store!storeVars
  <2>. DEFINE f == [form EXCEPT !.text = FilterKey(t, form.slot)]
  <2>1. f \in Form /\ f.slot = form.slot /\ Settings(f) = Settings(form)
    BY <1>id, FilterKeyLemma DEF Form, Settings
  <2>2. /\ form.slot \in Kinds /\ form' = f /\ UNCHANGED <<tabs, active, re, Ge>>
        /\ keys' = [keys EXCEPT ![Id] = Captured(keys[Id], f, re, Ge, err)]
    BY <1>2, <1>id DEF TypePrivateKey, SilentEdit, strip
  <2>. HIDE DEF f
  <2>3. EntryOnForm(f, keys[Id], re, Ge) = EntryOnForm(form, keys[Id], re, Ge)
    BY <1>id, <2>1, <2>2, KindsSame
  <2>. QED
    BY <1>id, <2>1, <2>2, <2>3, SilentStep
<1>3. ASSUME NEW t \in Texts, NEW d \in Kinds, PastePrivateKey(t, d)
      PROVE  UNCHANGED Store!storeVars
  <2>. DEFINE f == [form EXCEPT !.slot = d, !.text = FilterKey(t, d)]
  <2>1. f \in Form /\ f.slot = d /\ Settings(f) = Settings(form)
    BY <1>id, FilterKeyLemma DEF Form, Settings, Slots
  <2>2. /\ form.slot \in Kinds /\ form' = f /\ UNCHANGED <<tabs, active, re, Ge>>
        /\ keys' = [keys EXCEPT ![Id] = Captured(keys[Id], f, re, Ge, err)]
    BY <1>3, <1>id DEF PastePrivateKey, SilentEdit, strip
  <2>. HIDE DEF f
  <2>3. EntryOnForm(f, keys[Id], re, Ge) = EntryOnForm(form, keys[Id], re, Ge)
    BY <1>id, <2>1, <2>2, KindsSame
  <2>. QED
    BY <1>id, <2>1, <2>2, <2>3, SilentStep
<1>4. ASSUME NEW d \in Kinds, ChooseKind(d) PROVE UNCHANGED Store!storeVars
  <2>. DEFINE c == CaptureKey[Id]
              f == [form EXCEPT !.slot = d, !.text = FilterKey(c.fields[d], d)]
  <2>1. f \in Form /\ f.slot = d /\ Settings(f) = Settings(form)
    BY <1>id, <1>cap, FilterKeyLemma DEF Form, Settings, Slots, KeyState
  <2>2. /\ form.slot \in Kinds /\ form' = f /\ UNCHANGED <<tabs, active, re, Ge>>
        /\ keys' = [keys EXCEPT ![Id] = Captured(c, f, re, Ge, err)]
    BY <1>4 DEF ChooseKind, strip
  <2>3. \A p \in Plain : c.fields[p] = keys[Id].fields[p]
    BY <1>cap, <2>2, SlotAssumption DEF Slots
  <2>. HIDE DEF f, c
  <2>4. EntryOnForm(f, c, re, Ge) = EntryOnForm(form, keys[Id], re, Ge)
    BY <1>id, <2>1, <2>2, <2>3, KindsSame
  <2>5. c \in KeyState
    BY <1>cap DEF c
  <2>. QED
    BY <2>1, <2>2, <2>4, <2>5, SilentStep
<1>5. ASSUME NEW s \in Slots, SetMode(s) PROVE Store!Next
  BY <1>5, <1>edit DEF SetMode
<1>6. ASSUME NEW p \in Passes, TypePassphrase(p) PROVE Store!Next
  BY <1>6, <1>edit DEF TypePassphrase
<1>7. ASSUME NEW o \in Opts, ChangeDerivation(o) PROVE Store!Next
  BY <1>7, <1>edit DEF ChangeDerivation
<1>s. ASSUME NEW o \in Opts, SetSeedLength(o) PROVE Store!Next
  BY <1>s, <1>edit DEF SetSeedLength
<1>8. ASSUME NEW n \in Nets, ChangeNetwork(n) PROVE Store!Next
  BY <1>8, NetworkStep DEF Store!Next
<1>9. ASSUME PanelClick PROVE UNCHANGED Store!storeVars
  <2>1. /\ form' = form /\ UNCHANGED <<tabs, active, re, Ge>>
        /\ keys' = [keys EXCEPT ![Id] = Captured(keys[Id], form, re, Ge, err)]
    BY <1>9 DEF PanelClick, SilentEdit, strip
  <2>. QED
    BY <1>id, <2>1, SilentStep
<1>10. ASSUME NEW b \in BOOLEAN, CalculateKey(b) PROVE Store!Next
  BY <1>10, CalculateStep DEF Store!Next
<1>11. ASSUME NEW b \in BOOLEAN, RevealPrivate(b) PROVE Store!Next
  BY <1>11, RevealStep DEF Store!Next
<1>12. ASSUME WipeActiveKey PROVE Store!Next
  <2>1. RestoreKey(Id, NewKeyState, keys, [area EXCEPT ![Id] = NoArea]) /\ UNCHANGED strip
    BY <1>12 DEF WipeActiveKey
  <2>2. re' = NoResult /\ \A k \in KeyIds \ {Id} : keys'[k] = keys[k]
    BY <1>id, <2>1, NewKeyStateLemma DEF RestoreKey, KeyTypeOK
  <2>. QED
    BY <2>1, <2>2, EditStep DEF strip, Store!Next
<1>13. ASSUME AddKey PROVE Store!Next
  BY <1>13, AddStep DEF Store!Next
<1>14. ASSUME DeleteActiveKey PROVE Store!Next
  BY <1>14, DeleteStep DEF Store!Next
<1>15. ASSUME ClearSecrets PROVE Store!Next
  BY <1>15, ClearStep DEF Store!Next
<1>16. ASSUME NEW i \in 1..Len(tabs), SelectKey(i) PROVE Store!Next
  BY <1>16, SelectStep DEF Store!Next
<1>17. ASSUME UNCHANGED vars PROVE UNCHANGED Store!storeVars
  <2>1. UNCHANGED <<tabs, active, keys, form, re, Ge>> /\ Id' = Id
    BY <1>17 DEF vars, Id
  <2>2. Entries' = Entries
    BY <2>1, EntriesLemma, EntriesNext
  <2>. QED
    BY <2>1, <2>2 DEF Store!storeVars
<1>. QED
  BY <1>1, <1>2, <1>3, <1>4, <1>5, <1>6, <1>7, <1>s, <1>8, <1>9, <1>10, <1>11, <1>12,
     <1>13, <1>14, <1>15, <1>16, <1>17 DEF Next

\* However keys are edited, derived, shown, switched, added, deleted and
\* cleared, the one form and its registers behave as an independent entry per
\* key: hodlCaptureKey and hodlRestoreKey lose nothing and mix nothing up.
THEOREM SharedFormImplementsStore == Spec => ImplementsStore
<1>1. KeyTypeOK /\ TabsApart /\ [Next]_vars => (KeyTypeOK /\ TabsApart)'
  BY NextType, TabsApartNext
<1>2. Init => KeyTypeOK /\ TabsApart
  BY InitType, TabsApartInit
<1>3. KeyTypeOK /\ KeyTypeOK' /\ TabsApart /\ [Next]_vars => [Store!Next]_Store!storeVars
  BY StoreNext
<1>. QED
  BY <1>1, <1>2, <1>3, StoreInit, PTL DEF Spec, ImplementsStore, Store!Spec
=============================================================================
