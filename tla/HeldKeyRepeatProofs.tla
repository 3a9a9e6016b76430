------------------------ MODULE HeldKeyRepeatProofs ------------------------
(***************************************************************************)
(* Proofs about HeldKeyRepeat, for every set of keys and fields and every  *)
(* number of presses.                                                      *)
(***************************************************************************)
EXTENDS HeldKeyRepeat, TLAPS

\* The key of the press that repeats is held.
HeldIsDown == heldKey # None => press[heldKey].key \in down

IInv == HeldKeyTypeOK /\ HeldIsDown /\ NoOrphanTimer

LEMMA IInvInit == Init => IInv
<1>. SUFFICES ASSUME Init PROVE IInv
    OBVIOUS
<1>1. press \in [Presses -> [target: Fields \cup {None}, key: Keys \cup {None}]]
    BY DEF Init, NoTarget
<1>2. typed \in [by: Presses \cup {None}, odd: BOOLEAN]
    BY DEF Init
<1>3. HeldKeyTypeOK
    BY <1>1, <1>2, PressAssumption DEF Init, HeldKeyTypeOK
<1>. QED
    BY <1>3 DEF Init, IInv, HeldIsDown, NoOrphanTimer

\* stopRepeating leaves no timer and no press.
LEMMA StopLemma ==
    ASSUME NoOrphanTimer, Stop
    PROVE  heldKey' = None /\ NoOrphanTimer'
    BY DEF Stop, NoOrphanTimer

\* A step of the user that makes no press keeps the types, if it ends the
\* repetition or leaves it.
LEMMA UserTypes ==
    ASSUME HeldKeyTypeOK, UNCHANGED <<press, presses, typed>>,
           \/ Stop
           \/ UNCHANGED <<heldKey, timers>>,
           down' \subseteq Keys, focus' \in Fields \cup {None}, attached' \subseteq Fields
    PROVE  HeldKeyTypeOK'
    BY DEF HeldKeyTypeOK, Stop, timers

\* A timer callback of the press that repeats: the press goes on or ends, and
\* it types only into the field that has the focus.
LEMMA RepeatLemma ==
    ASSUME NEW p \in Presses, heldKey = p, RepeatHeldKey(p)
    PROVE  /\ heldKey' \in {p, None}
           /\ typed' # typed => typed'.by = p /\ focus = press[p].target
    BY DEF RepeatHeldKey

\* beginRepeating, from either of its callers.
LEMMA BeginLemma ==
    ASSUME NEW p \in Presses, NoOrphanTimer, Begin(p)
    PROVE  /\ heldKey' \in {heldKey, None} /\ NoOrphanTimer'
           /\ UNCHANGED <<press, presses, down>>
           /\ typed' # typed => /\ typed'.by = p /\ heldKey = p
                                /\ focus = press[p].target
<1>1. CASE heldKey # p \/ p \in intervals
    BY <1>1 DEF Begin, NoOrphanTimer
<1>2. CASE heldKey = p /\ p \notin intervals
    <2>1. RepeatHeldKey(p) /\ delays' = delays \ {p}
        BY <1>2 DEF Begin
    <2>2. intervals' = IF heldKey' = p THEN intervals \cup {p} ELSE intervals \ {p}
        BY <1>2 DEF Begin
    <2>. QED
        BY <1>2, <2>1, <2>2, RepeatLemma DEF Begin, NoOrphanTimer
<1>. QED
    BY <1>1, <1>2

\* A tick of the interval.
LEMMA TickLemma ==
    ASSUME NEW p \in Presses, NoOrphanTimer, Tick(p)
    PROVE  /\ heldKey' \in {heldKey, None} /\ NoOrphanTimer'
           /\ UNCHANGED <<press, presses, down>>
           /\ typed' # typed => /\ typed'.by = p /\ heldKey = p
                                /\ focus = press[p].target
<1>1. CASE heldKey # p
    BY <1>1 DEF Tick, timers, NoOrphanTimer
<1>2. CASE heldKey = p
    <2>1. RepeatHeldKey(p)
        BY <1>2 DEF Tick
    <2>2. CASE heldKey' = p
        BY <1>2, <2>1, <2>2, RepeatLemma DEF Tick, timers, NoOrphanTimer
    <2>3. CASE heldKey' # p
        BY <1>2, <2>1, <2>3, RepeatLemma DEF Tick, NoOrphanTimer
    <2>. QED
        BY <2>2, <2>3
<1>. QED
    BY <1>1, <1>2

\* A step that ends the repetition, or leaves it, and changes no press.
LEMMA KeptDown ==
    ASSUME HeldIsDown, heldKey' \in {heldKey, None}, UNCHANGED <<press, down>>
    PROVE  HeldIsDown'
    BY DEF HeldIsDown

\* What a timer callback may change keeps the types.
LEMMA CallbackTypes ==
    ASSUME NEW p \in Presses, HeldKeyTypeOK, DelayFires(p) \/ Tick(p) \/ Begin(p)
    PROVE  HeldKeyTypeOK'
<1>1. ASSUME RepeatHeldKey(p), heldKey = p
      PROVE  /\ heldKey' \in (1..presses) \cup {None}
             /\ focus' \in Fields \cup {None} /\ attached' \subseteq Fields
             /\ typed' \in [by: Presses \cup {None}, odd: BOOLEAN]
    <2>1. p \in 1..presses
        BY <1>1, NoneAssumption DEF HeldKeyTypeOK
    <2>2. heldKey' \in (1..presses) \cup {None} /\ attached' \subseteq Fields
        BY <1>1, <2>1 DEF RepeatHeldKey, HeldKeyTypeOK
    <2>3. focus' \in Fields \cup {None}
        BY <1>1 DEF RepeatHeldKey, HeldKeyTypeOK
    <2>4. typed' \in [by: Presses \cup {None}, odd: BOOLEAN]
        <3>1. typed \in [by: Presses \cup {None}, odd: BOOLEAN]
            BY DEF HeldKeyTypeOK
        <3>2. typed' = typed \/ typed' = [by |-> p, odd |-> ~typed.odd]
            BY <1>1 DEF RepeatHeldKey
        <3>3. (~typed.odd) \in BOOLEAN
            BY Zenon
        <3>. DEFINE o == ~typed.odd
        <3>4. o \in BOOLEAN
            BY <3>3
        <3>. HIDE DEF o
        <3>5. [by |-> p, odd |-> o] \in [by: Presses \cup {None}, odd: BOOLEAN]
            BY <3>4
        <3>6. typed' = typed \/ typed' = [by |-> p, odd |-> o]
            BY <3>2 DEF o
        <3>. QED
            BY <3>1, <3>5, <3>6
    <2>. QED
        BY <2>2, <2>3, <2>4
<1>2. CASE Begin(p)
    <2>1. CASE heldKey # p \/ p \in intervals
        BY <1>2, <2>1 DEF Begin, HeldKeyTypeOK
    <2>2. CASE heldKey = p /\ p \notin intervals
        <3>1. RepeatHeldKey(p) /\ delays' \subseteq Presses /\ intervals' \subseteq Presses
              /\ UNCHANGED <<press, presses, down>>
            BY <1>2, <2>2 DEF Begin, HeldKeyTypeOK
        <3>. QED
            BY <1>1, <2>2, <3>1 DEF HeldKeyTypeOK
    <2>. QED
        BY <2>1, <2>2
<1>3. CASE Tick(p)
    <2>1. CASE heldKey # p
        BY <1>3, <2>1 DEF Tick, timers, HeldKeyTypeOK
    <2>2. CASE heldKey = p
        <3>1. RepeatHeldKey(p) /\ delays' \subseteq Presses /\ intervals' \subseteq Presses
              /\ UNCHANGED <<press, presses, down>>
            BY <1>3, <2>2 DEF Tick, timers, HeldKeyTypeOK
        <3>. QED
            BY <1>1, <2>2, <3>1 DEF HeldKeyTypeOK
    <2>. QED
        BY <2>1, <2>2
<1>. QED
    BY <1>2, <1>3 DEF DelayFires

LEMMA IInvNext == IInv /\ [Next]_vars => IInv'
<1>. SUFFICES ASSUME IInv, [Next]_vars PROVE IInv'
    OBVIOUS
<1>0. HeldKeyTypeOK /\ HeldIsDown /\ NoOrphanTimer
    BY DEF IInv
<1>1. ASSUME NEW k \in Keys, KeyDown(k) PROVE IInv'
    <2>. DEFINE q == presses + 1
    <2>1. /\ q \in Presses /\ presses' = q /\ heldKey' = q
          /\ presses \in Nat /\ focus \in Fields
          /\ press' = [press EXCEPT ![q] = [target |-> focus, key |-> k]]
          /\ delays' = (delays \ {heldKey}) \cup {q} /\ intervals' = intervals \ {heldKey}
          /\ down' = down \cup {k} /\ UNCHANGED <<focus, attached, typed>>
        BY <1>0, <1>1, PressAssumption DEF KeyDown, HeldKeyTypeOK
    <2>2. q \in 1..presses' /\ presses' \in 0..MaxPress
        BY <2>1, PressAssumption DEF Presses
    <2>3. press' \in [Presses -> [target: Fields \cup {None}, key: Keys \cup {None}]]
        BY <1>0, <2>1 DEF HeldKeyTypeOK
    <2>4. press'[q] = [target |-> focus, key |-> k]
        BY <1>0, <2>1 DEF HeldKeyTypeOK
    <2>5. \A r \in 1..presses' : press'[r] \in [target: Fields, key: Keys]
        <3>1. TAKE r \in 1..presses'
        <3>2. CASE r = q
            BY <2>1, <2>4, <3>2
        <3>3. CASE r # q
            <4>1. r \in 1..presses /\ r \in Presses
                BY <2>1, <2>2, <3>3, PressAssumption DEF Presses
            <4>2. press'[r] = press[r]
                BY <1>0, <2>1, <3>3, <4>1 DEF HeldKeyTypeOK
            <4>. QED
                BY <1>0, <4>1, <4>2 DEF HeldKeyTypeOK
        <3>. QED
            BY <3>2, <3>3
    <2>6. HeldKeyTypeOK'
        BY <1>0, <2>1, <2>2, <2>3, <2>5 DEF HeldKeyTypeOK
    <2>7. HeldIsDown'
        BY <2>1, <2>4 DEF HeldIsDown
    <2>8. NoOrphanTimer'
        BY <1>0, <2>1 DEF NoOrphanTimer
    <2>. QED
        BY <2>6, <2>7, <2>8 DEF IInv
<1>2. ASSUME NEW k \in Keys, KeyUp(k) PROVE IInv'
    <2>1. HeldKeyTypeOK'
        BY <1>0, <1>2, UserTypes DEF KeyUp, StopIf, HeldKeyTypeOK
    <2>2. CASE Stop
        BY <1>0, <2>1, <2>2, StopLemma DEF IInv, HeldIsDown
    <2>3. CASE UNCHANGED <<heldKey, timers>>
        <3>1. ~Stop => (heldKey # None => press[heldKey].key # k)
            BY <1>2 DEF KeyUp, StopIf
        <3>2. CASE Stop
            BY <2>2, <3>2
        <3>3. CASE ~Stop
            BY <1>0, <1>2, <2>1, <2>3, <3>1, <3>3
            DEF IInv, KeyUp, HeldIsDown, NoOrphanTimer, timers
        <3>. QED
            BY <3>2, <3>3
    <2>. QED
        BY <1>2, <2>2, <2>3 DEF KeyUp, StopIf
<1>3. ASSUME NEW f \in Fields \cup {None}, MoveFocus(f) PROVE IInv'
    <2>1. HeldKeyTypeOK'
        BY <1>0, <1>3, UserTypes DEF MoveFocus, StopIf, HeldKeyTypeOK
    <2>2. heldKey' \in {heldKey, None} /\ UNCHANGED <<press, down>>
        BY <1>3 DEF MoveFocus, StopIf, Stop
    <2>3. NoOrphanTimer'
        BY <1>0, <1>3, StopLemma DEF MoveFocus, StopIf, NoOrphanTimer, timers
    <2>. QED
        BY <1>0, <2>1, <2>2, <2>3, KeptDown DEF IInv
<1>4. CASE WindowBlur
    <2>1. HeldKeyTypeOK'
        BY <1>0, <1>4, UserTypes DEF WindowBlur, HeldKeyTypeOK
    <2>. QED
        BY <1>0, <1>4, <2>1, StopLemma DEF IInv, WindowBlur, HeldIsDown
<1>5. ASSUME NEW p \in Presses, Begin(p) PROVE IInv'
    BY <1>0, <1>5, BeginLemma, CallbackTypes, KeptDown DEF IInv
<1>6. ASSUME NEW p \in Presses, Tick(p) PROVE IInv'
    BY <1>0, <1>6, TickLemma, CallbackTypes, KeptDown DEF IInv
<1>7. ASSUME NEW k \in Keys, NativeRepeat(k) PROVE IInv'
    <2>1. heldKey \in Presses /\ Begin(heldKey)
        BY <1>0, <1>7, PressAssumption DEF NativeRepeat, HeldKeyTypeOK, Presses
    <2>. QED
        BY <1>5, <2>1
<1>8. CASE UNCHANGED vars
    BY <1>0, <1>8 DEF vars, timers, user, IInv, HeldKeyTypeOK, HeldIsDown, NoOrphanTimer
<1>. QED
    BY <1>1, <1>2, <1>3, <1>4, <1>5, <1>6, <1>7, <1>8 DEF Next, DelayFires

LEMMA IInvAlways == Spec => []IInv
    BY IInvInit, IInvNext, PTL DEF Spec

\* Types: a press always has its field and its key.
THEOREM HeldKeyTypeCorrect == Spec => []HeldKeyTypeOK
<1>1. IInv => HeldKeyTypeOK
    BY DEF IInv
<1>. QED
    BY <1>1, IInvAlways, PTL

\* A timer is armed only for the press that repeats (stopRepeating clears all
\* there are).
THEOREM TimersOwned == Spec => []NoOrphanTimer
<1>1. IInv => NoOrphanTimer
    BY DEF IInv
<1>. QED
    BY <1>1, IInvAlways, PTL

\* A timer types only while its key is held and its field has the focus.
THEOREM HeldKeysType == Spec => TypesOnlyWhileHeld
<1>. DEFINE A == typed' # typed => /\ press[typed'.by].key \in down
                                  /\ focus = press[typed'.by].target
<1>1. IInv /\ [Next]_vars => [A]_vars
    <2>. SUFFICES ASSUME IInv, Next PROVE A
        BY DEF vars
    <2>0. HeldKeyTypeOK /\ HeldIsDown /\ NoOrphanTimer
        BY DEF IInv
    <2>1. ASSUME NEW p \in Presses, Begin(p) \/ Tick(p) PROVE A
        <3>1. typed' # typed => typed'.by = p /\ heldKey = p /\ focus = press[p].target
            BY <2>0, <2>1, BeginLemma, TickLemma
        <3>2. p # None
            BY NoneAssumption
        <3>. QED
            BY <2>0, <3>1, <3>2 DEF HeldIsDown
    <2>2. ASSUME NEW k \in Keys, NativeRepeat(k) PROVE A
        <3>1. heldKey \in Presses /\ Begin(heldKey)
            BY <2>0, <2>2, PressAssumption DEF NativeRepeat, HeldKeyTypeOK, Presses
        <3>. QED
            BY <2>1, <3>1
    <2>3. ASSUME NEW k \in Keys, KeyDown(k) \/ KeyUp(k) PROVE A
        BY <2>3 DEF KeyDown, KeyUp
    <2>4. ASSUME NEW f \in Fields \cup {None}, MoveFocus(f) PROVE A
        BY <2>4 DEF MoveFocus
    <2>5. CASE WindowBlur
        BY <2>5 DEF WindowBlur
    <2>. QED
        BY <2>1, <2>2, <2>3, <2>4, <2>5 DEF Next, DelayFires
<1>. QED
    BY <1>1, IInvAlways, PTL DEF Spec, TypesOnlyWhileHeld
=============================================================================
