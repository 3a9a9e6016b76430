---------------------------- MODULE HeldKeyRepeat ----------------------------
(***************************************************************************)
(* Repetition of a held key in text fields (src/src/js/repeat-inputs.js).  *)
(* Each press makes a state object with a delay timer and, later, an       *)
(* interval timer; the global heldKey names the press that repeats.  An    *)
(* insertion runs the field's input handlers inside the timer callback:    *)
(* they may move the focus, which stops the repetition there and then, or  *)
(* render the form anew, which takes the field out of the page.            *)
(***************************************************************************)
EXTENDS Integers, FiniteSets

CONSTANTS
    Keys,       \* physical keys of one character each
    Fields,     \* repeatable text fields
    None,       \* no press, no field
    MaxPress    \* bound: presses in one behaviour

Presses == 1..MaxPress

ASSUME PressAssumption == MaxPress \in Nat \ {0}
ASSUME NoneAssumption == None \notin Fields /\ None \notin Presses

VARIABLES
    heldKey,    \* the press that repeats
    press,      \* target and identity of each press
    delays,     \* presses whose delay timer is armed
    intervals,  \* presses whose interval timer is armed
    presses,    \* presses made
    down,       \* keys the user holds
    focus,      \* document.activeElement
    attached,   \* fields in the page
    typed       \* history: the press of each insertion by a timer

timers == <<delays, intervals>>
user == <<down, focus, attached>>
vars == <<heldKey, press, timers, presses, user, typed>>

NoTarget == [target |-> None, key |-> None]

HeldKeyTypeOK ==
    /\ heldKey \in (1..presses) \cup {None}
    /\ press \in [Presses -> [target: Fields \cup {None}, key: Keys \cup {None}]]
    /\ \A p \in 1..presses : press[p] \in [target: Fields, key: Keys]
    /\ delays \subseteq Presses /\ intervals \subseteq Presses
    /\ presses \in 0..MaxPress
    /\ down \subseteq Keys
    /\ focus \in Fields \cup {None} /\ attached \subseteq Fields
    /\ typed \in [by: Presses \cup {None}, odd: BOOLEAN]

Init ==
    /\ heldKey = None /\ press = [p \in Presses |-> NoTarget]
    /\ delays = {} /\ intervals = {} /\ presses = 0
    /\ down = {} /\ focus = None /\ attached = Fields
    /\ typed = [by |-> None, odd |-> FALSE]

\* stopRepeating: the timers of the press that repeats are cleared.
Stop ==
    /\ heldKey' = None
    /\ delays' = delays \ {heldKey} /\ intervals' = intervals \ {heldKey}
StopIf(b) == IF b THEN Stop ELSE UNCHANGED <<heldKey, timers>>

-----------------------------------------------------------------------------

\* Mutant: what disarms the old press disarms the new one with it.
KeyDownDisarmed(k) ==
    LET p == presses + 1 IN
    /\ focus # None /\ k \notin down /\ p \in Presses
    /\ presses' = p
    /\ press' = [press EXCEPT ![p] = [target |-> focus, key |-> k]]
    /\ heldKey' = p
    /\ delays' = delays \ {heldKey} /\ intervals' = intervals \ {heldKey}
    /\ down' = down \cup {k}
    /\ UNCHANGED <<focus, attached, typed>>

\* Mutant: the press does not remember its field.
KeyDownUntargeted(k) ==
    LET p == presses + 1 IN
    /\ focus # None /\ k \notin down /\ p \in Presses
    /\ presses' = p
    /\ press' = [press EXCEPT ![p] = [target |-> None, key |-> k]]
    /\ heldKey' = p
    /\ delays' = (delays \ {heldKey}) \cup {p} /\ intervals' = intervals \ {heldKey}
    /\ down' = down \cup {k}
    /\ UNCHANGED <<focus, attached, typed>>

\* keydown, not a repeat: whatever repeated stops, the new press waits.
KeyDown(k) ==
    LET p == presses + 1 IN
    /\ focus # None /\ k \notin down /\ p \in Presses
    /\ presses' = p
    /\ press' = [press EXCEPT ![p] = [target |-> focus, key |-> k]]
    /\ heldKey' = p
    /\ delays' = (delays \ {heldKey}) \cup {p} /\ intervals' = intervals \ {heldKey}
    /\ down' = down \cup {k}
    /\ UNCHANGED <<focus, attached, typed>>

\* Mutant: a keyup is not heard before the interval runs.
KeyUpOnceRepeating(k) ==
    /\ k \in down /\ down' = down \ {k}
    /\ StopIf(heldKey # None /\ press[heldKey].key = k /\ heldKey \in intervals)
    /\ UNCHANGED <<press, presses, focus, attached, typed>>

\* keyup.
KeyUp(k) ==
    /\ k \in down /\ down' = down \ {k}
    /\ StopIf(heldKey # None /\ press[heldKey].key = k)
    /\ UNCHANGED <<press, presses, focus, attached, typed>>

\* The focus moves to field f, or to none: focusout of the field it leaves.
MoveFocus(f) ==
    /\ f # focus /\ f \in attached \cup {None} /\ focus' = f
    /\ StopIf(heldKey # None /\ press[heldKey].target = focus)
    /\ UNCHANGED <<press, presses, down, attached, typed>>

\* The window loses the focus or is hidden; keys are released unheard.
WindowBlur ==
    /\ down' = {}
    /\ Stop
    /\ UNCHANGED <<press, presses, focus, attached, typed>>

-----------------------------------------------------------------------------

\* repeatHeldKey for press p.  The field's own input handlers may move the
\* focus (focusout stops the repetition inside this callback), or take the
\* field out of the page (not every browser sends focusout then).
RepeatHeldKey(p) ==
    IF press[p].target \in attached /\ focus = press[p].target
    THEN /\ typed' = [by |-> p, odd |-> ~typed.odd]
         /\ \/ UNCHANGED <<heldKey, focus, attached>>
            \/ /\ focus' \in (attached \cup {None}) \ {focus} /\ heldKey' = None
               /\ UNCHANGED attached
            \/ /\ focus' = None /\ attached' = attached \ {focus}
               /\ heldKey' \in {p, None}
    ELSE heldKey' = None /\ UNCHANGED <<focus, attached, typed>>

\* Mutant: the interval is set without asking whether the first insertion
\* stopped the repetition.
BeginUnchecked(p) ==
    /\ delays' = delays \ {p}
    /\ IF heldKey # p \/ p \in intervals
       THEN UNCHANGED <<heldKey, intervals, focus, attached, typed>>
       ELSE RepeatHeldKey(p) /\ intervals' = intervals \cup {p}
    /\ UNCHANGED <<press, presses, down>>

\* beginRepeating for press p: one insertion, then the interval.
Begin(p) ==
    /\ delays' = delays \ {p}
    /\ IF heldKey # p \/ p \in intervals
       THEN UNCHANGED <<heldKey, intervals, focus, attached, typed>>
       ELSE /\ RepeatHeldKey(p)
            /\ intervals' = IF heldKey' = p THEN intervals \cup {p} ELSE intervals \ {p}
    /\ UNCHANGED <<press, presses, down>>

DelayFires(p) == p \in delays /\ Begin(p)

\* keydown repeated by the keyboard itself: the wait is over.
NativeRepeat(k) ==
    /\ k \in down /\ heldKey # None
    /\ press[heldKey] = [target |-> focus, key |-> k]
    /\ heldKey \notin intervals
    /\ Begin(heldKey)

\* The interval of press p; stopRepeating(state) leaves it alone if another
\* press repeats.
Tick(p) ==
    /\ p \in intervals
    /\ IF heldKey # p
       THEN UNCHANGED <<heldKey, timers, focus, attached, typed>>
       ELSE /\ RepeatHeldKey(p)
            /\ IF heldKey' = p THEN UNCHANGED timers
               ELSE delays' = delays \ {p} /\ intervals' = intervals \ {p}
    /\ UNCHANGED <<press, presses, down>>

Next ==
    \/ \E k \in Keys : KeyDown(k) \/ KeyUp(k) \/ NativeRepeat(k)
    \/ \E f \in Fields \cup {None} : MoveFocus(f)
    \/ WindowBlur
    \/ \E p \in Presses : DelayFires(p) \/ Tick(p)

\* Timers run; nothing makes the user act.
Fairness == \A p \in Presses : WF_vars(DelayFires(p)) /\ WF_vars(Tick(p))

Spec == Init /\ [][Next]_vars /\ Fairness

-----------------------------------------------------------------------------

\* A timer is armed only for the press that repeats.  stopRepeating clears the
\* timers of heldKey alone, and a tick of any other press returns before it
\* clears anything, so a timer left behind would run until the page closes.
NoOrphanTimer == delays \cup intervals \subseteq {heldKey}

\* A timer types only while its key is held and its field has the focus, even
\* when another key was pressed, or released, in the meantime.
TypesOnlyWhileHeld ==
    [][typed' # typed => /\ press[typed'.by].key \in down
                         /\ focus = press[typed'.by].target]_vars

\* A key that stays held in its field is repeated.
HeldKeyRepeats ==
    \A p \in Presses : (heldKey = p) ~> (heldKey # p \/ typed.by = p)
=============================================================================
