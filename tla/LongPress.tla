------------------------------- MODULE LongPress -------------------------------
(***************************************************************************)
(* The Delete key of the on-screen keyboards and of the number pad         *)
(* (hodlBindSeedKeyboardDelete, src/src/js/app.js 3583-3635).  A press     *)
(* arms a hold timer; when it fires the key deletes and an interval        *)
(* repeats it.  The browser follows the release of the pointer with a      *)
(* click, which deletes once, unless the press has repeated already.  The  *)
(* keyboard's refresh disables the key while nothing stands before the     *)
(* caret; the form may be rendered anew under the finger, and the old key  *)
(* then never hears of the release.                                        *)
(***************************************************************************)
EXTENDS Naturals

CONSTANT MaxBefore      \* bound: characters before the caret

ASSUME MaxBeforeAssumption == MaxBefore \in Nat \ {0}

VARIABLES
    before,     \* characters before the caret of the field the key deletes from
    down,       \* the pointer is down on the key
    hold,       \* holdTimer is armed
    repeat,     \* repeatTimer is armed
    repeated,   \* the flag that swallows a click
    orphan,     \* timer of a key taken out of the page: "none", "hold", "repeat"
    byTimer     \* history: a timer of the last press has deleted

timersOfKey == <<hold, repeat>>
longPressVars == <<before, down, hold, repeat, repeated, orphan, byTimer>>

LongPressTypeOK ==
    /\ before \in 0..MaxBefore
    /\ down \in BOOLEAN /\ hold \in BOOLEAN /\ repeat \in BOOLEAN /\ repeated \in BOOLEAN
    /\ orphan \in {"none", "hold", "repeat"}
    /\ byTimer \in BOOLEAN

LongPressInit ==
    /\ before \in 0..MaxBefore
    /\ down = FALSE /\ hold = FALSE /\ repeat = FALSE /\ repeated = FALSE
    /\ orphan = "none" /\ byTimer = FALSE

\* The key is disabled while the caret is at the start of the field.
KeyLit == before > 0

StopTimers == hold' = FALSE /\ repeat' = FALSE

-----------------------------------------------------------------------------

\* Mutant: a press does not forget that the one before it repeated.
PressKeepingRepeated ==
    /\ ~down /\ KeyLit
    /\ down' = TRUE /\ hold' = TRUE /\ repeat' = FALSE
    /\ byTimer' = FALSE
    /\ UNCHANGED <<before, orphan, repeated>>

\* pointerdown on the key.
Press ==
    /\ ~down /\ KeyLit
    /\ down' = TRUE /\ hold' = TRUE /\ repeat' = FALSE /\ repeated' = FALSE
    /\ byTimer' = FALSE
    /\ UNCHANGED <<before, orphan>>

\* Mutant: the hold deletes once and never starts the interval.
HoldFiresOnce ==
    /\ hold /\ hold' = FALSE
    /\ repeated' = TRUE
    /\ repeat' = FALSE
    /\ before' = IF KeyLit THEN before - 1 ELSE before
    /\ byTimer' = KeyLit
    /\ UNCHANGED <<down, orphan>>

\* The hold timer: the press counts as repeated even if nothing is left.
HoldFires ==
    /\ hold /\ hold' = FALSE
    /\ repeated' = TRUE
    /\ before' = IF KeyLit THEN before - 1 ELSE before
    /\ repeat' = (before' > 0)
    /\ byTimer' = KeyLit
    /\ UNCHANGED <<down, orphan>>

\* The interval: it ends itself at a key that is disabled.
RepeatFires ==
    /\ repeat
    /\ IF KeyLit
         THEN before' = before - 1 /\ byTimer' = TRUE /\ UNCHANGED timersOfKey
         ELSE StopTimers /\ UNCHANGED <<before, byTimer>>
    /\ UNCHANGED <<down, repeated, orphan>>

\* Mutant: the click of a release deletes whether or not the hold did.
ReleaseAlwaysDeletes ==
    /\ down /\ down' = FALSE
    /\ StopTimers
    /\ IF KeyLit
         THEN before' = before - 1 /\ repeated' = FALSE
         ELSE UNCHANGED <<before, repeated>>
    /\ UNCHANGED <<orphan, byTimer>>

\* The click that follows a pointer's release, or the keyboard's.
Click ==
    IF repeated
      THEN repeated' = FALSE /\ UNCHANGED before
      ELSE before' = before - 1 /\ UNCHANGED repeated

\* pointerup over the key, with the click of a key that is still enabled.
Release ==
    /\ down /\ down' = FALSE
    /\ StopTimers
    /\ IF KeyLit THEN Click ELSE UNCHANGED <<before, repeated>>
    /\ UNCHANGED <<orphan, byTimer>>

\* Mutant: a pointer that leaves the key is not heard.
LeaveUnheard ==
    /\ down /\ down' = FALSE
    /\ UNCHANGED <<before, timersOfKey, repeated, orphan, byTimer>>

\* pointerleave, pointercancel or a lost capture: no click follows.
Leave ==
    /\ down /\ down' = FALSE
    /\ StopTimers
    /\ UNCHANGED <<before, repeated, orphan, byTimer>>

\* Enter or Space on the key: a click without a pointer.
KeyboardClick ==
    /\ ~down /\ KeyLit
    /\ Click
    /\ UNCHANGED <<down, timersOfKey, orphan, byTimer>>

\* Typing, a paste, a move of the caret or a clearing of the field.
EditBefore ==
    /\ before' \in (0..MaxBefore) \ {before}
    /\ UNCHANGED <<down, timersOfKey, repeated, orphan, byTimer>>

\* The form is rendered anew: another key with a closure of its own.  The old
\* key keeps its timers; only those of the passphrase field, which outlives
\* the form, still delete anything (outlives).
RenderAnew(outlives) ==
    /\ down' = FALSE /\ repeated' = FALSE /\ StopTimers
    /\ orphan' = IF ~outlives \/ (~hold /\ ~repeat) THEN orphan
                 ELSE IF hold THEN "hold" ELSE "repeat"
    /\ byTimer' = FALSE
    /\ UNCHANGED before

\* A timer of the old key: nothing disables that key, so it never ends.
OrphanFires ==
    /\ orphan # "none"
    /\ orphan' = "repeat"
    /\ before' = IF before > 0 THEN before - 1 ELSE before
    /\ UNCHANGED <<down, timersOfKey, repeated, byTimer>>

LongPressNext ==
    \/ Press \/ Release \/ Leave \/ KeyboardClick
    \/ HoldFires \/ RepeatFires \/ OrphanFires
    \/ EditBefore
    \/ \E outlives \in BOOLEAN : RenderAnew(outlives)

\* A timer that stays armed fires; the user owes nothing.
LongPressFairness ==
    WF_longPressVars(HoldFires) /\ WF_longPressVars(RepeatFires)

LongPressSpec == LongPressInit /\ [][LongPressNext]_longPressVars /\ LongPressFairness

-----------------------------------------------------------------------------
(* Properties *)

\* The timers of the key in the page run only under the pointer: whichever way
\* the pointer goes away, nothing is deleted after it (stop).
DeletesOnlyWhileHeld == hold \/ repeat => down

\* A press that has deleted by its timers deletes nothing more by the click of
\* its release (the flag repeated outlives the timers it stands for).
HeldReleaseDeletesNothing == [][Release /\ byTimer => before' = before]_longPressVars

\* A click is swallowed only on account of a hold that fired: never the click of
\* a short press, whatever presses came before it.
ShortPressDeletes == [][Release /\ hold /\ KeyLit => before' = before - 1]_longPressVars

\* Holding the key repeats: once the hold is armed the key deletes again and
\* again until the pointer goes, nothing is left to delete, or the key goes.
HoldingRepeats == hold ~> (repeat \/ before = 0 \/ ~down)
=============================================================================
