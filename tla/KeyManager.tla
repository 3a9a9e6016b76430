----------------------------- MODULE KeyManager -----------------------------
(***************************************************************************)
(* The key manager of EntropyLab (src/src/js/app.js): a strip of key tabs  *)
(* that share ONE form and ONE set of result registers.  Only the active   *)
(* key is "live": its entry is in the form (textarea, radios, selects) and *)
(* its result in the globals re (result) and Ge (private material shown).  *)
(* Every other key is a cached state object.  Changing tab is a hand-over: *)
(* hodlCaptureKey copies form and registers into the object of the key     *)
(* that leaves, hodlRestoreKey copies the other object back.               *)
(*                                                                         *)
(* An entry method that owns a textarea is a "slot": the dice, D++, card,  *)
(* direct-card and seed-word fields are the Plain slots, the four          *)
(* private-key formats the Kinds.  A text is opaque; what the model needs  *)
(* of it is whether it is blank, what the private-key filter makes of it   *)
(* (Clean) and whether a form that holds it can be derived (Derivable).  A *)
(* BitBox02 last word, the number bases and the seed word numbers, which   *)
(* rewrite sibling fields of their own key, are not Plain slots here.      *)
(*                                                                         *)
(* One action is one browser event with all its listeners.  A panel event  *)
(* captures the key in a microtask between the target's own handler and    *)
(* the later panel listeners that drop the result, so the order "change,   *)
(* capture, invalidate" below is the order of the code.                    *)
(***************************************************************************)
EXTENDS Integers, Sequences, FiniteSets, SequencesExt

CONSTANTS
    MaxId,      \* bound: key objects made in one behaviour
    Plain,      \* entry methods whose edits drop the result
    FirstSlot,  \* the method of a new key (COLDCARD dice)
    Kinds,      \* private-key formats
    Wif, Brain, \* the format a fresh form checks; the only unfiltered one
    Texts, Blank,
    Clean,      \* hodlFilterKey, as a function on Texts
    Passes, NoPass,  \* passphrases
    Nets, MainNet,  \* networks (one may stand for several not told apart)
    Opts, FirstOpts, \* account, address count and seed length
    Derivable,  \* forms hodlCanDeriveCurrentKey accepts
    NoResult,   \* re = null
    NoArea      \* no private-key textarea was rendered for the key

KeyIds == 1..MaxId
Slots == Plain \cup Kinds
Form == [slot: Slots, text: Texts, pass: Passes, net: Nets, opts: Opts]
Result == Form      \* a result is told apart by the form it was derived from
KeyState == [slot: Slots, fields: [Slots -> Texts], pass: Passes, net: Nets,
             opts: Opts, result: Result \cup {NoResult}, reveal: BOOLEAN,
             error: BOOLEAN]

ASSUME BoundAssumption == MaxId \in Nat \ {0}
ASSUME SlotAssumption == /\ FirstSlot \in Plain /\ Wif \in Kinds /\ Brain \notin Plain
                         /\ Plain \cap Kinds = {}
ASSUME TextAssumption == /\ Blank \in Texts /\ Clean \in [Texts -> Texts]
                         /\ Clean[Blank] = Blank
                         /\ \A t \in Texts : Clean[Clean[t]] = Clean[t]
ASSUME SettingAssumption ==
    /\ MainNet \in Nets /\ FirstOpts \in Opts /\ NoPass \in Passes
    /\ NoPass \in Texts => Clean[NoPass] = NoPass
ASSUME DerivableAssumption ==
    Derivable \subseteq {f \in Form : f.text # Blank}
ASSUME NullAssumption == NoResult \notin Result /\ NoArea \notin Texts

VARIABLES
    tabs,       \* ids of hodlKeys, in tab order
    active,     \* hodlActiveKey: an index of tabs
    nextId,     \* hodlNextKeyId
    keys,       \* the state objects, by id
    form,       \* the form's controls and the method registers (Ne, ge, ...)
    re, Ge,     \* displayed result; private material shown
    err,        \* the #error line shows a message
    go,         \* the Derive button is enabled
    area,       \* last private-key textarea bound to a key's object
    seen        \* history: secrets entered since they were last cleared

vars == <<tabs, active, nextId, keys, form, re, Ge, err, go, area, seen>>
strip == <<tabs, active, nextId>>

Id == tabs[active]
OpenKeys == {tabs[i] : i \in 1..Len(tabs)}

\* hodlNewKeyState: everything at its default.
NewKeyState == [slot |-> FirstSlot, fields |-> [s \in Slots |-> Blank],
                pass |-> NoPass, net |-> MainNet, opts |-> FirstOpts,
                result |-> NoResult, reveal |-> FALSE, error |-> FALSE]

\* hodlFilterKey: a brain-wallet phrase is kept as typed.
FilterKey(t, kind) == IF kind = Brain THEN t ELSE Clean[t]

CanDerive(f) == f \in Derivable

\* The form hodlRestoreKey shows for a state object.  Rendering the private
\* key form checks WIF and stores it as the key's format before
\* hodlRestoreFormFields reads it back, so the format always returns as WIF.
Shown(slot) == IF slot \in Kinds THEN Wif ELSE slot
FormOf(s) == [slot |-> Shown(s.slot), text |-> s.fields[Shown(s.slot)],
              pass |-> s.pass, net |-> s.net, opts |-> s.opts]

\* Mutant: the capture forgets account, count and seed length.
CapturedWithoutOpts(s, f, r, g, e) ==
    [s EXCEPT !.slot = f.slot, !.fields[f.slot] = f.text, !.pass = f.pass,
              !.net = f.net, !.result = r, !.reveal = g, !.error = e]

\* hodlCaptureKey: form f, result r, reveal g and error e into object s.
Captured(s, f, r, g, e) ==
    [s EXCEPT !.slot = f.slot, !.fields[f.slot] = f.text, !.pass = f.pass,
              !.net = f.net, !.opts = f.opts, !.result = r, !.reveal = g, !.error = e]
CaptureKey == [keys EXCEPT ![Id] = Captured(@, form, re, Ge, err)]

\* hodlInvalidateLiveKeyResult on a state object.
Dropped(s) == [s EXCEPT !.result = NoResult, !.reveal = FALSE]

\* A textarea for the private key is live and bound to the current object
\* (the clearing on pagehide replaces objects under a rendered form).
Bound == form.slot \in Kinds /\ area[Id] # NoArea

-----------------------------------------------------------------------------

KeyTypeOK ==
    /\ tabs \in Seq(KeyIds) /\ active \in 1..Len(tabs)
    /\ nextId \in 1..(MaxId + 1)
    /\ keys \in [KeyIds -> KeyState]
    /\ form \in Form
    /\ re \in Result \cup {NoResult}
    /\ Ge \in BOOLEAN /\ err \in BOOLEAN /\ go \in BOOLEAN
    /\ area \in [KeyIds -> Texts \cup {NoArea}]
    /\ seen \subseteq Texts \cup Passes

\* hodlSeedInitialManagers, then hodlInitKeyManager.
Init ==
    /\ tabs = <<1>> /\ active = 1 /\ nextId = 2
    /\ keys = [k \in KeyIds |-> NewKeyState]
    /\ form = FormOf(NewKeyState)
    /\ re = NoResult /\ Ge = FALSE /\ err = FALSE /\ go = FALSE
    /\ area = [k \in KeyIds |-> NoArea]
    /\ seen = {}

\* Mutant: the reveal flag of the key that leaves stays on screen.
RestoreKeyKeepingReveal(k, s, ks, as) ==
    LET f == FormOf(s) IN
    /\ keys' = [ks EXCEPT ![k] = [s EXCEPT !.slot = f.slot]]
    /\ form' = f
    /\ re' = s.result /\ Ge' = Ge /\ err' = s.error
    /\ go' = CanDerive(f)
    /\ area' = [as EXCEPT ![k] = IF f.slot \in Kinds THEN f.text ELSE @]

\* hodlRestoreKey for key k with object s, the objects otherwise being ks and
\* the textareas as.  The private-key form binds a new textarea to s.
RestoreKey(k, s, ks, as) ==
    LET f == FormOf(s) IN
    /\ keys' = [ks EXCEPT ![k] = [s EXCEPT !.slot = f.slot]]
    /\ form' = f
    /\ re' = s.result /\ Ge' = s.reveal /\ err' = s.error
    /\ go' = CanDerive(f)
    /\ area' = [as EXCEPT ![k] = IF f.slot \in Kinds THEN f.text ELSE @]

\* The end of a panel event whose listeners drop the result: the microtask
\* captured form f and error line e into object s, hodlInvalidateLiveKeyResult
\* followed, and the Derive button was synchronised with f.
InvalidatingEdit(s, f, e) ==
    /\ form' = f
    /\ keys' = [keys EXCEPT ![Id] = Dropped(Captured(s, f, re, Ge, e))]
    /\ re' = NoResult /\ Ge' = FALSE
    /\ go' = CanDerive(f)

\* The end of a panel event that drops nothing.
SilentEdit(f) ==
    /\ form' = f
    /\ keys' = [keys EXCEPT ![Id] = Captured(@, f, re, Ge, err)]
    /\ go' = CanDerive(f)
    /\ UNCHANGED <<re, Ge, err>>

Note(S) == seen' = seen \cup (S \ {Blank, NoPass})

\* What the private-key textarea's own handler leaves in area.
Retyped(t) == IF Bound THEN [area EXCEPT ![Id] = t] ELSE area

-----------------------------------------------------------------------------

\* Typing, tapping or pasting into the textarea of a plain entry method.
TypeText(t) ==
    /\ form.slot \in Plain
    /\ InvalidatingEdit(keys[Id], [form EXCEPT !.text = t], err)
    /\ Note({t})
    /\ UNCHANGED <<strip, err, area>>

\* Typing into the private-key textarea: no listener drops the result.
TypePrivateKey(t) ==
    LET u == FilterKey(t, form.slot) IN
    /\ form.slot \in Kinds
    /\ SilentEdit([form EXCEPT !.text = u])
    /\ area' = Retyped(u)
    /\ Note({t, u})
    /\ UNCHANGED strip

\* A paste recognised as format d moves the text there (never into or out of
\* brain); the format it was pasted in keeps what it last stored.
PastePrivateKey(t, d) ==
    LET u == FilterKey(t, d) IN
    /\ form.slot \in Kinds \ {Brain} /\ d \in Kinds \ {Brain, form.slot}
    /\ SilentEdit([form EXCEPT !.slot = d, !.text = u])
    /\ area' = Retyped(u)
    /\ Note({t, u})
    /\ UNCHANGED strip

\* Choosing another private-key format: the text of the old one is stored, that
\* of the new one shown.
ChooseKind(d) ==
    LET c == CaptureKey[Id]
        u == FilterKey(c.fields[d], d)
        f == [form EXCEPT !.slot = d, !.text = u]
    IN
    /\ form.slot \in Kinds /\ d \in Kinds \ {form.slot}
    /\ form' = f
    /\ keys' = [keys EXCEPT ![Id] = Captured(c, f, re, Ge, err)]
    /\ go' = CanDerive(f)
    /\ area' = Retyped(u)
    /\ UNCHANGED <<strip, re, Ge, err, seen>>

\* Clicking a mode button, the current one included: the form is captured and
\* rendered again for the mode; the panel's click listener drops the result.
\* A dice or card method radio does the same.
SetMode(s) ==
    LET c == CaptureKey[Id]
        f == [form EXCEPT !.slot = s, !.text = c.fields[s]]
    IN
    /\ s \in Plain \cup {Wif}
    /\ InvalidatingEdit(c, f, err)
    /\ area' = [area EXCEPT ![Id] = IF s \in Kinds THEN f.text ELSE @]
    /\ UNCHANGED <<strip, err, seen>>

\* Typing a passphrase.
TypePassphrase(p) ==
    /\ InvalidatingEdit(keys[Id], [form EXCEPT !.pass = p], err)
    /\ Note({p})
    /\ UNCHANGED <<strip, err, area>>

\* Changing account or count.  The error line is cleared by a
\* listener that runs after the capture, so the object keeps the old one.
ChangeDerivation(o) ==
    /\ InvalidatingEdit(keys[Id], [form EXCEPT !.opts = o], err)
    /\ err' = FALSE
    /\ UNCHANGED <<strip, area, seen>>

\* Another seed length: the form is captured and rendered again; this handler
\* clears the error line and the object's own error.
SetSeedLength(o) ==
    /\ form.slot \in Plain /\ o # form.opts
    /\ InvalidatingEdit(CaptureKey[Id], [form EXCEPT !.opts = o], FALSE)
    /\ err' = FALSE
    /\ UNCHANGED <<strip, area, seen>>

\* The listener hodlBindKeyFields adds to the network select each time it
\* renders a private-key form, never removed: for every key whose form was
\* rendered it stores that form's textarea under the format checked NOW, WIF
\* when the form on screen has no formats.  A textarea still on screen stores
\* what the capture stores.
KindNow == IF form.slot \in Kinds THEN form.slot ELSE Wif
Rewrites(k) == area[k] # NoArea /\ ~(k = Id /\ form.slot \in Kinds)
Rewritten(k) == FilterKey(area[k], KindNow)

ChangeNetwork(n) ==
    LET ks == [k \in KeyIds |->
                 IF Rewrites(k)
                 THEN [keys[k] EXCEPT !.fields[KindNow] = Rewritten(k),
                          !.slot = IF @ \in Kinds THEN KindNow ELSE @]
                 ELSE keys[k]]
        f == [form EXCEPT !.net = n]
    IN
    /\ form' = f
    /\ keys' = [ks EXCEPT ![Id] = Dropped(Captured(@, f, re, Ge, err))]
    /\ re' = NoResult /\ Ge' = FALSE /\ err' = FALSE
    /\ go' = CanDerive(f)
    /\ area' = [k \in KeyIds |-> IF Rewrites(k) THEN Rewritten(k) ELSE area[k]]
    /\ UNCHANGED <<strip, seen>>

\* Any other click in the panel only captures.
PanelClick == SilentEdit(form) /\ UNCHANGED <<strip, area, seen>>

\* Mutant: a derivation does not clear the message of the one before.
CalculateKeyKeepingError(ok) ==
    /\ go /\ (ok => CanDerive(form))
    /\ re' = IF ok THEN form ELSE NoResult
    /\ Ge' = (Ge /\ ~ok)
    /\ err' = (err \/ ~ok)
    /\ keys' = [keys EXCEPT ![Id] = Captured(@, form, re', Ge', err')]
    /\ go' = CanDerive(form)
    /\ UNCHANGED <<strip, form, area, seen>>

\* The Derive button; ok: no step of the derivation throws.  A failure forgets
\* the result but not Ge.
CalculateKey(ok) ==
    /\ go /\ (ok => CanDerive(form))
    /\ re' = IF ok THEN form ELSE NoResult
    /\ Ge' = (Ge /\ ~ok)
    /\ err' = ~ok
    /\ keys' = [keys EXCEPT ![Id] = Captured(@, form, re', Ge', err')]
    /\ go' = CanDerive(form)
    /\ UNCHANGED <<strip, form, area, seen>>

\* The reveal checkbox of the result, outside the panel: nothing captures.
RevealPrivate(b) ==
    /\ re # NoResult /\ b # Ge
    /\ Ge' = b
    /\ UNCHANGED <<strip, keys, form, re, err, go, area, seen>>

-----------------------------------------------------------------------------

\* Clear Current Key: a new object under the same id, number and name.  The
\* button is disabled only when the key is at its defaults already.
WipeActiveKey ==
    /\ RestoreKey(Id, NewKeyState, keys, [area EXCEPT ![Id] = NoArea])
    /\ UNCHANGED <<strip, seen>>

\* Mutant: the key that leaves is not captured.
SelectKeyUncaptured(i) ==
    /\ i \in 1..Len(tabs) /\ i # active
    /\ active' = i
    /\ RestoreKey(tabs[i], keys[tabs[i]], keys, area)
    /\ UNCHANGED <<tabs, nextId, seen>>

SelectKey(i) ==
    /\ i \in 1..Len(tabs) /\ i # active
    /\ active' = i
    /\ RestoreKey(tabs[i], CaptureKey[tabs[i]], CaptureKey, area)
    /\ UNCHANGED <<tabs, nextId, seen>>

AddKey ==
    /\ nextId \in KeyIds
    /\ tabs' = Append(tabs, nextId) /\ active' = Len(tabs) + 1
    /\ nextId' = nextId + 1
    /\ RestoreKey(nextId, NewKeyState, CaptureKey, area)
    /\ UNCHANGED seen

\* Mutant: the index is not moved back when the last tab goes.
DeleteActiveKeyUnclamped ==
    LET rest == RemoveAt(tabs, active) IN
    /\ Len(tabs) > 1
    /\ tabs' = rest /\ UNCHANGED <<active, nextId, seen>>
    /\ IF active \in DOMAIN rest
       THEN RestoreKey(rest[active], keys[rest[active]],
                       [keys EXCEPT ![Id] = NewKeyState], [area EXCEPT ![Id] = NoArea])
       ELSE UNCHANGED <<keys, form, re, Ge, err, go, area>>

\* Deleting needs a second key; the neighbour takes the place, uncaptured.
DeleteActiveKey ==
    LET rest == RemoveAt(tabs, active)
        next == IF active <= Len(rest) THEN active ELSE Len(rest)
    IN
    /\ Len(tabs) > 1
    /\ tabs' = rest /\ active' = next
    /\ RestoreKey(rest[next], keys[rest[next]],
                  [keys EXCEPT ![Id] = NewKeyState], [area EXCEPT ![Id] = NoArea])
    /\ UNCHANGED <<nextId, seen>>

\* Mutant: the objects are emptied in place, so old textareas stay bound.
ClearSecretsInPlace ==
    /\ keys' = [k \in KeyIds |-> NewKeyState]
    /\ form' = [form EXCEPT !.text = Blank, !.pass = NoPass]
    /\ re' = NoResult /\ Ge' = FALSE /\ err' = FALSE
    /\ seen' = {}
    /\ UNCHANGED <<strip, go, area>>

\* pagehide, or pageshow from the back/forward cache: every object is replaced,
\* the registers, the textareas, the passphrase and both outputs are cleared;
\* the method registers, the selects and the Derive button stay.
ClearSecrets ==
    /\ keys' = [k \in KeyIds |-> NewKeyState]
    /\ area' = [k \in KeyIds |-> NoArea]
    /\ form' = [form EXCEPT !.text = Blank, !.pass = NoPass]
    /\ re' = NoResult /\ Ge' = FALSE /\ err' = FALSE
    /\ seen' = {}
    /\ UNCHANGED <<strip, go>>

Next ==
    \/ \E t \in Texts : TypeText(t) \/ TypePrivateKey(t)
    \/ \E t \in Texts, d \in Kinds : PastePrivateKey(t, d)
    \/ \E d \in Kinds : ChooseKind(d)
    \/ \E s \in Slots : SetMode(s)
    \/ \E p \in Passes : TypePassphrase(p)
    \/ \E o \in Opts : ChangeDerivation(o) \/ SetSeedLength(o)
    \/ \E n \in Nets : ChangeNetwork(n)
    \/ PanelClick
    \/ \E b \in BOOLEAN : CalculateKey(b) \/ RevealPrivate(b)
    \/ WipeActiveKey \/ AddKey \/ DeleteActiveKey \/ ClearSecrets
    \/ \E i \in 1..Len(tabs) : SelectKey(i)

Spec == Init /\ [][Next]_vars

-----------------------------------------------------------------------------
(* What a reader of the page sees of key k: the live form and registers if   *)
(* it is the active key, its object otherwise.                               *)

Live(k) == k = Id
Settings(x) == [pass |-> x.pass, net |-> x.net, opts |-> x.opts]
SlotOf(k) == IF Live(k) THEN form.slot ELSE keys[k].slot
FieldOf(k, s) == IF Live(k) /\ form.slot = s THEN form.text ELSE keys[k].fields[s]
ResultOf(k) == IF Live(k) THEN re ELSE keys[k].result
RevealOf(k) == IF Live(k) THEN Ge ELSE keys[k].reveal
ShownPrivate(k) == ResultOf(k) # NoResult /\ RevealOf(k)

\* All inputs of a key except the private-key texts and their format.
InputOf(k) == [slot |-> Shown(SlotOf(k)),
               fields |-> [s \in Plain |-> FieldOf(k, s)],
               settings |-> IF Live(k) THEN Settings(form) ELSE Settings(keys[k])]

\* Result w can come from input i: settings, method and text agree; for a
\* private key the method agrees and the text is not compared.
DerivesFrom(i, w) ==
    /\ Shown(w.slot) = i.slot
    /\ Settings(w) = i.settings
    /\ i.slot \in Plain => w.text = i.fields[i.slot]

\* A result, displayed or cached, is the one its key's current inputs give:
\* every edit that matters dropped it, every hand-over between tabs kept
\* result and inputs together (hodlInvalidateLiveKeyResult, hodlCaptureKey,
\* hodlRestoreKey).  Private-key texts are exempt: the code keeps the result
\* of a private key while its textarea is edited.
ResultsCurrent ==
    \A k \in OpenKeys : ResultOf(k) # NoResult => DerivesFrom(InputOf(k), ResultOf(k))

\* An error message is never shown, or kept with a key, beside a result.
ErrorOrResult ==
    /\ err => re = NoResult
    /\ \A k \in OpenKeys : keys[k].error => ResultOf(k) = NoResult

\* After pagehide or a restore from the back/forward cache nothing entered
\* before is left in any form, object, result or bound textarea, and no later
\* step (the leaked network listeners included) brings it back.
SecretsOf(f) == {f.text, f.pass}
Secrets ==
    SecretsOf(form) \cup (IF re = NoResult THEN {} ELSE SecretsOf(re)) \cup
    UNION {{keys[k].pass} \cup {keys[k].fields[s] : s \in Slots} \cup
           (IF keys[k].result = NoResult THEN {} ELSE SecretsOf(keys[k].result)) \cup
           ({area[k]} \ {NoArea}) : k \in KeyIds}
Entered == seen \cup {Clean[t] : t \in seen \cap Texts}
ClearedStaysCleared == Secrets \subseteq Entered \cup {Blank, NoPass}

\* The private material of a key goes on display only by its reveal checkbox:
\* no derivation, tab change or edit turns it on (Ge is saved and restored
\* with the key and survives a failed derivation).
OnlyRevealShows ==
    [][\A k \in KeyIds : ShownPrivate(k)' /\ ~ShownPrivate(k) => RevealPrivate(TRUE)]_vars

\* A private-key format keeps its own text when the network is changed: the
\* text of one format is not stored under another, nor under another key.
FormatsKeptApart ==
    [][(\E n \in Nets : ChangeNetwork(n)) =>
         \A k \in OpenKeys, d \in Kinds : FieldOf(k, d)' = FieldOf(k, d)]_vars
=============================================================================
