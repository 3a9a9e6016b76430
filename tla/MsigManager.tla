---------------------------- MODULE MsigManager ----------------------------
(***************************************************************************)
(* The multisig manager and the workspace switch (src/src/js/app.js).      *)
(* Multisig tabs share one form, as keys do, and the same registers re and *)
(* Ge that the key workspace uses: hodlShowWorkspace hands them over.      *)
(* The form shows the co-signer fields 1..n; a tab's object also caches    *)
(* the texts beyond n, so that lowering n and raising it again loses none. *)
(* The script type and, for Legacy, the derivation standard (the checkbox  *)
(* msig-legacy-bip87) follow the evidence in the co-signer texts.          *)
(*                                                                         *)
(* The key workspace is kept to what the hand-over needs: the result and   *)
(* reveal flag of its active key (KeyManager models the rest).             *)
(***************************************************************************)
EXTENDS Integers, Sequences, FiniteSets, SequencesExt

CONSTANTS
    MaxId,              \* bound: multisig objects made in one behaviour
    MaxN,               \* hodlMsigSliderLimit
    FirstM, FirstN,     \* a new multisig is FirstM of FirstN
    Texts, Blank,       \* co-signer texts; two texts are two keys
    Evidence,           \* what parsing tells of a text, see Evidences
    Scripts, FirstScript, Legacy, Mixed,
    Networks, FirstNetwork, Counts, FirstCount,
    KeyWallets, NoResult

Ids == 1..MaxId
Cosigners == 1..MaxN
Orders == {"sorted", "listed"}

\* The script types of a key's prefix and origin, the Legacy standard of its
\* origin, its network, and whether key and origin are whole and agree.
Evidences == [kinds: SUBSET Scripts, standards: SUBSET {"bip45", "bip87"},
              network: Networks, whole: BOOLEAN]

Inputs == [m: 1..MaxN, n: 1..MaxN, script: Scripts \cup {Mixed}, bip87: BOOLEAN,
           order: Orders, network: Networks, count: Counts, xpubs: [Cosigners -> Texts]]
Results == Inputs \cup KeyWallets \cup {NoResult}
MsigState == [m: 1..MaxN, n: 1..MaxN, script: Scripts \cup {Mixed}, bip87: BOOLEAN,
              order: Orders, network: Networks, count: Counts, xpubs: [Cosigners -> Texts],
              result: Results, error: BOOLEAN]

ASSUME BoundAssumption == MaxId \in Nat \ {0} /\ MaxN \in Nat \ {0}
ASSUME FirstAssumption ==
    /\ FirstN \in 1..MaxN /\ FirstM \in 1..FirstN
    /\ FirstScript \in Scripts /\ Legacy \in Scripts /\ Mixed \notin Scripts
    /\ FirstNetwork \in Networks /\ FirstCount \in Counts
ASSUME EvidenceAssumption ==
    /\ Blank \in Texts /\ Evidence \in [Texts -> Evidences]
    /\ Evidence[Blank].kinds = {} /\ Evidence[Blank].standards = {}
ASSUME ResultAssumption == NoResult \notin KeyWallets \cup Inputs /\ KeyWallets \cap Inputs = {}

VARIABLES
    tabs, active, nextId,   \* open multisigs, index of the active one
    msigs,                  \* the state objects
    form,                   \* the form's controls; fields beyond n are blank
    lastConcrete,           \* data-last-concrete of the script select
    msigError,              \* the #msig-error line shows a message
    re, Ge,                 \* the registers both workspaces share
    workspace,
    key                     \* result and reveal flag of the active key's object

strip == <<tabs, active, nextId>>
msigVars == <<strip, msigs, form, lastConcrete, msigError>>
vars == <<msigVars, re, Ge, workspace, key>>

Id == tabs[active]
OpenMsigs == {tabs[i] : i \in 1..Len(tabs)}
Min2(a, b) == IF a <= b THEN a ELSE b
Max2(a, b) == IF a >= b THEN a ELSE b

NewMsigState == [m |-> FirstM, n |-> FirstN, script |-> FirstScript, bip87 |-> FALSE,
                 order |-> "sorted", network |-> FirstNetwork, count |-> FirstCount,
                 xpubs |-> [i \in Cosigners |-> Blank], result |-> NoResult, error |-> FALSE]

\* The fields 1..n of texts x.
Rows(x, n) == [i \in Cosigners |-> IF i <= n THEN x[i] ELSE Blank]

\* Mutant: only the fields on screen are kept.
MergeRowsOnly(x, f) == Rows(f.xpubs, f.n)

\* hodlMergeMsigXpubs: cached texts x, overwritten by the fields of form f.
MergeMsigXpubs(x, f) == [i \in Cosigners |-> IF i <= f.n THEN f.xpubs[i] ELSE x[i]]

\* hodlCaptureMsig; a register that holds no multisig counts as empty.
Captured(s, f, r, e) ==
    [m |-> f.m, n |-> f.n, script |-> f.script, bip87 |-> f.bip87, order |-> f.order,
     network |-> f.network, count |-> f.count, xpubs |-> MergeMsigXpubs(s.xpubs, f),
     result |-> IF r \in Inputs THEN r ELSE NoResult, error |-> e]
CaptureMsig == [msigs EXCEPT ![Id] = Captured(@, form, re, msigError)]

\* The inputs of an object: what its form shows.
InputsOf(s) == [m |-> s.m, n |-> s.n, script |-> s.script, bip87 |-> s.bip87,
                order |-> s.order, network |-> s.network, count |-> s.count,
                xpubs |-> Rows(s.xpubs, s.n)]

\* hodlDetectMsigScriptSummary: the script types and the Legacy standards that
\* the co-signers of form f speak for, and whether they contradict each other.
Kinds(f) == UNION {Evidence[f.xpubs[i]].kinds : i \in 1..f.n}
Standards(f) == UNION {Evidence[f.xpubs[i]].standards : i \in 1..f.n}
Conflict(f) ==
    \/ Cardinality(Kinds(f)) > 1
    \/ Standards(f) = {"bip45", "bip87"}
    \/ "bip87" \in Standards(f) /\ Kinds(f) \ {Legacy} # {}

\* hodlUpdateMsigScriptDetection on form f, the last concrete script being l.
Spoken(f, l) ==
    IF Kinds(f) # {} THEN CHOOSE k \in Kinds(f) : TRUE
    ELSE IF f.script = Mixed THEN l ELSE f.script
Detected(f, l) == IF Conflict(f) THEN Mixed ELSE Spoken(f, l)
Concrete(f, l) ==
    IF ~Conflict(f) THEN Spoken(f, l) ELSE IF f.script = Mixed THEN l ELSE f.script
Bip87(f, l) ==
    IF Detected(f, l) = Legacy /\ Cardinality(Standards(f)) = 1
    THEN Standards(f) = {"bip87"} ELSE f.bip87

\* Mutant: detection takes every Legacy key for a BIP45 one.
DetectBip45(f) ==
    /\ form' = [f EXCEPT !.script = Detected(f, lastConcrete),
                         !.bip87 = (f.bip87 /\ Detected(f, lastConcrete) # Legacy)]
    /\ lastConcrete' = Concrete(f, lastConcrete)

Detect(f) ==
    /\ form' = [f EXCEPT !.script = Detected(f, lastConcrete), !.bip87 = Bip87(f, lastConcrete)]
    /\ lastConcrete' = Concrete(f, lastConcrete)
Undetected(f) == form' = f /\ UNCHANGED lastConcrete

\* hodlValidatedMsigInputs: every field holds a whole key of the script, for
\* Legacy of the standard chosen, and of the network; none is there twice. A
\* BIP87 account key names no script type.
Wanted(f) ==
    [kinds     |-> IF f.script = Legacy /\ f.bip87 THEN {} ELSE {f.script},
     standards |-> IF f.script # Legacy THEN {} ELSE {IF f.bip87 THEN "bip87" ELSE "bip45"},
     network   |-> f.network, whole |-> TRUE]
Valid(f) ==
    /\ f.script # Mixed
    /\ \A i \in 1..f.n : Evidence[f.xpubs[i]] = Wanted(f)
    /\ \A i, j \in 1..f.n : f.xpubs[i] = f.xpubs[j] => i = j

MsigTypeOK ==
    /\ tabs \in Seq(Ids) /\ active \in 1..Len(tabs) /\ nextId \in 1..(MaxId + 1)
    /\ msigs \in [Ids -> MsigState] /\ \A k \in Ids : msigs[k].m <= msigs[k].n
    /\ form \in Inputs /\ form.m <= form.n /\ form.xpubs = Rows(form.xpubs, form.n)
    /\ lastConcrete \in Scripts /\ msigError \in BOOLEAN
    /\ re \in Results /\ Ge \in BOOLEAN
    /\ workspace \in {"calc", "msig", "psbt"}
    /\ key \in [result: Results, reveal: BOOLEAN]

Init ==
    /\ tabs = <<1>> /\ active = 1 /\ nextId = 2
    /\ msigs = [k \in Ids |-> NewMsigState]
    /\ form = InputsOf(NewMsigState) /\ lastConcrete = FirstScript /\ msigError = FALSE
    /\ re = NoResult /\ Ge = FALSE
    /\ workspace = "calc"
    /\ key = [result |-> NoResult, reveal |-> FALSE]

-----------------------------------------------------------------------------
(* The multisig form.                                                        *)

InMsig == workspace = "msig"
Unswitched == UNCHANGED <<strip, Ge, workspace, key>>

\* hodlInvalidateMsig after an event that left form', and the panel's microtask
\* that captures it over object s.
Edited(s) ==
    /\ re' = NoResult /\ msigError' = FALSE
    /\ msigs' = [msigs EXCEPT ![Id] = Captured(s, form', NoResult, FALSE)]
    /\ Unswitched

TypeXpub(i, t) ==
    /\ InMsig /\ i <= form.n
    /\ Detect([form EXCEPT !.xpubs[i] = t]) /\ Edited(msigs[Id])
ChooseScript(k) == InMsig /\ Detect([form EXCEPT !.script = k]) /\ Edited(msigs[Id])
ChangeNetwork(w) == InMsig /\ Detect([form EXCEPT !.network = w]) /\ Edited(msigs[Id])
ChangeOrder(o) == InMsig /\ Detect([form EXCEPT !.order = o]) /\ Edited(msigs[Id])

\* The address count and the checkbox, offered for Legacy, start no detection.
ChangeCount(c) == InMsig /\ Undetected([form EXCEPT !.count = c]) /\ Edited(msigs[Id])
ToggleBip87 ==
    /\ InMsig /\ form.script = Legacy
    /\ Undetected([form EXCEPT !.bip87 = ~form.bip87]) /\ Edited(msigs[Id])

\* Move up or Move down, offered for a listed order.
MoveMsigKeyRow(i) ==
    /\ InMsig /\ form.order = "listed" /\ i < form.n
    /\ Undetected([form EXCEPT !.xpubs[i] = form.xpubs[i + 1], !.xpubs[i + 1] = form.xpubs[i]])
    /\ Edited(msigs[Id])

\* Mutant: the other threshold is not moved.
ThresholdsUnmoved(h, v) == IF h = "m" THEN <<v, form.n>> ELSE <<form.m, v>>

\* hodlSetMsigThresholds with moveOther, and hodlFillKeys for the new n.
Thresholds(h, v) == IF h = "m" THEN <<v, Max2(form.n, v)>> ELSE <<Min2(form.m, v), v>>
Refilled(h, v) ==
    LET mn == Thresholds(h, v) IN
    [form EXCEPT !.m = mn[1], !.n = mn[2],
                 !.xpubs = Rows(MergeMsigXpubs(msigs[Id].xpubs, form), mn[2])]
Merged == [msigs[Id] EXCEPT !.xpubs = MergeMsigXpubs(@, form)]

\* hodlChangeMsigThreshold: the fields are filled anew when n changes.
Refill(h, v) ==
    LET f == Refilled(h, v) IN IF f.n # form.n THEN Detect(f) ELSE Undetected(f)

\* A number typed for m or n, or the slider moved by keyboard.
TypeThreshold(h, v) == InMsig /\ Refill(h, v) /\ Edited(Merged)

\* The slider dragged, or a number field left: no panel event, no capture.
DragThreshold(h, v) ==
    /\ InMsig
    /\ Refill(h, v)
    /\ re' = NoResult /\ msigError' = FALSE
    /\ msigs' = [msigs EXCEPT ![Id] = [Merged EXCEPT !.result = NoResult, !.error = FALSE]]
    /\ Unswitched

\* Any other click in the panel.
PanelClick ==
    /\ InMsig /\ msigs' = CaptureMsig
    /\ UNCHANGED <<form, lastConcrete, msigError, re>> /\ Unswitched

\* The Derive button, enabled by valid inputs; an address may still fail.
BuildMsig(ok) ==
    /\ InMsig /\ Valid(form)
    /\ re' = IF ok THEN form ELSE NoResult
    /\ msigError' = ~ok
    /\ msigs' = [msigs EXCEPT ![Id] = Captured(@, form, re', msigError')]
    /\ UNCHANGED <<form, lastConcrete>> /\ Unswitched

-----------------------------------------------------------------------------
(* Tabs.                                                                     *)

\* hodlRestoreMsig for state object s.
RestoreMsig(s) ==
    /\ Detect(InputsOf(s))
    /\ msigError' = s.error
    /\ re' = s.result /\ Ge' = FALSE

WipeActiveMsig ==
    /\ InMsig
    /\ msigs' = [msigs EXCEPT ![Id] = NewMsigState]
    /\ RestoreMsig(NewMsigState)
    /\ UNCHANGED <<strip, workspace, key>>

SelectMsig(i) ==
    /\ InMsig /\ i # active /\ active' = i
    /\ msigs' = CaptureMsig
    /\ RestoreMsig(CaptureMsig[tabs[i]])
    /\ UNCHANGED <<tabs, nextId, workspace, key>>

AddMsig ==
    /\ InMsig /\ nextId \in Ids
    /\ tabs' = Append(tabs, nextId) /\ active' = Len(tabs) + 1 /\ nextId' = nextId + 1
    /\ msigs' = CaptureMsig
    /\ RestoreMsig(NewMsigState)
    /\ UNCHANGED <<workspace, key>>

DeleteActiveMsig ==
    LET rest == RemoveAt(tabs, active) IN
    /\ InMsig /\ Len(tabs) > 1
    /\ tabs' = rest /\ active' = Min2(active, Len(rest))
    /\ msigs' = [msigs EXCEPT ![Id] = NewMsigState]
    /\ RestoreMsig(msigs[tabs'[active']])
    /\ UNCHANGED <<nextId, workspace, key>>

-----------------------------------------------------------------------------
(* Workspaces.                                                               *)

\* Mutant: the key is captured after the registers were cleared.
ShowWorkspaceLateCapture(w) ==
    /\ w # workspace /\ workspace' = w
    /\ key' = IF workspace = "calc" THEN [result |-> NoResult, reveal |-> FALSE] ELSE key
    /\ msigs' = IF workspace = "msig" THEN CaptureMsig ELSE msigs
    /\ IF w = "msig" THEN RestoreMsig(msigs'[Id])
       ELSE /\ re' = IF w = "calc" THEN key.result ELSE NoResult
            /\ Ge' = (w = "calc" /\ key.reveal)
            /\ UNCHANGED <<form, lastConcrete, msigError>>
    /\ UNCHANGED strip

\* Mutant: the registers are not cleared on the way to the PSBT workspace.
ShowWorkspaceUncleared(w) ==
    /\ w # workspace /\ workspace' = w
    /\ key' = IF workspace = "calc" THEN [result |-> re, reveal |-> Ge] ELSE key
    /\ msigs' = IF workspace = "msig" THEN CaptureMsig ELSE msigs
    /\ IF w = "msig" THEN RestoreMsig(msigs'[Id])
       ELSE /\ re' = IF w = "calc" THEN key.result ELSE re
            /\ Ge' = (w = "calc" /\ key.reveal)
            /\ UNCHANGED <<form, lastConcrete, msigError>>
    /\ UNCHANGED strip

\* hodlShowWorkspace: capture, clear the registers, restore.
ShowWorkspace(w) ==
    /\ w # workspace /\ workspace' = w
    /\ key' = IF workspace = "calc" THEN [result |-> re, reveal |-> Ge] ELSE key
    /\ msigs' = IF workspace = "msig" THEN CaptureMsig ELSE msigs
    /\ IF w = "msig" THEN RestoreMsig(msigs'[Id])
       ELSE /\ re' = IF w = "calc" THEN key.result ELSE NoResult
            /\ Ge' = (w = "calc" /\ key.reveal)
            /\ UNCHANGED <<form, lastConcrete, msigError>>
    /\ UNCHANGED strip

\* The active key is derived, edited (NoResult) or revealed.
DeriveKey(r) ==
    /\ workspace = "calc"
    /\ re' = r /\ Ge' = FALSE /\ key' = [result |-> r, reveal |-> FALSE]
    /\ UNCHANGED <<msigVars, workspace>>
RevealPrivate(b) ==
    /\ workspace = "calc" /\ re # NoResult /\ Ge' = b
    /\ UNCHANGED <<msigVars, re, workspace, key>>

\* pagehide: keys and registers are cleared, multisigs (public data) are not.
ClearSecrets ==
    /\ re' = NoResult /\ Ge' = FALSE
    /\ key' = [result |-> NoResult, reveal |-> FALSE]
    /\ UNCHANGED <<msigVars, workspace>>

Next ==
    \/ \E i \in Cosigners : MoveMsigKeyRow(i) \/ \E t \in Texts : TypeXpub(i, t)
    \/ \E k \in Scripts : ChooseScript(k)
    \/ \E w \in Networks : ChangeNetwork(w)
    \/ \E c \in Counts : ChangeCount(c)
    \/ \E o \in Orders : ChangeOrder(o)
    \/ \E h \in {"m", "n"}, v \in 1..MaxN : TypeThreshold(h, v) \/ DragThreshold(h, v)
    \/ \E b \in BOOLEAN : BuildMsig(b) \/ RevealPrivate(b)
    \/ ToggleBip87 \/ PanelClick \/ WipeActiveMsig \/ AddMsig \/ DeleteActiveMsig
    \/ \E i \in 1..Len(tabs) : SelectMsig(i)
    \/ \E w \in {"calc", "msig", "psbt"} : ShowWorkspace(w)
    \/ \E r \in KeyWallets \cup {NoResult} : DeriveKey(r)
    \/ ClearSecrets

Spec == Init /\ [][Next]_vars

-----------------------------------------------------------------------------
(* What a reader of the page sees of multisig k, and of the active key.      *)

Live(k) == InMsig /\ k = Id
ResultOf(k) == IF Live(k) THEN re ELSE msigs[k].result
Shown(k) == IF Live(k) THEN form ELSE InputsOf(msigs[k])
Cosigner(k, i) == IF Live(k) /\ i <= form.n THEN form.xpubs[i] ELSE msigs[k].xpubs[i]
KeyView == IF workspace = "calc" THEN [result |-> re, reveal |-> Ge] ELSE key

\* A multisig result, displayed or cached, is the policy its tab's form shows:
\* same threshold, script, Legacy standard, order, network, count and co-signers,
\* although detection writes script and standard again on every restore.
MsigResultsCurrent ==
    \A k \in OpenMsigs : ResultOf(k) # NoResult => ResultOf(k) = Shown(k) /\ Valid(Shown(k))

\* The two workspaces share re and Ge and never take each other's: no multisig
\* object holds a wallet, no key a multisig, and private material is shown in
\* the key workspace only.
RegistersApart ==
    /\ \A k \in Ids : msigs[k].result \in Inputs \cup {NoResult}
    /\ key.result \in KeyWallets \cup {NoResult}
    /\ CASE workspace = "calc" -> re \in KeyWallets \cup {NoResult}
         [] workspace = "msig" -> re \in Inputs \cup {NoResult} /\ ~Ge
         [] OTHER -> re = NoResult /\ ~Ge

\* Only typing or moving co-signers changes one: a lower n, another tab or
\* workspace, another order or script loses no text, on screen or beyond n.
CosignersSurvive ==
    [][\A k \in OpenMsigs, i \in Cosigners :
         Cosigner(k, i)' # Cosigner(k, i) =>
            \/ k = Id /\ \E t \in Texts : TypeXpub(i, t)
            \/ k = Id /\ \E j \in {i - 1, i} \cap Cosigners : MoveMsigKeyRow(j)
            \/ k = Id /\ (WipeActiveMsig \/ DeleteActiveMsig)]_vars

\* Switching workspace changes neither the key's result nor any multisig's.
SwitchKeepsResults ==
    [][(\E w \in {"calc", "msig", "psbt"} : ShowWorkspace(w)) =>
         /\ KeyView' = KeyView
         /\ \A k \in OpenMsigs : ResultOf(k)' = ResultOf(k)]_vars
=============================================================================
