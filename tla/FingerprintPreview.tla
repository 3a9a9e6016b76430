------------------------- MODULE FingerprintPreview -------------------------
(***************************************************************************)
(* The master fingerprint preview (src/src/js/app.js): two cards, for the  *)
(* base seed and for the seed with its passphrase, each with a LifeHash    *)
(* image.  Typing re-arms a 90 ms timer, a form that is rendered anew      *)
(* updates the cards at once, and an image arrives later, in a promise     *)
(* that may be overtaken by other updates of the same card.                *)
(***************************************************************************)
EXTENDS Integers

CONSTANTS
    Fingerprints,
    None,           \* no fingerprint, no image, no timer
    MaxRevision     \* bound: updates queued in one behaviour

ASSUME NoneAssumption == None \notin Fingerprints /\ None \notin Nat
ASSUME RevisionAssumption == MaxRevision \in Nat /\ MaxRevision >= 2

Cards == {"base", "passphrase"}
Values == Fingerprints \cup {None}

VARIABLES
    want,       \* fingerprints of the form's present entry and passphrase
    revision,   \* hodlMasterFingerprintRevision
    timer,      \* revision the armed timer was queued with
    hidden,     \* the private-key form, which has no preview, is on screen
    shown,      \* the text of each card
    image,      \* the fingerprint each card's visible image is for
    pending,    \* LifeHash promises: card and fingerprint
    lifeHash,   \* the browser can make images
    cleared     \* history: secrets cleared since the cards were last updated

cards == <<shown, image, pending>>
vars == <<want, revision, timer, hidden, cards, lifeHash, cleared>>

\* hodlFingerprintMnemonic and hodlMasterFingerprint: no passphrase
\* fingerprint without a base one.
Wants == {w \in [Cards -> Values] : w["base"] = None => w["passphrase"] = None}
Blank == [c \in Cards |-> None]

PreviewTypeOK ==
    /\ want \in Wants /\ shown \in Wants
    /\ hidden \in BOOLEAN
    /\ revision \in 0..MaxRevision /\ timer \in (0..MaxRevision) \cup {None}
    /\ image \in [Cards -> Values]
    /\ pending \subseteq Cards \X Fingerprints
    /\ lifeHash \in BOOLEAN /\ cleared \in BOOLEAN

\* hodlBoot has updated the empty form twice.
Init ==
    /\ want = Blank /\ hidden = FALSE
    /\ revision = 2 /\ timer = None
    /\ shown = Blank /\ image = Blank /\ pending = {}
    /\ lifeHash \in BOOLEAN /\ cleared = FALSE

\* Mutant: a card that already shows the fingerprint asks for no image.
ShowUnlessShown(w) ==
    /\ shown' = w /\ image' = Blank
    /\ pending' = pending \cup {<<c, w[c]>> : c \in {d \in Cards : w[d] \notin {None, shown[d]}}}

\* Mutant: the passphrase card keeps its text when there is no passphrase.
ShowKeepingPassphrase(w) ==
    /\ shown' = IF w["passphrase"] = None
                THEN [w EXCEPT !["passphrase"] = shown["passphrase"]] ELSE w
    /\ image' = Blank
    /\ pending' = pending \cup {<<c, w[c]>> : c \in {d \in Cards : w[d] # None}}

\* hodlSetMasterFingerprintCard on both cards: the text is set, the image
\* hidden, and a LifeHash asked for.
Show(w) ==
    /\ shown' = w /\ image' = Blank
    /\ pending' = pending \cup {<<c, w[c]>> : c \in {d \in Cards : w[d] # None}}

\* hodlRenderMasterFingerprintPreview for a form that wants w; k: it is the
\* private-key form.
Render(k, w) ==
    /\ IF k THEN UNCHANGED cards ELSE Show(w)
    /\ cleared' = FALSE

-----------------------------------------------------------------------------

\* Mutant: the field is missing from the list of those that queue an update.
EditUnqueued(w) ==
    /\ ~hidden /\ want' = w
    /\ UNCHANGED <<revision, timer, hidden, cards, lifeHash, cleared>>

\* An edit of an entry field or of the passphrase queues an update in 90 ms.
Edit(w) ==
    /\ ~hidden /\ want' = w
    /\ revision < MaxRevision
    /\ revision' = revision + 1 /\ timer' = revision'
    /\ UNCHANGED <<hidden, cards, lifeHash, cleared>>

\* A mode button: hodlUpdateKeyModeControls hides or shows the preview at
\* once, the panel's click listener queues the update.
ChangeMode(k, w) ==
    /\ want' = w /\ hidden' = k
    /\ revision < MaxRevision
    /\ revision' = revision + 1 /\ timer' = revision'
    /\ UNCHANGED <<cards, lifeHash, cleared>>

\* Another key in the form (hodlRestoreKey): an update with delay 0.
Restore(k, w) ==
    /\ revision < MaxRevision
    /\ revision' = revision + 1 /\ timer' = None
    /\ want' = w /\ hidden' = k
    /\ Render(k, w)
    /\ UNCHANGED lifeHash

\* Another seed length, dice, card or entropy method: an update with delay 0,
\* and one queued by the panel's listener.
ChangeMethod(w) ==
    /\ ~hidden /\ want' = w
    /\ revision + 1 < MaxRevision
    /\ revision' = revision + 2 /\ timer' = revision'
    /\ Render(FALSE, w)
    /\ UNCHANGED <<hidden, lifeHash>>

\* The timer: an update queued later makes this one void.
Fire ==
    /\ timer # None /\ timer' = None
    /\ IF timer = revision THEN Render(hidden, want) ELSE UNCHANGED <<cards, cleared>>
    /\ UNCHANGED <<want, revision, hidden, lifeHash>>

\* Mutant: whichever image arrives is shown.
ResolveUnguarded(p) ==
    /\ p \in pending /\ lifeHash
    /\ pending' = pending \ {p}
    /\ image' = [image EXCEPT ![p[1]] = p[2]]
    /\ UNCHANGED <<want, revision, timer, hidden, shown, lifeHash, cleared>>

\* A LifeHash resolves: it is shown if the card still has its fingerprint.
Resolve(p) ==
    /\ p \in pending /\ lifeHash
    /\ pending' = pending \ {p}
    /\ image' = IF shown[p[1]] = p[2] THEN [image EXCEPT ![p[1]] = p[2]] ELSE image
    /\ UNCHANGED <<want, revision, timer, hidden, shown, lifeHash, cleared>>

\* A LifeHash fails: the image of the card is hidden, whatever it shows.
Reject(p) ==
    /\ p \in pending /\ ~lifeHash
    /\ pending' = pending \ {p}
    /\ image' = [image EXCEPT ![p[1]] = None]
    /\ UNCHANGED <<want, revision, timer, hidden, shown, lifeHash, cleared>>

\* pagehide and the return from the back/forward cache empty the fields
\* without an event: nothing queues an update.
ClearSecrets ==
    /\ want' = Blank
    /\ cleared' = TRUE
    /\ UNCHANGED <<revision, timer, hidden, cards, lifeHash>>

Next ==
    \/ \E w \in Wants : Edit(w) \/ ChangeMethod(w)
    \/ \E w \in Wants, k \in BOOLEAN : ChangeMode(k, w) \/ Restore(k, w)
    \/ Fire
    \/ \E p \in Cards \X Fingerprints : Resolve(p) \/ Reject(p)
    \/ ClearSecrets

\* Timers run and promises settle; nothing makes the user act.
Fairness == WF_vars(Fire) /\ \A p \in Cards \X Fingerprints : WF_vars(Resolve(p) \/ Reject(p))

Spec == Init /\ [][Next]_vars /\ Fairness

-----------------------------------------------------------------------------

\* A visible image is the LifeHash of the fingerprint beside it, however many
\* promises overtake each other (hodlSetMasterFingerprintCard compares the
\* text of the card when one resolves).
ImageMatches == \A c \in Cards : image[c] # None => image[c] = shown[c]

\* With no timer armed, a preview on screen shows the fingerprints of the form:
\* no path that changes the entry forgets to queue an update, none is lost when
\* the timer is re-armed, when a mode without preview comes in between, or when
\* an update at once overtakes a queued one.  Clearing the page's secrets is the
\* one exception.
PreviewCurrent == (timer = None /\ ~hidden /\ ~cleared) => shown = want

\* Once the user stops, the preview settles: right fingerprints, each with its
\* image, where the browser can make images.
Settled == shown = want /\ (lifeHash => image = shown)
PreviewSettles == <>[](hidden \/ cleared \/ Settled)

\* Clearing the page's secrets leaves nothing of a cleared key on display.
NothingShownAfterClear == (timer = None /\ ~hidden) => shown = want
=============================================================================
