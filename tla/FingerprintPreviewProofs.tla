---------------------- MODULE FingerprintPreviewProofs ----------------------
(***************************************************************************)
(* Proofs about FingerprintPreview, for every set of fingerprints and      *)
(* every bound on the updates queued.                                      *)
(***************************************************************************)
EXTENDS FingerprintPreview, TLAPS

\* A timer still armed is the one queued last: every later update clears it.
TimerFresh == timer \in {None, revision}

IInv == PreviewTypeOK /\ TimerFresh /\ PreviewCurrent /\ ImageMatches

\* Each card gets the fingerprint of a form: types hold, no image is wrong.
LEMMA ShowLemma ==
    ASSUME NEW w \in Wants, pending \subseteq Cards \X Fingerprints, Show(w)
    PROVE  /\ shown' \in Wants /\ shown' = w
           /\ image' \in [Cards -> Values]
           /\ pending' \subseteq Cards \X Fingerprints
           /\ ImageMatches'
<1>1. \A d \in Cards : w[d] # None => w[d] \in Fingerprints
    BY DEF Wants, Values
<1>2. pending' \subseteq Cards \X Fingerprints
    BY <1>1 DEF Show
<1>3. image' \in [Cards -> Values] /\ \A c \in Cards : image'[c] = None
    BY DEF Show, Blank, Values
<1>. QED
    BY <1>2, <1>3 DEF Show, ImageMatches

\* An update for form w, with preview or without.
LEMMA RenderLemma ==
    ASSUME NEW w \in Wants, NEW k \in BOOLEAN, PreviewTypeOK, ImageMatches, Render(k, w)
    PROVE  /\ shown' \in Wants
           /\ image' \in [Cards -> Values]
           /\ pending' \subseteq Cards \X Fingerprints
           /\ cleared' \in BOOLEAN
           /\ ImageMatches'
           /\ ~k => shown' = w
<1>1. CASE k
    BY <1>1 DEF Render, cards, PreviewTypeOK, ImageMatches
<1>2. CASE ~k
    <2>1. Show(w) /\ cleared' = FALSE
        BY <1>2 DEF Render
    <2>. QED
        BY <2>1, <1>2, ShowLemma DEF PreviewTypeOK
<1>. QED
    BY <1>1, <1>2

LEMMA BlankWanted == Blank \in Wants /\ Blank \in [Cards -> Values]
    BY DEF Blank, Wants, Values, Cards

LEMMA IInvInit == Init => IInv
<1>. SUFFICES ASSUME Init PROVE IInv
    OBVIOUS
<1>1. 2 \in 0..MaxRevision
    BY RevisionAssumption
<1>2. PreviewTypeOK
    BY <1>1, BlankWanted DEF Init, PreviewTypeOK
<1>3. TimerFresh /\ PreviewCurrent /\ ImageMatches
    BY DEF Init, TimerFresh, PreviewCurrent, ImageMatches, Blank
<1>. QED
    BY <1>2, <1>3 DEF IInv

LEMMA IInvNext == IInv /\ [Next]_vars => IInv'
<1>. SUFFICES ASSUME IInv, [Next]_vars PROVE IInv'
    OBVIOUS
<1>. USE DEF IInv
<1>0. /\ PreviewTypeOK /\ TimerFresh /\ PreviewCurrent /\ ImageMatches
      /\ revision \in Nat /\ MaxRevision \in Nat /\ revision # None
    BY RevisionAssumption, NoneAssumption DEF PreviewTypeOK
<1>1. ASSUME NEW w \in Wants, Edit(w) PROVE IInv'
    <2>1. revision' \in 0..MaxRevision /\ timer' = revision' /\ revision' # None
        BY <1>0, <1>1, NoneAssumption DEF Edit
    <2>2. want' = w /\ UNCHANGED <<hidden, shown, image, pending, lifeHash, cleared>>
        BY <1>1 DEF Edit, cards
    <2>. QED
        BY <1>0, <2>1, <2>2 DEF PreviewTypeOK, TimerFresh, PreviewCurrent, ImageMatches
<1>2. ASSUME NEW w \in Wants, ChangeMethod(w) PROVE IInv'
    <2>1. revision' \in 0..MaxRevision /\ timer' = revision' /\ revision' # None
        BY <1>0, <1>2, NoneAssumption DEF ChangeMethod
    <2>2. want' = w /\ Render(FALSE, w) /\ UNCHANGED <<hidden, lifeHash>>
        BY <1>2 DEF ChangeMethod
    <2>3. /\ shown' \in Wants /\ image' \in [Cards -> Values]
          /\ pending' \subseteq Cards \X Fingerprints
          /\ cleared' \in BOOLEAN /\ ImageMatches'
        BY <1>0, <2>2, RenderLemma
    <2>. QED
        BY <1>0, <2>1, <2>2, <2>3 DEF PreviewTypeOK, TimerFresh, PreviewCurrent
<1>3. ASSUME NEW w \in Wants, NEW k \in BOOLEAN, ChangeMode(k, w) PROVE IInv'
    <2>1. revision' \in 0..MaxRevision /\ timer' = revision' /\ revision' # None
        BY <1>0, <1>3, NoneAssumption DEF ChangeMode
    <2>2. /\ want' = w /\ hidden' = k
          /\ UNCHANGED <<shown, image, pending, lifeHash, cleared>>
        BY <1>3 DEF ChangeMode, cards
    <2>. QED
        BY <1>0, <2>1, <2>2 DEF PreviewTypeOK, TimerFresh, PreviewCurrent, ImageMatches
<1>4. ASSUME NEW w \in Wants, NEW k \in BOOLEAN, Restore(k, w) PROVE IInv'
    <2>1. revision' \in 0..MaxRevision /\ timer' = None
        BY <1>0, <1>4 DEF Restore
    <2>2. want' = w /\ hidden' = k /\ Render(k, w) /\ UNCHANGED lifeHash
        BY <1>4 DEF Restore
    <2>3. /\ shown' \in Wants /\ image' \in [Cards -> Values]
          /\ pending' \subseteq Cards \X Fingerprints
          /\ cleared' \in BOOLEAN /\ ImageMatches'
          /\ ~k => shown' = w
        BY <1>0, <2>2, RenderLemma
    <2>. QED
        BY <1>0, <2>1, <2>2, <2>3 DEF PreviewTypeOK, TimerFresh, PreviewCurrent
<1>5. CASE Fire
    <2>1. timer = revision
        BY <1>0, <1>5 DEF Fire, TimerFresh
    <2>2. /\ timer' = None /\ Render(hidden, want)
          /\ UNCHANGED <<want, revision, hidden, lifeHash>>
        BY <1>5, <2>1 DEF Fire
    <2>3. /\ shown' \in Wants /\ image' \in [Cards -> Values]
          /\ pending' \subseteq Cards \X Fingerprints
          /\ cleared' \in BOOLEAN /\ ImageMatches'
          /\ ~hidden => shown' = want
        BY <1>0, <2>2, RenderLemma DEF PreviewTypeOK
    <2>. QED
        BY <1>0, <2>2, <2>3 DEF PreviewTypeOK, TimerFresh, PreviewCurrent
<1>6. ASSUME NEW p \in Cards \X Fingerprints, Resolve(p) \/ Reject(p) PROVE IInv'
    <2>1. p[1] \in Cards /\ p[2] \in Values
        BY DEF Values
    <2>2. /\ pending' \subseteq Cards \X Fingerprints
          /\ UNCHANGED <<want, revision, timer, hidden, shown, lifeHash, cleared>>
        BY <1>0, <1>6 DEF Resolve, Reject, PreviewTypeOK
    <2>3. image' \in [Cards -> Values] /\ ImageMatches'
        <3>1. CASE Resolve(p)
            BY <1>0, <2>1, <3>1 DEF Resolve, PreviewTypeOK, ImageMatches
        <3>2. CASE Reject(p)
            BY <1>0, <2>1, <3>2 DEF Reject, PreviewTypeOK, ImageMatches, Values
        <3>. QED
            BY <1>6, <3>1, <3>2
    <2>. QED
        BY <1>0, <2>2, <2>3 DEF PreviewTypeOK, TimerFresh, PreviewCurrent
<1>7. CASE ClearSecrets
    BY <1>0, <1>7, BlankWanted
    DEF ClearSecrets, cards, PreviewTypeOK, TimerFresh, PreviewCurrent, ImageMatches
<1>8. CASE UNCHANGED vars
    BY <1>0, <1>8 DEF vars, cards, PreviewTypeOK, TimerFresh, PreviewCurrent, ImageMatches
<1>. QED
    BY <1>1, <1>2, <1>3, <1>4, <1>5, <1>6, <1>7, <1>8 DEF Next

LEMMA IInvAlways == Spec => []IInv
    BY IInvInit, IInvNext, PTL DEF Spec

\* Types: no card for the passphrase without one for the base seed, promises
\* only for real fingerprints (hodlSetMasterFingerprintCard).
THEOREM PreviewTypeCorrect == Spec => []PreviewTypeOK
<1>1. IInv => PreviewTypeOK
    BY DEF IInv
<1>. QED
    BY <1>1, IInvAlways, PTL

\* The image beside a fingerprint is its LifeHash, in whatever order promises
\* resolve.
THEOREM ImagesMatch == Spec => []ImageMatches
<1>1. IInv => ImageMatches
    BY DEF IInv
<1>. QED
    BY <1>1, IInvAlways, PTL

\* With no update under way the preview shows the fingerprints of the form
\* (hodlQueueMasterFingerprintPreview loses no update).
THEOREM PreviewStaysCurrent == Spec => []PreviewCurrent
<1>1. IInv => PreviewCurrent
    BY DEF IInv
<1>. QED
    BY <1>1, IInvAlways, PTL
=============================================================================
