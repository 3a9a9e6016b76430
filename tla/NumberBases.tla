---------------------------- MODULE NumberBases ----------------------------
(***************************************************************************)
(* The number-base panel of one key (app.js 1795-1813, 2482-2534,          *)
(* 2655-2667, 3844-3887, 4292-4348): one text per number base, a seed      *)
(* length, and the option that keeps the bases in step.  A text is its     *)
(* sequence of digit values; blanks, grouping and characters outside the   *)
(* alphabet, which the filter removes, are not modelled.                   *)
(***************************************************************************)
EXTENDS Integers, Sequences

CONSTANTS
    Formats,            \* the number bases
    BitsPerDigit,       \* bits of one digit, by format
    BinaryRemainder,    \* the formats whose last bits are entered one by one
    SeedBits,           \* the entropy lengths a seed may have, in bits
    Texts,              \* the texts an edit may leave in a field, by format
    FirstFormat, FirstBits,
    NoSource

ASSUME NumberBasesAssumption ==
    /\ BitsPerDigit \in [Formats -> Nat \ {0}]
    /\ SeedBits \subseteq Nat /\ BinaryRemainder \subseteq Formats
    /\ \A f \in Formats : Texts[f] \subseteq Seq(Nat)
    /\ FirstFormat \in Formats /\ FirstBits \in SeedBits /\ NoSource \notin Formats

VARIABLES
    format,     \* hodlEntropyFormat
    bits,       \* entropy bits of the seed length Pt
    fields,     \* state.fields, by format; the one of format is on screen
    sync,       \* the checkbox and state.syncNumberBases
    source,     \* state.numberBaseSyncSource
    synced,     \* state.numberBasesSynced
    status      \* whether "Synced" is shown

nbVars == <<format, bits, fields, sync, source, synced, status>>

-----------------------------------------------------------------------------
\* The number of values of k bits.
Pow2(k) == LET upTo[i \in 0..k] == IF i = 0 THEN 1 ELSE 2 * upTo[i - 1] IN upTo[k]

\* hodlEntropyFormatConfig: a text of n bits is FullDigits digits, and for the
\* bits that remain one smaller digit or one digit a bit.
FullDigits(f, n) == n \div BitsPerDigit[f]
RemainderBits(f, n) == n % BitsPerDigit[f]
Digits(f, n) ==
    FullDigits(f, n) + (IF f \in BinaryRemainder THEN RemainderBits(f, n)
                        ELSE IF RemainderBits(f, n) = 0 THEN 0 ELSE 1)

\* The bits that digit i contributes and the bits that come before it.
Width(f, n, i) ==
    IF i <= FullDigits(f, n) THEN BitsPerDigit[f]
    ELSE IF f \in BinaryRemainder THEN 1 ELSE RemainderBits(f, n)
Before(f, n, i) ==
    IF i <= FullDigits(f, n) THEN (i - 1) * BitsPerDigit[f]
    ELSE FullDigits(f, n) * BitsPerDigit[f] + (i - 1 - FullDigits(f, n))

\* hodlAnalyzeEntropyInput.ready: every digit is there and none is too large.
Ready(f, n, t) ==
    /\ Len(t) = Digits(f, n)
    /\ \A i \in DOMAIN t : t[i] < Pow2(Width(f, n, i))

\* hodlNumberBaseBits and hodlNumberBaseEntropy: the bits of the digits one after
\* another, as a number.
EntropyOf(f, n, t) ==
    LET upTo[i \in 0..Len(t)] ==
          IF i = 0 THEN 0 ELSE upTo[i - 1] * Pow2(Width(f, n, i)) + t[i]
    IN upTo[Len(t)]

\* Mutant: the last digit is cut as wide as the others.
ValueFromBytesFullWidth(f, n, v) ==
    [i \in 1..Digits(f, n) |->
        ((v * Pow2(BitsPerDigit[f])) \div Pow2(n - Before(f, n, i))) % Pow2(BitsPerDigit[f])]

\* hodlNumberBaseValueFromBytes.
ValueFromBytes(f, n, v) ==
    [i \in 1..Digits(f, n) |->
        (v \div Pow2(n - Before(f, n, i) - Width(f, n, i))) % Pow2(Width(f, n, i))]

-----------------------------------------------------------------------------
NumberBasesInit ==
    /\ format = FirstFormat /\ bits = FirstBits
    /\ fields = [f \in Formats |-> <<>>]
    /\ sync = FALSE /\ source = NoSource /\ synced = FALSE /\ status = FALSE

\* Mutant: an edit does not become the source of the bases.
SyncNumberBasesKeepingSource(f, n, fs, on, edit) ==
    LET src == IF source = NoSource THEN f ELSE source
        ok == on /\ src = f /\ Ready(f, n, fs[f])
    IN
    /\ sync' = on
    /\ source' = IF on /\ edit THEN src ELSE source
    /\ fields' = IF ok THEN [g \in Formats |-> ValueFromBytes(g, n, EntropyOf(f, n, fs[f]))]
                 ELSE fs
    /\ synced' = IF on /\ src # f THEN synced ELSE ok
    /\ status' = synced'

\* hodlSyncNumberBases for the field f of length n, the texts being fs, the
\* checkbox on; edit tells a user's edit from a restored text.
SyncNumberBases(f, n, fs, on, edit) ==
    LET src == IF edit \/ source = NoSource THEN f ELSE source
        ok == on /\ src = f /\ Ready(f, n, fs[f])
    IN
    /\ sync' = on
    /\ source' = IF on /\ edit THEN f ELSE source
    /\ fields' = IF ok THEN [g \in Formats |-> ValueFromBytes(g, n, EntropyOf(f, n, fs[f]))]
                 ELSE fs
    /\ synced' = IF on /\ src # f THEN synced ELSE ok
    /\ status' = synced'

\* oninput of the field on screen.
EditField(t) ==
    /\ t # fields[format]
    /\ SyncNumberBases(format, bits, [fields EXCEPT ![format] = t], sync, TRUE)
    /\ UNCHANGED <<format, bits>>

\* Mutant: a restored text counts as an edit.
SelectFormatAsEdit(f) ==
    /\ f # format /\ format' = f
    /\ SyncNumberBases(f, bits, fields, sync, TRUE)
    /\ UNCHANGED bits

\* The format radios: the panel is drawn again and its text restored.
SelectFormat(f) ==
    /\ f # format /\ format' = f
    /\ SyncNumberBases(f, bits, fields, sync, FALSE)
    /\ UNCHANGED bits

\* The checkbox: the text on screen counts as an edit.
ToggleSync ==
    /\ SyncNumberBases(format, bits, fields, ~sync, TRUE)
    /\ UNCHANGED <<format, bits>>

\* hodlSetSeedLength, and with the same length every other way to draw the
\* panel again (hodlSetMode, hodlRestoreKey): the text is restored.
Redraw(n) ==
    /\ bits' = n
    /\ SyncNumberBases(format, n, fields, sync, FALSE)
    /\ UNCHANGED format

\* hodlWipeActiveKey.
WipeNumberBases ==
    /\ format' = FirstFormat /\ bits' = FirstBits
    /\ fields' = [f \in Formats |-> <<>>]
    /\ sync' = FALSE /\ source' = NoSource /\ synced' = FALSE /\ status' = FALSE

NumberBasesNext ==
    \/ \E t \in Texts[format] : EditField(t)
    \/ \E f \in Formats : SelectFormat(f)
    \/ ToggleSync
    \/ \E n \in SeedBits : Redraw(n)
    \/ WipeNumberBases

NumberBasesSpec == NumberBasesInit /\ [][NumberBasesNext]_nbVars

-----------------------------------------------------------------------------
NumberBasesTypeOK ==
    /\ format \in Formats /\ bits \in SeedBits
    /\ fields \in [Formats -> Seq(Nat)]
    /\ {sync, synced, status} \subseteq BOOLEAN
    /\ source \in Formats \cup {NoSource}

\* While the bases count as synced, every field is a complete text of one and
\* the same entropy, for the seed length it was synced at: an edit of one base
\* never leaves the others behind as "synced".
SyncedAgree ==
    synced => \E n \in SeedBits : \E v \in 0..(Pow2(n) - 1) :
                \A f \in Formats : Ready(f, n, fields[f]) /\ EntropyOf(f, n, fields[f]) = v

\* The entropy of a complete text survives the conversion to any other base
\* and back, whatever the bits that remain for its last digits.
ConversionsKeepEntropy ==
    Ready(format, bits, fields[format]) =>
        LET v == EntropyOf(format, bits, fields[format]) IN
        \A f \in Formats :
            /\ Ready(f, bits, ValueFromBytes(f, bits, v))
            /\ EntropyOf(f, bits, ValueFromBytes(f, bits, v)) = v

\* A field that is not on screen is rewritten only by a sync from the source
\* the user edited last: showing another base, or another seed length, never
\* makes an old text the source.
OnlySourceRewrites ==
    [][ \A f \in Formats : fields'[f] # fields[f] =>
            \/ f = format' /\ UNCHANGED <<format, bits>>
            \/ synced' /\ source' = format' /\ (source' = source \/ UNCHANGED <<format, bits>>)
            \/ WipeNumberBases ]_nbVars
=============================================================================
