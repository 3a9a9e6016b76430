---------------------------------- MODULE Psbt ----------------------------------
(***************************************************************************)
(* The PSBT workspace (src/src/js/app.js 6317-6830): the session key, kept *)
(* in page memory, and the inspection of a PSBT: a verdict on repeated     *)
(* ECDSA nonces and a row for each signature.  Bytes are abstract: a       *)
(* signature is a record of what the code can tell of it, a digest is the  *)
(* input it stands for, a seed and its passphrase are one value.  The      *)
(* parser, amounts, fees, addresses and Taproot counts are left out.       *)
(***************************************************************************)
EXTENDS Integers, Sequences, FiniteSets, SequencesExt

CONSTANTS
    PrivateKeys,    \* secp256k1 keys
    Seeds,          \* BIP39 seeds
    NoKey,          \* nothing in memory
    BadKey,         \* 32 bytes that are no private key
    Nonces,         \* r values
    Pastes,         \* what a user may paste: a PSBT, and an anti-exfil transcript
                    \* (the sequence of its openings)
    Malformed,      \* a transcript hodlParseAntiExfil refuses
    ChildOf         \* the seed a key is derived from, or NoKey

Input == [declared: {"none", "all", "other", "malformed"}, script: {"supported", "unsupported"}]
Signature == [input: Nat \ {0}, key: PrivateKeys, compressed: BOOLEAN,
              der: {"strict", "loose", "unreadable"}, r: Nonces,
              suffix: {"all", "other"}, verifies: BOOLEAN, rfc6979: BOOLEAN]

Blank == [kind |-> "blank"]

ASSUME PsbtAssumption ==
    /\ NoKey \notin PrivateKeys \cup Seeds /\ BadKey \notin PrivateKeys \cup Seeds
    /\ NoKey # BadKey
    /\ ChildOf \in [PrivateKeys -> Seeds \cup {NoKey}]
    /\ Blank \notin Pastes
    /\ \A paste \in Pastes :
         /\ paste.psbt \in [inputs: Seq(Input), sigs: Seq(Signature)]
         /\ paste.transcript = Malformed \/ paste.transcript \in Seq(Nonces)

VARIABLES
    pasted,         \* the PSBT and the transcript in the page
    keyField,       \* #psbt-key, with its passphrase
    priv, hd,       \* hodlPsbtPriv, hodlPsbtHd
    note,           \* hodlPsbtNote: whether it tells of a key
    sessionText,    \* #psbt-session
    output,         \* #psbt-out
    failed,         \* #psbt-error holds a message
    wanted          \* history: what the last attempt to set a key asked for

memory == <<priv, hd, note>>
psbtVars == <<pasted, keyField, memory, sessionText, output, failed, wanted>>

Entries == [kind: {"key"}, key: PrivateKeys] \cup [kind: {"seed"}, seed: Seeds]
             \cup {[kind |-> "badkey"], [kind |-> "junk"]}

\* What hodlKeys[hodlActiveKey].result may offer (KeyManager's result).
ActiveResults == [kind: {"key"}, key: PrivateKeys] \cup [kind: {"seed"}, seed: Seeds]
                   \cup {[kind |-> "account"], [kind |-> "watch"], [kind |-> "nothing"]}

NoOutput == [verdict |-> "", rows |-> <<>>]

Verdicts == {"reused", "possible", "incomplete", "clean", "single", "none"}
Rows == {"policy", "not_der", "not_strict", "invalid", "no_opening", "exfil_match",
         "exfil_mismatch", "rfc_match", "rfc_mismatch", "unsupported_script", "need_key"}

PsbtTypeOK ==
    /\ \/ pasted = Blank
       \/ /\ pasted.psbt \in [inputs: Seq(Input), sigs: Seq(Signature)]
          /\ pasted.transcript = Malformed \/ pasted.transcript \in Seq(Nonces)
    /\ keyField \in Entries \cup {Blank}
    /\ priv \in PrivateKeys \cup {NoKey, BadKey} /\ hd \in Seeds \cup {NoKey}
    /\ note \in {"none", "key"} /\ sessionText \in {"none", "key", "ended"}
    /\ output.verdict \in Verdicts \cup {""} /\ output.rows \in Seq(Rows)
    /\ failed \in BOOLEAN
    /\ wanted \in Entries \cup {Blank}

-----------------------------------------------------------------------------
(* The inspection *)

\* hodlSigParts, or hodlDerRLoose: r can be read.
Readable(sig) == sig.der # "unreadable"

\* hodlBip143 of a supported script: only SIGHASH_ALL is reconstructed, and the
\* digests of two inputs differ.
NoDigest == 0
Digest(psbt, sig) ==
    IF psbt.inputs[sig.input].script = "supported" /\ sig.suffix = "all"
      THEN sig.input ELSE NoDigest

\* signatureValid === true: strict DER, a digest, and the curve agrees.
Valid(psbt, sig) == sig.der = "strict" /\ Digest(psbt, sig) # NoDigest /\ sig.verifies

\* Mutant: public keys are compared as they are encoded.
SamePointAsEncoded(a, b) == a.key = b.key /\ a.compressed = b.compressed

\* hodlPubId: the point, whichever its encoding.
SamePoint(a, b) == a.key = b.key

\* The pairs of readable signatures with one key and one r, and of those the
\* ones on two digests (hodlCompareNonces).
Repeats(psbt) ==
    {pair \in (DOMAIN psbt.sigs) \X (DOMAIN psbt.sigs) :
        LET a == psbt.sigs[pair[1]]  b == psbt.sigs[pair[2]] IN
        /\ pair[1] < pair[2]
        /\ Readable(a) /\ Readable(b) /\ SamePoint(a, b) /\ a.r = b.r}

Proven(psbt, pair) ==
    LET a == psbt.sigs[pair[1]]  b == psbt.sigs[pair[2]]
    IN  Valid(psbt, a) /\ Valid(psbt, b) /\ Digest(psbt, a) # Digest(psbt, b)

Reused(psbt) == {pair \in Repeats(psbt) : Proven(psbt, pair)}

Possible(psbt) ==
    {pair \in Repeats(psbt) \ Reused(psbt) :
        psbt.sigs[pair[1]].input # psbt.sigs[pair[2]].input}

ReadCount(psbt) == Cardinality({i \in DOMAIN psbt.sigs : Readable(psbt.sigs[i])})

\* Mutant: what is possible hides what is proven, and a gap what is possible.
VerdictReversed(psbt) ==
    CASE \E i \in DOMAIN psbt.sigs : ~Readable(psbt.sigs[i]) -> "incomplete"
      [] Possible(psbt) # {} -> "possible"
      [] Reused(psbt) # {} -> "reused"
      [] OTHER -> "none"

\* The verdict, the gravest first (6817-6826).
Verdict(psbt) ==
    IF Reused(psbt) # {} THEN "reused"
    ELSE IF Possible(psbt) # {} THEN "possible"
    ELSE IF ReadCount(psbt) < Len(psbt.sigs) THEN "incomplete"
    ELSE IF ReadCount(psbt) >= 2 THEN "clean"
    ELSE IF ReadCount(psbt) = 1 THEN "single"
    ELSE "none"

\* hodlSighashProblems: a declared policy that could not be read counts as none.
PolicyProblem(psbt, sig) ==
    psbt.inputs[sig.input].declared = "other" \/ sig.suffix # "all"

\* hodlPrivForPub and hodlPrivFromPath: a private key answers for both encodings,
\* a node of the seed, found by its path, for the compressed one.
KeyHeld(p, h, sig) ==
    \/ p = sig.key
    \/ h # NoKey /\ ChildOf[sig.key] = h /\ sig.compressed

\* hodlRfc6979Compare, where the key and the digest are there.
RfcRow(sig) == IF sig.rfc6979 THEN "rfc_match" ELSE "rfc_mismatch"

\* The opening for signature i: one for all, or one for each in order.
Opening(transcript, i) ==
    IF Len(transcript) = 1 THEN transcript[1]
    ELSE IF i <= Len(transcript) THEN transcript[i] ELSE NoKey

\* The row against the transcript; a mismatch is tried against RFC 6979 too.
ExfilRow(opening, sig, comparable) ==
    IF opening = NoKey THEN "no_opening"
    ELSE IF opening = sig.r THEN "exfil_match"
    ELSE IF comparable /\ sig.rfc6979 THEN "rfc_match" ELSE "exfil_mismatch"

\* Mutant: the match is told before the policy is looked at.
RowPolicyLast(psbt, transcript, p, h, i) ==
    LET sig == psbt.sigs[i] IN
    IF KeyHeld(p, h, sig) /\ sig.rfc6979 /\ sig.der = "strict" THEN "rfc_match"
    ELSE IF PolicyProblem(psbt, sig) THEN "policy" ELSE "need_key"

\* The message of signature i, the first that applies (6750-6806).
Row(psbt, transcript, p, h, i) ==
    LET sig == psbt.sigs[i]
        hasDigest == Digest(psbt, sig) # NoDigest
        comparable == KeyHeld(p, h, sig) /\ hasDigest
    IN  IF PolicyProblem(psbt, sig) THEN "policy"
        ELSE IF ~Readable(sig) THEN "not_der"
        ELSE IF sig.der = "loose" THEN "not_strict"
        ELSE IF hasDigest /\ ~Valid(psbt, sig) THEN "invalid"
        ELSE IF transcript # Malformed /\ Len(transcript) > 0
          THEN ExfilRow(Opening(transcript, i), sig, comparable)
        ELSE IF comparable THEN RfcRow(sig)
        ELSE IF KeyHeld(p, h, sig) /\ psbt.inputs[sig.input].script = "unsupported"
          THEN "unsupported_script"
        ELSE "need_key"

\* hodlRenderPsbt.
Inspection(psbt, transcript, p, h) ==
    [verdict |-> Verdict(psbt),
     rows |-> [i \in DOMAIN psbt.sigs |-> Row(psbt, transcript, p, h, i)]]

-----------------------------------------------------------------------------
(* The session *)

PsbtInit ==
    /\ pasted \in Pastes
    /\ keyField = Blank
    /\ priv = NoKey /\ hd = NoKey /\ note = "none"
    /\ sessionText = "none" /\ output = NoOutput /\ failed = FALSE
    /\ wanted = Blank

\* The user types in the key field.
TypeKey(entry) ==
    /\ keyField # entry /\ keyField' = entry
    /\ UNCHANGED <<pasted, memory, sessionText, output, failed, wanted>>

\* The user pastes another PSBT once the last one is cleared.
PastePsbt(paste) ==
    /\ pasted = Blank
    /\ pasted' = paste
    /\ UNCHANGED <<keyField, memory, sessionText, output, failed, wanted>>

\* Mutant: a new key is loaded over the old one.
LoadedOver(entry) ==
    CASE entry.kind = "key" -> [priv |-> entry.key, hd |-> hd, note |-> "key", ok |-> TRUE]
      [] entry.kind = "seed" -> [priv |-> priv, hd |-> entry.seed, note |-> "key", ok |-> TRUE]
      [] OTHER -> [priv |-> priv, hd |-> hd, note |-> note, ok |-> FALSE]

\* Mutant: a seed goes where a private key belongs.
LoadedIntoPriv(entry) ==
    CASE entry.kind = "key" -> [priv |-> entry.key, hd |-> NoKey, note |-> "key", ok |-> TRUE]
      [] entry.kind = "seed" -> [priv |-> entry.seed, hd |-> NoKey, note |-> "key", ok |-> TRUE]
      [] OTHER -> [priv |-> NoKey, hd |-> NoKey, note |-> "none", ok |-> FALSE]

\* hodlLoadPsbtKey: memory is wiped before anything is tried.  32 bytes that are
\* no key stay in hodlPsbtPriv, for they are assigned before they are checked.
Loaded(entry) ==
    [priv |-> IF entry.kind = "key" THEN entry.key
              ELSE IF entry.kind = "badkey" THEN BadKey ELSE NoKey,
     hd |-> IF entry.kind = "seed" THEN entry.seed ELSE NoKey,
     note |-> IF entry.kind \in {"key", "seed"} THEN "key" ELSE "none",
     ok |-> entry.kind \in {"key", "seed"}]

\* hodlRunPsbt loads the key in the field first, if there is one.
KeyForRun ==
    IF keyField = Blank THEN [priv |-> priv, hd |-> hd, note |-> note, ok |-> TRUE]
    ELSE Loaded(keyField)

\* Signatures cannot be matched with bytes that are no key: getPublicKey throws.
Inspectable(key) ==
    pasted # Blank /\ ~(key.priv = BadKey /\ pasted.psbt.sigs # <<>>)

\* hodlRunPsbt: the field is emptied and the session told of only if the key
\* was loaded; the output is cleared first, whatever happens.
RunPsbt ==
    LET key == KeyForRun  shown == key.ok /\ Inspectable(key) IN
    /\ priv' = key.priv /\ hd' = key.hd /\ note' = key.note
    /\ keyField' = IF key.ok THEN Blank ELSE keyField
    /\ sessionText' = IF key.ok THEN key.note ELSE sessionText
    /\ output' = IF shown THEN Inspection(pasted.psbt, pasted.transcript, key.priv, key.hd)
                 ELSE NoOutput
    /\ failed' = ~shown
    /\ wanted' = IF keyField = Blank THEN wanted ELSE keyField
    /\ UNCHANGED pasted

\* hodlUseActiveKeyForPsbt: without a result nothing happens, with one that has
\* no usable private key the memory is wiped all the same.  What an earlier run
\* showed stays.
UseActiveKey(active) ==
    LET key == Loaded(active) IN
    /\ IF active.kind = "nothing" THEN UNCHANGED <<memory, wanted>>
       ELSE /\ priv' = key.priv /\ hd' = key.hd /\ note' = key.note
            /\ wanted' = IF key.ok THEN active ELSE Blank
    /\ keyField' = IF key.ok THEN Blank ELSE keyField
    /\ sessionText' = IF key.ok THEN key.note ELSE sessionText
    /\ failed' = ~key.ok
    /\ UNCHANGED <<pasted, output>>

\* hodlPsbtWipeMem.
WipeMemory == priv' = NoKey /\ hd' = NoKey /\ note' = "none"

\* The button that ends the session.
EndSession ==
    /\ WipeMemory
    /\ pasted' = Blank /\ keyField' = Blank
    /\ output' = NoOutput /\ failed' = FALSE /\ sessionText' = "ended"
    /\ wanted' = Blank

\* pagehide and pageshow: memory and fields go, the PSBT, what was shown of it
\* and the text of the session stay.
LeavePage ==
    /\ WipeMemory
    /\ keyField' = Blank /\ wanted' = Blank
    /\ UNCHANGED <<pasted, sessionText, output, failed>>

PsbtNext ==
    \/ \E entry \in Entries \cup {Blank} : TypeKey(entry)
    \/ \E paste \in Pastes : PastePsbt(paste)
    \/ RunPsbt
    \/ \E active \in ActiveResults : UseActiveKey(active)
    \/ EndSession
    \/ LeavePage

PsbtSpec == PsbtInit /\ [][PsbtNext]_psbtVars

-----------------------------------------------------------------------------
(* Properties *)

\* The key that can be used is the one asked for last: a load that fails does
\* not leave the one before it in reach, and after the session has ended or the
\* page was left there is none (hodlPsbtWipeMem before every load).
KeyIsTheOneWanted ==
    /\ priv \in PrivateKeys => wanted = [kind |-> "key", key |-> priv]
    /\ hd # NoKey => wanted = [kind |-> "seed", seed |-> hd]

\* Two valid signatures of one key on different inputs with one r, whatever the
\* encodings of the key, raise the alarm and no lesser verdict.
ReuseAlarms ==
    output # NoOutput /\ pasted # Blank =>
      LET sigs == pasted.psbt.sigs
          proven(s) == /\ s.suffix = "all" /\ s.der = "strict" /\ s.verifies
                       /\ pasted.psbt.inputs[s.input].script = "supported"
      IN  (\E i, j \in DOMAIN sigs :
             /\ sigs[i].input # sigs[j].input
             /\ sigs[i].key = sigs[j].key /\ sigs[i].r = sigs[j].r
             /\ proven(sigs[i]) /\ proven(sigs[j]))
           => output.verdict = "reused"

\* No clean verdict over two inputs whose signatures share key and r, even if
\* neither digest can be reconstructed and the DER is not strict.
NoCleanMissAcrossInputs ==
    output.verdict = "clean" /\ pasted # Blank =>
      \A s, t \in ToSet(pasted.psbt.sigs) :
        s.input # t.input /\ s.key = t.key => s.r # t.r

\* A row reads as matched only for a signature on all outputs whose input asks
\* for no other policy, and that was not found to be invalid.
MatchedRowsCommitToAll ==
    pasted # Blank =>
      \A i \in DOMAIN output.rows :
        output.rows[i] \in {"rfc_match", "exfil_match"} =>
          LET s == pasted.psbt.sigs[i]  input == pasted.psbt.inputs[s.input] IN
          /\ s.suffix = "all" /\ input.declared # "other" /\ s.der = "strict"
          /\ input.script = "supported" => s.verifies

\* The clean verdict taken at its word: no two good signatures that were read, of
\* one key and on different messages, have one r.
CleanVerdictTrue ==
    output.verdict = "clean" /\ pasted # Blank =>
      \A s, t \in ToSet(pasted.psbt.sigs) :
        (/\ s.key = t.key /\ s.verifies /\ t.verifies
         /\ <<s.input, s.suffix>> # <<t.input, t.suffix>>) => s.r # t.r
=============================================================================
