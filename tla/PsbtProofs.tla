------------------------------- MODULE PsbtProofs -------------------------------
(***************************************************************************)
(* The session key of the PSBT workspace, for every set of keys, seeds and *)
(* PSBTs.  Every way to set a key goes through Loaded, and what Loaded      *)
(* leaves in memory is the entry's key or none: that fact is stated once    *)
(* and each action is proved from it.                                       *)
(***************************************************************************)
EXTENDS Psbt, TLAPS, FiniteSetTheorems

\* What may be in memory after a load, told by the entry that was asked for.
HoldsOnly(p, h, entry) ==
    /\ p \in PrivateKeys => entry = [kind |-> "key", key |-> p]
    /\ h # NoKey => entry = [kind |-> "seed", seed |-> h]

\* Whatever is entered, a load leaves that key or none.
LEMMA LoadedHoldsTheEntry ==
    ASSUME NEW entry \in Entries \cup ActiveResults \cup {Blank}
    PROVE  /\ HoldsOnly(Loaded(entry).priv, Loaded(entry).hd, entry)
           /\ ~Loaded(entry).ok => HoldsOnly(Loaded(entry).priv, Loaded(entry).hd, Blank)
<1>1. CASE entry.kind = "key"
  <2>1. entry = [kind |-> "key", key |-> entry.key]
    BY <1>1 DEF Entries, ActiveResults, Blank
  <2>. QED
    BY <1>1, <2>1, PsbtAssumption DEF Loaded, HoldsOnly
<1>2. CASE entry.kind = "seed"
  <2>1. entry = [kind |-> "seed", seed |-> entry.seed] /\ entry.seed \in Seeds
    BY <1>2 DEF Entries, ActiveResults, Blank
  <2>. QED
    BY <1>2, <2>1, PsbtAssumption DEF Loaded, HoldsOnly
<1>3. CASE entry.kind = "badkey"
  BY <1>3, PsbtAssumption DEF Loaded, HoldsOnly
<1>4. CASE entry.kind \notin {"key", "seed", "badkey"}
  BY <1>4, PsbtAssumption DEF Loaded, HoldsOnly
<1>. QED
  BY <1>1, <1>2, <1>3, <1>4

\* The entries are typed; no more of the type invariant is needed here.
KeysTyped == keyField \in Entries \cup {Blank}

PsbtInv == KeysTyped /\ KeyIsTheOneWanted

LEMMA PsbtInit_Inv == PsbtInit => PsbtInv
BY PsbtAssumption DEF PsbtInit, PsbtInv, KeysTyped, KeyIsTheOneWanted

LEMMA PsbtNext_Inv == PsbtInv /\ [PsbtNext]_psbtVars => PsbtInv'
<1>. SUFFICES ASSUME PsbtInv, [PsbtNext]_psbtVars PROVE KeysTyped' /\ KeyIsTheOneWanted'
  BY DEF PsbtInv
<1>1. ASSUME NEW entry \in Entries \cup {Blank}, TypeKey(entry)
      PROVE  KeysTyped' /\ KeyIsTheOneWanted'
  BY <1>1 DEF TypeKey, memory, PsbtInv, KeysTyped, KeyIsTheOneWanted
<1>2. ASSUME NEW paste \in Pastes, PastePsbt(paste)
      PROVE  KeysTyped' /\ KeyIsTheOneWanted'
  BY <1>2 DEF PastePsbt, memory, PsbtInv, KeysTyped, KeyIsTheOneWanted
<1>3. CASE RunPsbt
  <2>1. CASE keyField = Blank
    BY <1>3, <2>1 DEF RunPsbt, KeyForRun, PsbtInv, KeysTyped, KeyIsTheOneWanted
  <2>2. CASE keyField # Blank
    <3>1. /\ wanted' = keyField
          /\ priv' = Loaded(keyField).priv /\ hd' = Loaded(keyField).hd
          /\ keyField' \in {keyField, Blank}
      BY <1>3, <2>2 DEF RunPsbt, KeyForRun
    <3>2. HoldsOnly(priv', hd', keyField)
      BY <3>1, LoadedHoldsTheEntry DEF PsbtInv, KeysTyped
    <3>. QED
      BY <3>1, <3>2 DEF HoldsOnly, PsbtInv, KeysTyped, KeyIsTheOneWanted
  <2>. QED
    BY <2>1, <2>2
<1>4. ASSUME NEW active \in ActiveResults, UseActiveKey(active)
      PROVE  KeysTyped' /\ KeyIsTheOneWanted'
  <2>1. KeysTyped'
    BY <1>4 DEF UseActiveKey, PsbtInv, KeysTyped
  <2>2. CASE active.kind = "nothing"
    BY <1>4, <2>1, <2>2 DEF UseActiveKey, memory, PsbtInv, KeyIsTheOneWanted
  <2>3. CASE active.kind # "nothing"
    <3>1. /\ priv' = Loaded(active).priv /\ hd' = Loaded(active).hd
          /\ wanted' = IF Loaded(active).ok THEN active ELSE Blank
      BY <1>4, <2>3 DEF UseActiveKey
    <3>2. HoldsOnly(priv', hd', wanted')
      BY <3>1, LoadedHoldsTheEntry
    <3>. QED
      BY <2>1, <3>2 DEF HoldsOnly, KeyIsTheOneWanted
  <2>. QED
    BY <2>2, <2>3
<1>5. CASE EndSession
  BY <1>5, PsbtAssumption DEF EndSession, WipeMemory, KeysTyped, KeyIsTheOneWanted
<1>6. CASE LeavePage
  BY <1>6, PsbtAssumption DEF LeavePage, WipeMemory, KeysTyped, KeyIsTheOneWanted
<1>7. CASE UNCHANGED psbtVars
  BY <1>7 DEF psbtVars, memory, PsbtInv, KeysTyped, KeyIsTheOneWanted
<1>. QED
  BY <1>1, <1>2, <1>3, <1>4, <1>5, <1>6, <1>7 DEF PsbtNext

\* The session holds the key that was asked for last, or none: no failed load
\* leaves the key before it in reach (hodlLoadPsbtKey, hodlPsbtWipeMem).
THEOREM OnlyTheWantedKey == PsbtSpec => []KeyIsTheOneWanted
<1>1. PsbtInv => KeyIsTheOneWanted
  BY DEF PsbtInv
<1>. QED
  BY <1>1, PsbtInit_Inv, PsbtNext_Inv, PTL DEF PsbtSpec

-----------------------------------------------------------------------------
(* What is shown is an inspection of the PSBT in the page. *)

ShowsAnInspection ==
    /\ pasted \in Pastes \cup {Blank}
    /\ \/ output = NoOutput
       \/ /\ pasted # Blank
          /\ \E p, h : output = Inspection(pasted.psbt, pasted.transcript, p, h)

LEMMA PsbtInit_Shows == PsbtInit => ShowsAnInspection
BY DEF PsbtInit, ShowsAnInspection

LEMMA PsbtNext_Shows == ShowsAnInspection /\ [PsbtNext]_psbtVars => ShowsAnInspection'
<1>. SUFFICES ASSUME ShowsAnInspection, [PsbtNext]_psbtVars PROVE ShowsAnInspection'
  OBVIOUS
<1>. USE DEF ShowsAnInspection
<1>1. ASSUME NEW entry \in Entries \cup {Blank}, TypeKey(entry) PROVE ShowsAnInspection'
  BY <1>1, Zenon DEF TypeKey
<1>2. ASSUME NEW paste \in Pastes, PastePsbt(paste) PROVE ShowsAnInspection'
  BY <1>2, Zenon DEF PastePsbt
<1>3. CASE RunPsbt
  <2>1. CASE KeyForRun.ok /\ Inspectable(KeyForRun)
    BY <1>3, <2>1, Zenon DEF RunPsbt, Inspectable
  <2>2. CASE ~(KeyForRun.ok /\ Inspectable(KeyForRun))
    BY <1>3, <2>2, Zenon DEF RunPsbt
  <2>. QED
    BY <2>1, <2>2
<1>4. ASSUME NEW active \in ActiveResults, UseActiveKey(active) PROVE ShowsAnInspection'
  BY <1>4, Zenon DEF UseActiveKey
<1>5. CASE EndSession
  BY <1>5, Zenon DEF EndSession
<1>6. CASE LeavePage
  BY <1>6, Zenon DEF LeavePage
<1>7. CASE UNCHANGED psbtVars
  BY <1>7, Zenon DEF psbtVars
<1>. QED
  BY <1>1, <1>2, <1>3, <1>4, <1>5, <1>6, <1>7, Zenon DEF PsbtNext

LEMMA PsbtShows == PsbtSpec => []ShowsAnInspection
BY PsbtInit_Shows, PsbtNext_Shows, PTL DEF PsbtSpec

\* Two valid signatures of one key on two inputs with one r are a proven repeat,
\* in whichever order the PSBT has them.
LEMMA RepeatIsFound ==
    ASSUME NEW psbt \in [inputs: Seq(Input), sigs: Seq(Signature)],
           NEW i \in DOMAIN psbt.sigs, NEW j \in DOMAIN psbt.sigs,
           psbt.sigs[i].input # psbt.sigs[j].input,
           psbt.sigs[i].key = psbt.sigs[j].key, psbt.sigs[i].r = psbt.sigs[j].r,
           Valid(psbt, psbt.sigs[i]), Valid(psbt, psbt.sigs[j])
    PROVE  Reused(psbt) # {}
<1>1. /\ i \in Nat /\ j \in Nat /\ i # j
      /\ psbt.sigs[i] \in Signature /\ psbt.sigs[j] \in Signature
  OBVIOUS
<1>2. /\ Readable(psbt.sigs[i]) /\ Readable(psbt.sigs[j])
      /\ Digest(psbt, psbt.sigs[i]) = psbt.sigs[i].input
      /\ Digest(psbt, psbt.sigs[j]) = psbt.sigs[j].input
  BY DEF Valid, Readable, Digest
<1>3. CASE i < j
  <2>1. <<i, j>> \in Repeats(psbt)
    BY <1>2, <1>3 DEF Repeats, SamePoint
  <2>. QED
    BY <1>2, <2>1 DEF Reused, Proven
<1>4. CASE j < i
  <2>1. <<j, i>> \in Repeats(psbt)
    BY <1>2, <1>4 DEF Repeats, SamePoint
  <2>. QED
    BY <1>2, <2>1 DEF Reused, Proven
<1>. QED
  BY <1>1, <1>3, <1>4

\* Whatever else the PSBT holds, a nonce repeated between two of its inputs by two
\* valid signatures is told as such, for every PSBT (hodlCompareNonces).
THEOREM ReuseIsNeverMissed == PsbtSpec => []ReuseAlarms
<1>1. ShowsAnInspection => ReuseAlarms
  <2>. DEFINE sigs == pasted.psbt.sigs
              proven(s) == /\ s.suffix = "all" /\ s.der = "strict" /\ s.verifies
                           /\ pasted.psbt.inputs[s.input].script = "supported"
  <2>. SUFFICES ASSUME ShowsAnInspection, output # NoOutput, pasted # Blank,
                       NEW i \in DOMAIN sigs, NEW j \in DOMAIN sigs,
                       sigs[i].input # sigs[j].input,
                       sigs[i].key = sigs[j].key, sigs[i].r = sigs[j].r,
                       proven(sigs[i]), proven(sigs[j])
                PROVE  output.verdict = "reused"
    BY Zenon DEF ReuseAlarms
  <2>1. pasted.psbt \in [inputs: Seq(Input), sigs: Seq(Signature)]
    BY PsbtAssumption DEF ShowsAnInspection
  <2>2. pasted.psbt.sigs[i] \in Signature /\ pasted.psbt.sigs[j] \in Signature
    BY <2>1
  <2>3. Valid(pasted.psbt, pasted.psbt.sigs[i]) /\ Valid(pasted.psbt, pasted.psbt.sigs[j])
    BY <2>2 DEF Valid, Digest, NoDigest, Signature
  <2>4. Reused(pasted.psbt) # {}
    BY <2>1, <2>3, RepeatIsFound
  <2>5. output.verdict = Verdict(pasted.psbt)
    BY DEF ShowsAnInspection, Inspection
  <2>. QED
    BY <2>4, <2>5 DEF Verdict
<1>. QED
  BY <1>1, PsbtShows, PTL

\* For every PSBT and transcript, a row reads as matched only for a signature on
\* all outputs that no policy of its input forbids (the order of 6750-6806).
THEOREM MatchedOnlyUnderAll == PsbtSpec => []MatchedRowsCommitToAll
<1>1. ShowsAnInspection => MatchedRowsCommitToAll
  <2>. SUFFICES ASSUME ShowsAnInspection, pasted # Blank, NEW i \in DOMAIN output.rows,
                       output.rows[i] \in {"rfc_match", "exfil_match"}
                PROVE  LET s == pasted.psbt.sigs[i]
                           input == pasted.psbt.inputs[s.input]
                       IN  /\ s.suffix = "all" /\ input.declared # "other" /\ s.der = "strict"
                           /\ input.script = "supported" => s.verifies
    BY DEF MatchedRowsCommitToAll
  <2>1. output # NoOutput
    <3>1. NoOutput.rows = <<>>
      BY DEF NoOutput
    <3>2. output.rows # <<>>
      OBVIOUS
    <3>. QED
      BY <3>1, <3>2, Zenon
  <2>2. PICK p, h : output = Inspection(pasted.psbt, pasted.transcript, p, h)
    BY <2>1 DEF ShowsAnInspection
  <2>3. i \in DOMAIN pasted.psbt.sigs
        /\ output.rows[i] = Row(pasted.psbt, pasted.transcript, p, h, i)
    BY <2>2 DEF Inspection
  <2>4. pasted.psbt \in [inputs: Seq(Input), sigs: Seq(Signature)]
    BY PsbtAssumption DEF ShowsAnInspection
  <2>5. pasted.psbt.sigs[i] \in Signature
    BY <2>3, <2>4
  <2>6. /\ ~PolicyProblem(pasted.psbt, pasted.psbt.sigs[i])
        /\ pasted.psbt.sigs[i].der \notin {"unreadable", "loose"}
        /\ ~(/\ Digest(pasted.psbt, pasted.psbt.sigs[i]) # NoDigest
             /\ ~Valid(pasted.psbt, pasted.psbt.sigs[i]))
    BY <2>3 DEF Row, Readable
  <2>. QED
    BY <2>5, <2>6 DEF PolicyProblem, Digest, NoDigest, Valid, Signature
<1>. QED
  BY <1>1, PsbtShows, PTL

-----------------------------------------------------------------------------
(* A clean verdict.  It asks that every signature was read, which the code    *)
(* finds by counting them, and that no two readable ones repeat a point.      *)

LEMMA IntervalSize ==
    ASSUME NEW n \in Nat
    PROVE  IsFiniteSet(1..n) /\ Cardinality(1..n) = n
<1>1. IsFiniteSet(1..n) /\ Cardinality(1..n) = IF 1 > n THEN 0 ELSE n - 1 + 1
  BY FS_Interval
<1>. QED
  BY <1>1

\* All signatures count as read only if each of them is.
LEMMA CountedIsRead ==
    ASSUME NEW psbt \in [inputs: Seq(Input), sigs: Seq(Signature)],
           ~(ReadCount(psbt) < Len(psbt.sigs))
    PROVE  \A i \in DOMAIN psbt.sigs : Readable(psbt.sigs[i])
<1>. DEFINE D == 1..Len(psbt.sigs)
            R == {i \in D : Readable(psbt.sigs[i])}
<1>1. DOMAIN psbt.sigs = D /\ Len(psbt.sigs) \in Nat
  OBVIOUS
<1>2. IsFiniteSet(D) /\ Cardinality(D) = Len(psbt.sigs)
  BY <1>1, IntervalSize
<1>3. R \in SUBSET D
  OBVIOUS
<1>4. Cardinality(R) = Cardinality(D) => R = D
  BY <1>2, <1>3, FS_Subset
<1>5. /\ IsFiniteSet(R) /\ Cardinality(R) \in Nat /\ Cardinality(R) <= Cardinality(D)
  BY <1>2, <1>3, FS_Subset, FS_CardinalityType
<1>6. ReadCount(psbt) = Cardinality(R)
  BY <1>1 DEF ReadCount
<1>. HIDE DEF R
<1>7. R = D
  BY <1>1, <1>2, <1>4, <1>5, <1>6
<1>. QED
  BY <1>1, <1>7 DEF R

\* Two signatures of one key with one r on two inputs, once both were read, are a
\* repeat that is proven or possible, in whichever order the PSBT has them.
LEMMA AcrossInputsIsFound ==
    ASSUME NEW psbt \in [inputs: Seq(Input), sigs: Seq(Signature)],
           NEW i \in DOMAIN psbt.sigs, NEW j \in DOMAIN psbt.sigs,
           psbt.sigs[i].input # psbt.sigs[j].input,
           psbt.sigs[i].key = psbt.sigs[j].key, psbt.sigs[i].r = psbt.sigs[j].r,
           Readable(psbt.sigs[i]), Readable(psbt.sigs[j])
    PROVE  Reused(psbt) # {} \/ Possible(psbt) # {}
<1>1. i \in Nat /\ j \in Nat /\ i # j
  OBVIOUS
<1>2. PICK pair \in {<<i, j>>, <<j, i>>} : pair \in Repeats(psbt)
  BY <1>1 DEF Repeats, SamePoint
<1>3. pair \in Reused(psbt) \/ pair \in Possible(psbt)
  BY <1>2 DEF Possible
<1>. QED
  BY <1>3

\* A clean verdict is never given over two inputs whose signatures share key and
\* r, though neither digest be known nor the DER strict (hodlCompareNonces).
THEOREM CleanMissesNoInputs == PsbtSpec => []NoCleanMissAcrossInputs
<1>1. ShowsAnInspection => NoCleanMissAcrossInputs
  <2>. SUFFICES ASSUME ShowsAnInspection, output.verdict = "clean", pasted # Blank,
                       NEW s \in ToSet(pasted.psbt.sigs), NEW t \in ToSet(pasted.psbt.sigs),
                       s.input # t.input, s.key = t.key, s.r = t.r
                PROVE  FALSE
    BY DEF NoCleanMissAcrossInputs
  <2>. DEFINE psbt == pasted.psbt
  <2>1. psbt \in [inputs: Seq(Input), sigs: Seq(Signature)]
    BY PsbtAssumption DEF ShowsAnInspection
  <2>2. PICK i, j \in DOMAIN psbt.sigs : psbt.sigs[i] = s /\ psbt.sigs[j] = t
    BY DEF ToSet
  <2>3. output # NoOutput
    <3>1. NoOutput.verdict = ""
      BY DEF NoOutput
    <3>. QED
      BY <3>1
  <2>4. Verdict(psbt) = "clean"
    BY <2>3 DEF ShowsAnInspection, Inspection
  <2>. HIDE DEF psbt
  <2>5. /\ Reused(psbt) = {} /\ Possible(psbt) = {}
        /\ ~(ReadCount(psbt) < Len(psbt.sigs))
    BY <2>4, Zenon DEF Verdict
  <2>6. Readable(psbt.sigs[i]) /\ Readable(psbt.sigs[j])
    BY <2>1, <2>5, CountedIsRead
  <2>. QED
    BY <2>1, <2>2, <2>5, <2>6, AcrossInputsIsFound
<1>. QED
  BY <1>1, PsbtShows, PTL

-----------------------------------------------------------------------------
(* Type correctness. *)

LEMMA InspectionTyped ==
    ASSUME NEW psbt \in [inputs: Seq(Input), sigs: Seq(Signature)], NEW tr, NEW p, NEW h
    PROVE  /\ Inspection(psbt, tr, p, h).verdict \in Verdicts
           /\ Inspection(psbt, tr, p, h).rows \in Seq(Rows)
<1>. DEFINE row(i) == Row(psbt, tr, p, h, i)
<1>1. \A i : row(i) \in Rows
  BY DEF Row, ExfilRow, RfcRow, Rows
<1>2. Verdict(psbt) \in Verdicts
  BY DEF Verdict, Verdicts
<1>3. Len(psbt.sigs) \in Nat /\ DOMAIN psbt.sigs = 1..Len(psbt.sigs)
  OBVIOUS
<1>. HIDE DEF row
<1>4. [i \in DOMAIN psbt.sigs |-> row(i)] \in Seq(Rows)
  <2>. DEFINE n == Len(psbt.sigs)
  <2>1. [i \in 1..n |-> row(i)] \in [1..n -> Rows]
    BY <1>1
  <2>. QED
    BY <1>3, <2>1
<1>. QED
  BY <1>2, <1>4 DEF Inspection, row

LEMMA LoadedTyped ==
    ASSUME NEW entry \in Entries \cup ActiveResults \cup {Blank}
    PROVE  /\ Loaded(entry).priv \in PrivateKeys \cup {NoKey, BadKey}
           /\ Loaded(entry).hd \in Seeds \cup {NoKey}
           /\ Loaded(entry).note \in {"none", "key"} /\ Loaded(entry).ok \in BOOLEAN
           /\ Loaded(entry).ok => entry \in Entries
<1>1. CASE entry.kind = "key"
  <2>1. entry = [kind |-> "key", key |-> entry.key] /\ entry.key \in PrivateKeys
    BY <1>1 DEF Entries, ActiveResults, Blank
  <2>. QED
    BY <1>1, <2>1 DEF Loaded, Entries
<1>2. CASE entry.kind = "seed"
  <2>1. entry = [kind |-> "seed", seed |-> entry.seed] /\ entry.seed \in Seeds
    BY <1>2 DEF Entries, ActiveResults, Blank
  <2>. QED
    BY <1>2, <2>1 DEF Loaded, Entries
<1>3. CASE entry.kind \notin {"key", "seed"}
  <2>1. /\ Loaded(entry).priv \in {NoKey, BadKey} /\ Loaded(entry).hd = NoKey
        /\ Loaded(entry).note = "none"
    BY <1>3 DEF Loaded
  <2>2. Loaded(entry).ok = (entry.kind \in {"key", "seed"})
    BY Zenon DEF Loaded
  <2>3. Loaded(entry).ok \in BOOLEAN
    BY <2>2
  <2>4. ~Loaded(entry).ok
    BY <1>3, <2>2
  <2>. QED
    BY <2>1, <2>3, <2>4
<1>. QED
  BY <1>1, <1>2, <1>3

MemoryTyped(p, h, n) ==
    p \in PrivateKeys \cup {NoKey, BadKey} /\ h \in Seeds \cup {NoKey} /\ n \in {"none", "key"}
OutputTyped(o) == o.verdict \in Verdicts \cup {""} /\ o.rows \in Seq(Rows)

LEMMA NoOutputTyped == OutputTyped(NoOutput)
BY DEF OutputTyped, NoOutput

LEMMA PsbtNext_Type == PsbtTypeOK /\ [PsbtNext]_psbtVars => PsbtTypeOK'
<1>. SUFFICES ASSUME PsbtTypeOK, [PsbtNext]_psbtVars PROVE PsbtTypeOK'
  OBVIOUS
<1>. USE DEF PsbtTypeOK
<1>1. ASSUME NEW entry \in Entries \cup {Blank}, TypeKey(entry) PROVE PsbtTypeOK'
  BY <1>1 DEF TypeKey, memory
<1>2. ASSUME NEW paste \in Pastes, PastePsbt(paste) PROVE PsbtTypeOK'
  BY <1>2, PsbtAssumption DEF PastePsbt, memory
<1>3. CASE RunPsbt
  <2>1. /\ MemoryTyped(KeyForRun.priv, KeyForRun.hd, KeyForRun.note)
        /\ KeyForRun.ok \in BOOLEAN
    BY LoadedTyped DEF KeyForRun, MemoryTyped
  <2>2. OutputTyped(output')
    <3>1. CASE KeyForRun.ok /\ Inspectable(KeyForRun)
      <4>1. pasted.psbt \in [inputs: Seq(Input), sigs: Seq(Signature)]
        BY <3>1 DEF Inspectable
      <4>2. output' = Inspection(pasted.psbt, pasted.transcript, KeyForRun.priv, KeyForRun.hd)
        BY <1>3, <3>1, Zenon DEF RunPsbt
      <4>. QED
        BY <4>1, <4>2, InspectionTyped DEF OutputTyped
    <3>2. CASE ~(KeyForRun.ok /\ Inspectable(KeyForRun))
      <4>1. output' = NoOutput
        BY <1>3, <3>2, Zenon DEF RunPsbt
      <4>. QED
        BY <4>1, NoOutputTyped
    <3>. QED
      BY <3>1, <3>2
  <2>3. failed' \in BOOLEAN
    BY <1>3 DEF RunPsbt
  <2>. QED
    BY <1>3, <2>1, <2>2, <2>3 DEF RunPsbt, MemoryTyped, OutputTyped
<1>4. ASSUME NEW active \in ActiveResults, UseActiveKey(active) PROVE PsbtTypeOK'
  <2>1. /\ MemoryTyped(Loaded(active).priv, Loaded(active).hd, Loaded(active).note)
        /\ Loaded(active).ok \in BOOLEAN /\ (Loaded(active).ok => active \in Entries)
    BY LoadedTyped DEF MemoryTyped
  <2>2. MemoryTyped(priv', hd', note') /\ wanted' \in Entries \cup {Blank}
    BY <1>4, <2>1 DEF UseActiveKey, MemoryTyped, memory
  <2>3. /\ keyField' \in Entries \cup {Blank} /\ sessionText' \in {"none", "key", "ended"}
        /\ failed' \in BOOLEAN /\ UNCHANGED <<pasted, output>>
    BY <1>4, <2>1 DEF UseActiveKey, MemoryTyped
  <2>. QED
    BY <2>2, <2>3 DEF MemoryTyped
<1>5. CASE EndSession
  BY <1>5, NoOutputTyped DEF EndSession, WipeMemory, OutputTyped
<1>6. CASE LeavePage
  BY <1>6 DEF LeavePage, WipeMemory
<1>7. CASE UNCHANGED psbtVars
  BY <1>7 DEF psbtVars, memory
<1>. QED
  BY <1>1, <1>2, <1>3, <1>4, <1>5, <1>6, <1>7 DEF PsbtNext

\* Memory, verdict and rows are always of the kinds the page knows how to show.
THEOREM PsbtTyped == PsbtSpec => []PsbtTypeOK
<1>1. PsbtInit => PsbtTypeOK
  BY PsbtAssumption, NoOutputTyped DEF PsbtInit, PsbtTypeOK, OutputTyped
<1>. QED
  BY <1>1, PsbtNext_Type, PTL DEF PsbtSpec
=============================================================================
