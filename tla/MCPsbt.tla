--------------------------------- MODULE MCPsbt ---------------------------------
(***************************************************************************)
(* Psbt with two keys, the first a child of the one seed, and two nonces.  *)
(* A pair of signatures is the first key's on input 1 and either key's, in *)
(* another encoding on the same input; a single one goes through every     *)
(* policy and script; three are a proven repeat and another.               *)
(***************************************************************************)
EXTENDS Psbt

CONSTANTS k1, k2, s1, r1, r2, none, bad, malformed

MCKeys == {k1, k2}
MCSeeds == {s1}
MCNonces == {r1, r2}
MCChildOf == [k \in MCKeys |-> IF k = k1 THEN s1 ELSE none]
MCTranscripts == {<<>>, <<r1>>, <<r2, r1>>, malformed}

PlainInput == [declared |-> "none", script |-> "supported"]

\* What the code may find of a signature beside its key and its r.
Kinds ==
    {[der |-> "strict", suffix |-> "all", verifies |-> TRUE, rfc6979 |-> TRUE],
     [der |-> "strict", suffix |-> "all", verifies |-> TRUE, rfc6979 |-> FALSE],
     [der |-> "strict", suffix |-> "all", verifies |-> FALSE, rfc6979 |-> FALSE],
     [der |-> "strict", suffix |-> "other", verifies |-> TRUE, rfc6979 |-> TRUE],
     [der |-> "loose", suffix |-> "all", verifies |-> TRUE, rfc6979 |-> FALSE],
     [der |-> "unreadable", suffix |-> "all", verifies |-> FALSE, rfc6979 |-> FALSE]}

Sign(input, key, compressed, r, kind) ==
    [input |-> input, key |-> key, compressed |-> compressed, r |-> r, der |-> kind.der,
     suffix |-> kind.suffix, verifies |-> kind.verifies, rfc6979 |-> kind.rfc6979]

Pairs ==
    {[inputs |-> <<PlainInput, PlainInput>>,
      sigs |-> <<Sign(1, k1, TRUE, r1, first), Sign(input, key, FALSE, r, second)>>] :
        first \in Kinds, second \in Kinds, input \in 1..2, key \in MCKeys, r \in MCNonces}

\* A nonce used twice for certain, and a third signature.
Triples ==
    LET proven == [der |-> "strict", suffix |-> "all", verifies |-> TRUE, rfc6979 |-> TRUE] IN
    {[inputs |-> <<PlainInput, PlainInput>>,
      sigs |-> <<Sign(1, k1, TRUE, r1, proven), Sign(2, k1, FALSE, r1, proven),
                 Sign(2, key, TRUE, r1, third)>>] :
        third \in Kinds, key \in MCKeys}

Singles ==
    {[inputs |-> <<[declared |-> declared, script |-> script]>>,
      sigs |-> <<Sign(1, k1, compressed, r1, kind)>>] :
        kind \in Kinds, compressed \in BOOLEAN,
        declared \in {"none", "all", "other", "malformed"},
        script \in {"supported", "unsupported"}}

Unsigned == [inputs |-> <<PlainInput>>, sigs |-> <<>>]

Pasted(psbt, transcript) == [psbt |-> psbt, transcript |-> transcript]

MCPastes ==
    {Pasted(psbt, transcript) :
        psbt \in {Unsigned} \cup Singles \cup Triples, transcript \in MCTranscripts}
    \cup {Pasted(psbt, <<>>) : psbt \in Pairs}
=============================================================================
