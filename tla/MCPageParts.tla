----------------------------- MODULE MCPageParts -----------------------------
(***************************************************************************)
(* PageParts with small dice, decks, bases and seed lengths.  The          *)
(* entropy lengths are a multiple of no base's digit but base2's, so that  *)
(* every kind of last digit occurs.                                        *)
(***************************************************************************)
EXTENDS PageParts

CONSTANTS alice, blank

\* One, two and three bits a digit, as base2, base4 and base8.
MCBits == [f \in {"bin", "base4", "base8"} |->
             CASE f = "bin" -> 1 [] f = "base4" -> 2 [] f = "base8" -> 3]
MCTexts == [f \in {"bin", "base4", "base8"} |->
    CASE f = "bin" -> {<<>>, <<1,0,1,1>>, <<1,0,1,1,0>>, <<0,0,1,1,1>>}
      [] f = "base4" -> {<<2,3>>, <<2,1,1>>, <<0,3,3>>, <<3>>}
      [] f = "base8" -> {<<5,1>>, <<7,0,1>>, <<4,1,1>>, <<1,2,0>>, <<>>}]

\* A word is two draws; the short seed has one word before its last, the long
\* seed two.
MCSteps == [dplus |-> <<"d8", "d16">>, cards |-> <<"ranks", "low">>, bitbox |-> <<"die", "flip">>]
MCFinal == [dplus |-> [short |-> <<"d8", "coin">>, long |-> <<"d8">>],
            cards |-> [short |-> <<"two", "two">>, long |-> <<"two">>],
            bitbox |-> [short |-> <<>>, long |-> <<>>]]
MCPartial == [short |-> 1, long |-> 2]
MCOptions == [short |-> 4, long |-> 2]
MCChecks == [short |-> 2, long |-> 4]
MCChecksum(words, option) == option + words[1] + 2 * words[Len(words)]

MCDrafts == {Plain(alice), [text |-> alice, spelling |-> "other"], Plain(<<2, 1>>), Plain(blank)}

\* One table of up to nine rows, in SQLite's smallest page: keys that rise, fall,
\* interleave or repeat, and rows and keys that are short or as long as they may
\* be; or two tables, the first without a primary key.
MCKeys == [rising |-> <<1,2,3,4,5,6,7,8,9>>, falling |-> <<9,8,7,6,5,4,3,2,1>>,
           interleaved |-> <<5,1,9,3,7,2,8,4,6>>, repeated |-> <<3,1,2,3,1,3,2,3,1>>]
MCTable(n, order, sizes, keySizes, primaryKey) ==
    [rows |-> [i \in 1..n |-> [key |-> MCKeys[order][i], size |-> sizes[1 + (i % 2)],
                               keySize |-> keySizes[1 + (i % 2)]]],
     primaryKey |-> primaryKey]
MCTables == {MCTable(n, order, sizes, keySizes, TRUE) :
                n \in 1..9, order \in DOMAIN MCKeys,
                sizes \in {<<20, 20>>, <<160, 300>>, <<477, 120>>, <<150, 478>>},
                keySizes \in {<<60, 60>>, <<102, 98>>, <<30, 102>>}}
MCDatabases ==
    {<<>>} \cup {<<t>> : t \in MCTables}
    \cup {<<MCTable(n, "rising", <<160, 160>>, <<60, 60>>, FALSE), t>> :
            n \in {0, 1, 4}, t \in {MCTable(5, "falling", <<20, 20>>, <<102, 102>>, TRUE)}}
=============================================================================
