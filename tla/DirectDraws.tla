---------------------------- MODULE DirectDraws ----------------------------
(***************************************************************************)
(* The transcripts that select seed words directly: D++ dice, rank-only    *)
(* cards and BitBox diceware (app.js 1840-2048, 2330-2407, 2518-2616,      *)
(* 2797-2925, 3055-3077, 3768-3802, 4526-4621).  The text holds the draws  *)
(* and the blanks between groups; it is put in order again after every     *)
(* edit.  The method is chosen first; other characters are filtered out.   *)
(***************************************************************************)
EXTENDS Integers, Sequences, FiniteSets, SequencesExt

CONSTANTS
    Methods,            \* the methods a form may use, of those below
    D8, D16,            \* faces of the two D++ dice
    Faces, LowFaces,    \* faces of a BitBox die, and of them those that count
    Ranks, LowRanks,    \* ranks of the two card sets
    WordSteps,          \* the draws of a word, by method
    FinalSteps,         \* the draws of the last word, by method and length
    Partial,            \* words before the last, by length
    Options,            \* checksum-valid last words, by length
    Checks,             \* checksum values, by length
    Checksum(_, _),     \* checksum of some words and an option
    ExtraDraws,         \* bound: draws after the last step
    Blank, NoPick

Lengths == DOMAIN Partial

\* hodlDPlusStepValue, hodlDirectCardRankValue and the dice of mi: the value
\* of a draw, for the faces that a step accepts.
StepValue == [
    d8    |-> [x \in 1..D8 |-> x - 1],
    d16   |-> [x \in 0..D16-1 |-> x],
    coin  |-> [x \in 1..D8 |-> IF x > D8 \div 2 THEN 1 ELSE 0],
    ranks |-> [x \in 0..Ranks-1 |-> x],
    low   |-> [x \in 0..LowRanks-1 |-> x],
    two   |-> [x \in 0..1 |-> x],
    die   |-> [x \in 1..LowFaces |-> x - 1],
    flip  |-> [x \in 1..Faces |-> IF x <= Faces \div 2 THEN 0 ELSE 1] ]
Fits(step, x) == x \in DOMAIN StepValue[step]
Radix == [step \in DOMAIN StepValue |->
            Cardinality({StepValue[step][x] : x \in DOMAIN StepValue[step]})]

\* The keys of the pad.  On the coin a key stands for each half of the faces.
Alphabet == [dplus |-> 0..D16-1, cards |-> 0..Ranks-1, bitbox |-> 1..Faces]
Leads == [dplus |-> {1, D8 \div 2 + 1}, bitbox |-> {1, Faces \div 2 + 1}]

\* Mutant: every value weighs as the first one.
MixedByFirst(steps, values) ==
    LET upTo[i \in 0..Len(values)] ==
            IF i = 0 THEN 0 ELSE (upTo[i - 1] * Radix[steps[1]]) + values[i]
    IN  upTo[Len(values)]

\* The number that the values of some steps make, the first the heaviest.
Mixed(steps, values) ==
    LET upTo[i \in 0..Len(values)] ==
            IF i = 0 THEN 0 ELSE (upTo[i - 1] * Radix[steps[i]]) + values[i]
    IN  upTo[Len(values)]

\* How many transcripts of some steps there are, up to the values of draws.
Product(steps) ==
    LET upTo[i \in 0..Len(steps)] == IF i = 0 THEN 1 ELSE upTo[i - 1] * Radix[steps[i]]
    IN  upTo[Len(steps)]

\* The final draws of D++ and cards select each last word once (the tables
\* hodlDPlusFinalSpecs and hodlDirectCardFinalRadices).  A coin has two sides.
ASSUME DirectDrawsAssumption ==
    /\ Methods \subseteq {"dplus", "cards", "bitbox"}
    /\ D8 \in Nat /\ D8 >= 2 /\ Faces \in Nat /\ Faces >= 2
    /\ {D16, Ranks, LowRanks, LowFaces} \subseteq Nat \ {0}
    /\ \A m \in Methods : /\ WordSteps[m] \in Seq(DOMAIN StepValue) \ {<<>>}
                          /\ Blank \notin Alphabet[m]
    /\ \A m \in Methods, l \in Lengths : FinalSteps[m][l] \in Seq(DOMAIN StepValue)
    /\ \A m \in Methods \ {"bitbox"}, l \in Lengths : Product(FinalSteps[m][l]) = Options[l]
    /\ \A l \in Lengths : {Partial[l], Options[l], Checks[l]} \subseteq Nat \ {0}

VARIABLES
    method, length,     \* ge or hodlCardMethod, and Pt
    text, caret,        \* the textarea
    picked              \* ft: the last word picked for BitBox dice

ddVars == <<method, length, text, caret, picked>>

-----------------------------------------------------------------------------
\* hodlDPlusRolls and hodlParseDirectCards: a draw has the step of its place.
Group(m) == Len(WordSteps[m])
Steps == [m \in Methods |-> [l \in Lengths |->
    [i \in 1..Partial[l] * Group(m) |-> WordSteps[m][((i - 1) % Group(m)) + 1]] \o FinalSteps[m][l]]]

\* hodlBitBoxRolls: a draw that its step does not accept is rolled again.
Counted(l, draws) ==
    LET steps == Steps["bitbox"][l]
        Next(kept, x) == IF Len(kept) < Len(steps) /\ Fits(steps[Len(kept) + 1], x)
                         THEN Append(kept, x) ELSE kept
        upTo[i \in 0..Len(draws)] == IF i = 0 THEN <<>> ELSE Next(upTo[i - 1], draws[i])
    IN  upTo[Len(draws)]

\* The draws of a text, without the blanks.
Draws(t) ==
    LET upTo[i \in 0..Len(t)] ==
            IF i = 0 THEN <<>> ELSE IF t[i] = Blank THEN upTo[i - 1] ELSE Append(upTo[i - 1], t[i])
    IN  upTo[Len(t)]

\* Invalid entries: those that do not fit, and those after the last step.
Invalid(m, l, draws) ==
    LET steps == Steps[m][l] IN
    IF m = "bitbox" THEN Len(draws) - Len(Counted(l, draws))
    ELSE Cardinality({i \in DOMAIN draws : i > Len(steps) \/ ~Fits(steps[i], draws[i])})

Drawn(m, l, draws) == IF m = "bitbox" THEN Counted(l, draws) ELSE draws
Complete(m, l, draws) ==
    Len(Drawn(m, l, draws)) = Len(Steps[m][l]) /\ (m = "bitbox" \/ Invalid(m, l, draws) = 0)

\* The value of the draws from the one after i, by the steps given.
ValueAfter(m, l, draws, i, steps) ==
    Mixed(steps, [j \in DOMAIN steps |-> StepValue[steps[j]][Drawn(m, l, draws)[i + j]]])

Words(m, l, draws) ==
    [w \in 1..Partial[l] |-> ValueAfter(m, l, draws, (w - 1) * Group(m), WordSteps[m])]

\* hodlComputeTargetLastWords.
Candidate(l, words, option) == (option * Checks[l]) + (Checksum(words, option) % Checks[l])
Candidates(l, words) == {Candidate(l, words, o) : o \in 0..Options[l]-1}

FinalIndex(m, l, draws) ==
    ValueAfter(m, l, draws, Partial[l] * Group(m), FinalSteps[m][l])
FinalWord(m, l, draws) == Candidate(l, Words(m, l, draws), FinalIndex(m, l, draws))

-----------------------------------------------------------------------------
\* hodlDPlusSeparator, hodlDirectCardSeparator and the separateNext of
\* hodlSanitizeDiceInput: whether a blank comes before draw i.
SeparatorBefore(m, l, draws, i) ==
    LET rolled == Partial[l] * Group(m)
        counted(j) == Len(Counted(l, SubSeq(draws, 1, j)))
    IN
    /\ i > 1
    /\ CASE m = "bitbox" -> counted(i - 1) % Group(m) = 0 /\ counted(i - 1) > counted(i - 2)
         [] m = "dplus"  -> (i - 1) % Group(m) = 0 /\ i - 1 <= rolled
         [] m = "cards"  -> \/ (i - 1) % Group(m) = 0 /\ i - 1 <= rolled
                            \/ i - 1 = Len(Steps[m][l])

Clean(m, l, draws) ==
    LET piece(i) == IF SeparatorBefore(m, l, draws, i) THEN <<Blank, draws[i]>> ELSE <<draws[i]>>
        upTo[i \in 0..Len(draws)] == IF i = 0 THEN <<>> ELSE upTo[i - 1] \o piece(i)
    IN  upTo[Len(draws)]

\* Mutant: the picked word stays while the transcript is full.
KeptPickUnchecked(m, l, draws, pick) ==
    IF m = "bitbox" /\ Complete(m, l, draws) THEN pick ELSE NoPick

\* hodlUpdateDice: a picked word that the words no longer allow is dropped.
KeptPick(m, l, draws, pick) ==
    IF m = "bitbox" /\ Complete(m, l, draws) /\ pick \in Candidates(l, Words(m, l, draws))
    THEN pick ELSE NoPick

\* Mutant: the caret stays where it was.
SanitizeUnmoved(m, l, raw, c, pick) ==
    /\ text' = Clean(m, l, Draws(raw))
    /\ caret' = c
    /\ picked' = KeptPick(m, l, Draws(raw), pick)

\* hodlSanitizeDPlusInput, hodlSanitizeDiceInput, hodlApplyFilteredInput: where
\* the caret at c goes when the text raw is put in order; if it must move, it
\* goes right behind the draw it followed.
CaretBehind(m, l, raw, c) ==
    LET draws == Draws(raw)
        before == Len(Draws(SubSeq(raw, 1, c)))
    IN  IF raw = Clean(m, l, draws) THEN c ELSE Len(Clean(m, l, SubSeq(draws, 1, before)))

Sanitize(m, l, raw, c, pick) ==
    /\ text' = Clean(m, l, Draws(raw))
    /\ caret' = CaretBehind(m, l, raw, c)
    /\ picked' = KeptPick(m, l, Draws(raw), pick)

\* The text with the characters between two offsets replaced.
Edited(from, to, insert) == SubSeq(text, 1, from) \o insert \o SubSeq(text, to + 1, Len(text))
Replace(from, to, insert) ==
    Sanitize(method, length, Edited(from, to, insert), from + Len(insert), picked)

-----------------------------------------------------------------------------
DirectDrawsInit ==
    /\ method \in Methods /\ length \in Lengths
    /\ text = <<>> /\ caret = 0 /\ picked = NoPick

\* A character typed at the caret.
TypeDraw(x) ==
    /\ Len(Draws(text)) < Len(Steps[method][length]) + ExtraDraws
    /\ Replace(caret, caret, <<x>>)
    /\ UNCHANGED <<method, length>>

\* hodlUpdateDiceButtons and hodlUpdateDirectCards: the keys that are shown
\* and enabled.
KeyEnabled(x) ==
    LET draws == Draws(text)
        steps == Steps[method][length]
        drawn == Drawn(method, length, draws)
        next  == Len(drawn) + 1
    IN
    CASE method = "cards" ->
            /\ ~Complete(method, length, draws)
            /\ Fits(steps[IF next > Len(steps) THEN Len(steps) ELSE next], x)
      [] method = "dplus" ->
            /\ next <= Len(steps)
            /\ next <= Partial[length] * Group(method) \/ Invalid(method, length, draws) = 0
            /\ Fits(steps[next], x)
            /\ steps[next] = "coin" => x \in Leads[method]
      [] method = "bitbox" ->
            /\ next <= Len(steps)
            /\ Fits(steps[next], x)
            /\ steps[next] = "flip" => x \in Leads[method]

\* hodlInsertDiceControl and the rank buttons.
TapKey(x) ==
    /\ KeyEnabled(x)
    /\ Len(Draws(text)) < Len(Steps[method][length]) + ExtraDraws
    /\ Replace(caret, caret, <<x>>)
    /\ UNCHANGED <<method, length>>

\* hodlHandleGroupedSeparatorDelete, bound for D++ and cards: with a blank before
\* the caret Backspace takes the draw before it too, and with one behind the caret
\* Delete takes the draw behind it.
BackspaceFrom ==
    IF method # "bitbox" /\ caret > 1 /\ text[caret] = Blank THEN caret - 2 ELSE caret - 1

\* Mutant: a blank is deleted alone in every method.
DeleteToBlank == caret + 1

DeleteTo ==
    IF method # "bitbox" /\ text[caret + 1] = Blank /\ caret + 1 < Len(text)
    THEN caret + 2 ELSE caret + 1

Backspace == caret > 0 /\ Replace(BackspaceFrom, caret, <<>>) /\ UNCHANGED <<method, length>>
DeleteForward == caret < Len(text) /\ Replace(caret, DeleteTo, <<>>) /\ UNCHANGED <<method, length>>

MoveCaret(c) == caret' = c /\ UNCHANGED <<method, length, text, picked>>

\* hodlUndoCard: the last draw goes and the caret is put at the end.
UndoDraw ==
    /\ method = "cards" /\ text # <<>>
    /\ Sanitize(method, length, Clean(method, length, Front(Draws(text))),
                Len(Clean(method, length, Front(Draws(text)))), picked)
    /\ UNCHANGED <<method, length>>

\* The last-word picker of BitBox dice, and its "-" entry.
PickLastWord(w) ==
    /\ method = "bitbox" /\ Complete(method, length, Draws(text))
    /\ w \in Candidates(length, Words(method, length, Draws(text))) \cup {NoPick}
    /\ picked' = w
    /\ UNCHANGED <<method, length, text, caret>>

\* hodlSetSeedLength: the picked word goes; the text is restored, caret behind.
SetDrawLength(l) ==
    /\ l # length /\ length' = l
    /\ Sanitize(method, l, text, Len(text), NoPick)
    /\ UNCHANGED method

DirectDrawsNext ==
    \/ \E x \in Alphabet[method] : TypeDraw(x) \/ TapKey(x)
    \/ Backspace \/ DeleteForward \/ UndoDraw
    \/ \E c \in 0..Len(text) : MoveCaret(c)
    \/ \E l \in Lengths : SetDrawLength(l)
    \/ \E w \in 0..(Options[length] * Checks[length] - 1) : PickLastWord(w)
    \/ PickLastWord(NoPick)

DirectDrawsSpec == DirectDrawsInit /\ [][DirectDrawsNext]_ddVars

-----------------------------------------------------------------------------
DirectDrawsTypeOK ==
    /\ method \in Methods /\ length \in Lengths
    /\ text \in Seq(Alphabet[method] \cup {Blank})
    /\ caret \in 0..Len(text)
    /\ picked \in Nat \cup {NoPick}

\* The values that a number stands for: the reference the radix arithmetic of
\* the code is checked against.
ValuesOf(steps, n) ==
    [j \in DOMAIN steps |->
        (n \div Product(SubSeq(steps, j + 1, Len(steps)))) % Radix[steps[j]]]

\* The value of draw i, read back from the words selected and the final index.
ReadBack(words, last, i) ==
    LET w == ((i - 1) \div Group(method)) + 1 IN
    IF w <= Partial[length]
    THEN ValuesOf(WordSteps[method], words[w])[((i - 1) % Group(method)) + 1]
    ELSE ValuesOf(FinalSteps[method][length], last)[i - Partial[length] * Group(method)]

\* A complete transcript selects words from which every draw can be read
\* back, and a last word that passes the checksum: no two transcripts that
\* differ in a value select the same seed, so every seed is equally likely.
SelectionRecoversDraws ==
    LET draws == Draws(text)
        drawn == Drawn(method, length, draws)
        words == Words(method, length, draws)
        last  == FinalIndex(method, length, draws)
    IN
    Complete(method, length, draws) =>
        /\ \A i \in DOMAIN drawn :
             ReadBack(words, last, i) = StepValue[Steps[method][length][i]][drawn[i]]
        /\ method # "bitbox" => FinalWord(method, length, draws) \in Candidates(length, words)

\* A word picked for the checksum always completes the words on screen: it
\* never outlives a roll that was changed, deleted or added.
PickedWordFits ==
    picked # NoPick =>
        /\ Complete(method, length, Draws(text))
        /\ picked \in Candidates(length, Words(method, length, Draws(text)))

\* What is left of text and caret when what is between two offsets is deleted.
Deleted(from, to) ==
    LET raw == Edited(from, to, <<>>)
    IN  <<Clean(method, length, Draws(raw)), CaretBehind(method, length, raw, from)>>

\* Backspace and, where blanks are handled, Delete never get stuck at a blank
\* that the sanitizer puts back: each takes a draw away or moves the caret.
DeletesTakeEffect ==
    /\ caret > 0 => Deleted(BackspaceFrom, caret) # <<text, caret>>
    /\ method # "bitbox" /\ caret < Len(text) => Deleted(caret, DeleteTo) # <<text, caret>>
=============================================================================
