------------------------------ MODULE CardDeal ------------------------------
(***************************************************************************)
(* The hashed card transcript (app.js 2674-2795, 2929-3001, 4189-4290):    *)
(* cards are typed, or chosen on two rows of keys, a suit and a rank in    *)
(* either order; a choice that only one card is left for completes itself. *)
(* A token of the text is a whole card or a rank still without its suit;   *)
(* other malformed tokens, which count as the latter, are not modelled.    *)
(***************************************************************************)
EXTENDS Integers, Sequences, FiniteSets, SequencesExt

CONSTANTS
    Suits, Ranks13,     \* hodlCardSuits, hodlCardRanks
    FirstDeals,         \* cards of the first shuffle, of the seed lengths
    MaxTokens,          \* bound: tokens before the next is typed or chosen
    NoChoice            \* "": no suit or rank chosen

Deck == Ranks13 \X Suits

ASSUME CardDealAssumption ==
    /\ IsFiniteSet(Suits) /\ IsFiniteSet(Ranks13)
    /\ NoChoice \notin Suits \cup Ranks13
    /\ FirstDeals \subseteq 1..Cardinality(Deck)

VARIABLES
    firstDeal,          \* hodlCardNeeded(Pt).first
    tokens,             \* the transcript: <<rank, suit>> or <<rank>>
    atEnd,              \* the textarea has the focus, its caret behind the last token
    suit, rank          \* hodlCardSuit, hodlCardRank

cdVars == <<firstDeal, tokens, atEnd, suit, rank>>

-----------------------------------------------------------------------------
IsCard(token) == Len(token) = 2

\* The cards that the next one must differ from: those of the first shuffle,
\* or once it is dealt those of the second.
Pool(first, cards) ==
    ToSet(IF Len(cards) < first THEN cards ELSE SubSeq(cards, first + 1, Len(cards)))

\* hodlParseCards.cards: the tokens that are cards, repetitions left out.
Cards(first, ts) ==
    LET Deal(cards, t) == IF IsCard(t) /\ t \notin Pool(first, cards) THEN Append(cards, t) ELSE cards
        upTo[i \in 0..Len(ts)] == IF i = 0 THEN <<>> ELSE Deal(upTo[i - 1], ts[i])
    IN  upTo[Len(ts)]

\* hodlAnalyzeCardInput: nothing is highlighted; a rank that is still being
\* typed is not.
NoneInvalid(first, ts, typing) ==
    LET pending == ts # <<>> /\ typing /\ ~IsCard(Last(ts)) IN
    Len(Cards(first, ts)) = Len(ts) - (IF pending THEN 1 ELSE 0)

Available(first, ts) == Deck \ Pool(first, Cards(first, ts))
SuitsOf(cards, r) == {c[2] : c \in {c \in cards : r \in {NoChoice, c[1]}}}
RanksOf(cards, s) == {c[1] : c \in {c \in cards : s \in {NoChoice, c[2]}}}

TheOnly(S, otherwise) == IF Cardinality(S) = 1 THEN CHOOSE x \in S : TRUE ELSE otherwise

\* hodlCardSelectionState: a choice that is no longer possible is dropped, one
\* that is the only one left is made.
Selection(cards, s, r) ==
    LET s1 == IF s \in SuitsOf(cards, NoChoice) THEN s ELSE NoChoice
        r1 == IF r \in RanksOf(cards, NoChoice) THEN r ELSE NoChoice
        dealt == s1 # NoChoice /\ r1 # NoChoice /\ <<r1, s1>> \notin cards
        s2 == IF dealt \/ s1 = NoChoice THEN TheOnly(SuitsOf(cards, NoChoice), NoChoice) ELSE s1
        r2 == IF dealt \/ r1 = NoChoice THEN TheOnly(RanksOf(cards, NoChoice), NoChoice) ELSE r1
        r3 == IF s2 # NoChoice /\ r2 = NoChoice THEN TheOnly(RanksOf(cards, s2), r2) ELSE r2
        s3 == IF r3 # NoChoice /\ s2 = NoChoice THEN TheOnly(SuitsOf(cards, r3), s2) ELSE s2
    IN  [s |-> s3, r |-> r3]

\* One pass of hodlUpdateCards; hodlCommitCardSelection asks for another one.
Commit(first, u, typing) ==
    LET available == Available(first, u.tokens)
        sel == Selection(available, u.s, u.r)
    IN
    IF <<sel.r, sel.s>> \in available /\ NoneInvalid(first, u.tokens, typing)
    THEN [tokens |-> Append(u.tokens, <<sel.r, sel.s>>), s |-> NoChoice, r |-> NoChoice]
    ELSE [tokens |-> u.tokens, s |-> sel.s, r |-> sel.r]

\* hodlUpdateCards: a card that is chosen may leave one that deals itself, and
\* no other after that.
UpdateCards(first, ts, s, r, typing) ==
    LET after[pass \in 0..3] ==
            IF pass = 0 THEN [tokens |-> ts, s |-> s, r |-> r]
            ELSE Commit(first, after[pass - 1], typing)
        done == after[3]
    IN
    /\ tokens' = done.tokens /\ suit' = done.s /\ rank' = done.r
    /\ atEnd' = typing

-----------------------------------------------------------------------------
CardDealInit ==
    /\ firstDeal \in FirstDeals
    /\ tokens = <<>> /\ atEnd = FALSE /\ suit = NoChoice /\ rank = NoChoice

\* The keys: exhausted, incompatible and locked keys are disabled.
SuitEnabled(s) ==
    LET cards == Available(firstDeal, tokens) IN
    s \in SuitsOf(cards, rank) /\ suit \in {NoChoice, s}
RankEnabled(r) ==
    LET cards == Available(firstDeal, tokens) IN
    r \in RanksOf(cards, suit) /\ rank \in {NoChoice, r}

\* A key of the suit row: chosen again, a suit is let go.
TapSuit(s) ==
    /\ Len(tokens) < MaxTokens /\ SuitEnabled(s)
    /\ UpdateCards(firstDeal, tokens, IF suit = s THEN NoChoice ELSE s, rank, FALSE)
    /\ UNCHANGED firstDeal

\* A key of the rank row.
TapRank(r) ==
    /\ Len(tokens) < MaxTokens /\ RankEnabled(r)
    /\ UpdateCards(firstDeal, tokens, suit, IF rank = r THEN NoChoice ELSE r, FALSE)
    /\ UNCHANGED firstDeal

\* oninput: the choice is let go, then the cards are updated.
InputCards(ts, typing) ==
    UpdateCards(firstDeal, ts, NoChoice, NoChoice, typing) /\ UNCHANGED firstDeal

TypeRank(r) == Len(tokens) < MaxTokens /\ InputCards(Append(tokens, <<r>>), TRUE)
TypeSuit(s) ==
    /\ tokens # <<>> /\ ~IsCard(Last(tokens))
    /\ InputCards(Append(Front(tokens), Append(Last(tokens), s)), TRUE)

\* The last character of the text is deleted.
DeleteCharacter ==
    /\ tokens # <<>>
    /\ InputCards(IF IsCard(Last(tokens)) THEN Append(Front(tokens), Front(Last(tokens)))
                  ELSE Front(tokens), TRUE)

\* hodlUndoCard: the last token goes, the caret is put at the end.
UndoCard == tokens # <<>> /\ InputCards(Front(tokens), TRUE)

\* The focus leaves the textarea; nothing is updated.
LeaveCards == atEnd /\ atEnd' = FALSE /\ UNCHANGED <<firstDeal, tokens, suit, rank>>

\* Mutant: the new form keeps the choice of the old one.
RedrawCardsKeepingChoice(n) ==
    /\ firstDeal' = n /\ atEnd' = FALSE
    /\ UNCHANGED <<tokens, suit, rank>>

\* hodlSetSeedLength, and with the same length every other way to draw the form
\* again: it is drawn without a choice and the transcript restored.
RedrawCards(n) ==
    /\ firstDeal' = n
    /\ UpdateCards(n, tokens, NoChoice, NoChoice, FALSE)

CardDealNext ==
    \/ \E s \in Suits : TapSuit(s) \/ TypeSuit(s)
    \/ \E r \in Ranks13 : TapRank(r) \/ TypeRank(r)
    \/ DeleteCharacter \/ UndoCard \/ LeaveCards
    \/ \E n \in FirstDeals : RedrawCards(n)

CardDealSpec == CardDealInit /\ [][CardDealNext]_cdVars

-----------------------------------------------------------------------------
CardDealTypeOK ==
    /\ firstDeal \in FirstDeals /\ atEnd \in BOOLEAN
    /\ tokens \in Seq(Deck \cup {<<r>> : r \in Ranks13})
    /\ suit \in Suits \cup {NoChoice} /\ rank \in Ranks13 \cup {NoChoice}

\* The choice on the keys can always be completed: a card of that suit or rank
\* is left in this shuffle, also after cards were typed, taken back or dealt by
\* themselves, and after the other seed length began a second shuffle.
ChoiceCompletable ==
    LET cards == Available(firstDeal, tokens) IN
    /\ suit # NoChoice => suit \in SuitsOf(cards, rank)
    /\ rank # NoChoice => rank \in RanksOf(cards, suit)

\* Undo takes the last card back ("Undo last card", app.js 4221).
UndoTakesBack == [][ UndoCard => Len(tokens') < Len(tokens) ]_cdVars
=============================================================================
