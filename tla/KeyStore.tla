------------------------------ MODULE KeyStore ------------------------------
(***************************************************************************)
(* What the key manager promises, without the form it shares between keys: *)
(* each open key has inputs, at most one result derived from exactly those *)
(* inputs, and a flag that shows its private material.  An operation works *)
(* on the current key and leaves every other key as it was; only clearing  *)
(* the page's secrets reaches them all.                                    *)
(***************************************************************************)
EXTENDS Integers, Sequences, FiniteSets, SequencesExt

CONSTANTS
    KeyIds,
    Inputs, FirstInput,
    Wallets, NoWallet,
    Derives(_, _)       \* Derives(input, wallet)

VARIABLES
    order,      \* open keys, in tab order
    current,    \* index of the current key
    entry       \* inputs, result and display flag of each key

storeVars == <<order, current, entry>>

Covered(i, w) == [input |-> i, result |-> w, shown |-> FALSE]
FreshEntry == Covered(FirstInput, NoWallet)
Open == {order[i] : i \in 1..Len(order)}

Init ==
    /\ \E k \in KeyIds : order = <<k>>
    /\ current = 1
    /\ entry = [k \in KeyIds |-> FreshEntry]

\* The current key's entry becomes e; tabs and other keys stay.
Put(e) ==
    /\ entry' = [entry EXCEPT ![order[current]] = e]
    /\ UNCHANGED <<order, current>>
Now == entry[order[current]]

Edit ==
    LET i == entry'[order[current]].input IN
    i \in Inputs /\ Put(Covered(i, NoWallet))
Derive ==
    LET w == entry'[order[current]].result IN
    /\ w \in Wallets /\ Derives(Now.input, w)
    /\ Put(Covered(Now.input, w))
Fail == Put(Covered(Now.input, NoWallet))
Show(b) == Now.result # NoWallet /\ Put([Now EXCEPT !.shown = b])

Switch == current' \in 1..Len(order) /\ UNCHANGED <<order, entry>>
Open1 == \E k \in KeyIds \ Open :
            /\ order' = Append(order, k) /\ current' = Len(order) + 1
            /\ entry' = [entry EXCEPT ![k] = FreshEntry]
Close ==
    /\ Len(order) > 1
    /\ order' = RemoveAt(order, current) /\ current' \in 1..Len(order')
    /\ entry' = [entry EXCEPT ![order[current]] = FreshEntry]

\* Every key forgets its inputs and result; the current one may keep settings.
Forget ==
    /\ LET i == entry'[order[current]].input IN
         /\ i \in Inputs
         /\ entry' = [k \in KeyIds |-> IF k = order[current]
                                       THEN Covered(i, NoWallet) ELSE FreshEntry]
    /\ UNCHANGED <<order, current>>

Next == \/ Edit \/ Derive \/ Fail \/ Switch \/ Open1 \/ Close \/ Forget
        \/ \E b \in BOOLEAN : Show(b)

Spec == Init /\ [][Next]_storeVars
=============================================================================
