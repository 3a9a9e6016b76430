--------------------------- MODULE MCMsigManager ---------------------------
(***************************************************************************)
(* Small instances of the multisig manager for TLC.                        *)
(***************************************************************************)
EXTENDS MsigManager, TLC

CONSTANTS blank, a, b, c, d, mixed, p2wsh, p2sh, mainnet, testnet, five, ten, w1

\* a and b are BIP87 account keys, c is a BIP45 key, d a BIP48 key for p2wsh.
MCEvidence ==
    [t \in Texts |->
       [kinds     |-> IF t = c THEN {p2sh} ELSE IF t = d THEN {p2wsh} ELSE {},
        standards |-> IF t \in {a, b} THEN {"bip87"} ELSE IF t = c THEN {"bip45"} ELSE {},
        network   |-> IF t \in {a, b} THEN testnet ELSE mainnet, whole |-> t # blank]]

MCSymmetry == Permutations({a, b})

\* Bound: beside one object in any state the other is fresh; it may hold d,
\* derived or not, or a key be derived, only while all have the first order and
\* the first count.
Chosen(s) == [s EXCEPT !.result = NoResult, !.error = FALSE]
Fresh(k) == Chosen(msigs[k]) = NewMsigState
HoldsD(k) == Chosen(msigs[k]) = [NewMsigState EXCEPT !.xpubs[1] = d]
Plain(k) == msigs[k].order = "sorted" /\ msigs[k].count = five
OneElsewhere ==
    /\ \E k \in Ids : Fresh(k) \/ (HoldsD(k) /\ KeyView.result = NoResult)
    /\ \/ \A k \in Ids : Plain(k)
       \/ KeyView.result = NoResult /\ \E k \in Ids : Fresh(k)
=============================================================================
