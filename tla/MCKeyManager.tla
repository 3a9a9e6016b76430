---------------------------- MODULE MCKeyManager ----------------------------
(***************************************************************************)
(* Small instances of the key manager for TLC.                             *)
(***************************************************************************)
EXTENDS KeyManagerRefinement

CONSTANTS dice, seed, wif, hex, brain, t1, t2, blank, p1, noPass, main, test, o1, o2

\* The punctuated phrase t2 is filtered to t1.
MCClean == [t \in Texts |-> IF t = t2 THEN t1 ELSE t]

\* A WIF text is valid for mainnet only; a seed phrase may be too short for the
\* seed length in o2.
MCDerivable ==
    {f \in Form :
        /\ f.text # blank
        /\ f.slot = wif => f.net = main
        /\ f.slot = seed => f.opts = o1}

\* Of the private keys, none can be derived: fewer states for three keys.
MCPlainDerivable == {f \in MCDerivable : f.slot \in Plain}
=============================================================================
