------------------------ MODULE KeyManagerRefinement ------------------------
(***************************************************************************)
(* The key manager implements KeyStore: the entry of a key is read from    *)
(* the shared form and registers while the key is active and from its      *)
(* state object otherwise.                                                 *)
(***************************************************************************)
EXTENDS KeyManager

Inputs == [slot: Plain \cup {Wif}, fields: [Plain -> Texts],
           settings: [pass: Passes, net: Nets, opts: Opts]]
EntryOf(k) == [input |-> InputOf(k), result |-> ResultOf(k), shown |-> ShownPrivate(k)]
Entries == [k \in KeyIds |-> EntryOf(k)]

Store == INSTANCE KeyStore WITH
    FirstInput <- [slot |-> FirstSlot, fields |-> [s \in Plain |-> Blank],
                   settings |-> [pass |-> NoPass, net |-> MainNet, opts |-> FirstOpts]],
    Wallets <- Result, NoWallet <- NoResult, Derives <- DerivesFrom,
    order <- tabs, current <- active, entry <- Entries

\* Whatever the sequence of tab changes, edits, derivations, deletions and
\* clearings, one shared form behaves as one independent form per key.
ImplementsStore == Store!Spec
=============================================================================
