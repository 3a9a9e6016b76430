# EntropyLab: TLA+ models and proofs

EntropyLab is an offline, single-page bitcoin key workshop. It turns dice, cards, coins,
numbers, seed words or private keys into wallets, builds multisig descriptors and inspects
PSBTs. There is no server: all behaviour is browser events on one page, timers, microtasks
and a few promises. Nearly all state is in `src/src/js/app.js`.

The program is single threaded, but not sequential. An event runs several listeners with
microtasks between them; timers and promises finish after the state they were started for
has gone; one form and two global registers serve every key tab, every multisig tab and two
workspaces; and a page that was cleared on leaving can come back from the browser's
back/forward cache with old closures alive. Those are the behaviours modelled here.

## Inventory

| Part | State | Operations | Hard behaviour | Correct when |
|---|---|---|---|---|
| Key manager (`app.js` 4070-5106, 6850-7267, 7576-7653, 7725-7764) | `hodlKeys`, `hodlActiveKey`, form controls, `re` (result), `Ge` (private shown), `#error` | capture, restore, edit, derive, reveal, tab select/add/delete, wipe, clear on pagehide | hand-over of one form between keys; capture in a microtask *between* listeners; listeners never removed | a result is that of its key's inputs; keys never mix; cleared stays cleared |
| Fingerprint preview (4853-5006) | revision, timer, two cards | queue, render, LifeHash `then`/`catch` | debounce against updates at once; promises out of order | shows the form's fingerprints, each with its own image |
| Held-key repetition (`repeat-inputs.js`) | `heldKey`, two timers a press | keydown, repeat, keyup, focusout, blur | handlers run inside the timer callback and may stop it | no timer left behind; types only while held |
| Multisig manager (5231-5330, 5414-6073, 7268-7494) | `hodlMsigs`, form, thresholds, `data-last-concrete` | edit, thresholds, order, detection, derive, tabs | fields beyond n live only in the cache; a drag makes no panel event; detection rewrites script type and BIP87 checkbox on edits and on restores, with a result on display | results match the form; no co-signer text is lost |
| Workspace switch (7495-7528) | `hodlWorkspace`, `re`, `Ge` | show | two owners of one register | registers never mix |
| Tab names (7132-7240, 7357-7467) | `name`, `number`, rename editor | rename, default name | the editor outlives its object | names and numbers are unique |
| Entropy: D++ (1840-2082), dice and coins (2253-2330), cards (2674-3001), fairness (2083-2250) | transcript, caret, chosen suit and rank, picked last word | type, tap, delete, undo, pick, change of length | every edit is filtered and grouped again; an update may complete a choice by itself | the words are those of the draws; a choice can be completed; Delete deletes |
| Number bases, seed numbers (2441-2540, 3002-3060, 3844-4006) | a text for each base, source of the sync | edit, select a base, sync, change of length | a field redrawn runs the same update as one edited | bases in step hold one entropy, and only an edit rewrites the others |
| On-screen keyboards (3244-3770) | hold and repeat timers, `repeated` | press, hold, leave, click | the click that follows a release; the key disabled or redrawn under the finger | a short press deletes once, a hold repeats, nothing after it |
| Wallet derivation, address match (1058-1500) | none | BIP32/39/84 arithmetic | - | equals the standards |
| Multisig policy (5094-5262, 5785-5990) | none | origins, prefixes, script types | - | only compatible keys combine |
| PSBT (6110-6830) | session key, note, output | parse, load, wipe, inspect | a load that fails, a session that ends or is left; the first message that applies wins | only the key asked for is used; a repeated nonce is told; a match is told only of a safe signature |
| SeedQR and result rendering (769-797, 1757-1790) | output markup | draw | - | draws the registers |
| Theme, controls, copied note (3906-3946, 7655-7724) | appearance | - | - | - |
| Boot (7765-7799), `browser-check.js`, `network-check.js`, `online.js`, `enhanced-inputs.js` | - | start-up | order of initialisation | - |
| SQLite writer (`sqlite-writer.js`) | none | `createDatabase` | leaves, dividers and indexes at the size of a page | every row is found, no page overflows |
| `lifehash.js`, `secp256k1.js`, `lib.rs`, `wallet-export.js` | none | pure libraries | - | equal the formats |
| `scripts/*.mjs` | none | build | - | - |

Interactions: the key and multisig managers share `re` and `Ge` and are connected by
`hodlShowWorkspace`. The key manager's restore and its edits queue the fingerprint preview.
Held keys and on-screen keyboards act on the same text fields and therefore enter the key
manager as input events. `pagehide`/`pageshow` reach the key manager, the PSBT session and
the output, but not the preview or the multisig objects.

## Modules

| Module | Models | State and actions against the code |
|---|---|---|
| `KeyManager` | key tabs, form, registers | `keys` = `hodlKeys` by id; `form` = controls and method registers; `re`, `Ge`, `err`, `go` as in the code; `area` = the last private-key textarea a key's object was bound to (the closures of `hodlBindKeyFields`); one action per browser event with all its listeners |
| `KeyStore` | abstract | each key has its own inputs, result and display flag; no shared form |
| `KeyManagerRefinement` | mapping | a key's entry is read from form and registers while it is active, from its object otherwise |
| `MCKeyManager` | instance | values of `Clean` and `Derivable` |
| `KeyManagerProofs` | theorems | type correctness, `ResultsCurrent`, `ErrorOrResult`, `OnlyRevealShows`, `ClearedStaysCleared`; the key manager implements `KeyStore` |
| `FingerprintPreview` | preview | `revision`, `timer`, two cards, promises in flight as a set |
| `FingerprintPreviewProofs` | theorems | type correctness, `ImageMatches`, `PreviewCurrent` |
| `HeldKeyRepeat` | `repeat-inputs.js` | a press is a state object; `delays` and `intervals` are the armed timers |
| `HeldKeyRepeatProofs` | theorems | type correctness, `NoOrphanTimer`, `TypesOnlyWhileHeld` |
| `MsigManager`, `MCMsigManager` | multisig tabs, workspace switch | `form.xpubs` beyond `n` is blank, `msigs[k].xpubs` keeps the rest; `Detect` is `hodlUpdateMsigScriptDetection`, `Valid` is `hodlValidatedMsigInputs`; the key workspace is reduced to the result and flag it hands over |
| `MsigManagerProofs` | theorems | type correctness, `MsigResultsCurrent`, `RegistersApart`, `SwitchKeepsResults`, `CosignersSurvive` |
| `NumberBases` | panel of number bases | a text for each base as digits; `Redraw` and `SelectFormat` run the same update (`SyncNumberBases`) as `EditField`, with `sourceEdit` false |
| `DirectDraws` | draws that select words: D++, direct cards, BitBox02 dice | `text` with its blanks, `caret`, `picked`; `Sanitize` is what every edit ends in |
| `CardDeal` | shuffled deck | `tokens`, chosen `suit` and `rank`; `UpdateCards` follows the code's own recursion: a completed choice is appended and the update runs again |
| `EntryProofs` | theorems on `NumberBases`, `DirectDraws`, `CardDeal` | types, `SyncedAgree`, `ConversionsKeepEntropy`, `OnlySourceRewrites`; `PickedWordFits`, `SelectionRecoversDraws`, `DeletesTakeEffect`; `ChoiceCompletable` |
| `LongPress` | Delete key that repeats | the two timers, the flag `repeated`, and `orphan`, the timer of a key that is out of the page |
| `TabStrip` | tab names and numbers | `tabs` in order, `editor` with what its closure holds |
| `SqliteWriter` | writer of SQLite files | `createDatabase` as one action, its return another; trees and pages as operators |
| `SqliteWriterProofs` | theorems on `SqliteWriter` | `EveryRowFound`, `PagesHoldTheirCells` |
| `PageParts`, `MCPageParts` | the six modules above on one page | one part is in use in a behaviour, as one form is on screen; the parts share no variable |
| `PagePartsProofs` | theorems on `TabStrip`, `LongPress`, `PageParts` | types, `NamesApart`, `NumbersApart`; `DeletesOnlyWhileHeld`, `HeldReleaseDeletesNothing`, `ShortPressDeletes`; a behaviour of the page is one of every part |
| `Psbt`, `MCPsbt`, `PsbtProofs` | PSBT workspace | `priv`, `hd`, `note` = `hodlPsbtPriv`, `hodlPsbtHd`, `hodlPsbtNote`; `Verdict` and `Row` are the two cascades of `hodlRenderPsbt`; `wanted` is a history variable |

### What is abstracted

* A text is opaque. `KeyManager` knows whether it is blank, what the private-key filter
  makes of it (`Clean`) and which forms that hold it `hodlCanDeriveCurrentKey` accepts
  (`Derivable`, any set of forms that excludes blanks). A derivation may still throw for an
  accepted form; one for a form not accepted always does. A co-signer text of
  `MsigManager` is known by what parsing tells of it (`Evidence`): the script types of prefix and
  origin, the Legacy standard of the origin (BIP45 or BIP87), the network, and whether key and
  origin are whole and agree. Two texts are two keys.
* A result is told apart by the form it was derived from: two results are equal when their
  inputs are. That is what makes "the result of *these* inputs" expressible.
* Account, address count and seed length are one value (`opts`). Nothing distinguishes them
  but the handler that changes them: `ChangeDerivation` for the first two, `SetSeedLength`
  for the last.
* In `KeyManager` a panel event is one action although microtasks run between its listeners:
  no other event can come in between. The order inside is kept: handler of the target,
  capture, panel listeners. So a network change stores the old error with the key although
  it clears the error line: the capture came first.
* In `MsigManager` the script select and the BIP45/BIP87 checkbox are written by their users and by
  detection. It follows edits of co-signers, of script, order and network, thresholds that change n, and
  every restore; it follows neither the checkbox nor the address count nor a moved co-signer. The
  custom select (`enhanced-inputs.js:55`) tells of a choice also when the value was chosen before,
  so a choice has no guard. `hodlCheckXpub` hints and the account display are left out.
* In `NumberBases` and `DirectDraws` a text is a sequence of digits or draws and blanks: characters
  the filters remove never reach it.  A seed word is the number the draws give it, a checksum is
  a function of words and option (`Checksum`).
* In `CardDeal` a token is a card or a rank that waits for its suit.
* In `Psbt` a signature is what the code can tell of it: the key and its encoding, r, how its DER
  reads, its SIGHASH suffix, whether the curve accepts it and whether RFC 6979 gives its r.  A
  digest is the input it stands for.  One PSBT is inspected until the session ends; pasting over
  one that is shown is left out, so that what is shown can be compared with it.
* In `SqliteWriter` a cell is its row, its key and its size; bytes and header fields are left out.
* In `HeldKeyRepeat` an insertion always inserts; a full field (`maxLength`) or a cancelled
  `beforeinput` leaves the repetition running and only types nothing.

## Runs

| Run | Bounds | Shows |
|---|---|---|
| `key_manager` | 2 key objects, dice, seed and WIF, 2 texts, 2 option values | `KeyTypeOK`, `ResultsCurrent`, `ErrorOrResult`, `OnlyRevealShows` |
| `key_manager_formats` | 2 objects, dice, WIF and hex, 3 texts of which one is filtered to another | `ClearedStaysCleared`, with recognised pastes and stale network listeners |
| `key_manager_store` | 3 objects, dice and WIF; only dice texts derive | `ImplementsStore` with a key that neither leaves nor comes |
| `key_manager_kept_apart` | 2 objects, WIF and brain, 2 networks | violated: see Findings |
| `fingerprint_preview` | 2 fingerprints, 6 queued updates | `PreviewTypeOK`, `ImageMatches`, `PreviewCurrent`, and `PreviewSettles` under fairness |
| `fingerprint_preview_clear` | same | violated: see Findings |
| `held_key_repeat` | 2 keys, 2 fields, 3 presses | `HeldKeyTypeOK`, `NoOrphanTimer`, `TypesOnlyWhileHeld`, `HeldKeyRepeats` |
| `msig_manager` | 2 objects, up to 2 co-signers; two BIP87 keys, a BIP45 and a BIP48 one; 2 script types, networks and counts; one object at a time in full | `MsigTypeOK`, `MsigResultsCurrent`, `RegistersApart`, `CosignersSurvive`, `SwitchKeepsResults` |
| `page_parts` | see below | `PartsTypeOK`; `SyncedAgree`, `OnlySourceRewrites`, `ConversionsKeepEntropy`; `SelectionRecoversDraws`, `PickedWordFits`, `DeletesTakeEffect`; `ChoiceCompletable`; `DeletesOnlyWhileHeld`, `HeldReleaseDeletesNothing`, `ShortPressDeletes`, `HoldingRepeats`; `NamesApart`, `NumbersApart`; `EveryRowFound`, `PagesHoldTheirCells` |
| `card_undo` | 2 suits, 2 ranks | violated: see Findings |
| `psbt` | 2 keys, 1 seed, 2 nonces, up to 3 signatures | `PsbtTypeOK`, `KeyIsTheOneWanted`, `ReuseAlarms`, `NoCleanMissAcrossInputs`, `MatchedRowsCommitToAll` |
| `psbt_clean_verdict` | same | violated: see Findings |

Why the bounds are enough. A hand-over involves the key that leaves and the key that comes: two
objects make every hand-over, three add one that neither leaves nor comes, and deleting in the
middle of the strip. One text and the blank distinguish "my text" from "no text"; a third is
needed only where the filter rewrites one text to another. For the preview, two fingerprints
make a stale one different from a present one, and six updates allow each kind of update to
overtake each other while two images are still in flight. Three presses are one that repeats,
one that replaces it, and one more after it. Ids, revisions and presses are counters without
bound in the code; `MaxId`, `MaxRevision` and `MaxPress` stop the action that would make one
more and change nothing else. `MaxN` is 15 in the code (`hodlMsigSliderLimit`); two co-signers
already have a field within and one beyond n. The code starts at 2 of 3, the instance at 1 of 1.
The four keys of `msig_manager` are one for each rule of detection, and one more: the BIP45 key
and the BIP48 key for Native SegWit speak for two script types, the BIP45 key contradicts a
BIP87 one, a BIP87 key contradicts the BIP48 one without a script type of its own, and two BIP87
keys make a policy of two, in both orders. Those are alike (`MCSymmetry`; the run has no
liveness property). `OneElsewhere` bounds what stands beside one object in any state: the other
is fresh; while all have sorted keys and the first address count it may also hold the BIP48 key,
derived or not, so that results stand in both tabs, or a wallet be derived in the key workspace.
Within it there are results of two keys under BIP87, results for both counts and both orders,
BIP45 results with a BIP87 text beyond n, and every way to *Mixed*.

The parts of `page_parts` are small in their data, not in their control. Entropies of 4 and 5
bits over digits of 1, 2 and 3 bits end in a whole digit, in a cut one and in single bits, the
three ways a base of the code ends. A word is two draws of two or three faces, seeds have one or
two words before the last, so that last draws of every kind (none, one, two, a coin) occur. A
deck of four cards has first deals of half the deck and of all of it, the two cases of the second shuffle.
Three characters before the caret let a hold delete, repeat and run dry. Three tabs and four
numbers allow a deletion in the middle, a number given back and the second default name. A page
of 512 bytes, the least SQLite has, is filled by two to twenty cells: one leaf, several, as many
as `MaxLeaves` and more, cells whose sizes meet the page to the byte, and rows that share a key.

In `psbt` a verdict needs two signatures, and a third to hide it behind; a single signature goes
through every policy, script, encoding and DER, with every transcript.

## Fairness

Only what the browser owes the page is fair: an armed timer fires, a LifeHash promise
settles (`FingerprintPreview`), delay and interval timers fire (`HeldKeyRepeat`, `LongPress`). Nothing makes
a user act, so no action of the user is fair and no liveness property promises that a user
does something. `PreviewSettles` excepts a hidden preview and one whose form was cleared
behind its back. `HoldingRepeats` promises a repetition only to a pointer that stays. The other
modules state safety only: every step of theirs is an event.

## Proofs

All for every value of the constants, from the named assumptions of the modules.

`TypeCorrect` (`Spec => []KeyTypeOK`, `KeyManagerProofs`). The type invariant is inductive. The
one conjunct that takes an argument is `active \in 1..Len(tabs)`, across deletion: the strip is
never empty, and the index is moved to the last tab when the last one goes.

`ResultsStayCurrent` (`Spec => []ResultsCurrent`). The property speaks of open keys only, and
of each through the active key's form or its own object, so it is not inductive: selecting a
key shows an object the property had said nothing of in that role, and a deleted id's object
is not constrained at all. `IInv` says it of every object (`ObjectCurrent`) and of the form
beside the register (`Current`), whichever key is active. Three lemmas carry the induction:
a capture of a current form and register gives a current object (`CaptureCurrent`), an object
whose result was dropped is current whatever its inputs (`DroppedCurrent`), and a restore of
a current object gives a current form and register (`RestoreCurrent`); every action is one of
the three, except the network listeners, which rewrite private-key texts only
(`KindsCurrent`), and those the property exempts.

What is displayed and what is let go (`ErrorNeverBesideResult`, `PrivateShownOnlyByReveal`, `ClearingLasts`,
`KeyManagerProofs`). The first two look at the registers and their copies only, so the twenty events are first reduced to what they do to those:
drop the result, keep it, derive, reveal, wipe, select, add, delete, clear (`Shape`, `NextShape`). For
the first the invariant asks it of every object. For the second a deletion needs more: the
registers must get another object, which holds because fresh ids keep the tabs apart (`TabsApart`).
For `ClearedStaysCleared` the invariant names every place that holds a text or a passphrase, objects off
the strip and detached textareas included (`KnownIn`), and asks for one entered since the last clearing
or blank. It is inductive because a filter is idempotent and keeps the empty text (`TextAssumption`, `SettingAssumption`), so
what a format makes of a known text is known (`KnownFiltered`); `pagehide` replaces all places at once.

The shared form (`SharedFormImplementsStore`, `Spec => ImplementsStore`, `KeyManagerProofs`). The entry of a key is read from
the form and registers if it is active and from its object otherwise (`EntryOnForm`, `EntryIn`). Two
lemmas carry the hand-overs: a capture tells the object what the form told (`CaptureEntries`), a
restore tells the form what the object told (`RestoreEntries`). Edits are `Edit` (`EditStep`), also
those by the leaked network listeners, which reach texts the store does not know (`NetworkStep`);
private-key edits are stutters (`SilentStep`); a new tab and a deletion need `TabsApart`.

`FingerprintPreviewProofs` (`PreviewTypeCorrect`, `ImagesMatch`, `PreviewStaysCurrent`).
`PreviewCurrent` is not inductive: a timer armed with an old revision would fire, do nothing
and leave a stale preview. The strengthening `TimerFresh` says that there is none: whoever
raises the revision also re-arms or clears the timer. So the test of the revision at the head
of `hodlRenderMasterFingerprintPreview` never rejects a timer; `clearTimeout` alone would do.

`HeldKeyRepeatProofs` (`HeldKeyTypeCorrect`, `TimersOwned`, `HeldKeysType`). `NoOrphanTimer` holds by
itself once a callback is known to keep or end the press it was made for (`BeginLemma`,
`TickLemma`). `TypesOnlyWhileHeld` is an action property; its invariant is `HeldIsDown`, that the
key of the press that repeats is held: a press is replaced on keydown, ended on its own keyup
and on a blur, and never outlived by a timer.

`MsigManagerProofs` (`MsigTypeCorrect`, `MsigResultsStayCurrent`, `RegistersStayApart`,
`SwitchingKeepsResults`, `CosignersAlwaysSurvive`). What every event shares is stated once: a capture
of the form gives the object the form's view (`CapturedLemma`), a restore gives the form the object's
(`RestoreEffect`), and the events come down to a few shapes (`NextByShape`). `MsigResultsCurrent` needs
more than itself: the results kept in objects off screen must fit their own form (`ResultsKept`), and a
tab that is left or comes must be another one (`TabsApart`). A restore detects again, and could write
script or checkbox beside a result: it does not, because valid inputs already say what their
co-signers speak for (`ValidDetected`), the checkbox included. `RegistersApart` and `SwitchKeepsResults` rest on who
owns the registers in each workspace (`Belongs`, `Keeps`). For `CosignersSurvive` the view of a tab's
co-signers joins the form up to n with the object beyond it, so that lowering n, which moves texts
from one to the other, is a stutter of the view.

`EntryProofs`. Three modules compute step by step along a text, with functions on `0..n` where the code
has loops. `StepsExist` shows once that such a function exists, `UpTo` is induction over `0..n` (both
from the well-foundedness of the naturals, without a theorem that takes an operator), and a lemma
for each of the model's functions unfolds it with them (`PowerBuilt`, `EntropyCollected`,
`DrawsCollected`, `CleanSpelled`, `ProductBuilt`, `MixedBuilt`).

* Number bases (`BasesTyped`, `SyncedBasesAgree`, `ConversionsAreExact`, `OnlyEditedBaseRewrites`). The
  places of the digits follow one another and end at the entropy's last bit, for both ways a base ends
  (`DigitPlaces`, `EndsMeet`). Read digit by digit, the prefix of a converted text is the entropy without
  its last bits (`ConversionExact`); a complete text never exceeds its length (`EntropyFits`). `SyncedAgree`
  is inductive with the types once a sync is described by what it leaves (`SyncEffect`): it keeps
  the texts, or rewrites all of them to one entropy. `OnlySourceRewrites` needs `SyncHasSource`: while
  the checkbox is on some base is the source, so a redrawn base is never taken for one.
* Draws in their text (`DrawsTextTyped`, `PickedWordStaysFit`, `DeletesAlwaysTakeEffect`). Spacing a text anew
  loses no draw (`DrawsOfClean`) and the text of the first draws is the beginning of the text of all
  (`CleanOfStart`), so the caret, put after the draws it followed, is in the text. A picked word
  survives an edit only if it still is a candidate of the complete new text (`SanitizeFits`).
  `DeletesTakeEffect` is no invariant of any text, so `DrawsInv` adds `Spaced`: the text on screen is the one
  its draws make. A deleted stretch that holds a draw leaves fewer of them; one that holds only a blank leaves
  a text to be spaced anew, and the caret goes right behind the draw it followed, which in a spaced
  text stands further left (`SpelledBefore`). Forward, `CleanBlanksLead` finds a draw behind every blank;
  BitBox02 dice, where Delete leaves the blank alone, are the exception noted under Findings.
* Draws read back (`TranscriptsReadBack`). The number of some draws is less than the product of their
  radixes (`MixedBelow`), so dividing by the product of the later ones drops them (`MixedDivides`) and a remainder
  gives the value back (`MixedRecovers`). A draw has the step of its place (`WordStands`,
  `FinalStand`) and a value below its radix, also among the counted rolls of BitBox02 dice
  (`CountedFit`). The index of the last word stays below the number of last words because the radixes of the final
  draws multiply to it, which `DirectDrawsAssumption` says of the tables in the code.
* Cards (`CardsTyped`, `ChoiceStaysCompletable`). `ChoiceCompletable` is not kept by an edit but restored by
  the update that follows it: whatever was chosen, a selection cut to the cards left can be
  completed (`SelectionCompletable`), a pass deals and forgets the choice or leaves such a selection
  (`CommitCompletable`), and an update is three passes (`UpdateIsThreePasses`).

`PagePartsProofs`, tabs (`StripTyped`, `NamesStayApart`, `NumbersStayApart`). The strip's operators choose an
extreme of a set, so the proofs begin with its existence: of a free default name by a pigeonhole
(fewer tabs than names tried), of the least and the largest number by well-foundedness.
`NamesApart` is not inductive: an editor compares its draft with the tabs but its own index, and
would let two names meet if that index were another tab's. `EditorOnActive` says that an editor in
the page is always the active tab's; whatever moves the tabs takes it out of the page first.

Delete key (`NothingDeletedAfterRelease`, `HoldThenClickDeletesOnce`, `ShortPressNeverSwallowed`).
The release looks at the flag `repeated` only. `FlagKnowsTimers` says what that flag knows: it is
set while the interval runs and once a timer of this press has deleted, and clear while the hold
timer waits.

The page (`PartsImplementEach`, `PartsTyped`). A step of the page is a step of one part and a
stutter of the others, so `PartsSpec` implies the specification of every part, and the theorems
above, stated for the parts, hold of the page that `page_parts` runs.

`PsbtProofs` (`OnlyTheWantedKey`, `ReuseIsNeverMissed`, `MatchedOnlyUnderAll`, `CleanMissesNoInputs`,
`PsbtTyped`). `Loaded` is the one way to a key, and `LoadedHoldsTheEntry` says what it leaves in
memory. What is shown is always an inspection of the PSBT in the page (`ShowsAnInspection`); from
there the verdict and the rows are facts about the cascades, for PSBTs with any number of signatures.

`SqliteWriterProofs` (`PagesNeverOverflow`, `RowsAlwaysFound`). A file is what `Database` makes of the
tables of the call, so the invariant is that; the work is in what the operators compute, for rows of any number and
size. It goes up in four layers.

* Packing: `Taken` is a sum that a cell more raises by its size and its pointer (`TakenOfOneMore`). At every cell
  the leaves begun so far begin at rising cells and hold what lies between (`PackedInv`, `PackStep`), so
  every leaf of the finished list fits (`StartsLaid`). That the first cell of a leaf always fits follows from
  `maxInlinePayload` (`OneCellFits`).
* A tree in numbers: leaf j holds the cells from `s[j]` to `end[j]`, and the bound over it is the cell `up[j]`, which an index
  moves out of the leaf (`Numbered`, `TreeNumbered`). No cell is in two places (`PlacesApart`), and the way down
  ends at the first cell not smaller than the one sought (`PathLeads`).
* Order: sorting by key is a permutation that rises (`RowsRanked`, by pigeonhole), with equal keys in the order given.
* The file: trees placed so far keep their pages and their row in `sqlite_master` when more are
  placed (`StandsLonger`, `PlacedInv`), so each root leads to its own tree.

`SqliteWriterAssumption` limits sizes and row numbers to those with a varint of four bytes, 256 MB for a cell; the
code refuses far smaller ones, but only after it has measured them.

The assumptions are those of the modules. The code fixes the constants they speak of: finite
suits and ranks, a blank that is not a draw, dice with two faces or more, final draws with as many outcomes as last words,
digits that are natural numbers, transcripts that are malformed or a list of nonces.

Only model-checked: liveness, which the prover cannot reach (`PreviewSettles`, `HeldKeyRepeats`,
`HoldingRepeats`). Every other property of a passing run is a theorem.

## Findings

1. `key_manager_kept_apart`. `hodlBindKeyFields` (`app.js:4778`) adds a `change` listener to
   the network select each time it renders the private-key form, and none is removed. Choose
   *Brain wallet*, type a phrase, change to *Dice*, change the network: the old listener finds no
   format radio, takes the format for WIF and stores the phrase there, over the WIF text. The
   browser suite (`test/browser-suite.html:226`, `:233`) asserts that formats keep their texts
   separately, and tests it without a network change.
2. `fingerprint_preview_clear`. Clearing on `pagehide` (`app.js:7749`) empties fields without an
   event and does not update the preview: after a return from the back/forward cache the
   cleared key's fingerprint and LifeHash are still shown. `test/secret-clear.test.mjs:1` says
   the clearing discards application state, not only visible fields.
3. `card_undo`. With one card left in the deck `hodlUpdateCards` (`app.js:2929-2939`) commits it.
   Undo (`app.js:2993`) takes the last card off a complete deck and runs that update, which deals
   the card again: the button labelled "Undo last card" (`app.js:4221`,
   `test/browser-suite.html:365`) takes nothing back, however often it is pressed.
4. `psbt_clean_verdict`. `hodlCompareNonces` (`app.js:6446`) drops a repeat within one input unless
   both digests could be rebuilt. Two valid signatures of one key under its two encodings, one of
   them not with SIGHASH_ALL, give "No repeated ECDSA nonce r values were found for the same public
   key" (`app.js:6824`), although they have one; `README.md:28-29` promises the check without that
   exception, and `test/psbt-nonce-reuse.test.mjs:118` wants such a repeat to be "possible reuse,
   not a clean miss". Between inputs `NoCleanMissAcrossInputs` holds.

Met while modelling, without a document that says otherwise (noted under hazards): editing
a private key does not drop its result; the format of a private key returns to WIF
when its form is rendered again; a failed derivation leaves `Ge`; the script remembered for
*Mixed* is shared between multisig tabs; typing 12 into n passes through 1 and lowers m; a name
typed while the page is cleared is lost; a passphrase form redrawn under a held Delete key goes on
deleting; Delete before a blank of a BitBox02 transcript changes nothing; the output of an older session
key stays after "use active key"; 32 bytes that are no private key stay in `hodlPsbtPriv`.

## Not modelled

In `KeyManager`: the script-type select, which changes which account of a result is shown, and
the rewriting of sibling fields by number bases and last-word pickers, which is in `NumberBases` and
`DirectDraws` on their own. Seed words typed as numbers, plain dice with their fairness statistics
and Coleman's card encoding: conversions without a state of their own. The PSBT byte parser,
BIP32 and multisig addresses, descriptors, hashing, LifeHash and secp256k1: pure computation whose
correctness is arithmetic. The strip of multisig tabs, a copy of the strip of keys. Layout, theming,
start-up checks and build scripts. `PROJECT.json` lists each part with its reason.

## Plan

Done: the key manager with its abstract store, preview, held keys, multisig manager, the parts of
the page, the PSBT workspace, and the proofs above. Worth doing next: the rules that give a multisig key its
`Evidence` (prefix, origin, depth) as a table; the byte parser of PSBTs against the format.
