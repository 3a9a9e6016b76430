------------------------------ MODULE PageParts ------------------------------
(***************************************************************************)
(* The parts of the page that keep a state of their own beside the store   *)
(* of KeyManager: the panel of number bases, the draws that select words,  *)
(* the deck of cards, the Delete key that repeats, the strip of tabs, and  *)
(* the writer of exported files.  The form shows one input mode at a time  *)
(* (Ne) and no part reads the variables of another, so a behaviour here    *)
(* uses one part while the rest stay as they begin.                        *)
(***************************************************************************)
EXTENDS NumberBases, DirectDraws, CardDeal, LongPress, TabStrip, SqliteWriter

VARIABLE part   \* the part in use

Parts == {"bases", "draws", "cards", "delete", "tabs", "export"}

partsVars == <<part, nbVars, ddVars, cdVars, longPressVars, tabStripVars, writerVars>>

\* A part that is not in use starts in one of its initial states.
DrawsIdle == method = (CHOOSE m \in Methods : TRUE) /\ length = (CHOOSE l \in Lengths : TRUE)
CardsIdle == firstDeal = (CHOOSE n \in FirstDeals : TRUE)
DeleteIdle == before = 0

PartsInit ==
    /\ part \in Parts
    /\ NumberBasesInit /\ DirectDrawsInit /\ CardDealInit
    /\ LongPressInit /\ TabStripInit /\ SqliteWriterInit
    /\ part = "draws" \/ DrawsIdle
    /\ part = "cards" \/ CardsIdle
    /\ part = "delete" \/ DeleteIdle

UseBases ==
    /\ part = "bases" /\ NumberBasesNext
    /\ UNCHANGED <<part, ddVars, cdVars, longPressVars, tabStripVars, writerVars>>
UseDraws ==
    /\ part = "draws" /\ DirectDrawsNext
    /\ UNCHANGED <<part, nbVars, cdVars, longPressVars, tabStripVars, writerVars>>
UseCards ==
    /\ part = "cards" /\ CardDealNext
    /\ UNCHANGED <<part, nbVars, ddVars, longPressVars, tabStripVars, writerVars>>
UseDelete ==
    /\ part = "delete" /\ LongPressNext
    /\ UNCHANGED <<part, nbVars, ddVars, cdVars, tabStripVars, writerVars>>
UseTabs ==
    /\ part = "tabs" /\ TabStripNext
    /\ UNCHANGED <<part, nbVars, ddVars, cdVars, longPressVars, writerVars>>
UseExport ==
    /\ part = "export" /\ SqliteWriterNext
    /\ UNCHANGED <<part, nbVars, ddVars, cdVars, longPressVars, tabStripVars>>

PartsNext == UseBases \/ UseDraws \/ UseCards \/ UseDelete \/ UseTabs \/ UseExport

\* Only the timers of the Delete key run by themselves.
PartsSpec == PartsInit /\ [][PartsNext]_partsVars /\ LongPressFairness

\* The type invariants of the parts together.
PartsTypeOK ==
    /\ part \in Parts
    /\ NumberBasesTypeOK /\ DirectDrawsTypeOK /\ CardDealTypeOK
    /\ LongPressTypeOK /\ TabStripTypeOK
=============================================================================
