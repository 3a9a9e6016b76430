SPECIFICATION PartsSpec
CONSTANTS
    Formats = {"bin", "base4", "base8"}
    BitsPerDigit <- MCBits
    BinaryRemainder = {"base8"}
    SeedBits = {4, 5}
    Texts <- MCTexts
    FirstFormat = "bin"
    FirstBits = 5
    NoSource = "none"
    Methods = {"dplus", "cards", "bitbox"}
    D8 = 2
    D16 = 3
    Faces = 3
    LowFaces = 2
    Ranks = 3
    LowRanks = 2
    WordSteps <- MCSteps
    FinalSteps <- MCFinal
    Partial <- MCPartial
    Options <- MCOptions
    Checks <- MCChecks
    Checksum <- MCChecksum
    ExtraDraws = 0
    Blank = Blank
    NoPick = NoPick
    Suits = {s, h}
    Ranks13 = {a, k}
    FirstDeals = {2, 4}
    MaxTokens = 4
    NoChoice = none
    MaxBefore = 3
    alice = alice
    blank = blank
    UserTexts = {alice}
    Drafts <- MCDrafts
    NoText = blank
    MaxTabs = 3
    MaxNumber = 4
    PageSize = 512
    MaxLeaves = 5
    MasterSize = 60
    Databases <- MCDatabases
INVARIANTS
    PartsTypeOK
    SyncedAgree ConversionsKeepEntropy
    SelectionRecoversDraws PickedWordFits DeletesTakeEffect
    ChoiceCompletable
    DeletesOnlyWhileHeld
    NamesApart NumbersApart
    EveryRowFound PagesHoldTheirCells
PROPERTIES
    OnlySourceRewrites
    HeldReleaseDeletesNothing ShortPressDeletes HoldingRepeats
