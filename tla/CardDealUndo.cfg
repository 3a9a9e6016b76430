SPECIFICATION CardDealSpec

CONSTANTS
    Suits = {s, h}
    Ranks13 = {a, k}
    FirstDeals = {2, 4}
    MaxTokens = 4
    NoChoice = none

PROPERTY
    UndoTakesBack
