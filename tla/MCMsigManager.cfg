SPECIFICATION Spec

CONSTANTS
    blank = blank
    a = a
    b = b
    c = c
    d = d
    mixed = mixed
    p2wsh = p2wsh
    p2sh = p2sh
    mainnet = mainnet
    testnet = testnet
    five = five
    ten = ten
    w1 = w1
    NoResult = NoResult
    MaxId = 2
    MaxN = 2
    FirstM = 1
    FirstN = 1
    Texts = {blank, a, b, c, d}
    Blank = blank
    Evidence <- MCEvidence
    Scripts = {p2wsh, p2sh}
    FirstScript = p2wsh
    Legacy = p2sh
    Mixed = mixed
    Networks = {mainnet, testnet}
    FirstNetwork = mainnet
    Counts = {five, ten}
    FirstCount = five
    KeyWallets = {w1}

SYMMETRY MCSymmetry
CONSTRAINT OneElsewhere

INVARIANTS
    MsigTypeOK
    MsigResultsCurrent
    RegistersApart

PROPERTIES
    CosignersSurvive
    SwitchKeepsResults
