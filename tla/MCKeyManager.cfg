SPECIFICATION Spec

CONSTANTS
    dice = dice
    seed = seed
    wif = wif
    hex = hex
    brain = brain
    t1 = t1
    t2 = t2
    blank = blank
    p1 = p1
    noPass = noPass
    main = main
    test = test
    o1 = o1
    o2 = o2
    NoResult = NoResult
    NoArea = NoArea
    MaxId = 2
    Plain = {dice, seed}
    Kinds = {wif}
    Texts = {blank, t1}
    Passes = {noPass}
    Nets = {main}
    Opts = {o1, o2}
    FirstSlot = dice
    Wif = wif
    Brain = brain
    Blank = blank
    NoPass = noPass
    MainNet = main
    FirstOpts = o1
    Clean <- MCClean
    Derivable <- MCDerivable

INVARIANTS
    KeyTypeOK
    ResultsCurrent
    ErrorOrResult

PROPERTIES
    OnlyRevealShows
