SPECIFICATION Spec

CONSTANTS
    Fingerprints = {f1, f2}
    None = None
    MaxRevision = 6

INVARIANTS
    NothingShownAfterClear
