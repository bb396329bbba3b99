SPECIFICATION Spec
CONSTANTS
    Callers = {c1, c2}
    Refreshes = {t1, t2}
    Stale = TRUE
    MaxChanges = 2
SYMMETRY Symmetry
INVARIANTS
    OldLookupLeaves
    NothingLeftBehind
