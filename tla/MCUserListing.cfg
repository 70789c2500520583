\* Four users on pages of two, up to three changes during a walk.
SPECIFICATION Spec
CONSTANTS
    Users = {u1, u2, u3, u4}
    PageSize = 2
    MaxChanges = 3
SYMMETRY Symmetry
INVARIANTS
    TypeOK
    MissedOnlyByRemoval
    RepeatedOnlyByAddition
    TotalWasTrue
