SPECIFICATION Spec
CONSTANTS
    Updaters = {u1, u2}
    Triagers = {t1, t2}
    Fields = {f1, f2}
    Nobody = Nobody
    MaxOps = 4
    MayRaise = TRUE
SYMMETRY StoreSymmetry
INVARIANTS
    TypeOK
    WholeUnlessTorn
    AnsweredSurvives
