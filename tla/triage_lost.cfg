SPECIFICATION Spec
CONSTANTS
    Updaters = {u1}
    Triagers = {t1, t2}
    Fields = {f1, f2}
    Nobody = Nobody
    MaxOps = 2
    MayRaise = FALSE
INVARIANT
    HistoryChains
