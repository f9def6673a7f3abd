SPECIFICATION Spec
CONSTANTS
    f1 = f1
    f2 = f2
    t1 = t1
    t2 = t2
    n1 = n1
    None = None
    c1 = c1
    c2 = c2
    c3 = c3
    Slots = {c1, c2, c3}
    MaxFaults = 1
    MaxGestures = 3
    Findings = {f1, f2}
    Raw <- MCRaw
    Scans = {1, 2}
    TargetIds = {t1, t2, n1}
    Urls <- MCUrls
    Docker = {t1}
    NewId = n1
    Statuses = {"triaged", "accepted_risk", "false_positive"}
SYMMETRY SlotSymmetry
CHECK_DEADLOCK FALSE
INVARIANTS
    TypeOK
    CleanIsTrue
    FindingsOfActive
    StopReachable
    PanelsOfSelected
    TriageReasonFits
    SavesWhatIsShown
    CountersAgree
PROPERTIES
    PromiseKept
    EditsSurvive
