SPECIFICATION Spec
CONSTANTS
    p1 = p1
    p2 = p2
    g1 = g1
    g2 = g2
    i1 = i1
    k1 = k1
    k2 = k2
    None = None
    Projects = {p1, p2}
    Agents = {g1, g2}
    Custom = {g2}
    Image <- MCImage
    Ports = {"8000", "8001"}
    TargetIds <- MCTargetIds
    Urls <- MCUrls
    Providers = {k1, k2}
    Slots = {1, 2}
    MaxFaults = 1
    MaxGestures = 3
SYMMETRY LabSymmetry
CHECK_DEADLOCK FALSE
INVARIANTS
    TypeOK
    TargetsWereHealthy
    NoDeadTarget
    RunningIsRecorded
    AgentTargetsFollow
    
    PanelIsOfSelected
    SpinnersWait
    LogsBelong
    
PROPERTIES
    ChoiceIsKept
