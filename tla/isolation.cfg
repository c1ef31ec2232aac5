SPECIFICATION Spec
CONSTANTS
    p1 = p1
    p2 = p2
    n1 = n1
    n2 = n2
    NoPod = NoPod
    NoCM = NoCM
    Pods = {p1, p2}
    Names = {n1, n2}
    ObjName <- DistinctNames
    Generated = {}
    Reqs = {r1}
    MaxJobs = 2
    Faults = {"kill", "masked"}
    SlurmPods = {p1, p2}
    Restartable = {}
    Annotated = {}
    MaxCrashes = 0
INVARIANTS
    BoundToOwnJob
    EnvIsOwn
    NeverEvictsWaiting
    IInv
PROPERTY
    ImplementsBinding
