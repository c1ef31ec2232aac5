SPECIFICATION Spec
CONSTANTS
    p1 = p1
    p2 = p2
    n1 = n1
    n2 = n2
    NoPod = NoPod
    NoCM = NoCM
    Pods = {p1}
    Names = {n1}
    ObjName <- OneName
    Generated = {}
    Reqs = {r1}
    MaxJobs = 2
    Faults = {"jobend"}
    SlurmPods = {p1}
    Restartable = {}
    Annotated = {}
    MaxCrashes = 0
PROPERTY
    StartsWithJob
