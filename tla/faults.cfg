SPECIFICATION Spec
CONSTANTS
    p1 = p1
    p2 = p2
    n1 = n1
    n2 = n2
    NoPod = NoPod
    NoCM = NoCM
    Pods = {p1}
    Names = {n1}
    ObjName <- OneName
    Generated = {}
    Reqs = {r1, r2}
    MaxJobs = 2
    Faults = {"api", "blind", "ssh", "lost", "masked", "reject", "delete", "jobend", "params"}
    SlurmPods = {p1}
    Restartable = {p1}
    Annotated = {p1}
    MaxCrashes = 1
INVARIANTS
    TypeOK
    NeverCancelsBoundJob
    BindingMatchesEnv
    SInv
PROPERTY
    BindingStable
