SPECIFICATION Spec
CONSTANTS
    n1 = n1
    n2 = n2
    dotted = dotted
    outside = outside
    undotted = undotted
    batch = batch
    gpus = gpus
    nodeless = nodeless
    wrong = wrong
    ns1 = ns1
    ns2 = ns2
    Placeholder = Placeholder
    Empty = Empty
    Absent = Absent
    KubeNodes <- AllNodes
    NodeInfo <- Slurm
    Partitions <- Listed
    TargetFlag <- OneTarget
    Matching <- MatchSelf
    Undotted <- WithoutDot
    Namespaces <- ThereAre
    GPUsFree <- FreeLabels
    CreatedPods <- Pods
INVARIANTS
    InjectedOnce
    SameConfigMap
    PlacedWell
    AsksForContainers
    AutoFollowsPod
    RefusedWithReason
    RequestInv
CHECK_DEADLOCK FALSE
