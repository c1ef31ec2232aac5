SPECIFICATION FairSpec
CONSTANTS
    n1 = n1
    n2 = n2
    n3 = n3
    handler = handler
    watcher = watcher
    Callers = {handler, watcher}
    Scripted = {handler}
    Sinfo <- N2First
    KubeNodes = {n1, n2, n3}
    Prepared = {n1, n3}
    Manifold = {n3}
    FreeOn <- OneChanges
    NotALabel = {"N/A"}
    Initial = Initial
    MaxEnds = 1
INVARIANTS
    ActiveJobKeepsPod
    DrainedFirst
PROPERTIES
    GroupStops
    LabelsFollow
