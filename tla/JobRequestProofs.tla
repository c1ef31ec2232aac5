---------------------------- MODULE JobRequestProofs ----------------------------
(***************************************************************************)
(* The properties of JobRequest for any pods, nodes, labels, partitions    *)
(* and affinities.  Two invariants: PInv, about where a pod is placed,     *)
(* leaves unopened what getJobInformation computes; RInv follows what the  *)
(* user wrote to the command line.                                         *)
(***************************************************************************)
EXTENDS JobRequest, JobInformationProofs

-----------------------------------------------------------------------------
(* The operators.                                                          *)

\* mutateObject leaves as many containers, with the same requests and no GPU limit.
Limitless(containers) == [i \in DOMAIN containers |-> [containers[i] EXCEPT !.gpu = Absent]]

\* The containers of a pod, one by one.
LEMMA ContainersOfPod ==
    ASSUME NEW o, IsPod(o)
    PROVE  /\ Len(o.containers) \in Nat /\ DOMAIN o.containers = 1 .. Len(o.containers)
           /\ \A i \in DOMAIN o.containers :
                  /\ {"env", "cpu", "gpu"} \subseteq DOMAIN o.containers[i]
                  /\ {o.containers[i].cpu, o.containers[i].gpu} \subseteq Int \cup {Absent}
<1> DEFINE cs == o.containers
           S == Range(cs)
<1>1. cs \in Seq(S) /\ \A c \in S : /\ {"env", "cpu", "gpu"} \subseteq DOMAIN c
                                     /\ {c.cpu, c.gpu} \subseteq Int \cup {Absent}
  BY DEF IsPod
<1> HIDE DEF cs, S
<1>2. Len(cs) \in Nat /\ DOMAIN cs = 1 .. Len(cs) /\ \A i \in DOMAIN cs : cs[i] \in S
  BY <1>1
<1>3. \A i \in DOMAIN cs : /\ {"env", "cpu", "gpu"} \subseteq DOMAIN cs[i]
                           /\ {cs[i].cpu, cs[i].gpu} \subseteq Int \cup {Absent}
  BY <1>1, <1>2
<1> QED
  BY <1>2, <1>3 DEF cs

\* Without limits they are containers still.
LEMMA LimitlessContainers ==
    ASSUME NEW o, IsPod(o)
    PROVE  LET cs == Limitless(o.containers)
           IN  /\ cs \in Seq(Range(cs))
               /\ Len(cs) = Len(o.containers)
               /\ \A i \in 1 .. Len(cs) : cs[i].gpu = Absent
               /\ \A c \in Range(cs) : /\ {"env", "cpu", "gpu"} \subseteq DOMAIN c
                                       /\ {c.cpu, c.gpu} \subseteq Int \cup {Absent}
<1> DEFINE cs == Limitless(o.containers)
           n == Len(o.containers)
<1>1. /\ n \in Nat /\ DOMAIN o.containers = 1 .. n
      /\ \A i \in 1 .. n : /\ {"env", "cpu", "gpu"} \subseteq DOMAIN o.containers[i]
                          /\ {o.containers[i].cpu, o.containers[i].gpu} \subseteq Int \cup {Absent}
  BY ContainersOfPod
<1> HIDE DEF n
<1>2. cs = [i \in 1 .. n |-> [o.containers[i] EXCEPT !.gpu = Absent]]
  BY <1>1 DEF Limitless
<1>3. \A i \in 1 .. n : /\ cs[i].gpu = Absent
                       /\ {"env", "cpu", "gpu"} \subseteq DOMAIN cs[i]
                       /\ {cs[i].cpu, cs[i].gpu} \subseteq Int \cup {Absent}
  <2> SUFFICES ASSUME NEW i \in 1 .. n
               PROVE  /\ cs[i].gpu = Absent
                      /\ {"env", "cpu", "gpu"} \subseteq DOMAIN cs[i]
                      /\ {cs[i].cpu, cs[i].gpu} \subseteq Int \cup {Absent}
    OBVIOUS
  <2>1. cs[i] = [o.containers[i] EXCEPT !.gpu = Absent]
    BY <1>2
  <2> HIDE DEF cs
  <2> QED
    BY <1>1, <2>1
<1>4. DOMAIN cs = 1 .. n
  BY <1>2
<1> HIDE DEF cs
<1>5. \A i \in 1 .. n : cs[i] \in Range(cs)
  BY <1>4 DEF Range
<1>6. cs = [i \in 1 .. n |-> cs[i]]
  BY <1>2
<1>7. cs \in Seq(Range(cs)) /\ Len(cs) = n
  <2> DEFINE S == Range(cs)
  <2>1. cs \in [1 .. n -> S]
    BY <1>5, <1>6
  <2> HIDE DEF S
  <2>2. cs \in Seq(S) /\ Len(cs) = n
    BY <1>1, <2>1
  <2> QED
    BY <2>2 DEF S
<1>8. \A c \in Range(cs) : /\ {"env", "cpu", "gpu"} \subseteq DOMAIN c
                          /\ {c.cpu, c.gpu} \subseteq Int \cup {Absent}
  BY <1>3, <1>4 DEF Range
<1> QED
  BY <1>3, <1>7, <1>8 DEF cs, n

\* mutateObject, field by field.
LEMMA Mutated ==
    ASSUME NEW o, IsPod(o), NEW info
    PROVE  /\ IsPod(mutateObject(o, info))
           /\ mutateObject(o, info).injectors = o.injectors + 1
           /\ mutateObject(o, info).script = info
           /\ mutateObject(o, info).name = o.name
           /\ mutateObject(o, info).terms = NodeAffinity(o.terms, info.ngpus)
           /\ mutateObject(o, info).containers = Limitless(o.containers)
           /\ mutateObject(o, info).annotations = Annotated(o.annotations, info)
<1> DEFINE m == mutateObject(o, info)
<1>1. /\ Fields \subseteq DOMAIN m
      /\ m.injectors = o.injectors + 1
      /\ m.script = info
      /\ m.name = o.name
      /\ m.terms = NodeAffinity(o.terms, info.ngpus)
      /\ m.containers = Limitless(o.containers)
      /\ m.annotations = Annotated(o.annotations, info)
  BY DEF mutateObject, Limitless, IsPod, Fields
<1>2. {"status", "uuid"} \subseteq DOMAIN m.annotations
  BY <1>1 DEF IsPod, Annotated
<1> HIDE DEF m
<1>3. IsPod(m)
  BY <1>1, <1>2, LimitlessContainers DEF IsPod
<1> QED
  BY <1>1, <1>3 DEF m

\* The annotation an injection leaves.
LEMMA Status ==
    ASSUME NEW annotations, NEW info, "status" \in DOMAIN annotations
    PROVE  Annotated(annotations, info)["status"] = "injected"
  BY DEF Annotated

\* Naming the node changes nothing else.
LEMMA Named ==
    ASSUME NEW o, IsPod(o), NEW n
    PROVE  /\ IsPod([o EXCEPT !.nodeName = n])
           /\ [o EXCEPT !.nodeName = n].injectors = o.injectors
           /\ [o EXCEPT !.nodeName = n].script = o.script
           /\ [o EXCEPT !.nodeName = n].labels = o.labels
           /\ [o EXCEPT !.nodeName = n].containers = o.containers
           /\ [o EXCEPT !.nodeName = n].terms = o.terms
           /\ [o EXCEPT !.nodeName = n].annotations = o.annotations
  BY DEF IsPod, Fields

\* A node that meets one of the joined terms meets one of the user's, and the requirement.
LEMMA AffinityJoins ==
    ASSUME NEW n \in KubeNodes, NEW terms, NEW k, Matches(n, NodeAffinity(terms, k))
    PROVE  Matches(n, terms) /\ (k > 0 => GPUsFree[n] \notin 0 .. k - 1)
<1>1. CASE ~(k > 0)
  BY <1>1 DEF NodeAffinity
<1>2. CASE k > 0
  <2> DEFINE base == IF terms = {} THEN {{}} ELSE terms
             joined == {term \cup {EnoughGPUs(k)} : term \in base}
  <2>1. NodeAffinity(terms, k) = joined
    BY <1>2 DEF NodeAffinity
  <2>2. joined # {}
    OBVIOUS
  <2>3. PICK t \in joined : \A requirement \in t : Meets(n, requirement)
    BY <2>1, <2>2 DEF Matches
  <2>4. PICK term \in base : t = term \cup {EnoughGPUs(k)}
    BY <2>3
  <2>5. \A requirement \in term : Meets(n, requirement)
    BY <2>3, <2>4
  <2>6. Meets(n, EnoughGPUs(k))
    BY <2>3, <2>4
  <2>7. GPUsFree[n] \notin 0 .. k - 1
    BY <2>6 DEF Meets, EnoughGPUs
  <2>8. Matches(n, terms)
    BY <2>5 DEF Matches
  <2> QED
    BY <2>7, <2>8
<1> QED
  BY <1>1, <1>2

-----------------------------------------------------------------------------
(* The steps.                                                              *)

\* A pod is as its user wrote it before its first CREATE.
LEMMA PInit == Init => PInv
<1> SUFFICES ASSUME Init PROVE PInv
  OBVIOUS
<1>1. IsPod(obj) /\ obj.injectors = 0
  BY JobRequestAssumption DEF Init
<1>2. "status" \in DOMAIN obj.annotations
  BY <1>1 DEF IsPod
<1> QED
  BY <1>1, <1>2 DEF Init, PInv, Marked, Joined

\* Injects happens to a pod that was not injected before.
LEMMA Injected == PInv /\ Injects => PInv' /\ node' = node
<1> SUFFICES ASSUME PInv, Injects PROVE PInv' /\ node' = node
  OBVIOUS
<1> DEFINE info == [Info EXCEPT !.uuid = FreshUUID]
<1>1. obj' = mutateObject(obj, info) /\ pod' = pod /\ node' = node
  BY DEF Injects
<1>2. obj.annotations["status"] # "injected"
  BY DEF Injects, Enabled, IsInjectionEnabled
<1>3. obj.injectors = 0
  BY <1>2 DEF PInv, Marked
<1> HIDE DEF info
<1>4. /\ IsPod(obj')
      /\ obj'.injectors = 1
      /\ obj'.script = info
      /\ obj'.terms = NodeAffinity(obj.terms, info.ngpus)
      /\ obj'.annotations = Annotated(obj.annotations, info)
  <2> DEFINE m == mutateObject(obj, info)
  <2>1. IsPod(obj) /\ obj.injectors + 1 = 1
    BY <1>3 DEF PInv
  <2>2. /\ IsPod(m)
        /\ m.injectors = obj.injectors + 1
        /\ m.script = info
        /\ m.terms = NodeAffinity(obj.terms, info.ngpus)
        /\ m.annotations = Annotated(obj.annotations, info)
    BY <2>1, Mutated
  <2> QED
    BY <1>1, <2>1, <2>2, Zenon
<1>5. Marked'
  BY <1>3, <1>4, Status DEF PInv, Marked
<1>6. Joined'
  BY <1>1, <1>3, <1>4 DEF PInv, Joined
<1>7. node = Absent
  BY DEF Injects, PInv
<1> QED
  BY <1>1, <1>4, <1>5, <1>6, <1>7 DEF PInv

\* Recreates leaves what PInv says of the pod.
LEMMA Recreated == PInv /\ Recreates => PInv'
<1> SUFFICES ASSUME PInv, Recreates PROVE PInv'
  OBVIOUS
<1>1. obj' = [obj EXCEPT !.nodeName = node] /\ pod' = pod /\ node' = Absent
  BY DEF Recreates
<1>2. /\ IsPod(obj')
      /\ obj'.injectors = obj.injectors
      /\ obj'.script = obj.script
      /\ obj'.terms = obj.terms
      /\ obj'.annotations = obj.annotations
  <2>1. IsPod(obj)
    BY DEF PInv
  <2> QED
    BY <1>1, <2>1, Named, Zenon
<1> QED
  BY <1>1, <1>2 DEF PInv, Marked, Joined

\* The other steps leave the pod alone; one of them places it.
LEMMA PStep == PInv /\ [Next]_vars => PInv'
<1> SUFFICES ASSUME PInv, [Next]_vars PROVE PInv'
  OBVIOUS
<1>1. CASE Injects
  BY <1>1, Injected
<1>2. CASE Recreates
  BY <1>2, Recreated
<1>3. CASE \E n \in KubeNodes : Placed(n)
  <2>1. PICK n \in KubeNodes : Placed(n)
    BY <1>3
  <2>2. /\ Matches(n, obj.terms) /\ node' = n /\ obj' = obj /\ pod' = pod
        /\ stage' # "create"
    BY <2>1 DEF Placed
  <2> QED
    BY <2>2 DEF PInv, Marked, Joined
<1>4. CASE Denies \/ LeavesAlone \/ ConfigMapFails \/ AsksIsInjectable \/ CallsSbatch
  <2>1. obj' = obj /\ pod' = pod /\ node' = node
    BY <1>4 DEF Denies, LeavesAlone, ConfigMapFails, AsksIsInjectable, CallsSbatch
  <2>2. stage' # "create"
    BY <1>4 DEF Denies, LeavesAlone, ConfigMapFails, AsksIsInjectable, CallsSbatch
  <2> QED
    BY <2>1, <2>2 DEF PInv, Marked, Joined
<1>5. CASE UNCHANGED vars
  BY <1>5 DEF vars, PInv, Marked, Joined
<1> QED
  BY <1>1, <1>2, <1>3, <1>4, <1>5 DEF Next

\* PInv always holds.
LEMMA PInvariance == Spec => []PInv
  BY PInit, PStep, PTL DEF Spec

-----------------------------------------------------------------------------
(* From the pod to the command line.                                       *)

\* What getJobInformation reads from labels, annotations and containers is the same for
\* pods that agree on them.
LEMMA SameSettings ==
    ASSUME NEW o, NEW p, o.labels = p.labels, o.annotations = p.annotations,
           o.containers = p.containers
    PROVE  /\ MetaMode(o) = MetaMode(p) /\ Mode(o) = Mode(p) /\ Envs(o) = Envs(p)
           /\ Ncpus(o) = Ncpus(p) /\ Ngpus(o) = Ngpus(p)
<1>1. Meta(o) = Meta(p) /\ Envs(o) = Envs(p)
  BY DEF Meta, Envs
<1>2. SumOf(o, "cpu") = SumOf(p, "cpu") /\ SumOf(o, "gpu") = SumOf(p, "gpu")
  BY DEF SumOf
<1> QED
  BY <1>1, <1>2 DEF MetaMode, Mode, Ncpus, Ngpus, Number

\* Without a manual label and a variable, the job is left to follow the pod.
LEMMA LeftOpen ==
    ASSUME NEW o, MetaMode(o) # "manual",
           \A i \in DOMAIN Envs(o) : \A k \in {"node", "partition"} : Envs(o)[i][k] = Absent
    PROVE  Node(o) = Placeholder /\ Partition(o) = Empty
  BY Unset DEF Node, Partition

\* parseQueryParams, field by field.
LEMMA QueryFields ==
    ASSUME NEW info, InfoFields \subseteq DOMAIN info, NEW n
    PROVE  LET q == parseQueryParams(info, n)
           IN  /\ q.namespace = Filter(info.namespace)
               /\ q.objectname = Filter(info.objectname)
               /\ q.uuid = info.uuid
               /\ q.mode = info.mode
               /\ q.partition = Filter(info.partition)
               /\ q.node = Filter(IF info.node = Placeholder THEN n ELSE info.node)
               /\ q.ncpus = Digits(info.ncpus)
               /\ q.gres = info.gres
               /\ DOMAIN q = DOMAIN info
  BY DEF parseQueryParams, InfoFields

\* SelectsPartition changes the partition only, to one of the node's.
LEMMA SelectedFields ==
    ASSUME NEW q, InfoFields \subseteq DOMAIN q
    PROVE  LET s == SelectsPartition(q)
           IN  /\ s.node = q.node /\ s.ncpus = q.ncpus /\ s.gres = q.gres
               /\ q.mode # "manual" /\ q.partition = Empty /\ q.node \in SlurmNodes =>
                      s.partition = PartitionOf(q.node)
               /\ ~(q.mode # "manual" /\ q.partition = Empty /\ q.node \in SlurmNodes) =>
                      s.partition = q.partition
<1>1. CASE q.mode # "manual" /\ q.partition = Empty /\ q.node \in SlurmNodes
  <2>1. SelectsPartition(q) = [q EXCEPT !.partition = PartitionOf(q.node)]
    BY <1>1 DEF SelectsPartition
  <2> QED
    BY <1>1, <2>1 DEF InfoFields
<1>2. CASE ~(q.mode # "manual" /\ q.partition = Empty /\ q.node \in SlurmNodes)
  <2>1. SelectsPartition(q) = q
    BY <1>2 DEF SelectsPartition
  <2> QED
    BY <1>2, <2>1
<1> QED
  BY <1>1, <1>2

\* createConfigMap makes of the mutated pod the config-map of the script's job: it reads
\* the fresh UUID back from the annotation.
LEMMA ReadBack ==
    ASSUME NEW o, IsPod(o), NEW info, NEW ns,
           "uuid" \in DOMAIN info, info.uuid \in Int,
           info.namespace = ns, info.objectname = o.name
    PROVE  ConfigMapOf(getJobInformation(mutateObject(o, info), ns)) = ConfigMapOf(info)
<1> DEFINE m == mutateObject(o, info)
<1>1. m.name = o.name /\ m.annotations = Annotated(o.annotations, info)
  BY Mutated
<1>2. m.annotations["uuid"] = info.uuid
  BY <1>1 DEF Annotated, IsPod
<1> HIDE DEF m
<1>3. info.uuid # Absent
  BY JobInformationAssumption
<1>4. Override(Empty, Meta(m), "uuid") = info.uuid
  BY <1>2, <1>3, AnnotationWins DEF Meta
<1>5. /\ getJobInformation(m, ns).namespace = ns
      /\ getJobInformation(m, ns).objectname = m.name
      /\ getJobInformation(m, ns).uuid = Override(Empty, Meta(m), "uuid")
  BY DEF getJobInformation
<1> QED
  BY <1>1, <1>4, <1>5 DEF ConfigMapOf, m

-----------------------------------------------------------------------------
(* The steps.                                                              *)

\* RInv holds of a pod as its user wrote it.
LEMMA RInit == Init => RInv
  BY JobRequestAssumption DEF Init, RInv, Matched

\* The script gets what getJobInformation computes, and the config-map matches it.
LEMMA InjectsSays == PInv /\ RInv /\ Injects => RInv'
<1> SUFFICES ASSUME PInv, RInv, Injects PROVE RInv'
  OBVIOUS
<1> DEFINE info == [Info EXCEPT !.uuid = FreshUUID]
           ns == Namespace.value
<1>1. /\ obj' = mutateObject(obj, info) /\ pod' = pod
      /\ cm' = ConfigMapOf(getJobInformation(obj', ns))
      /\ stage' = "admitted"
      /\ ns \in Namespaces
      /\ obj.injectors = 0
  <2>1. obj.annotations["status"] # "injected"
    BY DEF Injects, Enabled, IsInjectionEnabled
  <2> QED
    BY <2>1 DEF Injects, PInv, Marked
<1>2. IsPod(pod) /\ IsPod(obj)
      /\ obj.labels = pod.labels /\ obj.annotations = pod.annotations
      /\ obj.containers = pod.containers
  BY <1>1 DEF RInv
<1>3. /\ InfoFields \subseteq DOMAIN info
      /\ info.namespace = ns /\ info.objectname = obj.name
      /\ info.uuid = FreshUUID
      /\ info.mode = Mode(obj) /\ info.partition = Partition(obj) /\ info.node = Node(obj)
      /\ info.ncpus = Ncpus(obj) /\ info.gres = Positive(Ngpus(obj))
  BY DEF Info, getJobInformation, InfoFields
<1>4. info.uuid \in Int
  BY <1>1, <1>3 DEF FreshUUID
<1> HIDE DEF info, ns
<1>5. /\ IsPod(obj') /\ obj'.injectors = 1 /\ obj'.script = info
      /\ obj'.containers = Limitless(obj.containers)
  <2> DEFINE m == mutateObject(obj, info)
  <2>1. /\ IsPod(m) /\ m.injectors = obj.injectors + 1 /\ m.script = info
        /\ m.containers = Limitless(obj.containers)
    BY <1>2, Mutated
  <2>2. obj.injectors + 1 = 1
    BY <1>1
  <2> QED
    BY <1>1, <2>1, <2>2, Zenon
<1>6. cm' = ConfigMapOf(info)
  BY <1>1, <1>2, <1>3, <1>4, ReadBack DEF InfoFields
<1>7. Matched'
  BY <1>1, <1>3, <1>5, <1>6 DEF Matched
<1>8. ScriptSays'
  <2>1. /\ MetaMode(obj) = MetaMode(pod) /\ Mode(obj) = Mode(pod) /\ Envs(obj) = Envs(pod)
        /\ Ncpus(obj) = Ncpus(pod) /\ Ngpus(obj) = Ngpus(pod)
    BY <1>2, SameSettings
  <2>2. ASSUME Mode(obj) # "manual", ~Overridden
        PROVE  Node(obj) = Placeholder /\ Partition(obj) = Empty
    <3>1. /\ MetaMode(obj) # "manual"
          /\ \A i \in DOMAIN Envs(obj) : \A k \in {"node", "partition"} :
                 Envs(obj)[i][k] = Absent
      BY <2>1, <2>2 DEF Overridden
    <3> QED
      BY <3>1, LeftOpen
  <2>3. Overridden' = Overridden
    BY <1>1 DEF Overridden
  <2>4. Ncpus(pod)' = Ncpus(pod) /\ Ngpus(pod)' = Ngpus(pod)
    BY <1>1
  <2> QED
    BY <1>3, <1>5, <2>1, <2>2, <2>3, <2>4 DEF ScriptSays
<1>9. \A i \in DOMAIN obj'.containers : obj'.containers[i].gpu = Absent
  <2>1. /\ Limitless(obj.containers) \in Seq(Range(Limitless(obj.containers)))
        /\ \A i \in 1 .. Len(Limitless(obj.containers)) : Limitless(obj.containers)[i].gpu = Absent
    BY <1>2, LimitlessContainers
  <2> DEFINE cs == Limitless(obj.containers)
             S == Range(cs)
  <2>2. cs \in Seq(S)
    BY <2>1
  <2> HIDE DEF cs, S
  <2>3. DOMAIN cs = 1 .. Len(cs)
    BY <2>2
  <2> QED
    BY <1>5, <2>1, <2>3 DEF cs
<1> QED
  BY <1>1, <1>2, <1>5, <1>7, <1>8, <1>9 DEF RInv

\* Steps that leave pod, object and config-map alone leave what the script says.
LEMMA SaysFrame ==
    ASSUME RInv, UNCHANGED <<pod, obj, cm>>
    PROVE  /\ IsPod(pod)' /\ IsPod(obj)'
           /\ obj'.injectors = 0 =>
                  /\ obj'.labels = pod'.labels /\ obj'.annotations = pod'.annotations
                  /\ obj'.containers = pod'.containers
           /\ obj'.injectors # 0 =>
                  /\ ScriptSays'
                  /\ \A i \in DOMAIN obj'.containers : obj'.containers[i].gpu = Absent
           /\ Matched'
  BY DEF RInv, ScriptSays, Matched, Overridden

\* Every step keeps RInv; PInv tells that Injects finds a pod not injected before.
LEMMA RStep == PInv /\ RInv /\ [Next]_vars => RInv'
<1> SUFFICES ASSUME PInv, RInv, [Next]_vars PROVE RInv'
  OBVIOUS
<1> USE DEF Query
<1>1. CASE Denies \/ LeavesAlone \/ ConfigMapFails
  <2>1. UNCHANGED <<pod, obj, cm>> /\ stage' \in {"denied", "admitted"}
    BY <1>1 DEF Denies, LeavesAlone, ConfigMapFails
  <2> QED
    BY <2>1, SaysFrame DEF RInv
<1>2. CASE Injects
  BY <1>2, InjectsSays
<1>3. CASE \E n \in KubeNodes : Placed(n)
  <2>1. /\ UNCHANGED <<pod, obj, cm>> /\ stage' \in {"running", "isinjectable"}
        /\ obj.injectors = 0 => stage' = "running"
        /\ node' \in KubeNodes
    BY <1>3 DEF Placed
  <2> QED
    BY <2>1, SaysFrame DEF RInv
<1>4. CASE AsksIsInjectable
  <2>1. /\ UNCHANGED <<pod, obj, cm, node>> /\ stage' \in {"running", "sbatch"}
        /\ stage' = "sbatch" => Query.node \in SlurmNodes
        /\ obj.injectors # 0 /\ node \in KubeNodes
    BY <1>4 DEF AsksIsInjectable, RInv
  <2> QED
    BY <2>1, SaysFrame DEF RInv
<1>5. CASE CallsSbatch
  <2>1. /\ UNCHANGED <<pod, obj, cm, node>> /\ stage' \in {"submitted", "refused"}
        /\ stage' = "refused" => ~Prepared(Query) /\ Query.node \in SlurmNodes
        /\ stage' = "submitted" =>
               Prepared(Query) /\ command' = constructCommand(SelectsPartition(Query))
        /\ obj.injectors # 0 /\ node \in KubeNodes
    BY <1>5 DEF CallsSbatch, RInv
  <2> QED
    BY <2>1, SaysFrame DEF RInv
<1>6. CASE Recreates
  <2>1. obj' = [obj EXCEPT !.nodeName = node] /\ pod' = pod /\ cm' = Absent /\ stage' = "create"
    BY <1>6 DEF Recreates
  <2>2. IsPod(obj)
    BY DEF RInv
  <2>3. /\ IsPod(obj')
        /\ obj'.injectors = obj.injectors
        /\ obj'.script = obj.script
        /\ obj'.labels = obj.labels
        /\ obj'.containers = obj.containers
        /\ obj'.annotations = obj.annotations
    BY <2>1, <2>2, Named, Zenon
  <2>4. obj.injectors # 0 => ScriptSays'
    BY <2>1, <2>3 DEF RInv, ScriptSays, Overridden
  <2> QED
    BY <2>1, <2>3, <2>4 DEF RInv, Matched
<1>7. CASE UNCHANGED vars
  <2>1. UNCHANGED <<pod, obj, cm, node, stage, command>>
    BY <1>7 DEF vars
  <2> QED
    BY <2>1, SaysFrame DEF RInv
<1> QED
  BY <1>1, <1>2, <1>3, <1>4, <1>5, <1>6, <1>7 DEF Next

\* RInv always holds.
LEMMA RInvariance == Spec => []RInv
  BY PInvariance, RInit, RStep, PTL DEF Spec

-----------------------------------------------------------------------------
(* The properties.                                                         *)

\* Script, config-map and command line say what the user wrote, for any pod and whatever
\* becomes of it (Inject, the script, the endpoints isinjectable and sbatch).
THEOREM RequestInvariance == Spec => []RequestInv
  BY PInvariance, RInvariance, PTL DEF RequestInv

\* A manifest that went through the webhook is not injected again, whatever else its user
\* wrote (the annotation mutateObject leaves and IsInjectionEnabled reads).
THEOREM InjectedAtMostOnce == Spec => []InjectedOnce
<1>1. PInv => InjectedOnce
  BY DEF PInv, InjectedOnce
<1> QED
  BY <1>1, PInvariance, PTL

\* A GPU pod is placed where its user's affinity allows and no label forbids, also when it
\* is created again from the mutated manifest (the loop over the terms in mutateObject).
THEOREM PlacementCorrect == Spec => []PlacedWell
<1>1. PInv => PlacedWell
  <2> SUFFICES ASSUME PInv, node # Absent, obj.injectors > 0
               PROVE  /\ obj.script.ngpus > 0 => GPUsFree[node] \notin 0 .. obj.script.ngpus - 1
                      /\ Matches(node, pod.terms)
    BY DEF PlacedWell
  <2>1. obj.injectors = 1
    BY DEF PInv
  <2>2. node \in KubeNodes /\ Matches(node, NodeAffinity(pod.terms, obj.script.ngpus))
    BY <2>1 DEF PInv, Joined
  <2> QED
    BY <2>2, AffinityJoins
<1> QED
  BY <1>1, PInvariance, PTL
\* The two ways a config-map's name takes end at the same one: the webhook filters the
\* pod's name, the endpoint what arrives in the query, and the UUID comes back from the
\* annotation that mutateObject wrote (createConfigMap, parseQueryParams).
THEOREM ConfigMapsMeet == Spec => []SameConfigMap
<1>1. RInv => SameConfigMap
  <2> SUFFICES ASSUME RInv, stage \in {"isinjectable", "sbatch"}, cm # Absent
               PROVE  cm = ConfigMapOf(Query)
    BY DEF SameConfigMap
  <2>1. /\ obj.script.namespace \notin DOMAIN Undotted /\ cm = ConfigMapOf(obj.script)
        /\ InfoFields \subseteq DOMAIN obj.script
    BY JobRequestAssumption DEF RInv, Matched, ScriptSays
  <2>2. /\ Query.namespace = Filter(obj.script.namespace)
        /\ Query.objectname = Filter(obj.script.objectname)
        /\ Query.uuid = obj.script.uuid
    BY <2>1, QueryFields DEF Query
  <2>3. Filter(obj.script.namespace) = obj.script.namespace
    BY <2>1 DEF Filter
  <2> HIDE DEF Query
  <2> QED
    BY <2>1, <2>2, <2>3, FilterTwice DEF ConfigMapOf
<1> QED
  BY <1>1, RInvariance, PTL

\* Dropping the dots of a node's name does not make it the name of a Slurm node.
NodesApart == \A n \in KubeNodes \cap DOMAIN Undotted : Undotted[n] \notin SlurmNodes

\* Labels and annotations do not move a job in auto mode away from its pod (the reset in
\* getJobInformation, the placeholder of the script, prepareParams).
THEOREM AutoCorrect ==
    ASSUME NodesApart
    PROVE  Spec => []AutoFollowsPod
<1>1. RInv => AutoFollowsPod
  <2> SUFFICES ASSUME RInv, stage = "submitted", obj.script.mode # "manual", ~Overridden
               PROVE  /\ command.nodelist = node
                      /\ \E i \in DOMAIN NodeInfo :
                             NodeInfo[i] = [node |-> node, partition |-> command.partition]
    BY DEF AutoFollowsPod
  <2>1. /\ InfoFields \subseteq DOMAIN obj.script /\ node \in KubeNodes
        /\ obj.script.node = Placeholder /\ obj.script.partition = Empty
        /\ Prepared(Query) /\ command = constructCommand(SelectsPartition(Query))
    BY DEF RInv, ScriptSays
  <2>2. /\ Query.node = Filter(node) /\ Query.partition = Filter(Empty)
        /\ Query.mode # "manual"
        /\ InfoFields \subseteq DOMAIN Query
    BY <2>1, QueryFields DEF Query
  <2> HIDE DEF Query
  <2>3. Query.partition = Empty /\ Query.node \in SlurmNodes
    BY <2>1, <2>2, JobInformationAssumption DEF Filter, Prepared
  <2>4. Query.node = node
    BY <2>1, <2>2, <2>3 DEF Filter, NodesApart
  <2>5. /\ SelectsPartition(Query).node = node
        /\ SelectsPartition(Query).partition = PartitionOf(node)
    BY <2>2, <2>3, <2>4, SelectedFields
  <2>6. command.nodelist = node /\ command.partition = PartitionOf(node)
    BY <2>1, <2>5 DEF constructCommand
  <2>7. node \in SlurmNodes
    BY <2>3, <2>4
  <2> QED
    BY <2>6, <2>7, PartitionOfNode
<1> QED
  BY <1>1, RInvariance, PTL

\* sbatch refuses for ever only a partition nobody checked (isInjectable of sidecar.go
\* against prepareParams).
THEOREM RefusalCorrect == Spec => []RefusedWithReason
<1>1. RInv => RefusedWithReason
  <2> DEFINE p == Filter(obj.script.partition)
  <2> SUFFICES ASSUME RInv, stage = "refused"
               PROVE  Unchecked(p) /\ (obj.script.mode = "manual" \/ Overridden)
    BY DEF RefusedWithReason
  <2>1. /\ InfoFields \subseteq DOMAIN obj.script
        /\ Query.node \in SlurmNodes /\ ~Prepared(Query)
        /\ obj.script.mode # "manual" /\ ~Overridden => obj.script.partition = Empty
    BY DEF RInv, ScriptSays
  <2>2. Query.partition = p /\ Query.mode = obj.script.mode /\ InfoFields \subseteq DOMAIN Query
    BY <2>1, QueryFields DEF Query
  <2> HIDE DEF Query, p
  <2>3. SelectsPartition(Query).partition \notin UsedPartitions
    BY <2>1 DEF Prepared
  <2>4. ~(Query.mode # "manual" /\ Query.partition = Empty)
    BY <2>1, <2>2, <2>3, SelectedFields, PartitionOfNode
  <2>5. SelectsPartition(Query).partition = p
    BY <2>2, <2>4, SelectedFields
  <2>6. obj.script.partition = Empty => p = Empty
    BY JobInformationAssumption DEF Filter, p
  <2> QED
    BY <2>1, <2>2, <2>3, <2>4, <2>5, <2>6 DEF Unchecked
<1> QED
  BY <1>1, RInvariance, PTL

\* Whatever number of containers there is, Slurm is asked for at least what they were
\* going to get, and Kubernetes is then asked for no GPU (the loops over the containers in
\* getJobInformation and mutateObject).
THEOREM AccountsCorrect == Spec => []AsksForContainers
<1>1. RInv => AsksForContainers
  <2> DEFINE cpus == SumOf(pod, "cpu")
             gpus == SumOf(pod, "gpu")
             ncpus == Number(pod, "ncpus", 0)
             ngpus == Number(pod, "ngpus", 0)
  <2> SUFFICES ASSUME RInv, stage = "submitted", ~Corrected
               PROVE  /\ command.cpus >= cpus
                      /\ gpus > 0 => command.gres >= gpus
                      /\ SumOf(obj, "gpu") = 0
    BY DEF AsksForContainers
  <2>1. /\ InfoFields \subseteq DOMAIN obj.script /\ IsPod(pod) /\ IsPod(obj)
        /\ obj.script.ncpus = Ncpus(pod) /\ obj.script.gres = Positive(Ngpus(pod))
        /\ command = constructCommand(SelectsPartition(Query))
        /\ \A i \in DOMAIN obj.containers : obj.containers[i].gpu = Absent
    BY DEF RInv, ScriptSays
  <2>2. cpus \in Int /\ gpus \in Int
    <3>1. /\ Len(pod.containers) \in Nat /\ DOMAIN pod.containers = 1 .. Len(pod.containers)
          /\ \A i \in DOMAIN pod.containers :
                 {pod.containers[i].cpu, pod.containers[i].gpu} \subseteq Int \cup {Absent}
      BY <2>1, ContainersOfPod
    <3>2. \A i \in 1 .. Len(pod.containers) :
             Amount(pod.containers[i], "cpu") \in Int /\ Amount(pod.containers[i], "gpu") \in Int
      BY <3>1 DEF Amount
    <3> QED
      BY <3>1, <3>2, SumIsInt
  <2>3. ncpus \in Int /\ ngpus \in Int /\ ncpus >= 0 /\ ngpus >= 0
    BY NumberIsInt DEF Corrected
  <2>4. SumOf(obj, "gpu") = 0
    <3>1. Len(obj.containers) \in Nat /\ DOMAIN obj.containers = 1 .. Len(obj.containers)
      BY <2>1, ContainersOfPod
    <3>2. \A i \in 1 .. Len(obj.containers) : Amount(obj.containers[i], "gpu") = 0
      BY <2>1, <3>1 DEF Amount
    <3> QED
      BY <3>1, <3>2, SumOfNothing
  <2>5. /\ Query.ncpus = Digits(Ncpus(pod)) /\ Query.gres = Positive(Ngpus(pod))
        /\ InfoFields \subseteq DOMAIN Query
    BY <2>1, QueryFields DEF Query
  <2>6. command.cpus = Digits(Ncpus(pod)) /\ command.gres = Positive(Ngpus(pod))
    BY <2>1, <2>5, SelectedFields DEF constructCommand
  <2>7. /\ Ncpus(pod) = IF ncpus + cpus = 0 THEN 1 ELSE ncpus + cpus
        /\ Ngpus(pod) = ngpus + gpus
    BY DEF Ncpus, Ngpus
  <2> HIDE DEF cpus, gpus, ncpus, ngpus
  <2>8. command.cpus >= cpus
    BY <2>2, <2>3, <2>6, <2>7 DEF Digits
  <2>9. gpus > 0 => command.gres >= gpus
    BY <2>2, <2>3, <2>6, <2>7 DEF Positive
  <2> QED
    BY <2>4, <2>8, <2>9
<1> QED
  BY <1>1, RInvariance, PTL
=================================================================================
