-------------------------- MODULE JobInformationProofs --------------------------
(***************************************************************************)
(* What the operators of JobInformation return: sums over the containers   *)
(* of a pod, the last of several sources and of several lines of sinfo,    *)
(* and the pod mutateObject leaves.  A statement about all containers is   *)
(* proved by looking at the first one for which it fails.                  *)
(***************************************************************************)
EXTENDS JobInformation, WellFoundedInduction, TLAPS

-----------------------------------------------------------------------------
(* Numbers.                                                                *)

\* A set of numbers has a least one.
LEMMA Smallest ==
    ASSUME NEW T \in SUBSET Nat, T # {}
    PROVE  \E n \in T : \A m \in T : n <= m
<1> DEFINE R == {ss \in Nat \X Nat : ss[1] < ss[2]}
<1>1. IsWellFoundedOn(R, Nat)
  BY NatLessThanWellFounded DEF OpToRel
<1>2. \A m, n \in Nat : m < n => <<m, n>> \in R
  OBVIOUS
<1> HIDE DEF R
<1>3. PICK n \in T : \A m \in T : ~ (<<m, n>> \in R)
  BY <1>1, WFMin
<1>4. \A m \in T : n <= m
  <2> SUFFICES ASSUME NEW m \in T PROVE n <= m
    OBVIOUS
  <2>1. m \in Nat /\ n \in Nat /\ ~ (<<m, n>> \in R)
    BY <1>3
  <2>2. ~ (m < n)
    BY <1>2, <2>1, Zenon
  <2> QED
    BY <2>1, <2>2
<1> QED
  BY <1>4

\* A set of indices has a greatest one.
LEMMA Greatest ==
    ASSUME NEW n \in Nat, NEW S \in SUBSET (1 .. n), S # {}
    PROVE  Max(S) \in S /\ \A i \in S : i <= Max(S)
<1> DEFINE T == {n - i : i \in S}
<1>1. T \in SUBSET Nat /\ T # {}
  <2>1. \A i \in S : i \in 1 .. n
    OBVIOUS
  <2>2. \A i \in S : n - i \in Nat
    BY <2>1
  <2>3. PICK i \in S : TRUE
    OBVIOUS
  <2>4. n - i \in T
    BY <2>3, Zenon
  <2>5. T \in SUBSET Nat
    BY <2>2, Zenon
  <2> QED
    BY <2>4, <2>5
<1> HIDE DEF T
<1>2. PICK d \in T : \A m \in T : d <= m
  BY <1>1, Smallest
<1>3. PICK g \in S : d = n - g
  BY <1>2 DEF T
<1>4. \A i \in S : g >= i
  BY <1>2, <1>3 DEF T
<1> QED
  BY <1>3, <1>4 DEF Max

-----------------------------------------------------------------------------
(* Sums.                                                                   *)

\* f adds up the first n containers.
IsSums(f, containers, field, n) ==
    f = [i \in 0 .. n |-> IF i = 0 THEN 0 ELSE f[i - 1] + Amount(containers[i], field)]

\* There is such a function: otherwise take the least number of containers without one.
LEMMA SumsExist ==
    ASSUME NEW containers, NEW field, NEW n \in Nat
    PROVE  \E f : IsSums(f, containers, field, n)
<1> DEFINE T == {m \in Nat : ~ \E f : IsSums(f, containers, field, m)}
<1>1. SUFFICES ASSUME T # {} PROVE FALSE
  OBVIOUS
<1>2. PICK m \in T : \A k \in T : m <= k
  BY <1>1, Smallest
<1>3. CASE m = 0
  <2> DEFINE f == [i \in {0} |-> 0]
  <2>1. IsSums(f, containers, field, 0)
    BY DEF IsSums
  <2> QED
    BY <1>2, <1>3, <2>1
<1>4. CASE m # 0
  <2>1. m - 1 \in Nat /\ m - 1 \notin T
    BY <1>2, <1>4
  <2>2. PICK f : IsSums(f, containers, field, m - 1)
    BY <2>1
  <2> DEFINE g == [i \in 0 .. m |-> IF i = m THEN f[m - 1] + Amount(containers[m], field)
                                    ELSE f[i]]
  <2>3. \A i \in 0 .. m : g[i] = IF i = 0 THEN 0 ELSE g[i - 1] + Amount(containers[i], field)
    <3> SUFFICES ASSUME NEW i \in 0 .. m
                 PROVE  g[i] = IF i = 0 THEN 0 ELSE g[i - 1] + Amount(containers[i], field)
      OBVIOUS
    <3>1. CASE i = m
      BY <3>1, <1>4, <1>2
    <3>2. CASE i # m
      <4>1. i \in 0 .. m - 1
        BY <3>2, <1>2
      <4>2. f[i] = IF i = 0 THEN 0 ELSE f[i - 1] + Amount(containers[i], field)
        BY <4>1, <2>2 DEF IsSums
      <4> QED
        BY <4>1, <4>2, <3>2, <1>2
    <3> QED
      BY <3>1, <3>2
  <2>4. IsSums(g, containers, field, m)
    BY <2>3, Zenon DEF IsSums
  <2> QED
    BY <1>2, <2>4
<1> QED
  BY <1>3, <1>4

\* Sums, container by container.
LEMMA SumsStep ==
    ASSUME NEW containers, Len(containers) \in Nat, NEW field
    PROVE  /\ Sums(containers, field)[0] = 0
           /\ \A i \in 1 .. Len(containers) :
                  Sums(containers, field)[i]
                      = Sums(containers, field)[i - 1] + Amount(containers[i], field)
<1> DEFINE s == Sums(containers, field)
           n == Len(containers)
<1>1. PICK f : IsSums(f, containers, field, n)
  BY SumsExist
<1>2. IsSums(s, containers, field, n)
  BY <1>1, Zenon DEF Sums, IsSums
<1> HIDE DEF s, n
<1>3. n \in Nat
  BY DEF n
<1>4. s[0] = 0 /\ \A i \in 1 .. n : s[i] = s[i - 1] + Amount(containers[i], field)
  <2>1. \A i \in 0 .. n : s[i] = IF i = 0 THEN 0 ELSE s[i - 1] + Amount(containers[i], field)
    BY <1>2 DEF IsSums
  <2> QED
    BY <2>1, <1>3
<1> QED
  BY <1>4 DEF s, n

\* A sum of integers is one.
LEMMA SumIsInt ==
    ASSUME NEW obj, Len(obj.containers) \in Nat, NEW field,
           \A i \in 1 .. Len(obj.containers) : Amount(obj.containers[i], field) \in Int
    PROVE  SumOf(obj, field) \in Int
<1> DEFINE n == Len(obj.containers)
           s == Sums(obj.containers, field)
           T == {i \in 0 .. n : s[i] \notin Int}
<1>1. s[0] = 0 /\ \A i \in 1 .. n : s[i] = s[i - 1] + Amount(obj.containers[i], field)
  BY SumsStep
<1> HIDE DEF s
<1>2. SUFFICES ASSUME T # {} PROVE FALSE
  BY DEF s, SumOf
<1>3. PICK m \in T : \A k \in T : m <= k
  <2>1. T \in SUBSET Nat
    OBVIOUS
  <2> HIDE DEF T
  <2> QED
    BY <1>2, <2>1, Smallest
<1>4. m # 0 /\ m - 1 \in 0 .. n /\ m - 1 \notin T
  BY <1>1, <1>3
<1> QED
  BY <1>1, <1>3, <1>4

\* A sum of nothing is nothing.
LEMMA SumOfNothing ==
    ASSUME NEW obj, Len(obj.containers) \in Nat, NEW field,
           \A i \in 1 .. Len(obj.containers) : Amount(obj.containers[i], field) = 0
    PROVE  SumOf(obj, field) = 0
<1> DEFINE n == Len(obj.containers)
           s == Sums(obj.containers, field)
           T == {i \in 0 .. n : s[i] # 0}
<1>1. s[0] = 0 /\ \A i \in 1 .. n : s[i] = s[i - 1] + Amount(obj.containers[i], field)
  BY SumsStep
<1> HIDE DEF s
<1>2. SUFFICES ASSUME T # {} PROVE FALSE
  BY DEF s, SumOf
<1>3. PICK m \in T : \A k \in T : m <= k
  <2>1. T \in SUBSET Nat
    OBVIOUS
  <2> HIDE DEF T
  <2> QED
    BY <1>2, <2>1, Smallest
<1>4. m # 0 /\ m - 1 \in 0 .. n /\ m - 1 \notin T
  BY <1>1, <1>3
<1> QED
  BY <1>1, <1>3, <1>4

-----------------------------------------------------------------------------
(* Sources.                                                                *)

\* What no source sets keeps its default.
LEMMA Unset ==
    ASSUME NEW default, NEW sources, NEW key,
           \A i \in DOMAIN sources : sources[i][key] = Absent
    PROVE  Override(default, sources, key) = default
  BY DEF Override

\* Annotations overwrite labels.
LEMMA AnnotationWins ==
    ASSUME NEW default, NEW labels, NEW annotations, NEW key, annotations[key] # Absent
    PROVE  Override(default, <<labels, annotations>>, key) = annotations[key]
<1> DEFINE sources == <<labels, annotations>>
           having == {i \in DOMAIN sources : sources[i][key] # Absent}
<1>1. having \in SUBSET (1 .. 2) /\ 2 \in having
  OBVIOUS
<1> HIDE DEF having
<1>2. Max(having) \in having /\ 2 <= Max(having)
  BY <1>1, Greatest
<1>3. Max(having) = 2
  <2> DEFINE g == Max(having)
  <2>1. g \in 1 .. 2 /\ 2 <= g
    BY <1>1, <1>2
  <2> HIDE DEF g
  <2>2. g = 2
    BY <2>1
  <2> QED
    BY <2>2 DEF g
<1> QED
  BY <1>1, <1>3 DEF Override, having

\* A number is an integer, whatever its text.
LEMMA NumberIsInt ==
    ASSUME NEW obj, NEW key, NEW default
    PROVE  Number(obj, key, default) \in Int
  BY DEF Number, ParseInt

-----------------------------------------------------------------------------
(* Nodes and partitions.                                                   *)

\* sinfo lists the partition of a node in a line with that node.
LEMMA PartitionOfNode ==
    ASSUME NEW n \in SlurmNodes
    PROVE  /\ \E i \in DOMAIN NodeInfo : NodeInfo[i] = [node |-> n, partition |-> PartitionOf(n)]
           /\ PartitionOf(n) \in UsedPartitions
<1> DEFINE lines == {i \in DOMAIN NodeInfo : NodeInfo[i].node = n}
<1>1. /\ Len(NodeInfo) \in Nat /\ DOMAIN NodeInfo = 1 .. Len(NodeInfo)
      /\ \A i \in DOMAIN NodeInfo : NodeInfo[i] \in [node : SlurmNodes, partition : UsedPartitions]
  <2> DEFINE S == [node : SlurmNodes, partition : UsedPartitions]
  <2>1. NodeInfo \in Seq(S)
    BY JobInformationAssumption
  <2> HIDE DEF S
  <2>2. /\ Len(NodeInfo) \in Nat /\ DOMAIN NodeInfo = 1 .. Len(NodeInfo)
        /\ \A i \in DOMAIN NodeInfo : NodeInfo[i] \in S
    BY <2>1
  <2> QED
    BY <2>2 DEF S
<1>2. lines \in SUBSET (1 .. Len(NodeInfo)) /\ lines # {}
  BY <1>1 DEF SlurmNodes
<1> HIDE DEF lines
<1>3. Max(lines) \in lines
  BY <1>1, <1>2, Greatest
<1>4. PartitionOf(n) = NodeInfo[Max(lines)].partition
  BY DEF PartitionOf, lines
<1>5. Max(lines) \in DOMAIN NodeInfo /\ NodeInfo[Max(lines)].node = n
  BY <1>3 DEF lines
<1> HIDE DEF PartitionOf
<1> QED
  BY <1>1, <1>4, <1>5

\* Filtering twice is filtering once.
LEMMA FilterTwice ==
    ASSUME NEW x
    PROVE  Filter(Filter(x)) = Filter(x)
  BY JobInformationAssumption DEF Filter
=================================================================================
