----------------------------- MODULE MCJobRequest -----------------------------
(***************************************************************************)
(* Pods for the runs job_request and unlabelled: a plain pod, and families *)
(* of pods that differ from it in the settings one part of the code reads. *)
(***************************************************************************)
EXTENDS JobRequest

CONSTANTS
    n1, n2, dotted, outside,    \* nodes; Slurm does not have the last one
    undotted,                   \* dotted without its dot
    batch, gpus, nodeless,      \* partitions
    wrong,                      \* a partition, a number that is none
    ns1, ns2                    \* namespaces

AllNodes == {n1, n2, dotted, outside}

\* n1 is in two partitions.
Slurm == <<[node |-> n1, partition |-> batch], [node |-> n1, partition |-> gpus],
           [node |-> n2, partition |-> batch], [node |-> dotted, partition |-> batch]>>

Listed == {batch, gpus, nodeless}

WithoutDot == [x \in {dotted} |-> undotted]

\* One GPU is free on n1, none on n2, and nobody labelled the last two.
FreeLabels == [n \in AllNodes |-> CASE n = n1 -> 1 [] n = n2 -> 0 [] OTHER -> Absent]

ThereAre == {ns1, ns2}

OneTarget == <<ns2>>
NoTarget == <<>>
MatchSelf == [t \in {ns2} |-> {t}]

Keys == {"injection", "namespace", "mode", "partition", "node", "ntasks", "ncpus", "ngpus",
         "time", "uuid", "status"}

Nothing == [key \in Keys |-> Absent]

Container == [env |-> Nothing, cpu |-> Absent, gpu |-> Absent]

Plain ==
    [name |-> "pod-web-0", namespace |-> ns1, owners |-> <<>>, katib |-> FALSE,
     labels |-> [Nothing EXCEPT !["injection"] = "enabled"], annotations |-> Nothing,
     nodeName |-> Empty, containers |-> <<Container>>, terms |-> {},
     injectors |-> 0, script |-> Absent]

\* Who wants it.
WhetherPods ==
    {[Plain EXCEPT !.labels["injection"] = l, !.namespace = ns, !.owners = o, !.katib = k,
                   !.labels["namespace"] = nl,
                   !.containers = <<[Container EXCEPT !.env["injection"] = e1],
                                    [Container EXCEPT !.env["injection"] = e2]>>] :
        l \in {Absent, "enabled", "disabled"}, ns \in {ns1, ns2, Empty},
        o \in {<<>>, <<{}, {ns2}>>, <<{ns1, ns2}>>}, nl \in {Absent, ns1, dotted}, k \in BOOLEAN,
        e1 \in {Absent, "enabled"}, e2 \in {Absent, "enabled", "disabled"}}

\* Where the job is to run.
WherePods ==
    {[Plain EXCEPT !.labels["mode"] = ml, !.annotations["mode"] = ma,
                   !.labels["partition"] = p, !.labels["node"] = n, !.nodeName = nn,
                   !.labels["uuid"] = p,
                   !.containers = <<[Container EXCEPT !.env["mode"] = me],
                                    [Container EXCEPT !.env["partition"] = pe,
                                                      !.env["node"] = ne]>>] :
        ml \in {Absent, "manual", Empty}, ma \in {Absent, "auto", wrong},
        p \in {Absent, gpus, nodeless, wrong}, n \in {Absent, n1, dotted}, nn \in {Empty, n2},
        me \in {Absent, "auto", "manual"}, pe \in {Absent, batch, wrong}, ne \in {Absent, n2}}

\* What it asks for.
HowMuchPods ==
    {[Plain EXCEPT !.labels["ncpus"] = c, !.annotations["ngpus"] = g, !.terms = t,
                   !.containers = <<[Container EXCEPT !.env["ngpus"] = ge, !.cpu = 2, !.gpu = g1],
                                    [Container EXCEPT !.cpu = 1, !.gpu = g2]>>] :
        c \in {Absent, 3, -3, wrong}, g \in {Absent, 1, -1}, ge \in {Absent, 0},
        g1 \in {Absent, 1}, g2 \in {Absent, 1, 2},
        t \in {{}} \cup {{{[nodes |-> s, notIn |-> {}]} : s \in alternatives} :
                                alternatives \in {{{n1}}, {{n2}, {outside}}, {{n1}, {n2}}}}}

Pods == WhetherPods \cup WherePods \cup HowMuchPods
=============================================================================
