------------------------------- MODULE Binding -------------------------------
(***************************************************************************)
(* What the injector promises to the pods, without the calls it makes: a   *)
(* request may submit jobs; a config-map name is held by one request at a  *)
(* time and bound to a job submitted for that name; the containers of a    *)
(* pod receive what the config-map of its name provides at that moment.    *)
(* No job ever comes from another name.                                    *)
(***************************************************************************)
CONSTANTS
    Requests,   \* pod CREATE requests
    Names,      \* config-map names
    NameFor,     \* NameFor[p] : the name computed for request p
    Jobs,       \* Slurm jobs
    Nobody,     \* "no request"
    NoJob       \* "no job"

VARIABLES
    owner,      \* owner[j]   : the request job j was submitted for
    binding,    \* binding[n] : who holds the name, the job and the variables it has
    got         \* got[p]     : the job whose variables the containers of p have

Unbound == [uuid |-> Nobody, jobid |-> NoJob, env |-> NoJob]

Init ==
    /\ owner = [j \in Jobs |-> Nobody]
    /\ binding = [n \in Names |-> Unbound]
    /\ got = [p \in Requests |-> NoJob]

\* j was submitted for a request that has the name n.
For(j, n) == j \in Jobs /\ owner[j] \in Requests /\ NameFor[owner[j]] = n

\* A job is submitted for one request, once.
Submit(p, j) ==
    /\ owner[j] = Nobody
    /\ owner' = [owner EXCEPT ![j] = p]
    /\ UNCHANGED <<binding, got>>

\* A request takes its name over, from itself or from another one.
Reserve(p) ==
    /\ binding' = [binding EXCEPT ![NameFor[p]] = [uuid |-> p, jobid |-> NoJob, env |-> NoJob]]
    /\ UNCHANGED <<owner, got>>

\* The job of a name is forgotten: the next one gave no id.  The variables stay.
Unbind(n) ==
    /\ binding' = [binding EXCEPT ![n].jobid = NoJob]
    /\ UNCHANGED <<owner, got>>

Bind(n, j) ==
    /\ binding[n] # Unbound /\ For(j, n)
    /\ binding' = [binding EXCEPT ![n].jobid = j]
    /\ UNCHANGED <<owner, got>>

\* The variables come with the job they belong to.
Provide(n, j) ==
    /\ binding[n] # Unbound /\ For(j, n)
    /\ binding' = [binding EXCEPT ![n] = [uuid |-> @.uuid, jobid |-> j, env |-> j]]
    /\ UNCHANGED <<owner, got>>

Release(n) ==
    /\ binding' = [binding EXCEPT ![n] = Unbound]
    /\ UNCHANGED <<owner, got>>

Receive(p) ==
    /\ got' = [got EXCEPT ![p] = binding[NameFor[p]].env]
    /\ UNCHANGED <<owner, binding>>

Next ==
    \/ \E p \in Requests : Reserve(p) \/ Receive(p) \/ \E j \in Jobs : Submit(p, j)
    \/ \E n \in Names : Release(n) \/ Unbind(n) \/ \E j \in Jobs : Bind(n, j) \/ Provide(n, j)

Spec == Init /\ [][Next]_<<owner, binding, got>>
=============================================================================
