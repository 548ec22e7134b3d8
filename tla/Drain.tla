------------------------------- MODULE Drain --------------------------------
(***************************************************************************)
(* internal/executor: the drain-node and uncordon-node handlers, each in   *)
(* its own goroutine, against a cluster whose scheduler, disruption        *)
(* budgets, controllers and operators go on working.                       *)
(*                                                                         *)
(* A pod is its namespace and name: a controller may create one of the     *)
(* same name again, on any schedulable node.  An eviction that succeeds    *)
(* starts the pod's graceful deletion; the pod is gone when its kubelet    *)
(* has stopped it.  Waiting is counted in the pauses of two seconds        *)
(* between two attempts; calls take no time.                               *)
(***************************************************************************)
EXTENDS Naturals, SequencesExt

CONSTANTS
    Node, Pod,
    Evictable,     \* pods that are no mirror, DaemonSet or protected pods
    Drains,        \* handlers of drain-node commands
    Uncordons,     \* handlers of uncordon-node commands
    NodeOf,        \* the node a command is for
    Nowhere,       \* the place of a pod that does not exist
    StallRetries,  \* DrainStallTimeout, in pauses
    MaxFaults      \* bound: failing calls of the API server

Handler == Drains \cup Uncordons

ASSUME DrainAssumption ==
    /\ Evictable \subseteq Pod /\ Nowhere \notin Node
    /\ Drains \cap Uncordons = {}
    /\ NodeOf \in [Handler -> Node]
    /\ StallRetries \in Nat /\ MaxFaults \in Nat

VARIABLES
    cordoned,   \* unschedulable nodes
    where,      \* the node of each pod
    leaving,    \* pods that are being deleted
    blocked,    \* pods a disruption budget protects at the moment
    pc,         \* per handler: where it is
    todo,       \* the listed pods it has not dealt with
    current,    \* the one of them it is trying to evict
    waited,     \* pauses since lastSuccess
    reports,    \* what it has reported
    cancelled,  \* the context is done
    reopened,   \* history: the node was made schedulable since the cordon
    faults

vars == <<cordoned, where, leaving, blocked, pc, todo, current, waited, reports,
          cancelled, reopened, faults>>

Terminal == {"succeeded", "failed"}

Say(h, statuses) == reports' = [reports EXCEPT ![h] = @ \o statuses]
GoTo(h, place) == pc' = [pc EXCEPT ![h] = place]
Finish(h, statuses) == Say(h, statuses) /\ GoTo(h, "done")

\* A call fails; every call does once the context is done.
ApiFault ==
    \/ cancelled /\ UNCHANGED faults
    \/ /\ ~cancelled /\ faults < MaxFaults
       /\ faults' = faults + 1

ApiAnswers == ~cancelled /\ UNCHANGED faults

\* Some node becomes schedulable: no drain of it can rely on its cordon.
Reopen(n) ==
    /\ cordoned' = cordoned \ {n}
    /\ reopened' = [h \in Drains |-> reopened[h] \/ NodeOf[h] = n]

\* The start of drainNode: get the node and cordon it.  An empty name fails like
\* a node that cannot be read; a patch that fails may have been executed.
Cordon(h) ==
    /\ pc[h] = "queued"
    /\ \/ /\ ApiAnswers
          /\ cordoned' = cordoned \cup {NodeOf[h]}
          /\ reopened' = [reopened EXCEPT ![h] = FALSE]
          /\ Say(h, <<"validating">>) /\ GoTo(h, "list")
       \/ /\ ApiFault
          /\ cordoned' \in {cordoned, cordoned \cup {NodeOf[h]}}
          /\ Finish(h, <<"validating", "failed">>)
          /\ UNCHANGED reopened
    /\ UNCHANGED <<where, leaving, blocked, todo, current, waited, cancelled>>

\* The pods to evict, those that are being deleted among them; the API server
\* lists them in any order.
ListPods(h) ==
    /\ pc[h] = "list"
    /\ LET listed == {p \in Evictable : where[p] = NodeOf[h]}
       IN  \/ /\ ApiAnswers /\ listed = {}
              /\ Finish(h, <<"succeeded">>)
              /\ UNCHANGED <<todo, current>>
           \/ /\ ApiAnswers /\ listed # {}
              /\ todo' = [todo EXCEPT ![h] = listed]
              /\ \E p \in listed : current' = [current EXCEPT ![h] = p]
              /\ GoTo(h, "evict")
              /\ UNCHANGED reports
           \/ /\ ApiFault
              /\ Finish(h, <<"failed">>)
              /\ UNCHANGED <<todo, current>>
    /\ UNCHANGED <<cordoned, where, leaving, blocked, waited, cancelled, reopened>>

\* Mutant: a refused eviction is taken for one that was not needed.
NotFoundOrBlocked(p) == where[p] = Nowhere \/ p \in blocked

\* apierrors.IsNotFound.
NotFound(p) == where[p] = Nowhere

\* lastSuccess = now, progress, and the next pod or the end.
Evicted(h) ==
    /\ todo' = [todo EXCEPT ![h] = @ \ {current[h]}]
    /\ waited' = [waited EXCEPT ![h] = 0]
    /\ \/ /\ \E p \in todo[h] \ {current[h]} : current' = [current EXCEPT ![h] = p]
          /\ Say(h, <<"progress">>)
          /\ UNCHANGED pc
       \/ /\ todo[h] \ {current[h]} = {}
          /\ Finish(h, <<"progress", "succeeded">>)
          /\ UNCHANGED current

\* Mutant: lastSuccess is set after every pause.
PausedAfresh(h) == [waited EXCEPT ![h] = 0]

Paused(h) == [waited EXCEPT ![h] = @ + 1]

\* Mutant: one pause too many.
StalledLate(h) == waited[h] > StallRetries

\* Mutant: one pause too few.
StalledEarly(h) == waited[h] + 1 >= StallRetries

\* time.Since(lastSuccess) >= DrainStallTimeout.
Stalled(h) == waited[h] >= StallRetries

\* An eviction was refused: pause and try again, give up, or fail when the
\* context is done before the pause or was done during the last one.
Refused(h) ==
    /\ \/ /\ Stalled(h)
          /\ Finish(h, <<"progress">>)
          /\ UNCHANGED waited
       \/ /\ cancelled /\ (~Stalled(h) \/ waited[h] > 0)
          /\ Finish(h, <<"failed">>)
          /\ UNCHANGED waited
       \/ /\ ~Stalled(h) /\ ~cancelled
          /\ waited' = Paused(h)
          /\ UNCHANGED <<pc, reports>>
    /\ UNCHANGED <<todo, current>>

\* The Eviction API (external): a budget does not hold a pod that is already
\* being deleted.
Protected(p) == p \in blocked \ leaving

\* One round of the eviction loop.  A failing call may have been executed.
Evict(h) ==
    /\ pc[h] = "evict"
    /\ LET p == current[h]
       IN  \/ /\ ApiAnswers /\ NotFound(p)
              /\ Evicted(h)
              /\ UNCHANGED leaving
           \/ /\ ApiAnswers /\ ~NotFound(p) /\ ~Protected(p)
              /\ leaving' = leaving \cup {p}
              /\ Evicted(h)
           \/ /\ ApiAnswers /\ ~NotFound(p) /\ Protected(p)
              /\ Refused(h)
              /\ UNCHANGED leaving
           \/ /\ ApiFault
              /\ Refused(h)
              /\ \/ UNCHANGED leaving
                 \/ /\ where[p] # Nowhere /\ ~Protected(p)
                    /\ leaving' = leaving \cup {p}
    /\ UNCHANGED <<cordoned, where, blocked, cancelled, reopened>>

Uncordon(h) ==
    /\ pc[h] = "queued"
    /\ \/ /\ ApiAnswers
          /\ Reopen(NodeOf[h])
          /\ Finish(h, <<"validating", "succeeded">>)
       \/ /\ ApiFault
          /\ Reopen(NodeOf[h]) \/ UNCHANGED <<cordoned, reopened>>
          /\ Finish(h, <<"validating", "failed">>)
    /\ UNCHANGED <<where, leaving, blocked, todo, current, waited, cancelled>>

-----------------------------------------------------------------------------
(* The cluster. *)

ClusterStep ==
    /\ \/ \E p \in Pod, n \in Node \ cordoned :        \* scheduler
             /\ where[p] = Nowhere
             /\ where' = [where EXCEPT ![p] = n]
             /\ UNCHANGED <<cordoned, leaving, blocked, cancelled, reopened>>
       \/ \E p \in Pod \ leaving :                     \* owner
             /\ where[p] # Nowhere
             /\ leaving' = leaving \cup {p}
             /\ UNCHANGED <<cordoned, where, blocked, cancelled, reopened>>
       \/ \E p \in leaving :                           \* kubelet
             /\ where' = [where EXCEPT ![p] = Nowhere]
             /\ leaving' = leaving \ {p}
             /\ UNCHANGED <<cordoned, blocked, cancelled, reopened>>
       \/ /\ blocked' \in SUBSET Evictable             \* disruption budgets
          /\ UNCHANGED <<cordoned, where, leaving, cancelled, reopened>>
       \/ \E n \in cordoned :                          \* kubectl uncordon
             /\ Reopen(n)
             /\ UNCHANGED <<where, leaving, blocked, cancelled>>
       \/ /\ cancelled' = TRUE                         \* shutdown
          /\ UNCHANGED <<cordoned, where, leaving, blocked, reopened>>
    /\ UNCHANGED <<pc, todo, current, waited, reports, faults>>

Init ==
    /\ cordoned = {}
    /\ where \in [Pod -> Node \cup {Nowhere}]
    /\ leaving \in SUBSET {p \in Pod : where[p] # Nowhere}
    /\ blocked \in SUBSET Evictable
    /\ pc = [h \in Handler |-> "queued"]
    /\ todo = [h \in Handler |-> {}]
    /\ current = [h \in Handler |-> Nowhere]
    /\ waited = [h \in Handler |-> 0]
    /\ reports = [h \in Handler |-> << >>]
    /\ cancelled = FALSE
    /\ reopened = [h \in Drains |-> FALSE]
    /\ faults = 0

DrainNode(h) == Cordon(h) \/ ListPods(h) \/ Evict(h)

Next ==
    \/ \E h \in Drains : DrainNode(h)
    \/ \E h \in Uncordons : Uncordon(h)
    \/ ClusterStep

Spec == Init /\ [][Next]_vars

\* Goroutines are scheduled, calls return and pauses end.
FairSpec == Spec /\ \A h \in Drains : WF_vars(DrainNode(h))

-----------------------------------------------------------------------------
(* Correctness. *)

\* Every variable keeps its type, and the wait stays within the stall timeout.
TypeOK ==
    /\ cordoned \in SUBSET Node
    /\ where \in [Pod -> Node \cup {Nowhere}]
    /\ leaving \in SUBSET Pod
    /\ \A p \in leaving : where[p] # Nowhere
    /\ blocked \in SUBSET Evictable
    /\ pc \in [Handler -> {"queued", "list", "evict", "done"}]
    /\ todo \in [Handler -> SUBSET Evictable]
    /\ current \in [Handler -> Evictable \cup {Nowhere}]
    /\ \A h \in Handler : pc[h] = "evict" => current[h] \in todo[h]
    /\ waited \in [Handler -> 0..StallRetries]
    /\ reports \in [Handler -> Seq(Terminal \cup {"validating", "progress"})]
    /\ cancelled \in BOOLEAN
    /\ reopened \in [Drains -> BOOLEAN]
    /\ faults \in Nat

Reported(h, status) == reports[h] # << >> /\ Last(reports[h]) = status

\* Once a drain has reported succeeded, every evictable pod that is still on its
\* node is being deleted, and none comes, unless somebody made the node
\* schedulable since the cordon: the cordon precedes the listing, and every listed
\* pod is evicted or gone (executor.go:608-681).  The drain does not wait for the
\* pods to stop (executor.go:651).
DrainedNode ==
    \A h \in Drains :
        Reported(h, "succeeded") /\ ~reopened[h]
        => \A p \in Evictable : where[p] = NodeOf[h] => p \in leaving

\* Every drain ends: evictions that a disruption budget refuses are given up
\* after the stall timeout (executor.go:654-664).
EveryDrainEnds == \A h \in Drains : <>(pc[h] = "done")

\* Every drain and uncordon that has returned reported its outcome last and
\* once, as SERVER.md:176 asks for, with one exception: a drain that returns in
\* the middle of its list says so with a progress report, and only when a whole
\* stall timeout has passed since its last success (executor.go:655-663).
OutcomeReported ==
    \A h \in Handler :
        /\ pc[h] = "done" =>
              \/ reports[h] # << >> /\ Last(reports[h]) \in Terminal
              \/ /\ Reported(h, "progress") /\ todo[h] # {}
                 /\ waited[h] >= StallRetries
        /\ \A i \in 1..Len(reports[h]) :
              reports[h][i] \in Terminal => i = Len(reports[h]) /\ pc[h] = "done"
=============================================================================
