--------------------------- MODULE InventorySync ----------------------------
(***************************************************************************)
(* The inventory pipeline end to end: the informers feed the uploader, the *)
(* uploader sends batches, and the control plane (external) applies each   *)
(* batch to its table of objects, the last write to a row winning.         *)
(***************************************************************************)
EXTENDS Integers, Sequences, FiniteSetsExt

CONSTANTS Obj, InitialObjects, MaxVersion,
          Capacity, BatchSize, MaxBatchBytes, InitialBackoff, MaxBackoff,
          MaxEvents, MaxNetFaults, MaxDiskFaults, MaxRestarts

\* A cluster has finitely many objects; the limits are positive constants of
\* the code.
ASSUME SyncAssumption ==
    /\ IsFiniteSet(Obj)
    /\ {MaxVersion, Capacity, BatchSize} \subseteq Nat \ {0}

VARIABLES cluster, version, cache, pending,
          buf, spill, torn, notify, signalling, seq, seqFile, needSnapshot,
          backoff, pc, cur, rest, produced, netFaults, diskFaults, restarts,
          rows     \* the control plane's version of each object, 0: no row

I == INSTANCE Informers
U == INSTANCE Uploader WITH
        Event <- I!Delta, SyncEvent <- I!Sync,
        Snapshots <- {},
        EventSize <- [e \in I!Delta \cup I!Sync |-> 1]

informerVars == <<cluster, version, cache, pending>>
uploaderVars == <<buf, spill, torn, notify, signalling, seq, seqFile,
                  needSnapshot, backoff, pc, cur, rest, produced, netFaults,
                  diskFaults, restarts>>
vars == <<informerVars, uploaderVars, rows>>

Init ==
    /\ I!Init
    /\ U!Init
    /\ rows = [o \in Obj |-> 0]

\* The version of its object that an event reports.
Value(ev) == IF ev.op = "delete" THEN 0 ELSE ev.ver

\* The server's transaction: each row takes the last event about it.
Apply(table, events) ==
    [o \in Obj |->
        LET about == {i \in DOMAIN events : events[i].ref = o}
        IN  IF about = {} THEN table[o] ELSE Value(events[Max(about)])]

ClusterStep ==
    /\ \E o \in Obj : I!ClusterWrite(o) \/ I!ClusterDelete(o)
    /\ UNCHANGED <<uploaderVars, rows>>

Observe(o) == I!Observe(o) /\ UNCHANGED <<uploaderVars, rows>>

Handle(o) == I!Handle(o) /\ U!Enqueue(I!ToEvent(o)) /\ UNCHANGED rows

Signal == U!Signal /\ UNCHANGED <<informerVars, rows>>

Snapshot ==
    /\ \E events \in I!Snapshot : U!BeginSnapshot(events)
    /\ UNCHANGED <<informerVars, rows>>

SendOK ==
    /\ U!SendOK
    /\ rows' = Apply(rows, cur.events)
    /\ UNCHANGED informerVars

\* Either the request or only its answer was lost.
SendErr ==
    /\ U!SendErr
    /\ rows' \in {rows, Apply(rows, cur.events)}
    /\ UNCHANGED informerVars

LocalStep ==
    /\ \/ U!ContinueSnapshot
       \/ U!Take
       \/ U!TakeSpilled
       \/ U!Sleep
       \/ U!PersistTruncate
       \/ U!PersistWrite
       \/ U!Wake
    /\ UNCHANGED <<informerVars, rows>>

Restart == U!Restart /\ I!Restart /\ UNCHANGED rows

RunStep == Snapshot \/ SendOK \/ SendErr \/ LocalStep

Next ==
    \/ ClusterStep
    \/ \E o \in Obj : Observe(o) \/ Handle(o)
    \/ Signal
    \/ RunStep
    \/ Restart

Spec == Init /\ [][Next]_vars

\* The informers' and the uploader's goroutines are scheduled.
FairSpec ==
    /\ Spec
    /\ \A o \in Obj : WF_vars(Observe(o)) /\ WF_vars(Handle(o))
    /\ WF_vars(Signal)
    /\ WF_vars(RunStep)

-----------------------------------------------------------------------------
(* Properties. *)

\* Nothing is on its way from the cluster to the control plane.
Quiet ==
    /\ cache = cluster
    /\ \A o \in Obj : pending[o] = << >>
    /\ buf = << >> /\ spill = << >>
    /\ pc = "idle"

\* When everything has been sent, the control plane has the current version of
\* every object that exists, whatever sends failed (their batches applied or
\* not) and whenever the process restarted; it has no row for an object that
\* does not exist, unless a restart lost the delete, which a snapshot does not
\* repair.
MirrorsCluster ==
    Quiet => \A o \in Obj :
        \/ rows[o] = cluster[o]
        \/ cluster[o] = 0 /\ restarts > 0

\* Every call of Enqueue finds room in the buffer.
NoOverflow == [][produced' > produced => Len(buf) < Capacity]_vars

\* The control plane eventually has, and keeps, the version of every object
\* that exists, once the cluster stops changing and sends succeed.
Converges == <>[](\A o \in Obj : cluster[o] # 0 => rows[o] = cluster[o])
=============================================================================
