------------------------------ MODULE Executor ------------------------------
(***************************************************************************)
(* internal/executor and internal/drift: one goroutine per command runs    *)
(* HandleCommand against the API server, concurrently with the handlers of *)
(* other commands and with everybody else who writes to the cluster.       *)
(*                                                                         *)
(* The verbs share a shape that the handlers spell out one by one: look at *)
(* the live object, apply the drift policy, dry-run the write, report      *)
(* applying, write, and end with a terminal report.  Node drains are in    *)
(* module Drain.                                                           *)
(*                                                                         *)
(* The content of an object has a part that manifests set and a part they  *)
(* omit.  HashObject is taken to be injective, so a hash is the content it *)
(* was computed from.                                                      *)
(***************************************************************************)
EXTENDS Naturals, SequencesExt

CONSTANTS
    Obj,           \* API objects, Helm releases among them
    Value,         \* values of either part of an object's content
    Absent,        \* what the API server answers for no object
    None,          \* no expected hash, no annotation, a part not set
    Command,       \* the commands
    Batches,       \* which of them are handled at the same time
    DriftPolicy,   \* cfg.DriftPolicy
    DryRunFirst,   \* cfg.DryRunFirst
    MaxForeign,    \* bound: writes to the cluster by others
    MaxFaults      \* bound: failing calls of the API server

Content == [own : Value, rest : Value]

\* A command: the objects of its manifest or its target, the object it looks at
\* first when that is another one (a Certificate), the value it sets, its
\* expected hash and override flag, and whether payload, patch type or values
\* can be parsed.
CommandType ==
    [verb : {"apply", "patch", "delete", "cert-rotate", "helm-install",
             "helm-upgrade", "helm-uninstall", "cluster-upgrade"},
     targets : Seq(Obj), subject : Obj \cup {None}, own : Value,
     expected : Content \cup {None}, override : BOOLEAN, wellFormed : BOOLEAN]

\* What a command sends: a manifest may leave the rest to the server's defaults.
Sent == [own : Value, rest : Value \cup {None}]

ASSUME ExecutorAssumption ==
    /\ Command \subseteq CommandType
    /\ \A c \in Command :
          /\ c.targets # << >>
          /\ c.verb # "apply" => Len(c.targets) = 1
          /\ c.verb = "cert-rotate" => c.subject \in Obj
    /\ Batches \subseteq SUBSET Command
    /\ DriftPolicy \in {"refuse", "overwrite", "overwrite-with-approval"}
    /\ DryRunFirst \in BOOLEAN
    /\ MaxForeign \in Nat /\ MaxFaults \in Nat

Object == [rv : Nat, content : Content, stamp : Sent \cup {None}]

ASSUME AbsentAssumption == Absent \notin Object /\ None \notin Value

VARIABLES
    store,     \* the API server's objects
    clock,     \* the last resourceVersion it gave out
    pc, idx,   \* per command: where its handler is, and at which object
    live,      \* the object the handler last read
    reports,   \* the statuses it has reported
    \* history
    written,   \* the objects it has changed
    foreign, faults

vars == <<store, clock, pc, idx, live, reports, written, foreign, faults>>

Terminal == {"succeeded", "failed", "refused"}
Target(c) == c.targets[idx[c]]
Subject(c) == IF c.verb = "cert-rotate" THEN c.subject ELSE Target(c)

ApiFault ==
    /\ faults < MaxFaults
    /\ faults' = faults + 1

Say(c, statuses) == reports' = [reports EXCEPT ![c] = @ \o statuses]
GoTo(c, place) == pc' = [pc EXCEPT ![c] = place]

\* The last report of a handler and its return.
Finish(c, statuses) == Say(c, statuses) /\ GoTo(c, "done")

-----------------------------------------------------------------------------
(* The API server: which writes it accepts, and what they do.              *)

\* Mutant: the update carries no resourceVersion.
ApplyAdmittedUnversioned(c) == live[c] = Absent <=> store[Target(c)] = Absent

\* createOrUpdate: a create needs the object absent, an update needs it at the
\* resourceVersion that was read.
ApplyAdmitted(c) ==
    \/ live[c] = Absent /\ store[Target(c)] = Absent
    \/ /\ live[c] # Absent /\ store[Target(c)] # Absent
       /\ live[c].rv = store[Target(c)].rv

\* The writes of the other verbs carry no precondition but existence, and
\* deleting what is gone counts as done.
PatchAdmitted(c) == store[Target(c)] # Absent
DeleteAdmitted(c) == TRUE
CertRotateAdmitted(c) == store[Target(c)] = Absent
InstallAdmitted(c) == store[Target(c)] = Absent
UpgradeAdmitted(c) == store[Target(c)] # Absent
UninstallAdmitted(c) == store[Target(c)] # Absent

Admits(c) ==
    \/ c.verb = "apply" /\ ApplyAdmitted(c)
    \/ c.verb = "patch" /\ PatchAdmitted(c)
    \/ c.verb = "delete" /\ DeleteAdmitted(c)
    \/ c.verb = "cert-rotate" /\ CertRotateAdmitted(c)
    \/ c.verb = "helm-install" /\ InstallAdmitted(c)
    \/ c.verb = "helm-upgrade" /\ UpgradeAdmitted(c)
    \/ c.verb = "helm-uninstall" /\ UninstallAdmitted(c)

\* What the handler sends.  mergeForUpdate overlays the manifest on the object
\* that was read; a patch is overlaid by the server on the object it has.
Body(c) ==
    CASE c.verb = "apply" /\ live[c] # Absent ->
            [live[c].content EXCEPT !.own = c.own]
      [] c.verb \in {"patch", "helm-upgrade"} ->
            [store[Target(c)].content EXCEPT !.own = c.own]
      [] OTHER -> [own |-> c.own, rest |-> None]

\* drift.Stamp annotates what apply sends; other writes leave the annotation.
Stamp(c) ==
    CASE c.verb = "apply" -> Body(c)
      [] c.verb = "patch" -> store[Target(c)].stamp
      [] OTHER -> None

Removes(c) == c.verb \in {"delete", "helm-uninstall"}

\* The server defaults what a create leaves out.
Stored(body, default) ==
    IF body.rest = None THEN [body EXCEPT !.rest = default] ELSE body

Commit(c) ==
    LET o == Target(c)
    IN  /\ clock' = clock + 1
        /\ written' = [written EXCEPT ![c] = @ \cup {o}]
        /\ \/ /\ Removes(c)
              /\ store' = [store EXCEPT ![o] = Absent]
           \/ /\ ~Removes(c)
              /\ \E default \in Value :
                    store' = [store EXCEPT ![o] =
                                [rv |-> clock + 1, stamp |-> Stamp(c),
                                 content |-> Stored(Body(c), default)]]

NoCommit == UNCHANGED <<store, clock, written>>

-----------------------------------------------------------------------------
(* The handlers. *)

\* decodeManifest, parseValues: the payload yields no object, or the values no
\* map.  An uninstall parses nothing.
Undecodable(c) == c.verb \in {"apply", "helm-install", "helm-upgrade"} /\ ~c.wellFormed

\* Mutant: the unsupported verbs have no case of their own.
UnsupportedPatchType(c) == c.verb = "patch" /\ ~c.wellFormed

\* A cluster upgrade, or a patch of an unknown type.
Unsupported(c) == c.verb = "cluster-upgrade" \/ (c.verb = "patch" /\ ~c.wellFormed)

\* HandleCommand up to the first call of the API server.
Begin(c) ==
    /\ pc[c] = "queued"
    /\ \/ /\ Unsupported(c)
          /\ Finish(c, <<"validating", "refused">>)
       \/ /\ Undecodable(c)
          /\ Finish(c, <<"validating", "failed">>)
       \/ /\ ~Undecodable(c) /\ ~Unsupported(c)
          /\ Say(c, <<"validating">>)
          /\ GoTo(c, "fetch")
    /\ NoCommit
    /\ UNCHANGED <<idx, live, foreign, faults>>

\* checkDrift.
Proceeds(c, content) ==
    \/ c.expected \in {None, content}
    \/ DriftPolicy = "overwrite"
    \/ DriftPolicy = "overwrite-with-approval" /\ c.override

Prepared(c) == GoTo(c, "dryrun") /\ UNCHANGED reports

\* The end of the checks of the verbs that look for drift.
Gated(c, o) ==
    \/ ~Proceeds(c, o.content) /\ Finish(c, <<"refused">>)
    \/ Proceeds(c, o.content) /\ Prepared(c)

\* Mutant: a refused apply goes on.
ApplyFetchedFallsThrough(c, o) ==
    /\ GoTo(c, "dryrun")
    /\ IF o # Absent /\ ~Proceeds(c, o.content)
       THEN Say(c, <<"refused">>)
       ELSE UNCHANGED reports

\* What each verb makes of the live object o.
ApplyFetched(c, o) ==
    \/ o = Absent /\ Prepared(c)
    \/ o # Absent /\ Gated(c, o)

\* Mutant: a patch is sent without a drift check.
PatchFetchedUngated(c, o) ==
    \/ o = Absent /\ Finish(c, <<"failed">>)
    \/ o # Absent /\ Prepared(c)

PatchFetched(c, o) ==
    \/ o = Absent /\ Finish(c, <<"failed">>)
    \/ o # Absent /\ Gated(c, o)

DeleteFetched(c, o) ==
    \/ o = Absent /\ Finish(c, <<"succeeded">>)
    \/ o # Absent /\ Gated(c, o)

\* A Certificate that cannot be read or has no issuerRef fails the command.
CertRotateFetched(c, o) ==
    \/ (o = Absent \/ ~c.wellFormed) /\ Finish(c, <<"failed">>)
    \/ o # Absent /\ c.wellFormed /\ Prepared(c)

UpgradeFetched(c, o) ==
    \/ o = Absent /\ Finish(c, <<"failed">>)
    \/ o # Absent /\ Prepared(c)

Fetched(c, o) ==
    \/ c.verb = "apply" /\ ApplyFetched(c, o)
    \/ c.verb = "patch" /\ PatchFetched(c, o)
    \/ c.verb = "delete" /\ DeleteFetched(c, o)
    \/ c.verb = "cert-rotate" /\ CertRotateFetched(c, o)
    \/ c.verb = "helm-upgrade" /\ UpgradeFetched(c, o)
    \/ c.verb \in {"helm-install", "helm-uninstall"} /\ Prepared(c)

\* The lookup, whose result an install and an uninstall do not ask for; naming
\* the resource, reading it, setting Helm up and finding the chart may fail.
Fetch(c) ==
    /\ pc[c] = "fetch"
    /\ \/ /\ Fetched(c, store[Subject(c)])
          /\ live' = [live EXCEPT ![c] = store[Subject(c)]]
          /\ UNCHANGED faults
       \/ /\ ApiFault
          /\ Finish(c, <<"failed">>)
          /\ UNCHANGED live
    /\ NoCommit
    /\ UNCHANGED <<idx, foreign>>

\* What the server's dry run accepts; Helm's dry run of an install does not look
\* whether the release exists.
DryRunAdmits(c) == Admits(c) \/ c.verb = "helm-install"

DryRun(c) ==
    /\ pc[c] = "dryrun"
    /\ \/ /\ ~DryRunFirst \/ c.verb = "helm-uninstall"
          /\ GoTo(c, "write")
          /\ UNCHANGED <<reports, faults>>
       \/ /\ DryRunFirst /\ c.verb # "helm-uninstall"
          /\ \/ /\ DryRunAdmits(c)
                /\ Say(c, <<"dry-run">>) /\ GoTo(c, "write")
                /\ UNCHANGED faults
             \/ /\ ~DryRunAdmits(c)
                /\ Finish(c, <<"failed">>)
                /\ UNCHANGED faults
             \/ ApiFault /\ Finish(c, <<"failed">>)
    /\ NoCommit
    /\ UNCHANGED <<idx, live, foreign>>

\* Mutant: the last object of a manifest is left out.
LastObjectEarly(c) == idx[c] + 1 >= Len(c.targets)

\* Mutant: the loop does not stop.
LastObjectNever(c) == idx[c] > Len(c.targets)

LastObject(c) == idx[c] = Len(c.targets)

\* After a write that succeeded: re-stamp, the next object, or the end.
Continue(c) ==
    \/ /\ c.verb = "patch"
       /\ Say(c, <<"applying">>) /\ GoTo(c, "restamp")
       /\ UNCHANGED idx
    \/ /\ c.verb # "patch" /\ ~LastObject(c)
       /\ Say(c, <<"applying">>) /\ GoTo(c, "fetch")
       /\ idx' = [idx EXCEPT ![c] = @ + 1]
    \/ /\ c.verb # "patch" /\ LastObject(c)
       /\ Finish(c, <<"applying", "succeeded">>)
       /\ UNCHANGED idx

\* The real write.  A call that fails may have been executed all the same.
Write(c) ==
    /\ pc[c] = "write"
    /\ \/ /\ Admits(c) /\ Commit(c)
          /\ Continue(c)
          /\ UNCHANGED faults
       \/ /\ ~Admits(c) /\ NoCommit
          /\ Finish(c, <<"applying", "failed">>)
          /\ UNCHANGED <<idx, faults>>
       \/ /\ ApiFault
          /\ \/ Admits(c) /\ Commit(c)
             \/ NoCommit
          /\ Finish(c, <<"applying", "failed">>)
          /\ UNCHANGED idx
    /\ UNCHANGED <<live, foreign>>

\* patch reads the object again ...
RestampGet(c) ==
    /\ pc[c] = "restamp"
    /\ \/ /\ store[Target(c)] # Absent
          /\ live' = [live EXCEPT ![c] = store[Target(c)]]
          /\ GoTo(c, "stamp")
          /\ UNCHANGED <<reports, faults>>
       \/ /\ \/ store[Target(c)] = Absent /\ UNCHANGED faults
             \/ ApiFault
          /\ Finish(c, <<"succeeded">>)
          /\ UNCHANGED live
    /\ NoCommit
    /\ UNCHANGED <<idx, foreign>>

\* ... and annotates it with the hash of what it read; a failure is logged.
RestampPatch(c) ==
    /\ pc[c] = "stamp"
    /\ LET o == Target(c)
       IN  \/ /\ store[o] # Absent
              /\ store' = [store EXCEPT ![o].stamp = live[c].content,
                                        ![o].rv = clock + 1]
              /\ clock' = clock + 1
              /\ UNCHANGED faults
           \/ /\ \/ store[o] = Absent /\ UNCHANGED faults
                 \/ ApiFault
              /\ UNCHANGED <<store, clock>>
    /\ Finish(c, <<"succeeded">>)
    /\ UNCHANGED <<idx, live, written, foreign>>

-----------------------------------------------------------------------------
\* Others create, change and delete objects; a change keeps the annotation.
Foreign(o) ==
    /\ foreign < MaxForeign
    /\ foreign' = foreign + 1
    /\ clock' = clock + 1
    /\ \E new \in Content \cup {Absent} :
          /\ store[o] = Absent => new # Absent
          /\ store' = [store EXCEPT ![o] =
                IF new = Absent THEN Absent
                ELSE [rv |-> clock + 1, content |-> new,
                      stamp |-> IF store[o] = Absent THEN None ELSE store[o].stamp]]
    /\ UNCHANGED <<pc, idx, live, reports, written, faults>>

Init ==
    /\ \E present \in SUBSET Obj, content \in Content :
          store = [o \in Obj |-> IF o \in present
                                 THEN [rv |-> 0, content |-> content, stamp |-> None]
                                 ELSE Absent]
    /\ clock = 0
    /\ \E batch \in Batches :
          pc = [c \in Command |-> IF c \in batch THEN "queued" ELSE "none"]
    /\ idx = [c \in Command |-> 1]
    /\ live = [c \in Command |-> Absent]
    /\ reports = [c \in Command |-> << >>]
    /\ written = [c \in Command |-> {}]
    /\ foreign = 0 /\ faults = 0

Handle(c) ==
    Begin(c) \/ Fetch(c) \/ DryRun(c) \/ Write(c) \/ RestampGet(c) \/ RestampPatch(c)

Next ==
    \/ \E c \in Command : Handle(c)
    \/ \E o \in Obj : Foreign(o)

Spec == Init /\ [][Next]_vars
FairSpec == Spec /\ \A c \in Command : WF_vars(Handle(c))

-----------------------------------------------------------------------------
(* Correctness. *)

\* Every variable keeps its type; the handler never runs past its manifest.
TypeOK ==
    /\ store \in [Obj -> Object \cup {Absent}]
    /\ clock \in Nat
    /\ pc \in [Command -> {"none", "queued", "fetch", "dryrun", "write", "restamp", "stamp", "done"}]
    /\ idx \in [Command -> Nat \ {0}]
    /\ \A c \in Command : idx[c] <= Len(c.targets)
    /\ live \in [Command -> Object \cup {Absent}]
    /\ \A c \in Command : pc[c] = "stamp" => live[c] # Absent
    /\ reports \in [Command -> Seq(Terminal \cup {"validating", "dry-run", "applying"})]
    /\ written \in [Command -> SUBSET Obj]
    /\ foreign \in Nat /\ faults \in Nat

\* A handler reports exactly one of succeeded, failed and refused, as its last
\* report and on every path that returns (executor.go:77-589, 725-783;
\* SERVER.md:176).
OneTerminal ==
    \A c \in Command :
        /\ pc[c] = "done" => reports[c] # << >> /\ Last(reports[c]) \in Terminal
        /\ \A i \in 1..Len(reports[c]) :
              reports[c][i] \in Terminal => i = Len(reports[c]) /\ pc[c] = "done"

\* An apply that reports succeeded has written every object of its manifest,
\* and so has every other verb but a delete of what was absent
\* (executor.go:261-324).
SuccessIsComplete ==
    \A c \in Command :
        /\ reports[c] # << >> /\ Last(reports[c]) = "succeeded"
        /\ c.verb # "delete"
        => Range(c.targets) \subseteq written[c]

\* The step is the real write of command c.
Writes(c) == pc[c] = "write" /\ pc'[c] # "write" /\ store' # store

\* An apply overwrites only a state that passes the drift check at the very
\* moment of the write (executor.go:286, 299: the resourceVersion of the checked
\* object goes with the update), and it keeps what its manifest omits of that
\* state, a concurrent writer's change included (executor.go:340-344).
ApplyStep ==
    \A c \in Command :
        Writes(c) /\ c.verb = "apply" /\ store[Target(c)] # Absent
        => /\ Proceeds(c, store[Target(c)].content)
           /\ store'[Target(c)].content.rest = store[Target(c)].content.rest
ApplyIsGated == [][ApplyStep]_vars

\* What patch and delete overwrite or remove although the drift policy forbids
\* it was written after they looked: they send no precondition with the write
\* (executor.go:532, 584), and that window is the only way past their check.
DriftWindowStep ==
    \A c \in Command :
        Writes(c) /\ c.verb \in {"patch", "delete"} /\ store[Target(c)] # Absent
        => \/ Proceeds(c, store[Target(c)].content)
           \/ live[c] # Absent /\ live[c].rv # store[Target(c)].rv
DriftWindow == [][DriftWindowStep]_vars

\* Every handler that runs ends with a terminal report, when the calls it makes return.
EveryCommandEnds ==
    <>(\A c \in Command :
          pc[c] # "none" => reports[c] # << >> /\ Last(reports[c]) \in Terminal)
=============================================================================
