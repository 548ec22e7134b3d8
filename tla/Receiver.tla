------------------------------ MODULE Receiver ------------------------------
(***************************************************************************)
(* internal/receiver: commands come in by poll responses and, when the     *)
(* WebSocket channel is enabled, by pushes; process deduplicates and       *)
(* validates each one and starts its handler.  Reports leave over the      *)
(* socket, and through a bounded queue that every poll carries.            *)
(*                                                                         *)
(* The goroutine of Run and the read loop of the WebSocket client both     *)
(* call process.  The caches of seen ids and nonces have no lock, so one   *)
(* call of seen is two steps: the lookup, and the insertion.               *)
(*                                                                         *)
(* The control plane is external: it hands out commands, the same one more *)
(* than once if a delivery seems to have failed, and accepts reports.      *)
(***************************************************************************)
EXTENDS Sequences, FiniteSetsExt

CONSTANTS
    Cmd,             \* the commands, by id
    Nonce,           \* cmd.Nonce
    BadCmd,          \* commands validate refuses before it looks at the time
    Channels,        \* {"poll"}, or {"poll", "ws"}: r.push is not nil
    Responses,       \* the command lists of a poll response
    MaxIDs,          \* maxIDs
    MaxNonces,       \* maxNonces
    MaxQueued,       \* maxQueuedReports
    MaxHandOuts,     \* bound: commands the control plane hands out
    MaxPollFaults,   \* bound: polls that fail or are answered ok:false
    MaxWsFaults,     \* bound: failed writes, lost frames, lost connections
    MaxRestarts      \* bound: restarts of the process

ASSUME ReceiverAssumption ==
    /\ BadCmd \subseteq Cmd
    /\ Channels \in {{"poll"}, {"poll", "ws"}}
    /\ Responses \subseteq Seq(Cmd)
    /\ MaxIDs \in Nat \ {0} /\ MaxNonces \in Nat \ {0} /\ MaxQueued \in Nat \ {0}
    /\ MaxHandOuts \in Nat /\ MaxPollFaults \in Nat /\ MaxWsFaults \in Nat
    /\ MaxRestarts \in Nat

ASSUME NonceAssumption == DOMAIN Nonce = Cmd

VARIABLES
    ids, nonces,   \* the two nonceCaches: m, the keys of the map, and ll
    at, arg,       \* per channel, where process is and with which command
    polling,       \* Run is inside r.poll
    req,           \* req.Reports of the poll in flight
    todo,          \* resp.Commands still to be processed
    queue,         \* r.queue
    connected,     \* the WebSocket client's connected flag
    wire,          \* terminal reports written to the socket and not yet received
    handlers,      \* HandleCommand goroutines: per command and phase, how many
    stale,         \* commands whose timestamp is out of the accepted window
    received,      \* terminal reports the control plane has accepted
    handedOut,     \* commands the control plane has handed out
    \* history
    made,          \* reports made so far, which also numbers them
    terminals,     \* terminal reports made since the process started
    dropped,       \* terminal reports pushed out of the full queue since then
    accepted,      \* nonces accepted since the process started, in order
    executions,    \* how often a handler was started for a command
    pollFaults, wsFaults, restarts

cacheVars == <<ids, nonces>>
pollVars == <<polling, req, todo>>
reportVars == <<queue, wire, made, terminals, dropped>>
serverVars == <<received, handedOut>>
execVars == <<handlers, accepted, executions>>
faultVars == <<pollFaults, wsFaults, restarts>>
threadVars == <<at, arg>>
vars == <<cacheVars, threadVars, pollVars, reportVars, connected, stale,
          serverVars, execVars, faultVars>>

Terminal == {"succeeded", "failed", "refused"}
Status == {"received", "validating", "progress"} \cup Terminal
Phase == {"started", "running", "stalled"}

EmptyCache == [m |-> {}, ll |-> << >>]
NoCmd == "none"
At(c, place) == c \in Channels /\ at[c] = place
GoTo(c, place) == at' = [at EXCEPT ![c] = place] /\ UNCHANGED arg
Call(c, cmd) ==
    /\ at' = [at EXCEPT ![c] = "lookupID"]
    /\ arg' = [arg EXCEPT ![c] = cmd]
Return(c) ==
    /\ at' = [at EXCEPT ![c] = "idle"]
    /\ arg' = [arg EXCEPT ![c] = NoCmd]

-----------------------------------------------------------------------------
(* The caches and the queue. *)

\* Mutant: the newest entry is evicted.
InsertedNewest(cache, key, cap) ==
    IF Len(cache.ll) < cap
    THEN [m |-> cache.m \cup {key}, ll |-> Append(cache.ll, key)]
    ELSE cache

\* The second half of nonceCache.seen.
Inserted(cache, key, cap) ==
    LET ll == Append(cache.ll, key)
        m == cache.m \cup {key}
    IN  IF Len(ll) > cap
        THEN [m |-> m \ {Head(ll)}, ll |-> Tail(ll)]
        ELSE [m |-> m, ll |-> ll]

\* The values a cache can have after an insertion.  When the other goroutine
\* is inserting too, the unlocked list may also lose the new element.
InsertOutcomes(cache, key, cap, racing) ==
    {Inserted(cache, key, cap)}
        \cup (IF racing THEN {[cache EXCEPT !.m = @ \cup {key}]} ELSE {})

\* Mutant: the queue has no limit.
EnqueuedUnbounded(q, rep) == Append(q, rep)

\* reportQueue.enqueue: the queue, and what it pushed out.
Enqueued(q, rep) ==
    Append(IF Len(q) >= MaxQueued THEN Tail(q) ELSE q, rep)
PushedOut(q) == IF Len(q) >= MaxQueued THEN {Head(q)} ELSE {}

TerminalOf(reports) == {rep \in reports : rep.status \in Terminal}

\* Mutant: as many reports are removed as were sent.
ClearSentByCount(q, sent) ==
    SubSeq(q, Min({Len(sent), Len(q)}) + 1, Len(q))

\* The loop of clearSent removes reports from the front as long as they were
\* part of the request.
ClearSent(q, sent) ==
    LET n == Min({i \in 0..Len(q) : i = Len(q) \/ q[i + 1] \notin Range(sent)})
    IN  SubSeq(q, n + 1, Len(q))

-----------------------------------------------------------------------------
(* deliverReport. *)

Queued(status, sent) == ~sent \/ status \in Terminal

WsFault ==
    /\ wsFaults < MaxWsFaults
    /\ wsFaults' = wsFaults + 1

\* rep goes to the socket when it is connected and the write succeeds, and to
\* the queue unless it was sent and is not terminal.
DeliverReport(cmd, status) ==
    LET rep == [cmd |-> cmd, status |-> status, n |-> made + 1]
        Deliver(sent) ==
            /\ wire' = wire \cup (IF sent THEN TerminalOf({rep}) ELSE {})
            /\ IF Queued(status, sent)
               THEN /\ queue' = Enqueued(queue, rep)
                    /\ dropped' = dropped \cup TerminalOf(PushedOut(queue))
               ELSE UNCHANGED <<queue, dropped>>
    IN  /\ made' = made + 1
        /\ terminals' = terminals \cup (IF status \in Terminal THEN {rep} ELSE {})
        /\ \/ connected /\ Deliver(TRUE) /\ UNCHANGED wsFaults
           \/ ~connected /\ Deliver(FALSE) /\ UNCHANGED wsFaults
           \/ connected /\ Deliver(FALSE) /\ WsFault

-----------------------------------------------------------------------------
(* process, on channel c. *)

\* The first half of r.ids.seen: a repeated id is dropped.
LookupID(c) ==
    /\ At(c, "lookupID")
    /\ IF arg[c] \in ids.m THEN Return(c) ELSE GoTo(c, "insertID")
    /\ UNCHANGED <<cacheVars, pollVars, reportVars, connected, stale,
                   serverVars, execVars, faultVars>>

Racing(c, place) == \E d \in Channels \ {c} : At(d, place)

InsertID(c) ==
    /\ At(c, "insertID")
    /\ ids' \in InsertOutcomes(ids, arg[c], MaxIDs, Racing(c, "insertID"))
    /\ GoTo(c, "validate")
    /\ UNCHANGED <<nonces, pollVars, reportVars, connected, stale, serverVars,
                   execVars, faultVars>>

\* The checks of validate, in their order; the last one is the lookup of
\* r.nonces.seen, which is reached by commands that pass the others.
Refusal(cmd) ==
    cmd \in BadCmd \/ cmd \in stale \/ Nonce[cmd] \in nonces.m

Validate(c) ==
    /\ At(c, "validate")
    /\ IF Refusal(arg[c])
       THEN /\ DeliverReport(arg[c], "refused")
            /\ Return(c)
       ELSE /\ GoTo(c, "insertNonce")
            /\ UNCHANGED <<reportVars, wsFaults>>
    /\ UNCHANGED <<cacheVars, pollVars, connected, stale, serverVars, execVars,
                   pollFaults, restarts>>

InsertNonce(c) ==
    /\ At(c, "insertNonce")
    /\ nonces' \in InsertOutcomes(nonces, Nonce[arg[c]], MaxNonces,
                                  Racing(c, "insertNonce"))
    /\ accepted' = Append(accepted, Nonce[arg[c]])
    /\ GoTo(c, "dispatch")
    /\ UNCHANGED <<ids, pollVars, reportVars, connected, stale, serverVars,
                   handlers, executions, faultVars>>

\* The received report and go r.h.HandleCommand.
Dispatch(c) ==
    /\ At(c, "dispatch")
    /\ DeliverReport(arg[c], "received")
    /\ handlers' = [handlers EXCEPT ![arg[c]]["started"] = @ + 1]
    /\ executions' = [executions EXCEPT ![arg[c]] = @ + 1]
    /\ Return(c)
    /\ UNCHANGED <<cacheVars, pollVars, connected, stale, serverVars, accepted,
                   pollFaults, restarts>>

Process(c) ==
    LookupID(c) \/ InsertID(c) \/ Validate(c) \/ InsertNonce(c) \/ Dispatch(c)

-----------------------------------------------------------------------------
(* The loop of Run. *)

\* Mutant: a poll carries no reports while the socket is up.
SnapshotUnlessConnected == IF connected THEN << >> ELSE queue

\* r.queue.snapshot().
Snapshot == queue

PollBegin ==
    /\ ~polling /\ todo = << >> /\ At("poll", "idle")
    /\ polling' = TRUE
    /\ req' = Snapshot
    /\ UNCHANGED <<cacheVars, threadVars, todo, reportVars, connected, stale,
                   serverVars, execVars, faultVars>>

\* The control plane hands commands out.
HandOut(commands) ==
    /\ handedOut + Len(commands) <= MaxHandOuts
    /\ handedOut' = handedOut + Len(commands)

\* The control plane accepts reports.
Accept(reports) == received' = received \cup TerminalOf(reports)

\* An answer with ok:true took the reports; one with ok:false did not, and its
\* commands are processed all the same.
PollAnswer(ok, commands) ==
    /\ polling
    /\ polling' = FALSE /\ req' = << >>
    /\ HandOut(commands)
    /\ todo' = commands
    /\ IF ok
       THEN /\ Accept(Range(req))
            /\ queue' = ClearSent(queue, req)
            /\ UNCHANGED pollFaults
       ELSE /\ pollFaults < MaxPollFaults
            /\ pollFaults' = pollFaults + 1
            /\ UNCHANGED <<received, queue>>
    /\ UNCHANGED <<cacheVars, threadVars, wire, made, terminals, dropped,
                   connected, stale, execVars, wsFaults, restarts>>

\* A poll that fails, before or after the control plane handled it.
PollErr(commands) ==
    /\ polling
    /\ polling' = FALSE /\ req' = << >>
    /\ pollFaults < MaxPollFaults
    /\ pollFaults' = pollFaults + 1
    /\ \/ UNCHANGED serverVars
       \/ HandOut(commands) /\ Accept(Range(req))
    /\ UNCHANGED <<cacheVars, threadVars, todo, reportVars, connected, stale,
                   execVars, wsFaults, restarts>>

PollProcess ==
    /\ ~polling /\ todo # << >> /\ At("poll", "idle")
    /\ Call("poll", Head(todo))
    /\ todo' = Tail(todo)
    /\ UNCHANGED <<cacheVars, polling, req, reportVars, connected, stale,
                   serverVars, execVars, faultVars>>

-----------------------------------------------------------------------------
(* The WebSocket channel, as the receiver sees it.  The read loop calls    *)
(* process synchronously: the flag changes only between commands.          *)

WsConnect ==
    /\ At("ws", "idle") /\ ~connected
    /\ connected' = TRUE
    /\ UNCHANGED <<cacheVars, threadVars, pollVars, reportVars, stale, serverVars,
                   execVars, faultVars>>

WsDrop ==
    /\ At("ws", "idle") /\ connected
    /\ WsFault
    /\ connected' = FALSE
    /\ wire' = {}
    /\ UNCHANGED <<cacheVars, threadVars, pollVars, queue, made, terminals, dropped,
                   stale, serverVars, execVars, pollFaults, restarts>>

WsPush(cmd) ==
    /\ At("ws", "idle") /\ connected
    /\ HandOut(<<cmd>>)
    /\ Call("ws", cmd)
    /\ UNCHANGED <<cacheVars, pollVars, reportVars, connected, stale, received,
                   execVars, faultVars>>

\* A frame on the socket arrives, or is lost with the dying connection.
WsArrive(rep) ==
    /\ rep \in wire
    /\ wire' = wire \ {rep}
    /\ Accept({rep})
    /\ UNCHANGED <<cacheVars, threadVars, pollVars, queue, made, terminals, dropped,
                   connected, stale, handedOut, execVars, faultVars>>

WsLose(rep) ==
    /\ rep \in wire
    /\ WsFault
    /\ wire' = wire \ {rep}
    /\ UNCHANGED <<cacheVars, threadVars, pollVars, queue, made, terminals, dropped,
                   connected, stale, serverVars, execVars, pollFaults, restarts>>

-----------------------------------------------------------------------------
(* The handlers, which module Executor details, time, and restarts.        *)

HandlerValidates(cmd) ==
    /\ handlers[cmd]["started"] > 0
    /\ handlers' = [handlers EXCEPT ![cmd]["started"] = @ - 1,
                                    ![cmd]["running"] = @ + 1]
    /\ DeliverReport(cmd, "validating")
    /\ UNCHANGED <<cacheVars, threadVars, pollVars, connected, stale, serverVars,
                   accepted, executions, pollFaults, restarts>>

\* succeed, fail or refuse, and the return.
HandlerFinishes(cmd) ==
    /\ handlers[cmd]["running"] > 0
    /\ handlers' = [handlers EXCEPT ![cmd]["running"] = @ - 1]
    /\ \E status \in Terminal : DeliverReport(cmd, status)
    /\ UNCHANGED <<cacheVars, threadVars, pollVars, connected, stale, serverVars,
                   accepted, executions, pollFaults, restarts>>

\* A drain that waits for a human has returned with a progress report, and makes
\* no other.
HandlerStalls(cmd) ==
    /\ handlers[cmd]["running"] > 0
    /\ handlers' = [handlers EXCEPT ![cmd]["running"] = @ - 1,
                                    ![cmd]["stalled"] = @ + 1]
    /\ DeliverReport(cmd, "progress")
    /\ UNCHANGED <<cacheVars, threadVars, pollVars, connected, stale, serverVars,
                   accepted, executions, pollFaults, restarts>>

\* maxClockSkew passes.
Expire(cmd) ==
    /\ cmd \notin stale
    /\ stale' = stale \cup {cmd}
    /\ UNCHANGED <<cacheVars, threadVars, pollVars, reportVars, connected,
                   serverVars, execVars, faultVars>>

\* Nothing of the receiver is kept on disk; no handler is waited for.
Restart ==
    /\ restarts < MaxRestarts
    /\ restarts' = restarts + 1
    /\ ids' = EmptyCache /\ nonces' = EmptyCache
    /\ at' = [c \in Channels |-> "idle"] /\ arg' = [c \in Channels |-> NoCmd]
    /\ polling' = FALSE /\ req' = << >> /\ todo' = << >>
    /\ queue' = << >> /\ wire' = {} /\ connected' = FALSE
    /\ handlers' = [cmd \in Cmd |-> [p \in Phase |-> 0]]
    /\ terminals' = {} /\ dropped' = {} /\ accepted' = << >>
    /\ UNCHANGED <<made, stale, serverVars, executions, pollFaults,
                   wsFaults>>

-----------------------------------------------------------------------------
Init ==
    /\ ids = EmptyCache /\ nonces = EmptyCache
    /\ at = [c \in Channels |-> "idle"] /\ arg = [c \in Channels |-> NoCmd]
    /\ polling = FALSE /\ req = << >> /\ todo = << >>
    /\ queue = << >> /\ wire = {} /\ connected = FALSE
    /\ handlers = [cmd \in Cmd |-> [p \in Phase |-> 0]]
    /\ stale = {} /\ received = {}
    /\ handedOut = 0 /\ executions = [cmd \in Cmd |-> 0]
    /\ made = 0 /\ terminals = {} /\ dropped = {} /\ accepted = << >>
    /\ pollFaults = 0 /\ wsFaults = 0 /\ restarts = 0

PollStep ==
    \/ PollBegin
    \/ \E ok \in BOOLEAN, commands \in Responses : PollAnswer(ok, commands)
    \/ \E commands \in Responses : PollErr(commands)
    \/ PollProcess
    \/ Process("poll")

WsStep ==
    \/ WsConnect
    \/ WsDrop
    \/ \E cmd \in Cmd : WsPush(cmd)
    \/ \E rep \in wire : WsArrive(rep) \/ WsLose(rep)
    \/ Process("ws")

Handle(cmd) == HandlerValidates(cmd) \/ HandlerFinishes(cmd) \/ HandlerStalls(cmd)
HandlerStep == \E cmd \in Cmd : Handle(cmd)

Next ==
    \/ PollStep
    \/ WsStep
    \/ HandlerStep
    \/ \E cmd \in Cmd : Expire(cmd)
    \/ Restart

Spec == Init /\ [][Next]_vars

\* Goroutines that can run are scheduled, and a poll returns: the HTTP client
\* has a timeout.  Nothing is assumed of the socket.
FairSpec ==
    /\ Spec
    /\ WF_vars(PollStep)
    /\ WF_vars(Process("ws"))
    /\ \A cmd \in Cmd : WF_vars(Handle(cmd))

-----------------------------------------------------------------------------
(* Properties. *)

Report == [cmd : Cmd, status : Status, n : Nat]
Place == {"idle", "lookupID", "insertID", "validate", "insertNonce", "dispatch"}
Cache(S) == [m : SUBSET S, ll : Seq(S)]

\* Types of the receiver's state; the queue of reports respects its limit, and
\* process has a command while it is at work.
TypeOK ==
    /\ ids \in Cache(Cmd) /\ nonces \in Cache(Range(Nonce))
    /\ at \in [Channels -> Place] /\ arg \in [Channels -> Cmd \cup {NoCmd}]
    /\ \A c \in Channels : at[c] # "idle" => arg[c] \in Cmd
    /\ polling \in BOOLEAN /\ req \in Seq(Report) /\ todo \in Seq(Cmd)
    /\ queue \in Seq(Report) /\ Len(queue) <= MaxQueued
    /\ connected \in BOOLEAN /\ wire \subseteq Report
    /\ handlers \in [Cmd -> [Phase -> Nat]]
    /\ stale \subseteq Cmd /\ received \subseteq Report
    /\ handedOut \in Nat /\ executions \in [Cmd -> Nat]
    /\ made \in Nat /\ terminals \subseteq Report /\ dropped \subseteq Report
    /\ accepted \in Seq(Range(Nonce))
    /\ pollFaults \in Nat /\ wsFaults \in Nat /\ restarts \in Nat

\* No terminal report vanishes while the process lives: it is queued, has
\* reached the control plane, or was pushed out of a full queue.  Socket
\* writes that succeed and are lost, failed polls, refused polls and reports
\* queued or pushed out during a poll make no difference.
TerminalKept == terminals \subseteq Range(queue) \cup received \cup dropped

\* With polling as the only channel, a nonce is accepted a second time only
\* after MaxNonces other ones: the cache is an exact window of that size.
ReplayWindow ==
    \A i, j \in DOMAIN accepted :
        i < j /\ accepted[i] = accepted[j] => j - i > MaxNonces

\* "both paths share the same validation pipeline and are deduplicated by
\* command ID": no command is executed twice.
AtMostOnce == \A cmd \in Cmd : executions[cmd] <= 1

\* The outcome of every execution that has one is eventually known at the control
\* plane: a command whose handler runs gets a terminal report there, unless every
\* handler of it was a drain that stalled (executor.go:654-663), the process
\* restarts or a terminal report is pushed out of the full queue.
Reported(cmd) == \E rep \in received : rep.cmd = cmd /\ rep.status \in Terminal
EventuallyReported ==
    \A cmd \in Cmd :
        executions[cmd] > 0
            ~> \/ Reported(cmd) \/ handlers[cmd]["stalled"] = executions[cmd]
               \/ restarts > 0 \/ dropped # {}
=============================================================================
