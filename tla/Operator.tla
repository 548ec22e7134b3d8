------------------------------ MODULE Operator ------------------------------
(***************************************************************************)
(* cmd/operator: the process from its start to its end.  run loads the     *)
(* configuration, builds the subsystems, starts a goroutine for each, and  *)
(* waits for them when ctx is cancelled; it does not wait for the handlers *)
(* of commands.  The control plane is the one of cmd/mockserver.           *)
(*                                                                         *)
(* Of each subsystem, this module has what the others see of it: how the   *)
(* informers' caches become ready, and how commands reach a handler.       *)
(* Modules Informers, Uploader, WsClient, Receiver and Executor detail     *)
(* them; here one call of process is one step.                             *)
(***************************************************************************)
EXTENDS Config, Naturals, Functions

CONSTANTS
    Commands, MaxSessions,   \* see MockServer
    VerbOf,          \* cmd.Verb
    Environments,    \* environments the process may be started in
    Known,           \* the names that Resolve knows
    DefaultInformers,
    RightToken,      \* the token the control plane accepts
    MaxStarts,       \* bound: starts of the process
    MaxFaults        \* bound: lost polls and connections, a listener that fails

ASSUME OperatorAssumption ==
    /\ Commands \in Seq(STRING) /\ MaxSessions \in Nat
    /\ VerbOf \in [Range(Commands) -> STRING]
    /\ Range(DefaultInformers) \subseteq Known
    /\ MaxStarts \in Nat \ {0} /\ MaxFaults \in Nat

VARIABLES
    delivered, wsDelivered, sess, handed,   \* see MockServer
    env,             \* the environment: variables, and whether the writer has credentials
    place,           \* where run is
    cfg,             \* the configuration
    exec,            \* exec is not nil
    sub,             \* the goroutines that wg counts
    ctxDone,         \* ctx has been cancelled
    served,          \* m.informers
    synced,          \* those whose cache has synced
    ready,           \* health.ready
    runCtx,          \* r.runCtx has been stored
    polling, todo,   \* Receiver.Run is in r.poll; resp.Commands still to process
    link, frames,    \* the session of the WebSocket connection, frames on it
    ids,             \* r.ids
    handler,         \* per command: where its HandleCommand is, with which context
    pollLost,        \* history: a poll that took the commands was not answered
    starts, faults

Server == INSTANCE MockServer

serverVars == <<delivered, wsDelivered, sess, handed>>
buildVars == <<env, cfg, exec, served>>
healthVars == <<synced, ready>>
pollVars == <<polling, todo, pollLost>>
linkVars == <<link, frames>>
commandVars == <<ids, handler>>
boundVars == <<starts, faults>>
vars == <<serverVars, buildVars, place, sub, ctxDone, healthVars, runCtx, pollVars,
          linkVars, commandVars, boundVars>>

Others == {"informers", "uploader", "http", "readiness"}
Sub == {"ws", "receiver"} \cup Others
Cmd == Range(Commands)
NoHandler == [at |-> "none", ctx |-> "none", early |-> FALSE, wrote |-> FALSE]
Ended == [NoHandler EXCEPT !.at = "ended"]
NoLink == 0

Fault == faults < MaxFaults /\ faults' = faults + 1
Authorized == cfg.ServerToken = RightToken
Running(s) == sub[s] = "running"

-----------------------------------------------------------------------------
(* main and run. *)

\* The process ends, and with it all that it had in memory, its handlers too.
Exit ==
    /\ place' = "exited"
    /\ cfg' = Parsed(env, DefaultInformers) /\ exec' = FALSE /\ served' = {}
    /\ sub' = [s \in Sub |-> "none"] /\ ctxDone' = FALSE
    /\ synced' = {} /\ ready' = FALSE /\ runCtx' = FALSE
    /\ polling' = FALSE /\ todo' = << >> /\ link' = NoLink /\ frames' = << >>
    /\ ids' = {} /\ handler' = [cmd \in Cmd |-> NoHandler]
    /\ UNCHANGED <<serverVars, env, pollLost, boundVars>>

\* config.Load, which may refuse the environment.
Load ==
    /\ place = "load"
    /\ \/ ~Valid(cfg) /\ Exit
       \/ /\ Valid(cfg) /\ place' = "clients"
          /\ UNCHANGED <<serverVars, buildVars, sub, ctxDone, healthVars, runCtx,
                         pollVars, linkVars, commandVars, boundVars>>

\* Mutant: the configuration is left as it was loaded.
WriterModeLoaded(available) == cfg.WriterEnabled

\* cfg.WriterEnabled = writerAvailable.
WriterMode(available) == available

\* The clients of the API server, which may be impossible to build; the executor
\* only with the writer's token.
Clients ==
    /\ place = "clients"
    /\ \/ Exit
       \/ /\ LET available == cfg.WriterEnabled /\ env.writerToken
             IN  /\ exec' = available
                 /\ cfg' = [cfg EXCEPT !.WriterEnabled = WriterMode(available)]
          /\ place' = "build"
          /\ UNCHANGED <<serverVars, env, served, sub, ctxDone, healthVars, runCtx,
                         pollVars, linkVars, commandVars, boundVars>>

\* Mutant: unknown names are accepted.
ResolvedAny(names) == TRUE

\* Resolve returns no error.
Resolved(names) == Range(names) \subseteq Known

\* Resolve fails on an unknown name; informers.New leaves out every resource
\* that discovery does not find at this moment.
Build ==
    /\ place = "build"
    /\ \/ ~Resolved(cfg.InformersEnabled) /\ Exit
       \/ /\ Resolved(cfg.InformersEnabled)
          /\ served' \in SUBSET Range(cfg.InformersEnabled)
          /\ place' = "spawn"
          /\ UNCHANGED <<serverVars, env, cfg, exec, sub, ctxDone, healthVars, runCtx,
                         pollVars, linkVars, commandVars, boundVars>>

\* Every subsystem gets a goroutine.  Whether it has begun makes a difference
\* for the two that commands pass through.
Spawn ==
    /\ place = "spawn"
    /\ sub' = [s \in Sub |->
                  CASE s = "ws" /\ ~cfg.WSEnabled -> "exited"
                    [] s \in Others -> "running"
                    [] OTHER -> "spawned"]
    /\ place' = "wait"
    /\ UNCHANGED <<serverVars, buildVars, ctxDone, healthVars, runCtx, pollVars,
                   linkVars, commandVars, boundVars>>

\* wg.Wait() has returned.
Finish ==
    /\ place = "wait" /\ ctxDone
    /\ \A s \in Sub : sub[s] = "exited"
    /\ Exit

\* SIGTERM cancels ctx once NotifyContext has been called; it ends the process
\* before.
Signal ==
    \/ place \in {"load", "clients"} /\ Exit
    \/ /\ place \in {"build", "spawn", "wait"} /\ ~ctxDone
       /\ ctxDone' = TRUE
       /\ UNCHANGED <<serverVars, buildVars, place, sub, healthVars, runCtx, pollVars,
                      linkVars, commandVars, boundVars>>

Crash == place # "exited" /\ Exit

\* Kubernetes (external) starts the container again.
Restart ==
    /\ place = "exited" /\ starts < MaxStarts
    /\ starts' = starts + 1
    /\ place' = "load"
    /\ UNCHANGED <<serverVars, buildVars, sub, ctxDone, healthVars, runCtx, pollVars,
                   linkVars, commandVars, faults>>

-----------------------------------------------------------------------------
(* The goroutines. *)

Begin(s) ==
    /\ place = "wait" /\ sub[s] = "spawned"
    /\ sub' = [sub EXCEPT ![s] = "running"]
    /\ runCtx' = (runCtx \/ s = "receiver")
    /\ UNCHANGED <<serverVars, buildVars, place, ctxDone, healthVars, pollVars,
                   linkVars, commandVars, boundVars>>

\* After ctx is cancelled the receiver returns when it has processed the commands
\* it got, and the client when it has closed its connection.
End(s) ==
    /\ place = "wait" /\ Running(s) /\ ctxDone
    /\ \/ /\ s = "receiver" /\ todo = << >>
          /\ polling' = FALSE
          /\ UNCHANGED linkVars
       \/ /\ s = "ws"
          /\ link' = NoLink /\ frames' = << >>
          /\ UNCHANGED polling
    /\ sub' = [sub EXCEPT ![s] = "exited"]
    /\ UNCHANGED <<serverVars, buildVars, place, ctxDone, healthVars, runCtx, todo,
                   pollLost, commandVars, boundVars>>

\* The others have nothing to finish; that they return in one step hides no order
\* anyone could observe.
EndOthers ==
    /\ place = "wait" /\ ctxDone
    /\ \E s \in Others : Running(s)
    /\ sub' = [s \in Sub |-> IF s \in Others THEN "exited" ELSE sub[s]]
    /\ UNCHANGED <<serverVars, buildVars, place, ctxDone, healthVars, runCtx, pollVars,
                   linkVars, commandVars, boundVars>>

\* Mutant: the error of a subsystem is only logged.
StopOnErrorNot == ctxDone

\* stop() after an error of a subsystem.
StopOnError == TRUE

\* ListenAndServe fails.
HttpFails ==
    /\ place = "wait" /\ Running("http") /\ ~ctxDone
    /\ Fault
    /\ sub' = [sub EXCEPT !["http"] = "exited"]
    /\ ctxDone' = StopOnError
    /\ UNCHANGED <<serverVars, buildVars, place, healthVars, runCtx, pollVars, linkVars,
                   commandVars, starts>>

\* client-go (external) has filled the cache of an informer that was started.
CacheSync(r) ==
    /\ place = "wait" /\ Running("informers") /\ ~ctxDone
    /\ r \in served \ synced
    /\ synced' = synced \cup {r}
    /\ UNCHANGED <<serverVars, buildVars, place, sub, ctxDone, ready, runCtx, pollVars,
                   linkVars, commandVars, boundVars>>

HasSynced == served # {} /\ served \subseteq synced

\* A tick of the readiness goroutine, which returns when it has set the flag.
Readiness ==
    /\ place = "wait" /\ Running("readiness")
    /\ HasSynced
    /\ ready' = TRUE
    /\ sub' = [sub EXCEPT !["readiness"] = "exited"]
    /\ UNCHANGED <<serverVars, buildVars, place, ctxDone, synced, runCtx, pollVars,
                   linkVars, commandVars, boundVars>>

-----------------------------------------------------------------------------
(* Commands on their way to a handler. *)

\* Mutant: the handler's context is not the one of Run.
CommandCtxBackground == "background"

\* commandCtx.
CommandCtx == IF runCtx THEN "run" ELSE "background"

\* process: a repeated id is dropped, a read-only agent refuses, and otherwise
\* the handler is started; a push may come before Receiver.Run has begun.
Process(cmd) ==
    /\ ids' = ids \cup {cmd}
    /\ handler' = IF cmd \in ids \/ ~cfg.WriterEnabled THEN handler
                  ELSE [handler EXCEPT ![cmd] =
                           [at |-> "started", ctx |-> CommandCtx,
                            early |-> sub["receiver"] = "spawned", wrote |-> FALSE]]

PollBegin ==
    /\ place = "wait" /\ Running("receiver") /\ ~polling /\ todo = << >>
    /\ polling' = TRUE
    /\ UNCHANGED <<serverVars, buildVars, place, sub, ctxDone, healthVars, runCtx, todo,
                   pollLost, linkVars, commandVars, boundVars>>

\* The poll returns: an answer; a refusal of the token; or an error, although the
\* request may have been handled.
PollEnd ==
    /\ place = "wait" /\ polling
    /\ polling' = FALSE
    /\ \/ /\ Authorized /\ Server!Poll
          /\ todo' = Server!PollReply
          /\ UNCHANGED <<pollLost, faults>>
       \/ /\ ~Authorized
          /\ UNCHANGED <<serverVars, todo, pollLost, faults>>
       \/ /\ Fault
          /\ \/ /\ Authorized /\ Server!Poll
                /\ pollLost' = (pollLost \/ ~delivered)
             \/ UNCHANGED <<serverVars, pollLost>>
          /\ UNCHANGED todo
    /\ UNCHANGED <<buildVars, place, sub, ctxDone, healthVars, runCtx, linkVars,
                   commandVars, starts>>

PollProcess ==
    /\ place = "wait" /\ Running("receiver") /\ todo # << >>
    /\ Process(Head(todo))
    /\ todo' = Tail(todo)
    /\ UNCHANGED <<serverVars, buildVars, place, sub, ctxDone, healthVars, runCtx,
                   polling, pollLost, linkVars, boundVars>>

WsDial ==
    /\ place = "wait" /\ Running("ws") /\ link = NoLink /\ ~ctxDone
    /\ Server!WsAccept
    /\ link' = Len(sess')
    /\ UNCHANGED <<buildVars, place, sub, ctxDone, healthVars, runCtx, pollVars, frames,
                   commandVars, boundVars>>

WsRead ==
    /\ place = "wait" /\ Running("ws") /\ link # NoLink /\ frames # << >>
    /\ Process(Head(frames))
    /\ frames' = Tail(frames)
    /\ UNCHANGED <<serverVars, buildVars, place, sub, ctxDone, healthVars, runCtx,
                   pollVars, link, boundVars>>

\* The connection breaks, with the frames on it; or the server has closed it.
WsDrop ==
    /\ place = "wait" /\ Running("ws") /\ link # NoLink
    /\ \/ Fault
       \/ sess[link].at = "gone" /\ UNCHANGED faults
    /\ link' = NoLink /\ frames' = << >>
    /\ UNCHANGED <<serverVars, buildVars, place, sub, ctxDone, healthVars, runCtx,
                   pollVars, commandVars, starts>>

\* A step of the server in session s.  What it writes reaches the agent if this
\* is its connection, and fails or gets lost otherwise.
WsServe(s) ==
    /\ s \in DOMAIN sess
    /\ \/ Server!WsHello(s, Authorized) /\ UNCHANGED frames
       \/ /\ Server!WsPush(s)
          /\ frames' = IF link = s THEN Append(frames, Head(sess[s].unsent)) ELSE frames
       \/ link # s /\ Server!WsGone(s) /\ UNCHANGED frames
    /\ UNCHANGED <<buildVars, place, sub, ctxDone, healthVars, runCtx, pollVars, link,
                   commandVars, boundVars>>

-----------------------------------------------------------------------------
(* The handlers. *)

\* RunWithContext of an install or upgrade works in a goroutine of its own, which
\* a cancelled context does not stop; an uninstall is given no context.
HelmRuns(cmd) == VerbOf[cmd] \in {"helm-install", "helm-upgrade"}
Helm(cmd) == HelmRuns(cmd) \/ VerbOf[cmd] = "helm-uninstall"

\* A write succeeds unless its context is cancelled; Helm's take none.
HandlerWrites(cmd) ==
    /\ place = "wait" /\ handler[cmd].at \in {"started", "abandoned"}
    /\ ~handler[cmd].wrote
    /\ ctxDone => handler[cmd].ctx = "background" \/ Helm(cmd)
    /\ handler' = [handler EXCEPT ![cmd].wrote = TRUE]
    /\ UNCHANGED <<serverVars, buildVars, place, sub, ctxDone, healthVars, runCtx,
                   pollVars, linkVars, ids, boundVars>>

\* HandleCommand returns; when its context is cancelled, perhaps before the
\* goroutine of RunWithContext has ended.
HandlerEnds(cmd) ==
    /\ place = "wait" /\ handler[cmd].at = "started"
    /\ \/ handler' = [handler EXCEPT ![cmd] = Ended]
       \/ /\ HelmRuns(cmd) /\ ctxDone /\ handler[cmd].ctx = "run"
          /\ handler' = [handler EXCEPT ![cmd].at = "abandoned"]
    /\ UNCHANGED <<serverVars, buildVars, place, sub, ctxDone, healthVars, runCtx,
                   pollVars, linkVars, ids, boundVars>>

-----------------------------------------------------------------------------
Init ==
    /\ Server!Init
    /\ env \in Environments
    /\ place = "load" /\ cfg = Parsed(env, DefaultInformers) /\ exec = FALSE
    /\ sub = [s \in Sub |-> "none"] /\ ctxDone = FALSE
    /\ served = {} /\ synced = {} /\ ready = FALSE /\ runCtx = FALSE
    /\ polling = FALSE /\ todo = << >> /\ link = NoLink /\ frames = << >>
    /\ ids = {} /\ handler = [cmd \in Cmd |-> NoHandler]
    /\ pollLost = FALSE /\ starts = 1 /\ faults = 0

Progress ==
    \/ Load \/ Clients \/ Build \/ Spawn \/ Finish
    \/ \E s \in Sub : Begin(s) \/ End(s)
    \/ EndOthers
    \/ \E r \in served : CacheSync(r)
    \/ Readiness

PollStep == PollBegin \/ PollEnd \/ PollProcess
WsStep == WsDial \/ WsRead \/ WsDrop
HandlerStep(cmd) == HandlerWrites(cmd) \/ HandlerEnds(cmd)

Next ==
    \/ Progress
    \/ Signal \/ Crash \/ Restart
    \/ HttpFails
    \/ PollStep \/ WsStep
    \/ \E s \in 1 .. MaxSessions : WsServe(s)
    \/ \E cmd \in Cmd : HandlerStep(cmd)

Spec == Init /\ [][Next]_vars

\* Goroutines that can run are scheduled, caches sync, and polls return.  Between
\* two starts there are finitely many steps of Progress.
FairSpec == Spec /\ WF_vars(Progress) /\ WF_vars(PollStep)

-----------------------------------------------------------------------------
(* Properties. *)

TypeOK ==
    /\ delivered \in BOOLEAN /\ wsDelivered \in BOOLEAN
    /\ env \in Environments
    /\ place \in {"load", "clients", "build", "spawn", "wait", "exited"}
    /\ exec \in BOOLEAN /\ ctxDone \in BOOLEAN /\ ready \in BOOLEAN
    /\ runCtx \in BOOLEAN /\ polling \in BOOLEAN /\ pollLost \in BOOLEAN
    /\ sub \in [Sub -> {"none", "spawned", "running", "exited"}]
    /\ served \subseteq Known /\ synced \subseteq served
    /\ todo \in Seq(Cmd) /\ frames \in Seq(Cmd)
    /\ link \in 0 .. Len(sess)
    /\ ids \subseteq Cmd
    /\ handler \in [Cmd -> [at : {"none", "started", "abandoned", "ended"},
                            ctx : {"none", "run", "background"},
                            early : BOOLEAN, wrote : BOOLEAN]]
    /\ starts \in 1 .. MaxStarts /\ faults \in 0 .. MaxFaults

\* A handler runs only in an agent that has an executor: neither an agent told
\* to be read-only nor one that found no writer token accepts a command.
WriterOnly ==
    \A cmd \in Cmd :
        handler[cmd].at # "none"
            => exec /\ env.writerToken /\ EnvBool(env.WRITER_ENABLED, TRUE)

\* On each channel the control plane hands its commands out in order and each at
\* most once, over any number of polls, connections and restarts of the agent.
OncePerChannel == Server!OncePerChannel

\* After ctx is cancelled only Helm still writes to the cluster, and a command that
\* was pushed before Receiver.Run had begun: what a handler writes itself goes with
\* the context that Run stored (receiver.go:221, executor.go:313), on whichever
\* channel its command came.
StopStopsWrites ==
    [][\A cmd \in Cmd :
          ctxDone /\ ~handler[cmd].wrote /\ handler'[cmd].wrote
              => Helm(cmd) \/ handler[cmd].early]_vars

\* A stopping process ends, whatever its subsystems were doing, also when it
\* was the failing listener that stopped it.
StopEnds == ctxDone \/ sub["http"] = "exited" ~> place = "exited"

\* Every command the control plane has not yet handed out on a poll reaches a
\* running agent that it knows, whatever becomes of connections, unless the agent
\* stops or the very poll that takes the commands is not answered
\* (mockserver/main.go:154).
CommandsArrive ==
    place = "wait" /\ Authorized /\ ~delivered
        ~> ids = Cmd \/ ctxDone \/ place = "exited" \/ pollLost

\* "readiness; fails while informer caches are syncing or the tunnel has never
\* connected" (server/http.go:2): the agent is ready only when the control plane
\* has answered a poll or accepted a connection.
ReadyWhenConnected == ready => delivered \/ sess # << >>
=============================================================================
