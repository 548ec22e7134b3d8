--------------------------- MODULE OperatorProofs ---------------------------
(***************************************************************************)
(* Proofs about module Operator, for all commands, environments and bounds.*)
(***************************************************************************)
EXTENDS Operator, SequenceTheorems, TLAPS

HandlerType ==
    [at : {"none", "started", "abandoned", "ended"}, ctx : {"none", "run", "background"},
     early : BOOLEAN, wrote : BOOLEAN]

\* What the configuration, the executor and the environment have to do with each
\* other while run goes through its steps.
ModeInv ==
    /\ exec => env.writerToken /\ EnvBool(env.WRITER_ENABLED, TRUE)
    /\ place = "clients" /\ cfg.WriterEnabled => EnvBool(env.WRITER_ENABLED, TRUE)
    /\ place \in {"load", "exited"} => cfg = Parsed(env, DefaultInformers)
    /\ place = "clients" => cfg = Parsed(env, DefaultInformers)
    /\ place \in {"build", "spawn", "wait"} /\ cfg.WriterEnabled => exec

\* A handler was started by process, in a process that has an executor.  It has
\* the context of Run unless it was started before Run stored it.
HandlerInv ==
    /\ sub \in [Sub -> {"none", "spawned", "running", "exited"}]
    /\ place = "wait" /\ sub["receiver"] # "spawned" => runCtx
    /\ handler \in [Cmd -> HandlerType]
    /\ \A cmd \in Cmd : handler[cmd].at # "none" => place = "wait" /\ exec
    /\ \A cmd \in Cmd : handler[cmd].ctx = "background" => handler[cmd].early

GateInv == ModeInv /\ HandlerInv

-----------------------------------------------------------------------------
\* A new process has the configuration of its environment and no handler.
LEMMA InitGate == Init => GateInv
<1> SUFFICES ASSUME Init PROVE GateInv
  OBVIOUS
<1>1. ModeInv
  BY Zenon DEF Init, ModeInv
<1>2. HandlerInv
  BY DEF Init, HandlerInv, HandlerType, NoHandler, Running, Sub, Others
<1> QED
  BY <1>1, <1>2 DEF GateInv

\* What the end of the process leaves is what a new one starts with.
LEMMA ExitGate == Exit => GateInv'
<1> SUFFICES ASSUME Exit PROVE GateInv'
  OBVIOUS
<1>1. ModeInv'
  BY Zenon DEF Exit, ModeInv
<1>2. HandlerInv'
  BY DEF Exit, HandlerInv, HandlerType, NoHandler, Running, Sub, Others
<1> QED
  BY <1>1, <1>2 DEF GateInv

\* A step that leaves the configuration, the handlers and the receiver's goroutine
\* alone.
LEMMA SameGate ==
    GateInv /\ UNCHANGED <<buildVars, place, sub, runCtx, handler>> => GateInv'
<1> SUFFICES ASSUME GateInv, UNCHANGED <<buildVars, place, sub, runCtx, handler>>
             PROVE GateInv'
  OBVIOUS
<1>1. ModeInv'
  BY Zenon DEF GateInv, ModeInv, buildVars
<1>2. HandlerInv'
  BY Zenon DEF GateInv, HandlerInv, buildVars, Running
<1> QED
  BY <1>1, <1>2 DEF GateInv

\* Only an agent in which WriterEnabled is still set starts a handler.
LEMMA ProcessGate ==
    ASSUME NEW cmd, GateInv, place = "wait",
           Process(cmd), UNCHANGED <<buildVars, place, sub, runCtx>>
    PROVE  GateInv'
<1>1. ModeInv'
  BY Zenon DEF GateInv, ModeInv, buildVars
<1>2. CASE handler' = handler
  BY <1>1, <1>2, Zenon DEF GateInv, HandlerInv, buildVars, Running
<1>3. CASE handler' # handler
  <2> DEFINE new == [at |-> "started", ctx |-> CommandCtx,
                     early |-> sub["receiver"] = "spawned", wrote |-> FALSE]
  <2>1. cfg.WriterEnabled /\ handler' = [handler EXCEPT ![cmd] = new]
    BY <1>3, Zenon DEF Process
  <2>2. exec /\ exec' /\ place' = "wait"
    BY <2>1, Zenon DEF GateInv, ModeInv, buildVars
  <2>3. new \in HandlerType /\ (new.ctx = "background" => new.early)
    BY DEF HandlerType, CommandCtx, GateInv, HandlerInv
  <2> HIDE DEF new
  <2>4. \A c \in Cmd : handler'[c] = IF c = cmd THEN new ELSE handler[c]
    BY <2>1 DEF GateInv, HandlerInv
  <2>5. handler' \in [Cmd -> HandlerType]
    BY <2>1, <2>3, Zenon DEF GateInv, HandlerInv
  <2>6. \A c \in Cmd : handler'[c].at # "none" => place' = "wait" /\ exec'
    BY <2>2, <2>3, <2>4, Zenon DEF GateInv, HandlerInv
  <2>7. \A c \in Cmd : handler'[c].ctx = "background" => handler'[c].early
    <3> TAKE c \in Cmd
    <3>1. handler[c].ctx = "background" => handler[c].early
      BY Zenon DEF GateInv, HandlerInv
    <3>2. CASE c = cmd
      BY <2>3, <2>4, <3>2
    <3>3. CASE c # cmd
      BY <2>4, <3>1, <3>3
    <3> QED BY <3>2, <3>3
  <2>8. sub' = sub /\ runCtx' = runCtx
    OBVIOUS
  <2>9. HandlerInv'
    BY <2>5, <2>6, <2>7, <2>8 DEF GateInv, HandlerInv, Running
  <2> QED
    BY <1>1, <2>9 DEF GateInv
<1> QED
  BY <1>2, <1>3

\* The steps of run, up to the goroutines.
LEMMA BuildGate ==
    ASSUME GateInv, Load \/ Clients \/ Build \/ Spawn \/ Restart
    PROVE  GateInv'
<1>1. CASE Exit
  BY <1>1, ExitGate
<1>2. CASE Load /\ ~Exit
  <2>1. place = "load" /\ place' = "clients" /\ UNCHANGED <<buildVars, sub, runCtx, handler>>
    BY <1>2, Zenon DEF Load, commandVars
  <2>2. cfg = Parsed(env, DefaultInformers)
    BY <2>1, Zenon DEF GateInv, ModeInv
  <2>3. cfg.WriterEnabled => EnvBool(env.WRITER_ENABLED, TRUE)
    BY <2>2, Zenon DEF Parsed
  <2>4. ModeInv'
    BY <2>1, <2>2, <2>3, Zenon DEF GateInv, ModeInv, buildVars
  <2> QED
    BY <2>1, <2>4, Zenon DEF GateInv, HandlerInv, buildVars, Running
<1>3. CASE Clients /\ ~Exit
  <2> DEFINE available == cfg.WriterEnabled /\ env.writerToken
  <2>1. /\ place = "clients" /\ place' = "build" /\ exec' = available
        /\ cfg' = [cfg EXCEPT !.WriterEnabled = available]
        /\ UNCHANGED <<env, sub, runCtx, handler>>
    BY <1>3, Zenon DEF Clients, WriterMode, commandVars
  <2>2. cfg'.WriterEnabled => available
    BY <2>1, Zenon DEF GateInv, ModeInv, Parsed
  <2>3. ModeInv'
    BY <2>1, <2>2, Zenon DEF GateInv, ModeInv
  <2> QED
    BY <2>1, <2>3, Zenon DEF GateInv, HandlerInv, Running
<1>4. CASE Build /\ ~Exit
  <2>1. place = "build" /\ place' = "spawn" /\ UNCHANGED <<env, cfg, exec, sub, runCtx, handler>>
    BY <1>4, Zenon DEF Build, commandVars
  <2>2. ModeInv'
    BY <2>1, Zenon DEF GateInv, ModeInv
  <2> QED
    BY <2>1, <2>2, Zenon DEF GateInv, HandlerInv, Running
<1>5. CASE Spawn
  <2>1. place = "spawn" /\ place' = "wait" /\ UNCHANGED <<buildVars, runCtx, handler>>
    BY <1>5, Zenon DEF Spawn, commandVars
  <2>2. ModeInv'
    BY <2>1, Zenon DEF GateInv, ModeInv, buildVars
  <2>3. sub' \in [Sub -> {"none", "spawned", "running", "exited"}] /\ sub'["receiver"] = "spawned"
    BY <1>5 DEF Spawn, Sub, Others
  <2> QED
    BY <2>1, <2>2, <2>3, Zenon DEF GateInv, HandlerInv, Running, buildVars
<1>6. CASE Restart
  <2>1. place = "exited" /\ place' = "load" /\ UNCHANGED <<buildVars, sub, runCtx, handler>>
    BY <1>6, Zenon DEF Restart, commandVars
  <2>2. ModeInv'
    BY <2>1, Zenon DEF GateInv, ModeInv, buildVars
  <2> QED
    BY <2>1, <2>2, Zenon DEF GateInv, HandlerInv, Running, buildVars
<1> QED
  BY <1>1, <1>2, <1>3, <1>4, <1>5, <1>6

\* The steps in which a goroutine begins or ends.
LEMMA GoroutineGate ==
    ASSUME GateInv,
           (\E s \in Sub : Begin(s) \/ End(s)) \/ EndOthers \/ HttpFails \/ Readiness
    PROVE  GateInv'
<1>1. /\ UNCHANGED <<buildVars, place, handler>>
      /\ sub' \in [Sub -> {"none", "spawned", "running", "exited"}]
      /\ place = "wait" /\ sub'["receiver"] # "spawned" => runCtx'
  <2>1. CASE \E s \in Sub : Begin(s)
    <3>1. PICK s \in Sub : Begin(s)
      BY <2>1
    <3>2. /\ UNCHANGED <<buildVars, place, handler>>
          /\ sub' = [sub EXCEPT ![s] = "running"] /\ runCtx' = (runCtx \/ s = "receiver")
      BY <3>1, Zenon DEF Begin, commandVars
    <3>3. sub' \in [Sub -> {"none", "spawned", "running", "exited"}]
      BY <3>2 DEF GateInv, HandlerInv
    <3>4. CASE s = "receiver"
      BY <3>2, <3>3, <3>4, Zenon
    <3>5. CASE s # "receiver"
      <4>1. sub'["receiver"] = sub["receiver"]
        BY <3>2, <3>5 DEF GateInv, HandlerInv, Sub
      <4> QED
        BY <3>2, <3>3, <4>1, Zenon DEF GateInv, HandlerInv, Running
    <3> QED
      BY <3>4, <3>5
  <2>2. CASE \E s \in Sub : End(s)
    BY <2>2 DEF End, GateInv, HandlerInv, Running, commandVars
  <2>3. CASE EndOthers
    BY <2>3 DEF EndOthers, GateInv, HandlerInv, Running, commandVars, Sub, Others
  <2>4. CASE HttpFails
    BY <2>4 DEF HttpFails, GateInv, HandlerInv, Running, commandVars, Sub, Others
  <2>5. CASE Readiness
    BY <2>5 DEF Readiness, GateInv, HandlerInv, Running, commandVars, Sub, Others
  <2> QED
    BY <2>1, <2>2, <2>3, <2>4, <2>5
<1>2. ModeInv'
  BY <1>1, Zenon DEF GateInv, ModeInv, buildVars
<1> QED
  BY <1>1, <1>2, Zenon DEF GateInv, HandlerInv, buildVars

\* The invariant is inductive.
LEMMA NextGate == GateInv /\ [Next]_vars => GateInv'
<1> SUFFICES ASSUME GateInv, [Next]_vars PROVE GateInv'
  OBVIOUS
<1>1. CASE Load \/ Clients \/ Build \/ Spawn \/ Restart
  BY <1>1, BuildGate
<1>2. CASE Exit
  BY <1>2, ExitGate
<1>3. CASE Signal /\ ~Exit
  BY <1>3, SameGate, Zenon DEF Signal, commandVars
<1>4. CASE (\E s \in Sub : Begin(s) \/ End(s)) \/ EndOthers \/ HttpFails \/ Readiness
  BY <1>4, GoroutineGate
<1>5. CASE \E r \in served : CacheSync(r)
  BY <1>5, SameGate, Zenon DEF CacheSync, commandVars
<1>6. CASE PollBegin \/ PollEnd
  BY <1>6, SameGate, Zenon DEF PollBegin, PollEnd, commandVars
<1>7. CASE PollProcess
  BY <1>7, ProcessGate, Zenon DEF PollProcess
<1>8. CASE WsRead
  BY <1>8, ProcessGate, Zenon DEF WsRead
<1>9. CASE WsDial \/ WsDrop \/ \E s \in 1 .. MaxSessions : WsServe(s)
  BY <1>9, SameGate, Zenon DEF WsDial, WsDrop, WsServe, commandVars
<1>10. CASE \E cmd \in Cmd : HandlerStep(cmd)
  <2>1. PICK cmd \in Cmd : HandlerStep(cmd)
    BY <1>10
  <2>2. /\ handler[cmd].at # "none"
        /\ \/ handler' = [handler EXCEPT ![cmd].wrote = TRUE]
           \/ handler' = [handler EXCEPT ![cmd].at = "abandoned"]
           \/ handler' = [handler EXCEPT ![cmd] = Ended]
    BY <2>1, Zenon DEF HandlerStep, HandlerWrites, HandlerEnds
  <2>3. UNCHANGED <<buildVars, place, sub, runCtx>>
    BY <2>1, Zenon DEF HandlerStep, HandlerWrites, HandlerEnds
  <2>4. handler' \in [Cmd -> HandlerType]
    <3>1. handler \in [Cmd -> HandlerType] /\ handler[cmd] \in HandlerType
      BY DEF GateInv, HandlerInv
    <3>2. /\ [handler[cmd] EXCEPT !.wrote = TRUE] \in HandlerType
          /\ [handler[cmd] EXCEPT !.at = "abandoned"] \in HandlerType
          /\ Ended \in HandlerType
      BY <3>1 DEF HandlerType, Ended, NoHandler
    <3> QED BY <2>2, <3>1, <3>2
  <2>5. \A c \in Cmd : /\ handler'[c].at # "none" => handler[c].at # "none"
                       /\ handler'[c].ctx = "background" => handler'[c].early
    BY <2>2 DEF GateInv, HandlerInv, HandlerType, Ended, NoHandler
  <2>6. ModeInv'
    BY <2>3, Zenon DEF GateInv, ModeInv, buildVars
  <2>7. HandlerInv'
    BY <2>3, <2>4, <2>5, Zenon DEF GateInv, HandlerInv, buildVars, Running
  <2> QED
    BY <2>6, <2>7 DEF GateInv
<1>11. CASE UNCHANGED vars
  BY <1>11, SameGate, Zenon DEF vars, commandVars
<1> QED
  BY <1>1, <1>2, <1>3, <1>4, <1>5, <1>6, <1>7, <1>8, <1>9, <1>10, <1>11, Zenon
     DEF Next, Progress, PollStep, WsStep, Finish, Crash

\* What can happen to the handlers in a step.
LEMMA HandlerSteps ==
    ASSUME Next
    PROVE  \/ UNCHANGED handler \/ Exit
           \/ \E cmd : Process(cmd)
           \/ \E cmd \in Cmd : HandlerStep(cmd)
<1>1. CASE Progress
  BY <1>1, Zenon DEF Progress, Load, Clients, Build, Spawn, Finish, Begin, End, EndOthers,
     CacheSync, Readiness, commandVars
<1>2. CASE Signal \/ Crash \/ Restart \/ HttpFails
  BY <1>2, Zenon DEF Signal, Crash, Restart, HttpFails, commandVars
<1>3. CASE PollStep
  BY <1>3, Zenon DEF PollStep, PollBegin, PollEnd, PollProcess, commandVars
<1>4. CASE WsStep
  BY <1>4, Zenon DEF WsStep, WsDial, WsRead, WsDrop, commandVars
<1>5. CASE \E s \in 1 .. MaxSessions : WsServe(s)
  BY <1>5, Zenon DEF WsServe, commandVars
<1> QED
  BY <1>1, <1>2, <1>3, <1>4, <1>5, Zenon DEF Next

\* In every reachable state a handler, its context, the executor and the
\* configuration agree.
THEOREM GateHolds == Spec => []GateInv
<1> QED
  BY InitGate, NextGate, PTL DEF Spec

\* A command gets a handler only in an agent with an executor, whatever the
\* environment: one told to be read-only or without the writer's token refuses.
THEOREM OnlyWriterHandles == Spec => []WriterOnly
<1>1. GateInv => WriterOnly
  BY Zenon DEF GateInv, ModeInv, HandlerInv, WriterOnly
<1> QED
  BY <1>1, GateHolds, PTL

\* After ctx is cancelled only Helm and commands pushed before Run had begun still
\* write to the cluster: every other handler has the context of Run.
THEOREM StopReachesHandlers == Spec => StopStopsWrites
<1> DEFINE Step == \A cmd \in Cmd :
        ctxDone /\ ~handler[cmd].wrote /\ handler'[cmd].wrote
            => Helm(cmd) \/ handler[cmd].early
<1>1. GateInv /\ [Next]_vars => [Step]_vars
  <2> SUFFICES ASSUME GateInv, Next, NEW cmd \in Cmd,
                      ctxDone, ~handler[cmd].wrote, handler'[cmd].wrote
               PROVE  Helm(cmd) \/ handler[cmd].early
    BY Zenon DEF Step
  <2>1. CASE UNCHANGED handler
    BY <2>1
  <2>2. CASE Exit
    BY <2>2 DEF Exit, NoHandler
  <2>3. CASE \E c : Process(c)
    <3>1. PICK c : Process(c)
      BY <2>3
    <3>2. handler' # handler
      OBVIOUS
    <3>3. PICK new : new.wrote = FALSE /\ handler' = [handler EXCEPT ![c] = new]
      BY <3>1, <3>2 DEF Process
    <3> QED
      BY <3>3 DEF GateInv, HandlerInv
  <2>4. CASE \E c \in Cmd : HandlerStep(c)
    <3>1. PICK c \in Cmd : HandlerStep(c)
      BY <2>4
    <3>2. HandlerWrites(cmd)
      <4>1. CASE HandlerEnds(c)
        BY <4>1 DEF HandlerEnds, GateInv, HandlerInv, HandlerType, Ended, NoHandler
      <4>2. CASE HandlerWrites(c) /\ c # cmd
        BY <4>2 DEF HandlerWrites, GateInv, HandlerInv
      <4> QED
        BY <3>1, <4>1, <4>2 DEF HandlerStep
    <3>3. handler[cmd].ctx = "background" \/ Helm(cmd)
      BY <3>2, Zenon DEF HandlerWrites
    <3> QED
      BY <3>3, Zenon DEF GateInv, HandlerInv
  <2> QED
    BY <2>1, <2>2, <2>3, <2>4, HandlerSteps
<1> QED
  BY <1>1, GateHolds, PTL DEF Spec, StopStopsWrites

-----------------------------------------------------------------------------
(* The control plane. *)

Session == [at : {"hello", "open", "gone"}, unsent : Seq(Cmd)]

ServerType ==
    /\ delivered \in BOOLEAN /\ wsDelivered \in BOOLEAN
    /\ sess \in Seq(Session)
    /\ handed \in [{"poll", "ws"} -> Seq(Cmd)]

\* Of the commands, n have been pushed, and only one session has the others.
Pushed(n) ==
    /\ handed["ws"] = SubSeq(Commands, 1, n)
    /\ ~wsDelivered => n = 0
    /\ \A s \in DOMAIN sess : sess[s].unsent # << >> =>
          /\ wsDelivered /\ sess[s].at = "open"
          /\ sess[s].unsent = SubSeq(Commands, n + 1, Len(Commands))
    /\ \A s, t \in DOMAIN sess :
          sess[s].unsent # << >> /\ sess[t].unsent # << >> => s = t

\* The first poll has the commands, and what was pushed and what the session
\* that pushes has left are the commands.
HandInv ==
    /\ handed["poll"] = IF delivered THEN Commands ELSE << >>
    /\ \E n \in 0 .. Len(Commands) : Pushed(n)

ServerStep ==
    \/ UNCHANGED serverVars
    \/ Server!Poll
    \/ Server!WsAccept
    \/ \E s \in DOMAIN sess :
          Server!WsHello(s, Authorized) \/ Server!WsPush(s) \/ Server!WsGone(s)

\* Whatever the process does, crashes and restarts included, the control plane
\* takes one of its own steps or none.
LEMMA ServerSteps == [Next]_vars => ServerStep
<1> SUFFICES ASSUME [Next]_vars PROVE ServerStep
  OBVIOUS
<1>1. CASE Progress
  BY <1>1, Zenon DEF Progress, Load, Clients, Build, Spawn, Finish, Exit, Begin, End, EndOthers,
     CacheSync, Readiness, ServerStep
<1>2. CASE Signal \/ Crash \/ Restart \/ HttpFails
  BY <1>2, Zenon DEF Signal, Crash, Restart, HttpFails, Exit, ServerStep
<1>3. CASE PollStep
  BY <1>3, Zenon DEF PollStep, PollBegin, PollEnd, PollProcess, ServerStep
<1>4. CASE WsStep
  BY <1>4, Zenon DEF WsStep, WsDial, WsRead, WsDrop, ServerStep
<1>5. CASE \E s \in 1 .. MaxSessions : WsServe(s)
  BY <1>5, Zenon DEF WsServe, ServerStep
<1>6. CASE \E cmd \in Cmd : HandlerStep(cmd)
  BY <1>6, Zenon DEF HandlerStep, HandlerWrites, HandlerEnds, ServerStep
<1>7. CASE UNCHANGED vars
  BY <1>7, Zenon DEF vars, ServerStep
<1> QED
  BY <1>1, <1>2, <1>3, <1>4, <1>5, <1>6, <1>7, Zenon DEF Next

\* The commands of the command file.
LEMMA CommandsType == Commands \in Seq(Cmd) /\ Len(Commands) \in Nat
<1>1. Commands \in Seq(STRING)
  BY OperatorAssumption
<1> QED BY <1>1, SeqOfRange, LenProperties DEF Cmd

\* What the server answers to a poll.
LEMMA ReplyType ==
  /\ Server!PollReply = IF delivered THEN << >> ELSE Commands
  /\ Server!PollReply \in Seq(Cmd)
<1>1. Server!PollReply = IF delivered THEN << >> ELSE Commands
  BY Zenon DEF Server!PollReply
<1>2. << >> \in Seq(Cmd)
  BY EmptySeq
<1> QED BY <1>1, <1>2, CommandsType, Zenon

\* A session after a step in it.
LEMMA SessionStep ==
  ASSUME ServerType, NEW s \in DOMAIN sess, NEW new \in Session,
         sess' = [sess EXCEPT ![s] = new]
  PROVE  /\ sess' \in Seq(Session) /\ Len(sess') = Len(sess) /\ DOMAIN sess' = DOMAIN sess
         /\ sess'[s] = new
         /\ \A t \in DOMAIN sess : t # s => sess'[t] = sess[t]
<1>1. sess \in Seq(Session)
  BY DEF ServerType
<1>2. DOMAIN sess = 1 .. Len(sess)
  BY <1>1, LenProperties
<1>3. /\ sess' \in Seq(Session) /\ Len(sess') = Len(sess)
      /\ \A j \in 1 .. Len(sess) : sess'[j] = IF j = s THEN new ELSE sess[j]
  BY <1>1, <1>2, ExceptSeq, Zenon
<1>4. DOMAIN sess' = 1 .. Len(sess)
  BY <1>3, LenProperties, Zenon
<1> QED BY <1>2, <1>3, <1>4, Zenon

\* A session of which a command has been sent.
LEMMA WithUnsent ==
  ASSUME NEW r \in Session, NEW u
  PROVE  [r EXCEPT !.unsent = u] = [at |-> r.at, unsent |-> u]
BY DEF Session

\* The session that WsHello, WsPush and WsGone leave.
LEMMA SessionSteps ==
  ASSUME ServerType, NEW s \in DOMAIN sess
  PROVE  /\ Server!WsHello(s, Authorized) =>
                \E new \in Session :
                    /\ sess' = [sess EXCEPT ![s] = new]
                    /\ new.unsent = IF Authorized /\ ~wsDelivered THEN Commands ELSE << >>
                    /\ Authorized => new.at = "open"
         /\ Server!WsPush(s) =>
                \E new \in Session :
                    /\ sess' = [sess EXCEPT ![s] = new]
                    /\ new.unsent = Tail(sess[s].unsent) /\ new.at = "open"
         /\ Server!WsGone(s) =>
                \E new \in Session :
                    sess' = [sess EXCEPT ![s] = new] /\ new.unsent = << >>
<1>1. sess[s] \in Session /\ sess[s].unsent \in Seq(Cmd)
  <2>1. sess \in Seq(Session) /\ DOMAIN sess = 1 .. Len(sess)
    BY LenProperties DEF ServerType
  <2>2. sess[s] \in Session
    BY <2>1, ElementOfSeq
  <2> QED BY <2>2 DEF Session
<1>2. << >> \in Seq(Cmd) /\ Commands \in Seq(Cmd)
  BY EmptySeq, CommandsType
<1>3. ASSUME Server!WsHello(s, Authorized)
      PROVE  \E new \in Session :
                /\ sess' = [sess EXCEPT ![s] = new]
                /\ new.unsent = IF Authorized /\ ~wsDelivered THEN Commands ELSE << >>
                /\ Authorized => new.at = "open"
  <2> DEFINE new == [at |-> IF Authorized THEN "open" ELSE "gone",
                     unsent |-> IF Authorized /\ ~wsDelivered THEN Commands ELSE << >>]
  <2>1. sess' = [sess EXCEPT ![s] = new]
    BY <1>3, Zenon DEF Server!WsHello
  <2>2. new \in Session
    BY <1>2 DEF Session
  <2>3. /\ new.unsent = IF Authorized /\ ~wsDelivered THEN Commands ELSE << >>
        /\ Authorized => new.at = "open"
    OBVIOUS
  <2> QED BY <2>1, <2>2, <2>3, Zenon
<1>4. ASSUME Server!WsPush(s)
      PROVE  \E new \in Session :
                /\ sess' = [sess EXCEPT ![s] = new]
                /\ new.unsent = Tail(sess[s].unsent) /\ new.at = "open"
  <2> DEFINE new == [at |-> "open", unsent |-> Tail(sess[s].unsent)]
  <2>1. sess[s].at = "open" /\ sess[s].unsent # << >>
    BY <1>4, Zenon DEF Server!WsPush
  <2>2. new \in Session
    BY <1>1, <2>1, HeadTailProperties DEF Session
  <2>3. sess' = [sess EXCEPT ![s] = new]
    <3>1. [sess[s] EXCEPT !.unsent = Tail(sess[s].unsent)] = new
      BY <1>1, <2>1, WithUnsent, Zenon
    <3>2. sess' = [sess EXCEPT ![s] = [sess[s] EXCEPT !.unsent = Tail(sess[s].unsent)]]
      BY <1>4 DEF Server!WsPush
    <3> QED BY <3>1, <3>2, Zenon
  <2>4. new.unsent = Tail(sess[s].unsent) /\ new.at = "open"
    OBVIOUS
  <2> QED BY <2>2, <2>3, <2>4, Zenon
<1>5. ASSUME Server!WsGone(s)
      PROVE  \E new \in Session :
                sess' = [sess EXCEPT ![s] = new] /\ new.unsent = << >>
  <2> DEFINE new == [at |-> "gone", unsent |-> << >>]
  <2>1. new \in Session /\ new.unsent = << >>
    BY <1>2 DEF Session
  <2>2. sess' = [sess EXCEPT ![s] = new]
    BY <1>5, Zenon DEF Server!WsGone
  <2> QED BY <2>1, <2>2, Zenon
<1> QED BY <1>3, <1>4, <1>5, Zenon

\* The control plane's state keeps its types, and no session ever goes away.
LEMMA ServerTypeNext ==
  ServerType /\ ServerStep => ServerType' /\ Len(sess) <= Len(sess')
<1> SUFFICES ASSUME ServerType, ServerStep
             PROVE  ServerType' /\ Len(sess) <= Len(sess')
  OBVIOUS
<1>0. sess \in Seq(Session) /\ Len(sess) \in Nat /\ DOMAIN sess = 1 .. Len(sess)
  BY LenProperties DEF ServerType
<1>1. CASE UNCHANGED serverVars
  BY <1>0, <1>1 DEF ServerType, serverVars
<1>2. CASE Server!Poll
  <2>1. handed["poll"] \o Server!PollReply \in Seq(Cmd)
    BY ReplyType, ConcatProperties DEF ServerType
  <2>2. handed' \in [{"poll", "ws"} -> Seq(Cmd)]
    BY <1>2, <2>1 DEF Server!Poll, ServerType
  <2>3. delivered' \in BOOLEAN /\ wsDelivered' = wsDelivered /\ sess' = sess
    BY <1>2, Zenon DEF Server!Poll, Server!Swapped
  <2> QED BY <1>0, <2>2, <2>3 DEF ServerType
<1>3. CASE Server!WsAccept
  <2> DEFINE new == [at |-> "hello", unsent |-> << >>]
  <2>1. new \in Session
    BY EmptySeq DEF Session
  <2>2. sess' = Append(sess, new) /\ UNCHANGED <<delivered, wsDelivered, handed>>
    BY <1>3, Zenon DEF Server!WsAccept
  <2> HIDE DEF new
  <2>3. sess' \in Seq(Session) /\ Len(sess') = Len(sess) + 1
    BY <1>0, <2>1, <2>2, AppendProperties
  <2>4. Len(sess) <= Len(sess')
    BY <1>0, <2>3
  <2> QED BY <2>2, <2>3, <2>4, Zenon DEF ServerType
<1>4. ASSUME NEW s \in DOMAIN sess,
             Server!WsHello(s, Authorized) \/ Server!WsPush(s) \/ Server!WsGone(s)
      PROVE  ServerType' /\ Len(sess) <= Len(sess')
  <2>1. sess' \in Seq(Session) /\ Len(sess') = Len(sess)
    BY <1>4, SessionSteps, SessionStep, Zenon
  <2>2. Len(sess) <= Len(sess')
    BY <1>0, <2>1
  <2>3. delivered' = delivered /\ wsDelivered' \in BOOLEAN
    BY <1>4, Zenon DEF Server!WsHello, Server!WsPush, Server!WsGone, Server!Swapped, ServerType
  <2>4. handed' \in [{"poll", "ws"} -> Seq(Cmd)]
    <3>1. CASE Server!WsPush(s)
      <4>a. sess[s] \in Session
        BY <1>0, <1>4, ElementOfSeq
      <4>1. sess[s].unsent \in Seq(Cmd) /\ sess[s].unsent # << >>
        BY <3>1, <4>a DEF Session, Server!WsPush
      <4>2. Head(sess[s].unsent) \in Cmd
        BY <4>1, HeadTailProperties
      <4>3. Append(handed["ws"], Head(sess[s].unsent)) \in Seq(Cmd)
        BY <4>2, AppendProperties DEF ServerType
      <4> QED BY <3>1, <4>3 DEF Server!WsPush, ServerType
    <3> QED BY <1>4, <3>1, Zenon DEF Server!WsHello, Server!WsGone, ServerType
  <2> QED BY <2>1, <2>2, <2>3, <2>4, Zenon DEF ServerType
<1> QED BY <1>1, <1>2, <1>3, <1>4, Zenon DEF ServerStep

\* Only the call that swaps a flag hands anything out, and no other call has
\* anything left to push.
LEMMA HandNext == ServerType /\ HandInv /\ ServerStep => HandInv'
<1> SUFFICES ASSUME ServerType, HandInv, ServerStep
             PROVE  HandInv'
  OBVIOUS
<1>0. Commands \in Seq(Cmd) /\ Len(Commands) \in Nat
  BY CommandsType
<1>a. sess \in Seq(Session) /\ DOMAIN sess = 1 .. Len(sess) /\ Len(sess) \in Nat
  BY LenProperties DEF ServerType
<1>b. PICK n \in 0 .. Len(Commands) : Pushed(n)
  BY DEF HandInv
<1>1. CASE UNCHANGED serverVars
  BY <1>1 DEF HandInv, Pushed, serverVars
<1>2. CASE Server!Poll
  <2>1. handed' = [handed EXCEPT !["poll"] = @ \o Server!PollReply]
        /\ delivered' = TRUE /\ UNCHANGED <<wsDelivered, sess>>
    BY <1>2, Zenon DEF Server!Poll, Server!Swapped
  <2>2. handed["poll"] \o Server!PollReply = Commands
    BY <1>0, ReplyType, ConcatEmptySeq, Zenon DEF HandInv
  <2>3. handed'["poll"] = Commands /\ handed'["ws"] = handed["ws"]
    BY <2>1, <2>2 DEF ServerType
  <2>4. Pushed(n)'
    BY <1>b, <2>1, <2>3 DEF Pushed
  <2> QED BY <2>1, <2>3, <2>4 DEF HandInv
<1>3. CASE Server!WsAccept
  <2> DEFINE new == [at |-> "hello", unsent |-> << >>]
  <2>1. sess' = Append(sess, new) /\ UNCHANGED <<delivered, wsDelivered, handed>>
    BY <1>3, Zenon DEF Server!WsAccept
  <2>2. new \in Session /\ new.unsent = << >>
    BY EmptySeq DEF Session
  <2> HIDE DEF new
  <2>3. /\ Len(sess') = Len(sess) + 1 /\ sess' \in Seq(Session)
        /\ \A i \in 1 .. Len(sess) : sess'[i] = sess[i]
        /\ sess'[Len(sess) + 1] = new
    BY <1>a, <2>1, <2>2, AppendProperties
  <2>4. DOMAIN sess' = 1 .. Len(sess) + 1
    BY <2>3, LenProperties
  <2>5. \A s \in DOMAIN sess' : sess'[s].unsent # << >> => s \in DOMAIN sess /\ sess'[s] = sess[s]
    BY <1>a, <2>2, <2>3, <2>4
  <2>a. UNCHANGED <<delivered, wsDelivered, handed>>
    BY <2>1
  <2>6. /\ handed["ws"] = SubSeq(Commands, 1, n) /\ (~wsDelivered => n = 0)
        /\ \A s \in DOMAIN sess : sess[s].unsent # << >> =>
              /\ wsDelivered /\ sess[s].at = "open"
              /\ sess[s].unsent = SubSeq(Commands, n + 1, Len(Commands))
        /\ \A s, t \in DOMAIN sess : sess[s].unsent # << >> /\ sess[t].unsent # << >> => s = t
    BY <1>b, Zenon DEF Pushed
  <2>7. \A s \in DOMAIN sess' : sess'[s].unsent # << >> =>
            /\ wsDelivered' /\ sess'[s].at = "open"
            /\ sess'[s].unsent = SubSeq(Commands, n + 1, Len(Commands))
    BY <2>a, <2>5, <2>6, Zenon
  <2>8. \A s, t \in DOMAIN sess' : sess'[s].unsent # << >> /\ sess'[t].unsent # << >> => s = t
    BY <2>5, <2>6, Zenon
  <2>9. Pushed(n)'
    BY <2>a, <2>6, <2>7, <2>8, Zenon DEF Pushed
  <2> QED BY <2>a, <2>9, Zenon DEF HandInv
<1>4. ASSUME NEW s \in DOMAIN sess, NEW new \in Session,
             sess' = [sess EXCEPT ![s] = new], new.unsent = << >>,
             wsDelivered => wsDelivered', UNCHANGED <<delivered, handed>>
      PROVE  HandInv'
  <2>1. /\ DOMAIN sess' = DOMAIN sess /\ sess'[s] = new
        /\ \A t \in DOMAIN sess : t # s => sess'[t] = sess[t]
    BY <1>4, SessionStep, Zenon
  <2>2. \A t \in DOMAIN sess' : sess'[t].unsent # << >> => t \in DOMAIN sess /\ sess'[t] = sess[t]
    BY <1>4, <2>1, Zenon
  <2>3. Pushed(n)'
    BY <1>b, <1>4, <2>2, Zenon DEF Pushed
  <2> QED BY <1>4, <2>3, Zenon DEF HandInv
<1>5. ASSUME NEW s \in DOMAIN sess, Server!WsHello(s, Authorized) PROVE HandInv'
  <2>1. PICK new \in Session :
            /\ sess' = [sess EXCEPT ![s] = new]
            /\ new.unsent = IF Authorized /\ ~wsDelivered THEN Commands ELSE << >>
            /\ Authorized => new.at = "open"
    BY <1>5, SessionSteps, Zenon
  <2>2. /\ wsDelivered' = (wsDelivered \/ Authorized)
        /\ UNCHANGED <<delivered, handed>>
    BY <1>5, Zenon DEF Server!WsHello, Server!Swapped, ServerType
  <2>3. CASE new.unsent = << >>
    BY <1>4, <2>1, <2>2, <2>3, Zenon
  <2>4. CASE new.unsent # << >>
    <3>1. Authorized /\ ~wsDelivered /\ new.unsent = Commands /\ wsDelivered'
          /\ new.at = "open"
      BY <2>1, <2>2, <2>4, Zenon
    <3>2. n = 0
      BY <1>b, <3>1, Zenon DEF Pushed
    <3>3. new.unsent = SubSeq(Commands, n + 1, Len(Commands))
      BY <1>0, <3>1, <3>2, SubSeqFull
    <3>4. \A t \in DOMAIN sess : sess[t].unsent = << >>
      BY <1>b, <3>1, Zenon DEF Pushed
    <3>5. /\ DOMAIN sess' = DOMAIN sess /\ sess'[s] = new
          /\ \A t \in DOMAIN sess : t # s => sess'[t] = sess[t]
      BY <2>1, SessionStep, Zenon
    <3>6. \A t \in DOMAIN sess' : sess'[t].unsent # << >> => t = s
      BY <3>4, <3>5, Zenon
    <3>7. Pushed(n)'
      BY <1>b, <2>2, <3>1, <3>3, <3>5, <3>6, Zenon DEF Pushed
    <3> QED BY <2>2, <3>7, Zenon DEF HandInv
  <2> QED BY <2>3, <2>4
<1>6. ASSUME NEW s \in DOMAIN sess, Server!WsPush(s) PROVE HandInv'
  <2>1. /\ sess[s].unsent # << >> /\ UNCHANGED <<delivered, wsDelivered>>
        /\ handed' = [handed EXCEPT !["ws"] = Append(@, Head(sess[s].unsent))]
    BY <1>6, Zenon DEF Server!WsPush
  <2>2. PICK new \in Session : /\ sess' = [sess EXCEPT ![s] = new]
                               /\ new.unsent = Tail(sess[s].unsent) /\ new.at = "open"
    BY <1>6, SessionSteps, Zenon
  <2>3. sess[s].unsent = SubSeq(Commands, n + 1, Len(Commands)) /\ wsDelivered
    BY <1>b, <2>1, Zenon DEF Pushed
  <2>4. n + 1 \in 1 .. Len(Commands)
    <3>1. CASE n = Len(Commands)
      <4>1. SubSeq(Commands, n + 1, Len(Commands)) = << >>
        BY <1>0, <3>1, SubSeqEmpty
      <4> QED BY <2>1, <2>3, <4>1
    <3> QED BY <1>0, <3>1
  <2>5. /\ Head(sess[s].unsent) = Commands[n + 1]
        /\ Tail(sess[s].unsent) = SubSeq(Commands, (n + 1) + 1, Len(Commands))
    <3>1. Len(Commands) \in n + 1 .. Len(Commands)
      BY <1>0, <2>4
    <3> QED BY <1>0, <2>3, <2>4, <3>1, HeadTailOfSubSeq
  <2>6. handed'["ws"] = SubSeq(Commands, 1, n + 1) /\ handed'["poll"] = handed["poll"]
    <3>1. handed["ws"] = SubSeq(Commands, 1, n) /\ handed["ws"] \in Seq(Cmd)
      BY <1>b DEF Pushed, ServerType
    <3>2. SubSeq(Commands, 1, n + 1) = SubSeq(Commands, 1, n) \o << Commands[n + 1] >>
      <4>1. 1 \in 1 .. Len(Commands) /\ n + 1 \in 1 .. Len(Commands) /\ (n + 1) - 1 = n
        BY <1>0, <2>4
      <4> QED BY <1>0, <4>1, SubSeqRecursiveSecond
    <3>3. Commands[n + 1] \in Cmd
      BY <1>0, <2>4, ElementOfSeq
    <3>4. Append(handed["ws"], Commands[n + 1]) = handed["ws"] \o << Commands[n + 1] >>
      BY <3>1, <3>3, AppendIsConcat
    <3>5. handed'["ws"] = Append(handed["ws"], Head(sess[s].unsent))
          /\ handed'["poll"] = handed["poll"]
      BY <2>1 DEF ServerType
    <3> QED BY <2>5, <3>1, <3>2, <3>4, <3>5, Zenon
  <2>7. /\ DOMAIN sess' = DOMAIN sess /\ sess'[s] = new
        /\ \A t \in DOMAIN sess : t # s => sess'[t] = sess[t]
    BY <2>2, SessionStep, Zenon
  <2>8. \A t \in DOMAIN sess' : sess'[t].unsent # << >> => t = s
    BY <1>b, <2>1, <2>7, Zenon DEF Pushed
  <2>9. Pushed(n + 1)'
    BY <2>1, <2>2, <2>3, <2>5, <2>6, <2>7, <2>8, Zenon DEF Pushed
  <2>10. n + 1 \in 0 .. Len(Commands)
    BY <1>0, <2>4
  <2> QED BY <2>1, <2>6, <2>9, <2>10, Zenon DEF HandInv
<1>7. ASSUME NEW s \in DOMAIN sess, Server!WsGone(s) PROVE HandInv'
  <2>1. UNCHANGED <<delivered, wsDelivered, handed>>
    BY <1>7, Zenon DEF Server!WsGone
  <2>2. PICK new \in Session : sess' = [sess EXCEPT ![s] = new] /\ new.unsent = << >>
    BY <1>7, SessionSteps, Zenon
  <2> QED BY <1>4, <2>1, <2>2, Zenon
<1> QED BY <1>1, <1>2, <1>3, <1>5, <1>6, <1>7, Zenon DEF ServerStep

\* The control plane's part of Init.
LEMMA ServerInit == Init => ServerType /\ HandInv
<1> SUFFICES ASSUME Init PROVE ServerType /\ HandInv
  OBVIOUS
<1>1. /\ delivered = FALSE /\ wsDelivered = FALSE /\ sess = << >>
      /\ handed = [c \in {"poll", "ws"} |-> << >>]
  BY Zenon DEF Init, Server!Init
<1>2. << >> \in Seq(Session) /\ << >> \in Seq(Cmd) /\ Len(<< >>) = 0
  BY EmptySeq
<1>3. ServerType
  BY <1>1, <1>2 DEF ServerType
<1>4. DOMAIN sess = {}
  BY <1>1
<1>5. handed["poll"] = << >> /\ handed["ws"] = << >>
  BY <1>1
<1>6. 0 \in 0 .. Len(Commands) /\ SubSeq(Commands, 1, 0) = << >>
  BY CommandsType, SubSeqEmpty
<1>7. Pushed(0)
  BY <1>1, <1>4, <1>5, <1>6, Zenon DEF Pushed
<1> QED BY <1>1, <1>3, <1>5, <1>6, <1>7, Zenon DEF HandInv

\* The control plane hands every command out at most once per channel, however
\* its calls, lost connections and restarts of the agent interleave.
THEOREM HandedOnce == Spec => []OncePerChannel
<1>1. ServerType /\ HandInv /\ [Next]_vars => (ServerType /\ HandInv)'
  BY ServerSteps, ServerTypeNext, HandNext, Zenon
<1>2. HandInv => OncePerChannel
  <2> SUFFICES ASSUME HandInv PROVE Server!OncePerChannel
    BY DEF OncePerChannel
  <2>1. \E n \in 0 .. Len(Commands) : handed["ws"] = SubSeq(Commands, 1, n)
    BY DEF HandInv, Pushed
  <2>2. \E n \in 0 .. Len(Commands) : handed["poll"] = SubSeq(Commands, 1, n)
    <3>1. 0 \in 0 .. Len(Commands) /\ Len(Commands) \in 0 .. Len(Commands)
      BY CommandsType
    <3>2. SubSeq(Commands, 1, 0) = << >> /\ SubSeq(Commands, 1, Len(Commands)) = Commands
      BY CommandsType, SubSeqEmpty, SubSeqFull
    <3> QED BY <3>1, <3>2, Zenon DEF HandInv
  <2> QED BY <2>1, <2>2, Zenon DEF Server!OncePerChannel
<1> QED BY <1>1, <1>2, ServerInit, PTL DEF Spec

-----------------------------------------------------------------------------
(* Types. *)

RunType ==
    /\ env \in Environments
    /\ place \in {"load", "clients", "build", "spawn", "wait", "exited"}
    /\ exec \in BOOLEAN /\ ctxDone \in BOOLEAN /\ ready \in BOOLEAN
    /\ runCtx \in BOOLEAN /\ polling \in BOOLEAN /\ pollLost \in BOOLEAN
    /\ served \subseteq Known /\ synced \subseteq served
    /\ place # "wait" => synced = {}
    /\ starts \in 1 .. MaxStarts /\ faults \in 0 .. MaxFaults

WireType ==
    /\ todo \in Seq(Cmd) /\ frames \in Seq(Cmd)
    /\ link \in 0 .. Len(sess)
    /\ ids \subseteq Cmd

\* A fault is counted within its bound.
LEMMA FaultType == RunType /\ Fault => faults' \in 0 .. MaxFaults
BY OperatorAssumption DEF RunType, Fault

\* The end of a process leaves well-typed variables.
LEMMA ExitType == RunType /\ Exit => RunType'
BY Zenon DEF RunType, Exit, boundVars

\* The steps of run keep the types of its variables: only names that Resolve
\* knows come to be served, and only served resources are synced.
LEMMA RunTypeNext == RunType /\ [Next]_vars => RunType'
<1> SUFFICES ASSUME RunType, [Next]_vars PROVE RunType'
  OBVIOUS
<1>1. CASE Exit
  BY <1>1, ExitType
<1>2. CASE Load /\ ~Exit
  BY <1>2, Zenon DEF Load, RunType, buildVars, healthVars, pollVars, boundVars
<1>3. CASE Clients /\ ~Exit
  <2>1. exec' \in BOOLEAN /\ place' = "build"
        /\ UNCHANGED <<env, served, ctxDone, healthVars, runCtx, pollVars, boundVars>>
    BY <1>3, Zenon DEF Clients
  <2>2. synced = {}
    BY <1>3 DEF Clients, RunType
  <2> QED BY <2>1, <2>2, Zenon DEF RunType, healthVars, pollVars, boundVars
<1>4. CASE Build /\ ~Exit
  <2>1. served' \subseteq Range(cfg.InformersEnabled) /\ Range(cfg.InformersEnabled) \subseteq Known
    BY <1>4, Zenon DEF Build, Resolved
  <2>2. synced' = {}
    BY <1>4 DEF Build, RunType, healthVars
  <2> QED BY <1>4, <2>1, <2>2, Zenon DEF Build, RunType, healthVars, pollVars, boundVars
<1>5. CASE Spawn
  BY <1>5, Zenon DEF Spawn, RunType, buildVars, healthVars, pollVars, boundVars
<1>6. CASE Signal /\ ~Exit
  BY <1>6, Zenon DEF Signal, RunType, buildVars, healthVars, pollVars, boundVars
<1>7. CASE Restart
  <2>1. starts' \in 1 .. MaxStarts /\ place' = "load"
    BY <1>7, OperatorAssumption DEF Restart, RunType
  <2> QED BY <1>7, <2>1, Zenon DEF Restart, RunType, buildVars, healthVars, pollVars
<1>8. CASE \E s \in Sub : Begin(s)
  BY <1>8, Zenon DEF Begin, RunType, buildVars, healthVars, pollVars, boundVars
<1>9. CASE (\E s \in Sub : End(s)) \/ EndOthers
  BY <1>9, Zenon DEF End, EndOthers, RunType, buildVars, healthVars, pollVars, boundVars
<1>10. CASE HttpFails
  <2>1. faults' \in 0 .. MaxFaults
    BY <1>10, FaultType, Zenon DEF HttpFails
  <2> QED BY <1>10, <2>1, Zenon DEF HttpFails, StopOnError, RunType, buildVars, healthVars, pollVars
<1>11. CASE (\E r \in served : CacheSync(r)) \/ Readiness
  BY <1>11, Zenon DEF CacheSync, Readiness, RunType, buildVars, healthVars, pollVars, boundVars
<1>12. CASE PollBegin \/ PollProcess
  BY <1>12, Zenon DEF PollBegin, PollProcess, RunType, buildVars, healthVars, pollVars, boundVars
<1>13. CASE PollEnd
  <2>1. faults' \in 0 .. MaxFaults
    BY <1>13, FaultType, Zenon DEF PollEnd, RunType
  <2> QED BY <1>13, <2>1, Zenon DEF PollEnd, RunType, buildVars, healthVars
<1>14. CASE WsDial \/ WsRead
  BY <1>14, Zenon DEF WsDial, WsRead, RunType, buildVars, healthVars, pollVars, boundVars
<1>15. CASE WsDrop
  <2>1. faults' \in 0 .. MaxFaults
    BY <1>15, FaultType, Zenon DEF WsDrop, RunType
  <2> QED BY <1>15, <2>1, Zenon DEF WsDrop, RunType, buildVars, healthVars, pollVars
<1>16. CASE \E s \in 1 .. MaxSessions : WsServe(s)
  BY <1>16, Zenon DEF WsServe, RunType, buildVars, healthVars, pollVars, boundVars
<1>17. CASE \E cmd \in Cmd : HandlerStep(cmd)
  BY <1>17, Zenon DEF HandlerStep, HandlerWrites, HandlerEnds, RunType, buildVars, healthVars,
     pollVars, boundVars
<1>18. CASE UNCHANGED vars
  BY <1>18, Zenon DEF vars, RunType, buildVars, healthVars, pollVars, boundVars
<1> QED
  BY <1>1, <1>2, <1>3, <1>4, <1>5, <1>6, <1>7, <1>8, <1>9, <1>10, <1>11, <1>12, <1>13, <1>14,
     <1>15, <1>16, <1>17, <1>18, Zenon
     DEF Next, Progress, PollStep, WsStep, Finish, Crash

\* What happens to the commands under way.
WireStep ==
    \/ UNCHANGED <<todo, frames, ids>> /\ link' \in {link, NoLink}
    \/ todo' \in {Server!PollReply, << >>} /\ UNCHANGED <<frames, ids, link>>
    \/ todo' = << >> /\ frames' = << >> /\ ids' = {} /\ link' = NoLink
    \/ frames' = << >> /\ link' = NoLink /\ UNCHANGED <<todo, ids>>
    \/ link' = Len(sess') /\ UNCHANGED <<todo, frames, ids>>
    \/ todo # << >> /\ todo' = Tail(todo) /\ ids' = ids \cup {Head(todo)}
          /\ UNCHANGED <<frames, link>>
    \/ frames # << >> /\ frames' = Tail(frames) /\ ids' = ids \cup {Head(frames)}
          /\ UNCHANGED <<todo, link>>
    \/ \E s \in DOMAIN sess :
          /\ sess[s].unsent # << >>
          /\ frames' = Append(frames, Head(sess[s].unsent)) /\ UNCHANGED <<todo, ids, link>>

\* Every step does one of these things to them.
LEMMA WireSteps == [Next]_vars => WireStep
<1> SUFFICES ASSUME [Next]_vars PROVE WireStep
  OBVIOUS
<1>1. CASE Exit
  BY <1>1, Zenon DEF Exit, WireStep
<1>2. CASE Load \/ Clients \/ Build \/ Spawn
  BY <1>1, <1>2, Zenon DEF Load, Clients, Build, Spawn, WireStep, pollVars, linkVars, commandVars
<1>3. CASE \E s \in Sub : Begin(s) \/ End(s)
  BY <1>3, Zenon DEF Begin, End, WireStep, pollVars, linkVars, commandVars
<1>4. CASE EndOthers \/ (\E r \in served : CacheSync(r)) \/ Readiness
  BY <1>4, Zenon DEF EndOthers, CacheSync, Readiness, WireStep, pollVars, linkVars, commandVars
<1>5. CASE Signal \/ Restart \/ HttpFails
  BY <1>1, <1>5, Zenon DEF Signal, Restart, HttpFails, WireStep, pollVars, linkVars, commandVars
<1>6. CASE PollStep
  BY <1>6, Zenon DEF PollStep, PollBegin, PollEnd, PollProcess, Process, WireStep, linkVars,
     commandVars
<1>7. CASE WsStep
  BY <1>7, Zenon DEF WsStep, WsDial, WsRead, WsDrop, Process, WireStep, pollVars, commandVars
<1>8. ASSUME NEW s \in 1 .. MaxSessions, WsServe(s) PROVE WireStep
  <2>1. CASE frames' = frames
    BY <1>8, <2>1, Zenon DEF WsServe, WireStep, pollVars, commandVars
  <2>2. CASE frames' # frames
    <3>1. s \in DOMAIN sess /\ Server!WsPush(s)
          /\ frames' = Append(frames, Head(sess[s].unsent)) /\ UNCHANGED <<todo, ids, link>>
      BY <1>8, <2>2, Zenon DEF WsServe, pollVars, commandVars
    <3>2. sess[s].unsent # << >>
      BY <3>1, Zenon DEF Server!WsPush
    <3> QED BY <3>1, <3>2, Zenon DEF WireStep
  <2> QED BY <2>1, <2>2
<1>9. CASE \E cmd \in Cmd : HandlerStep(cmd)
  BY <1>9, Zenon DEF HandlerStep, HandlerWrites, HandlerEnds, WireStep, pollVars, linkVars
<1>10. CASE UNCHANGED vars
  BY <1>10, Zenon DEF vars, WireStep, pollVars, linkVars, commandVars
<1> QED
  BY <1>1, <1>2, <1>3, <1>4, <1>5, <1>6, <1>7, <1>8, <1>9, <1>10, Zenon
     DEF Next, Progress, Finish, Crash

\* Commands under way are commands of the command file, and the connection is a
\* session of the server.
LEMMA WireTypeNext == ServerType /\ WireType /\ [Next]_vars => WireType'
<1> SUFFICES ASSUME ServerType, WireType, [Next]_vars PROVE WireType'
  OBVIOUS
<1>1. WireStep /\ ServerType' /\ Len(sess) <= Len(sess')
  BY WireSteps, ServerSteps, ServerTypeNext, Zenon
<1>2. Len(sess) \in Nat /\ Len(sess') \in Nat
  BY <1>1, LenProperties DEF ServerType
<1>3. << >> \in Seq(Cmd) /\ Server!PollReply \in Seq(Cmd)
  BY EmptySeq, ReplyType
<1>4. todo \in Seq(Cmd) /\ frames \in Seq(Cmd) /\ ids \subseteq Cmd
  BY Zenon DEF WireType
<1>5. /\ todo # << >> => Head(todo) \in Cmd /\ Tail(todo) \in Seq(Cmd)
      /\ frames # << >> => Head(frames) \in Cmd /\ Tail(frames) \in Seq(Cmd)
  BY <1>4, HeadTailProperties
<1>6. \A s \in DOMAIN sess : sess[s].unsent # << >> =>
          Append(frames, Head(sess[s].unsent)) \in Seq(Cmd)
  <2> TAKE s \in DOMAIN sess
  <2> HAVE sess[s].unsent # << >>
  <2>1. sess \in Seq(Session) /\ DOMAIN sess = 1 .. Len(sess)
    BY LenProperties DEF ServerType
  <2>2. sess[s] \in Session
    BY <2>1, ElementOfSeq
  <2>3. sess[s].unsent \in Seq(Cmd)
    BY <2>2 DEF Session
  <2>4. Head(sess[s].unsent) \in Cmd
    BY <2>3, HeadTailProperties
  <2> QED BY <1>4, <2>4, AppendProperties
<1>7. link' \in 0 .. Len(sess')
  <2>1. link' \in {link, NoLink, Len(sess')}
    BY <1>1, Zenon DEF WireStep
  <2> QED BY <1>1, <1>2, <2>1 DEF WireType, NoLink
<1>8. todo' \in Seq(Cmd)
  BY <1>1, <1>3, <1>4, <1>5, Zenon DEF WireStep
<1>9. frames' \in Seq(Cmd)
  BY <1>1, <1>3, <1>4, <1>5, <1>6, Zenon DEF WireStep
<1>10. ids' \subseteq Cmd
  BY <1>1, <1>4, <1>5, Zenon DEF WireStep
<1> QED BY <1>7, <1>8, <1>9, <1>10, Zenon DEF WireType

\* Types of the process and of the control plane in every reachable state: no
\* unknown informer is served, a link is a session, and the bounds are kept.
THEOREM TypeCorrect == Spec => []TypeOK
<1>1. Init => RunType /\ WireType
  <2> SUFFICES ASSUME Init PROVE RunType /\ WireType
    OBVIOUS
  <2>1. starts \in 1 .. MaxStarts /\ faults \in 0 .. MaxFaults
    BY OperatorAssumption DEF Init
  <2>2. RunType
    BY <2>1, Zenon DEF Init, RunType
  <2>3. << >> \in Seq(Cmd)
    BY EmptySeq
  <2>4. link \in 0 .. Len(sess)
    <3>1. link = 0 /\ sess = << >>
      BY Zenon DEF Init, Server!Init, NoLink
    <3>2. Len(<< >>) = 0
      BY EmptySeq
    <3> QED BY <3>1, <3>2
  <2> QED BY <2>2, <2>3, <2>4, Zenon DEF Init, WireType
<1>2. ServerType /\ RunType /\ WireType /\ [Next]_vars => (ServerType /\ RunType /\ WireType)'
  BY ServerSteps, ServerTypeNext, RunTypeNext, WireTypeNext, Zenon
<1>3. ServerType /\ RunType /\ WireType /\ GateInv => TypeOK
  BY Zenon DEF ServerType, RunType, WireType, GateInv, HandlerInv, HandlerType, TypeOK
<1> QED BY <1>1, <1>2, <1>3, ServerInit, GateHolds, PTL DEF Spec

=============================================================================
