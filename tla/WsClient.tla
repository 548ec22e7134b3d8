------------------------------ MODULE WsClient ------------------------------
(***************************************************************************)
(* internal/wsclient: the goroutine of Run dials, shakes hands, reads      *)
(* frames and reconnects; keepalive pings; any handler may call            *)
(* SendReport, and so does the command handler, inside the read loop.      *)
(*                                                                         *)
(* Time is counted in units.  Goroutines that can run do so before the     *)
(* next unit begins; calls take as long as their timeouts allow.  The      *)
(* library and the network are external.                                   *)
(***************************************************************************)
EXTENDS Naturals, Sequences, Functions

CONSTANTS
    Caller,            \* goroutines that call SendReport
    Reader,            \* the read loop, through the command handler
    Timings,           \* parameters of keepalive: pingEvery, pongWithin, silenceAfter
    HandshakeTimeout,  \* handshakeTimeout
    WriteTimeout,      \* writeTimeout
    BackoffMin,        \* backoffMin
    BackoffMax,        \* backoffMax
    AnswerTime,        \* the time in which a live peer answers a hello or a ping
    Backlog,           \* bound: command frames that wait to be read
    MaxFaults          \* bound: failures of the peer and the network

ASSUME WsClientAssumption ==
    /\ Reader \in Caller
    /\ Timings \subseteq [ping : Nat \ {0}, pong : Nat \ {0}, silence : Nat]
    /\ HandshakeTimeout \in Nat /\ WriteTimeout \in Nat
    /\ BackoffMin \in Nat \ {0} /\ BackoffMax \in Nat /\ BackoffMin <= BackoffMax
    /\ AnswerTime \in Nat /\ Backlog \in Nat /\ MaxFaults \in Nat

\* Two write timeouts, 20 seconds, are less than a ping interval and a pong timeout.
ASSUME TimingAssumption ==
    \A t \in Timings : 2 * WriteTimeout <= t.ping + t.pong

VARIABLES
    ctxDone,           \* ctx has been cancelled
    run,               \* where Run is
    waited,            \* how long the handshake has taken
    bo,                \* bo.d
    connected,         \* c.connected
    conn,              \* c.conn is not nil
    open,              \* the current socket has not been closed
    mute,              \* its peer has stopped answering, without closing it
    inbound,           \* frames that wait to be read
    call, age,         \* SendReport per caller: its place, the time since wctx began
    starving,          \* c.mu hands over in order, since a caller has overtaken another
    timing,            \* keepalive's parameters
    ka,                \* where keepalive is
    tick, due,         \* its ticker: the time since the last tick, ticker.C
    pinged, answered, ponged,   \* conn.Ping: its time, pong sent, pong read
    idle,              \* time since lastActivity
    silence,           \* history: time since a frame or pong was read
    faults

runVars == <<ctxDone, run, waited, bo, connected, conn>>
sockVars == <<open, mute, inbound>>
callVars == <<call, age, starving>>
kaVars == <<ka, tick, due, pinged, answered, ponged, idle, silence>>
vars == <<runVars, sockVars, callVars, timing, kaVars, faults>>

Fault == faults < MaxFaults /\ faults' = faults + 1

\* c.mu: SendReport holds it while it writes.
Holder == {w \in Caller : call[w] \in {"write", "sent"}}
Waiting == {w \in Caller : call[w] = "lock"}
Free == Holder = {}

-----------------------------------------------------------------------------
(* Run and connectOnce. *)

\* Mutant: the backoff is doubled without a limit.
NextBackoffUncapped(d) == 2 * (IF d < BackoffMin THEN BackoffMin ELSE d)

\* backoff.next: what it leaves in b.d.
NextBackoff(d) ==
    LET doubled == 2 * (IF d < BackoffMin THEN BackoffMin ELSE d)
    IN  IF doubled > BackoffMax THEN BackoffMax ELSE doubled

\* Mutant: Run ends when a connection fails.
ReturnedForGood ==
    /\ run' = "done"
    /\ UNCHANGED <<ctxDone, bo, connected, conn>>

\* connectOnce has returned: Run ends, or backs off.
Returned ==
    /\ run' = IF ctxDone THEN "done" ELSE "backoff"
    /\ bo' = IF ctxDone THEN bo ELSE NextBackoff(bo)
    /\ UNCHANGED <<ctxDone, connected, conn>>

\* Mutant: Dial is called with another context.
InterruptibleNever == {"dial"}

\* Where Run can be when its Dial is interrupted.
Interruptible == {"dial", "stuck"}

\* Dial has no timeout of its own: until ctx is cancelled it may not return.
Dial ==
    /\ \/ /\ run = "dial" /\ run' = "hello"
          /\ open' = TRUE /\ mute' = FALSE /\ waited' = 0
          /\ UNCHANGED <<ctxDone, bo, connected, conn, inbound, faults>>
       \/ /\ run = "dial" /\ Fault /\ Returned
          /\ UNCHANGED <<waited, sockVars>>
       \/ /\ run = "dial" /\ Fault /\ run' = "stuck"
          /\ UNCHANGED <<ctxDone, waited, bo, connected, conn, sockVars>>
       \/ /\ run \in Interruptible /\ ctxDone /\ Returned
          /\ UNCHANGED <<waited, sockVars, faults>>
    /\ UNCHANGED <<callVars, timing, kaVars>>

\* The hello is written and acknowledged; or it is rejected, or there is an
\* error, or no answer within the timeout.
Handshake ==
    /\ run = "hello"
    /\ \/ /\ open /\ ~mute
          /\ run' = "set" /\ bo' = 0
          /\ UNCHANGED faults
       \/ /\ run' = "close"
          /\ \/ Fault
             \/ UNCHANGED faults /\ (~open \/ ctxDone \/ waited = HandshakeTimeout)
          /\ UNCHANGED bo
    /\ UNCHANGED <<ctxDone, waited, connected, conn, sockVars, callVars, timing, kaVars>>

SetConn ==
    /\ run = "set" /\ Free
    /\ conn' = TRUE /\ run' = "flag"
    /\ UNCHANGED <<ctxDone, waited, bo, connected, sockVars, callVars, timing, kaVars,
                   faults>>

\* The flag is set, and readLoop starts with its keepalive.
StartReading ==
    /\ run = "flag"
    /\ connected' = TRUE /\ run' = "up"
    /\ ka' = "wait" /\ tick' = 0 /\ due' = FALSE
    /\ idle' = 0 /\ silence' = 0
    /\ pinged' = 0 /\ answered' = FALSE /\ ponged' = FALSE
    /\ UNCHANGED <<ctxDone, waited, bo, conn, sockVars, callVars, timing, faults>>

\* readLoop returns: kctx is cancelled, and the deferred function begins.
Fall ==
    /\ connected' = FALSE /\ run' = "falling"
    /\ ka' = "off" /\ tick' = 0 /\ due' = FALSE /\ idle' = 0 /\ silence' = 0
    /\ pinged' = 0 /\ answered' = FALSE /\ ponged' = FALSE
    /\ inbound' = << >>
    /\ UNCHANGED <<ctxDone, waited, bo, conn, open, mute, callVars, timing, faults>>

\* Mutant: a read error ends the loop although the handler of an earlier frame
\* still runs, as it would if the loop started a goroutine for it.
ReadErrAsync == run = "up" /\ (~open \/ ctxDone) /\ Fall

\* conn.Read fails on a closed socket, or because ctx is cancelled.
ReadErr == run = "up" /\ call[Reader] = "idle" /\ (~open \/ ctxDone) /\ Fall

ClearConn ==
    /\ run = "falling" /\ Free
    /\ conn' = FALSE /\ run' = "close"
    /\ UNCHANGED <<ctxDone, waited, bo, connected, sockVars, callVars, timing, kaVars,
                   faults>>

\* conn.Close, which the library bounds, and the return to Run.
Close ==
    /\ run = "close"
    /\ open' = FALSE /\ mute' = FALSE /\ inbound' = << >> /\ waited' = 0
    /\ Returned
    /\ UNCHANGED <<callVars, timing, kaVars, faults>>

\* sleep(ctx, bo.next()) returns.
Retry ==
    /\ run = "backoff"
    /\ run' = "dial" \/ (ctxDone /\ run' = "done")
    /\ UNCHANGED <<ctxDone, waited, bo, connected, conn, sockVars, callVars, timing, kaVars,
                   faults>>

-----------------------------------------------------------------------------
(* readLoop. *)

\* Reading a frame counts as activity.  A command calls the handler, which
\* reports or returns at once; a pong goes to the Ping that waits for it.
ReadFrame ==
    /\ run = "up" /\ call[Reader] = "idle" /\ open /\ ~ctxDone
    /\ inbound # << >> /\ inbound' = Tail(inbound)
    /\ silence' = 0
    /\ \/ /\ Head(inbound) = "command"
          /\ idle' = 0
          /\ call' = [call EXCEPT ![Reader] = "lock"] \/ UNCHANGED call
          /\ UNCHANGED ponged
       \/ /\ Head(inbound) = "pong"
          /\ ponged' = TRUE
          /\ UNCHANGED <<idle, call>>
    /\ UNCHANGED <<runVars, open, mute, age, starving, timing, ka, tick, due, pinged, answered,
                   faults>>

-----------------------------------------------------------------------------
(* SendReport. *)

\* A caller that finds the channel connected; the others return an error.
Send(w) ==
    /\ connected /\ w # Reader
    /\ call[w] = "idle"
    /\ call' = [call EXCEPT ![w] = "lock"]
    /\ UNCHANGED <<runVars, sockVars, age, starving, timing, kaVars, faults>>

\* Mutant: the report is written with the caller's context.
NeverExpires(w) == FALSE

\* wctx is made before the lock is taken: the wait counts against the write.
Expired(w) == age[w] >= WriteTimeout

\* c.mu.Lock(): whoever has just arrived may overtake the callers that wait,
\* once; then sync.Mutex hands over in order until nobody has to wait.
Acquire(w) ==
    /\ call[w] = "lock" /\ Free
    /\ LET first == \A v \in Waiting : age[v] <= age[w]
       IN  /\ first \/ (~starving /\ age[w] = 0)
           /\ starving' = IF first THEN starving /\ Waiting # {w} /\ age[w] # 0
                                   ELSE TRUE
    /\ call' = [call EXCEPT ![w] = IF conn THEN "write" ELSE "idle"]
    /\ age' = [age EXCEPT ![w] = IF conn THEN age[w] ELSE 0]
    /\ UNCHANGED <<runVars, sockVars, timing, kaVars, faults>>

\* conn.Write: the frame leaves, also when the peer has gone; or the write fails,
\* and when wctx has expired the library closes the socket.
Write(w) ==
    /\ call[w] = "write"
    /\ \/ /\ open
          /\ call' = [call EXCEPT ![w] = "sent"]
          /\ UNCHANGED <<age, open>>
       \/ /\ ~open \/ Expired(w)
          /\ open' = FALSE
          /\ call' = [call EXCEPT ![w] = "idle"]
          /\ age' = [age EXCEPT ![w] = 0]
    /\ UNCHANGED <<runVars, mute, inbound, starving, timing, kaVars, faults>>

Return(w) ==
    /\ call[w] = "sent"
    /\ call' = [call EXCEPT ![w] = "idle"]
    /\ age' = [age EXCEPT ![w] = 0]
    /\ UNCHANGED <<runVars, sockVars, starving, timing, kaVars, faults>>

-----------------------------------------------------------------------------
(* keepalive. *)

\* conn.CloseNow() and return.
CloseNow ==
    /\ open' = FALSE
    /\ ka' = "off" /\ tick' = 0 /\ due' = FALSE
    /\ pinged' = 0 /\ answered' = FALSE /\ ponged' = FALSE
    /\ UNCHANGED <<mute, inbound, idle, silence>>

TooSilent == idle > timing.silence

\* kctx is cancelled; or a tick: give up a silent connection, or ping.
KeepaliveTick ==
    /\ ka = "wait"
    /\ \/ /\ ctxDone
          /\ ka' = "off" /\ tick' = 0 /\ due' = FALSE
          /\ UNCHANGED <<sockVars, pinged, answered, ponged, idle, silence>>
       \/ due /\ TooSilent /\ CloseNow
       \/ /\ due /\ ~TooSilent
          /\ due' = FALSE /\ ka' = "ping"
          /\ pinged' = 0 /\ answered' = FALSE /\ ponged' = FALSE
          /\ UNCHANGED <<sockVars, tick, idle, silence>>
    /\ UNCHANGED <<runVars, callVars, timing, faults>>

\* Mutant: the pong is waited for as long as the silence limit.
GivesUpLate == pinged = timing.silence

\* pctx has expired.
GivesUp == pinged = timing.pong

\* Mutant: a pong is not recorded as activity.
ActivityForgotten == idle

\* lastActivity.Store after a pong.
Activity == 0

\* Ping returns: with its pong, or with an error when its time is up or the
\* socket fails.
KeepalivePing ==
    /\ ka = "ping"
    /\ \/ /\ ponged
          /\ ka' = "wait" /\ idle' = Activity
          /\ pinged' = 0 /\ answered' = FALSE /\ ponged' = FALSE
          /\ UNCHANGED <<sockVars, tick, due, silence>>
       \/ /\ ~ponged
          /\ GivesUp \/ ~open \/ mute \/ ctxDone
          /\ CloseNow
    /\ UNCHANGED <<runVars, callVars, timing, faults>>

-----------------------------------------------------------------------------
(* The peer and the network. *)

Pong ==
    /\ ka = "ping" /\ open /\ ~mute /\ ~answered
    /\ answered' = TRUE /\ inbound' = Append(inbound, "pong")
    /\ UNCHANGED <<runVars, open, mute, callVars, timing, ka, tick, due, pinged,
                   ponged, idle, silence, faults>>

Push ==
    /\ run = "up" /\ open /\ ~mute
    /\ Len(SelectSeq(inbound, LAMBDA f : f = "command")) < Backlog
    /\ inbound' = Append(inbound, "command")
    /\ UNCHANGED <<runVars, open, mute, callVars, timing, kaVars, faults>>

\* The connection is reset, or becomes half-open.
Break ==
    /\ open /\ ~mute
    /\ Fault
    /\ \/ open' = FALSE /\ UNCHANGED mute
       \/ mute' = TRUE /\ UNCHANGED open
    /\ UNCHANGED <<runVars, inbound, callVars, timing, kaVars>>

\* The process is told to stop.
Cancel ==
    /\ ~ctxDone /\ ctxDone' = TRUE
    /\ UNCHANGED <<run, waited, bo, connected, conn, sockVars, callVars, timing, kaVars,
                   faults>>

-----------------------------------------------------------------------------
(* Time. *)

\* Nobody has to act before time goes on.
Quiet ==
    /\ ka = "wait" => ~due
    /\ ka = "ping" =>
          /\ open /\ ~ponged /\ ~GivesUp
          /\ ~mute /\ ~answered => pinged < AnswerTime
    /\ \A w \in Caller : call[w] = "write" => open /\ ~Expired(w)
    /\ \A w \in Caller : call[w] # "sent"
    /\ Free => Waiting = {} /\ run \notin {"set", "falling"}
    /\ run # "flag"
    /\ ctxDone => ka = "off"
    /\ run = "hello" => open /\ waited < HandshakeTimeout /\ (mute \/ waited < AnswerTime)
    /\ run = "up" /\ call[Reader] = "idle" => open /\ ~ctxDone /\ inbound = << >>

Passed(n, running) == IF running THEN n + 1 ELSE n

Tick ==
    /\ Quiet
    /\ LET fires == ka # "off" /\ tick + 1 = timing.ping
       IN  /\ tick' = IF fires THEN 0 ELSE Passed(tick, ka # "off")
           /\ due' = (due \/ fires)
    /\ waited' = Passed(waited, run = "hello")
    /\ age' = [w \in Caller |-> Passed(age[w], call[w] # "idle")]
    /\ pinged' = Passed(pinged, ka = "ping")
    /\ idle' = Passed(idle, ka # "off")
    /\ silence' = Passed(silence, run = "up")
    /\ UNCHANGED <<ctxDone, run, bo, connected, conn, sockVars, call, starving, timing, ka,
                   answered, ponged, faults>>

-----------------------------------------------------------------------------
Init ==
    /\ ctxDone = FALSE
    /\ run = "dial" /\ waited = 0 /\ bo = 0
    /\ connected = FALSE /\ conn = FALSE
    /\ open = FALSE /\ mute = FALSE /\ inbound = << >>
    /\ call = [w \in Caller |-> "idle"] /\ age = [w \in Caller |-> 0]
    /\ starving = FALSE
    /\ timing \in Timings
    /\ ka = "off" /\ tick = 0 /\ due = FALSE
    /\ pinged = 0 /\ answered = FALSE /\ ponged = FALSE
    /\ idle = 0 /\ silence = 0
    /\ faults = 0

RunStep ==
    \/ Dial \/ Handshake \/ SetConn \/ StartReading
    \/ ReadFrame \/ ReadErr
    \/ ClearConn \/ Close \/ Retry

Keepalive == KeepaliveTick \/ KeepalivePing

SendReport(w) == Acquire(w) \/ Write(w) \/ Return(w)

Next ==
    \/ RunStep
    \/ Keepalive
    \/ \E w \in Caller : Send(w) \/ SendReport(w)
    \/ Pong \/ Push \/ Break \/ Cancel
    \/ Tick

Spec == Init /\ [][Next]_vars

-----------------------------------------------------------------------------
(* Properties. *)

TypeOK ==
    /\ ctxDone \in BOOLEAN
    /\ run \in {"dial", "stuck", "hello", "set", "flag", "up", "falling", "close",
                "backoff", "done"}
    /\ waited \in 0 .. HandshakeTimeout
    /\ bo \in 0 .. BackoffMax
    /\ connected \in BOOLEAN /\ conn \in BOOLEAN
    /\ open \in BOOLEAN /\ mute \in BOOLEAN
    /\ inbound \in Seq({"command", "pong"})
    /\ call \in [Caller -> {"idle", "lock", "write", "sent"}]
    /\ age \in [Caller -> Nat]
    /\ starving \in BOOLEAN
    /\ timing \in Timings
    /\ ka \in {"off", "wait", "ping"}
    /\ tick \in Nat /\ tick < timing.ping
    /\ due \in BOOLEAN
    /\ pinged \in Nat
    /\ answered \in BOOLEAN /\ ponged \in BOOLEAN
    /\ idle \in Nat /\ silence \in Nat
    /\ faults \in 0 .. MaxFaults

\* A connection is given up at most one ping interval and one pong timeout after
\* the last frame or pong was read: 55 seconds, whatever the handler, the writers
\* of reports and the peer do meanwhile.
SilenceBound == run = "up" => silence <= timing.ping + timing.pong

\* A call of SendReport takes at most twice its write timeout, however many
\* callers queue up for the connection: one timeout behind those who came
\* earlier, and one behind a caller that overtook.
SendBounded == \A w \in Caller : age[w] <= 2 * WriteTimeout

\* The silence limit and the pong timeout leave a live peer time to answer.
Patient ==
    /\ timing.ping + timing.pong <= timing.silence
    /\ AnswerTime < timing.pong

\* Unless the process stops, keepalive closes the connection of a peer that
\* answers only if the pong has come and waits to be read, because a command
\* handler keeps the read loop.
LiveIsKept ==
    [][Patient /\ ka # "off" /\ ka' = "off" /\ open /\ ~open'
          => mute \/ ctxDone \/ "pong" \in Range(inbound)]_vars

\* The client is the channel that the receiver was written for: the connection
\* and the flag behave as PushChannel says, and no report counts as sent unless
\* it was written to a connection past its handshake.
Channel == INSTANCE PushChannel WITH
    link <- CASE run = "flag" -> "open"
              [] run = "up" -> "connected"
              [] run = "falling" -> "falling"
              [] OTHER -> "down",
    call <- [w \in Caller |-> CASE call[w] = "idle" -> "idle"
                                [] call[w] = "sent" -> "written"
                                [] OTHER -> "sending"]

ChannelSpec == Channel!Spec

\* Goroutines that can run are scheduled, c.mu starves nobody, and time goes on.
FairSpec ==
    /\ Spec
    /\ SF_vars(RunStep)
    /\ WF_vars(Keepalive)
    /\ \A w \in Caller : SF_vars(SendReport(w))
    /\ SF_vars(Tick)

\* However connections break, also silently, the client is connected again and
\* again to a peer that answers, unless it is told to stop or a Dial, which no
\* timeout bounds, never returns.
Reconnects == []<>((connected /\ open /\ ~mute) \/ ctxDone \/ run = "stuck")

\* A cancelled client ends, also one that is stuck in Dial or in its handler.
Ends == ctxDone ~> run = "done"
=============================================================================
