--------------------------- MODULE WsClientProofs ---------------------------
(***************************************************************************)
(* Proofs about WsClient: its types, how long SendReport takes and how     *)
(* long silence lasts, which connections keepalive closes, and that the    *)
(* client implements PushChannel.                                          *)
(***************************************************************************)
EXTENDS WsClient, SequenceTheorems, TLAPS

(* A fact about sequences. *)

\* Appending adds exactly the appended element to the range.
LEMMA RangeAppend ==
  ASSUME NEW S, NEW s \in Seq(S), NEW e \in S
  PROVE  Range(Append(s, e)) = Range(s) \cup {e}
<1>1. <<e>> \in Seq(S) /\ Range(<<e>>) = {e}
  BY DEF Range
<1>2. Append(s, e) = s \o <<e>>
  BY AppendIsConcat
<1>3. Range(s \o <<e>>) = Range(s) \cup Range(<<e>>)
  <2> HIDE DEF Range
  <2> QED BY <1>1, RangeConcatenation, ZenonT(60)
<1> QED BY <1>1, <1>2, <1>3, Zenon

-----------------------------------------------------------------------------

\* TypeOK by groups of variables.
RunType ==
    /\ ctxDone \in BOOLEAN
    /\ run \in {"dial", "stuck", "hello", "set", "flag", "up", "falling", "close",
                "backoff", "done"}
    /\ waited \in 0 .. HandshakeTimeout
    /\ bo \in 0 .. BackoffMax
    /\ connected \in BOOLEAN /\ conn \in BOOLEAN
SockType ==
    open \in BOOLEAN /\ mute \in BOOLEAN /\ inbound \in Seq({"command", "pong"})
CallType ==
    /\ call \in [Caller -> {"idle", "lock", "write", "sent"}]
    /\ age \in [Caller -> Nat]
    /\ starving \in BOOLEAN
KaType ==
    /\ ka \in {"off", "wait", "ping"}
    /\ due \in BOOLEAN /\ answered \in BOOLEAN /\ ponged \in BOOLEAN
ClockType ==
    /\ timing \in Timings
    /\ tick \in Nat /\ tick < timing.ping
    /\ pinged \in Nat /\ idle \in Nat /\ silence \in Nat
FaultType == faults \in 0 .. MaxFaults

Typed ==
    RunType /\ SockType /\ CallType /\ KaType /\ ClockType /\ FaultType

\* The groups make up TypeOK, in both states of a step.
LEMMA TypeGroups == (TypeOK <=> Typed) /\ (TypeOK' <=> Typed')
  BY Zenon DEF Typed, TypeOK, RunType, SockType, CallType, KaType, ClockType, FaultType

\* The initial states are well typed.
LEMMA TypeInit == Init => TypeOK
<1> SUFFICES ASSUME Init PROVE TypeOK
  OBVIOUS
<1>1. inbound \in Seq({"command", "pong"}) /\ timing.ping \in Nat \ {0}
  BY WsClientAssumption DEF Init
<1>2. ClockType
  BY <1>1 DEF Init, ClockType
<1>4. 0 \in 0 .. HandshakeTimeout /\ 0 \in 0 .. BackoffMax /\ 0 \in 0 .. MaxFaults
  BY WsClientAssumption
<1>5. RunType /\ FaultType
  BY <1>4, Zenon DEF Init, RunType, FaultType
<1>3. SockType /\ CallType /\ KaType
  BY <1>1, Zenon DEF Init, SockType, CallType, KaType
<1> QED BY <1>2, <1>3, <1>5, TypeGroups DEF Typed

\* Every step preserves the types.
LEMMA TypeNext == TypeOK /\ [Next]_vars => TypeOK'
<1> SUFFICES ASSUME RunType, SockType, CallType, KaType, ClockType, FaultType, [Next]_vars
             PROVE  Typed'
  BY TypeGroups, Zenon DEF Typed
<1> USE WsClientAssumption
<1>a. /\ UNCHANGED runVars => RunType'
      /\ UNCHANGED sockVars => SockType'
      /\ UNCHANGED callVars => CallType'
      /\ UNCHANGED <<timing, kaVars>> => KaType' /\ ClockType'
      /\ UNCHANGED faults => FaultType'
  BY SMTT(60) DEF runVars, sockVars, callVars, kaVars, RunType, SockType, CallType, KaType, ClockType, FaultType
<1>f. Fault => FaultType'
  BY DEF Fault, FaultType
<1>r. Returned => /\ run' \in {"done", "backoff"} /\ bo' \in 0 .. BackoffMax
                  /\ UNCHANGED <<ctxDone, connected, conn>>
  BY DEF Returned, NextBackoff, RunType
<1>e. << >> \in Seq({"command", "pong"})
  OBVIOUS
<1>t. timing.ping \in Nat \ {0}
  BY DEF ClockType
<1>1. ASSUME Dial PROVE Typed'
  <2>1. RunType'
    BY <1>1, <1>r DEF Dial, runVars, RunType
  <2>2. SockType'
    BY <1>1, Zenon DEF Dial, sockVars, SockType
  <2>3. FaultType'
    BY <1>1, <1>a, <1>f DEF Dial, FaultType
  <2> QED BY <1>1, <1>a, <2>1, <2>2, <2>3 DEF Typed, Dial, runVars, kaVars
<1>2. ASSUME Handshake PROVE Typed'
  <2>1. RunType'
    BY <1>2 DEF Handshake, runVars, RunType
  <2>2. FaultType'
    BY <1>2, <1>a, <1>f DEF Handshake, FaultType
  <2> QED BY <1>2, <1>a, <2>1, <2>2 DEF Typed, Handshake, runVars, kaVars
<1>3. ASSUME SetConn PROVE Typed'
  <2>1. RunType'
    BY <1>3 DEF SetConn, runVars, RunType
  <2> QED BY <1>3, <1>a, <2>1 DEF Typed, SetConn, runVars, kaVars
<1>4. ASSUME StartReading PROVE Typed'
  <2>1. RunType'
    BY <1>4 DEF StartReading, runVars, RunType
  <2>2. KaType'
    BY <1>4, Zenon DEF StartReading, kaVars, KaType
  <2>3. ClockType'
    BY <1>4, <1>t DEF StartReading, kaVars, ClockType
  <2> QED BY <1>4, <1>a, <2>1, <2>2, <2>3 DEF Typed, StartReading, runVars, kaVars
<1>5. ASSUME ReadFrame PROVE Typed'
  <2>1. SockType'
    BY <1>5 DEF ReadFrame, sockVars, SockType
  <2>2. CallType'
    BY <1>5 DEF ReadFrame, callVars, CallType
  <2>3. KaType'
    BY <1>5, Zenon DEF ReadFrame, kaVars, KaType
  <2>4. ClockType'
    BY <1>5, <1>t DEF ReadFrame, kaVars, ClockType
  <2> QED BY <1>5, <1>a, <2>1, <2>2, <2>3, <2>4 DEF Typed, ReadFrame, runVars, kaVars
<1>6. ASSUME ReadErr PROVE Typed'
  <2>1. RunType'
    BY <1>6, Zenon DEF ReadErr, Fall, runVars, RunType
  <2>2. SockType'
    BY <1>6 DEF ReadErr, Fall, sockVars, SockType
  <2>3. KaType'
    BY <1>6, Zenon DEF ReadErr, Fall, kaVars, KaType
  <2>4. ClockType'
    BY <1>6, <1>t DEF ReadErr, Fall, kaVars, ClockType
  <2> QED BY <1>6, <1>a, <2>1, <2>2, <2>3, <2>4 DEF Typed, ReadErr, Fall, runVars, kaVars
<1>7. ASSUME ClearConn PROVE Typed'
  <2>1. RunType'
    BY <1>7, Zenon DEF ClearConn, runVars, RunType
  <2> QED BY <1>7, <1>a, <2>1 DEF Typed, ClearConn, runVars, kaVars
<1>8. ASSUME Close PROVE Typed'
  <2>1. RunType'
    BY <1>8, <1>r DEF Close, runVars, RunType
  <2>2. SockType'
    BY <1>8, <1>e, Zenon DEF Close, sockVars, SockType
  <2> QED BY <1>8, <1>a, <2>1, <2>2 DEF Typed, Close, runVars, kaVars
<1>9. ASSUME Retry PROVE Typed'
  <2>1. RunType'
    BY <1>9 DEF Retry, runVars, RunType
  <2> QED BY <1>9, <1>a, <2>1 DEF Typed, Retry, runVars, kaVars
<1>10. ASSUME KeepaliveTick PROVE Typed'
  <2>1. SockType'
    BY <1>10, Zenon DEF KeepaliveTick, CloseNow, sockVars, SockType
  <2>2. KaType'
    BY <1>10, Zenon DEF KeepaliveTick, CloseNow, kaVars, KaType
  <2>3. ClockType'
    BY <1>10, <1>t DEF KeepaliveTick, CloseNow, kaVars, ClockType
  <2> QED BY <1>10, <1>a, <2>1, <2>2, <2>3 DEF Typed, KeepaliveTick, CloseNow, runVars, kaVars
<1>11. ASSUME KeepalivePing PROVE Typed'
  <2>1. SockType'
    BY <1>11, Zenon DEF KeepalivePing, CloseNow, Activity, sockVars, SockType
  <2>2. KaType'
    BY <1>11, Zenon DEF KeepalivePing, CloseNow, Activity, kaVars, KaType
  <2>3. ClockType'
    BY <1>11, <1>t DEF KeepalivePing, CloseNow, Activity, kaVars, ClockType
  <2> QED BY <1>11, <1>a, <2>1, <2>2, <2>3 DEF Typed, KeepalivePing, CloseNow, Activity, runVars, kaVars
<1>12. ASSUME Pong PROVE Typed'
  <2>1. SockType'
    BY <1>12 DEF Pong, sockVars, SockType
  <2>2. KaType'
    BY <1>12 DEF Pong, kaVars, KaType
  <2>3. ClockType'
    BY <1>12, <1>t DEF Pong, kaVars, ClockType
  <2> QED BY <1>12, <1>a, <2>1, <2>2, <2>3 DEF Typed, Pong, runVars, kaVars
<1>13. ASSUME Push PROVE Typed'
  <2>1. SockType'
    BY <1>13 DEF Push, sockVars, SockType
  <2> QED BY <1>13, <1>a, <2>1 DEF Typed, Push, runVars, kaVars
<1>14. ASSUME Break PROVE Typed'
  <2>1. SockType'
    BY <1>14, Zenon DEF Break, sockVars, SockType
  <2>2. FaultType'
    BY <1>14, <1>a, <1>f DEF Break, FaultType
  <2> QED BY <1>14, <1>a, <2>1, <2>2 DEF Typed, Break, runVars, kaVars
<1>15. ASSUME Cancel PROVE Typed'
  <2>1. RunType'
    BY <1>15 DEF Cancel, runVars, RunType
  <2> QED BY <1>15, <1>a, <2>1 DEF Typed, Cancel, runVars, kaVars
<1>16. ASSUME Tick PROVE Typed'
  <2>1. RunType'
    BY <1>16, SMTT(60) DEF Tick, Passed, Quiet, runVars, RunType
  <2>2. CallType'
    BY <1>16, SMTT(60) DEF Tick, Passed, Quiet, callVars, CallType
  <2>3. KaType'
    BY <1>16 DEF Tick, Passed, Quiet, kaVars, KaType
  <2>4. ClockType'
    BY <1>16, <1>t DEF Tick, Passed, Quiet, kaVars, ClockType
  <2> QED BY <1>16, <1>a, <2>1, <2>2, <2>3, <2>4, Zenon DEF Typed, Tick, Passed, Quiet, runVars, kaVars
<1>17. ASSUME NEW w \in Caller, Send(w) PROVE Typed'
  <2>1. CallType'
    BY <1>17 DEF Send, callVars, CallType
  <2> QED BY <1>17, <1>a, <2>1 DEF Typed, Send, runVars, kaVars
<1>18. ASSUME NEW w \in Caller, Acquire(w) PROVE Typed'
  <2>1. CallType'
    BY <1>18, Zenon DEF Acquire, callVars, CallType
  <2> QED BY <1>18, <1>a, <2>1 DEF Typed, Acquire, runVars, kaVars
<1>19. ASSUME NEW w \in Caller, Write(w) PROVE Typed'
  <2>1. SockType'
    BY <1>19, Zenon DEF Write, sockVars, SockType
  <2>2. CallType'
    BY <1>19 DEF Write, callVars, CallType
  <2> QED BY <1>19, <1>a, <2>1, <2>2 DEF Typed, Write, runVars, kaVars
<1>20. ASSUME NEW w \in Caller, Return(w) PROVE Typed'
  <2>1. CallType'
    BY <1>20 DEF Return, callVars, CallType
  <2> QED BY <1>20, <1>a, <2>1 DEF Typed, Return, runVars, kaVars
<1>21. CASE UNCHANGED vars
  BY <1>a, <1>21 DEF vars, Typed
<1> QED
  BY <1>1, <1>2, <1>3, <1>4, <1>5, <1>6, <1>7, <1>8, <1>9, <1>10, <1>11, <1>12, <1>13, <1>14, <1>15, <1>16, <1>17, <1>18, <1>19, <1>20, <1>21, Zenon
     DEF Next, RunStep, Keepalive, SendReport

\* WsClient keeps its types: the backoff and the handshake stay within their
\* limits, and the ticker within its period.
THEOREM TypeCorrect == Spec => []TypeOK
  BY TypeInit, TypeNext, PTL DEF Spec

-----------------------------------------------------------------------------
\* How the places of the goroutines hang together: the socket is in c.conn, and
\* the flag set, at certain places of Run; the lock protects the former; keepalive
\* and the command handler live only inside readLoop.
LinkInv ==
    /\ conn <=> run \in {"flag", "up", "falling"}
    /\ connected <=> run = "up"
    /\ \A w \in Caller : call[w] \in {"write", "sent"} => conn
    /\ run # "up" => call[Reader] = "idle"
    /\ ka # "off" => run = "up"

\* Every step preserves LinkInv.
LEMMA LinkNext == TypeOK /\ LinkInv /\ [Next]_vars => LinkInv'
<1> SUFFICES ASSUME TypeOK, LinkInv, [Next]_vars PROVE LinkInv'
  OBVIOUS
<1> USE WsClientAssumption
<1>1. CASE UNCHANGED <<conn, connected, call, run>> /\ (ka = "off" => ka' = "off")
  BY <1>1 DEF LinkInv
<1>2. CASE Dial
  <2>1. run \in {"dial", "stuck"} /\ run' \in {"hello", "stuck", "done", "backoff"}
    BY <1>2 DEF Dial, Returned, Interruptible
  <2>2. UNCHANGED <<conn, connected, call, ka>>
    BY <1>2 DEF Dial, Returned, callVars, kaVars
  <2> QED BY <2>1, <2>2 DEF LinkInv
<1>3. CASE Handshake
  BY <1>3 DEF Handshake, callVars, kaVars, LinkInv
<1>4. CASE SetConn
  BY <1>4 DEF SetConn, callVars, kaVars, LinkInv
<1>5. CASE StartReading
  BY <1>5 DEF StartReading, callVars, LinkInv
<1>6. CASE ReadFrame
  <2>1. \A w \in Caller : call'[w] = call[w] \/ call'[w] = "lock"
    BY <1>6 DEF ReadFrame, TypeOK
  <2> QED BY <1>6, <2>1, Zenon DEF ReadFrame, runVars, LinkInv
<1>7. CASE ReadErr
  BY <1>7 DEF ReadErr, Fall, callVars, LinkInv
<1>8. CASE ClearConn
  BY <1>8 DEF ClearConn, Free, Holder, callVars, kaVars, LinkInv
<1>9. CASE Close
  BY <1>9 DEF Close, Returned, callVars, kaVars, LinkInv
<1>10. CASE Retry
  BY <1>10 DEF Retry, callVars, kaVars, LinkInv
<1>11. CASE Keepalive
  BY <1>1, <1>11 DEF Keepalive, KeepaliveTick, KeepalivePing, CloseNow, runVars, callVars
<1>12. CASE Pong \/ Push \/ Break \/ Cancel \/ Tick \/ UNCHANGED vars
  BY <1>1, <1>12, Zenon DEF Pong, Push, Break, Cancel, Tick, vars, runVars, callVars, kaVars
<1>13. ASSUME NEW w \in Caller, Send(w) \/ SendReport(w) PROVE LinkInv'
  <2>1. UNCHANGED <<run, conn, connected, ka>>
    BY <1>13, Zenon DEF Send, SendReport, Acquire, Write, Return, runVars, kaVars
  <2>2. \A v \in Caller : v # w => call'[v] = call[v]
    BY <1>13, Zenon DEF Send, SendReport, Acquire, Write, Return, TypeOK
  <2>3. call'[w] \in {"write", "sent"} => conn
    BY <1>13, Zenon DEF Send, SendReport, Acquire, Write, Return, TypeOK, LinkInv
  <2>4. w = Reader => run = "up" \/ call'[w] = "idle"
    BY <1>13, Zenon DEF Send, SendReport, Acquire, Write, Return, TypeOK, LinkInv
  <2> QED BY <2>1, <2>2, <2>3, <2>4, Zenon DEF LinkInv
<1> QED
  BY <1>2, <1>3, <1>4, <1>5, <1>6, <1>7, <1>8, <1>9, <1>10, <1>11, <1>12, <1>13
     DEF Next, RunStep

-----------------------------------------------------------------------------
\* Nobody waits longer than the holder of the lock, or than one write timeout more
\* once somebody has overtaken.
SendInv ==
    /\ \A w \in Caller : age[w] <= 2 * WriteTimeout /\ (call[w] = "idle" => age[w] = 0)
    /\ \A v \in Caller : call[v] = "lock" =>
          /\ ~starving => age[v] <= WriteTimeout
          /\ \A h \in Caller : call[h] \in {"write", "sent"} =>
                age[v] <= age[h] + (IF starving THEN WriteTimeout ELSE 0)

\* Every step preserves SendInv.
LEMMA SendNext == TypeOK /\ SendInv /\ [Next]_vars => SendInv'
<1> SUFFICES ASSUME TypeOK, SendInv, [Next]_vars PROVE SendInv'
  OBVIOUS
<1> USE WsClientAssumption
<1>0. /\ call \in [Caller -> {"idle", "lock", "write", "sent"}] /\ age \in [Caller -> Nat]
      /\ WriteTimeout \in Nat
  BY DEF TypeOK
<1>1. ASSUME UNCHANGED <<age, starving>>, NEW w \in Caller,
             \/ call[w] = "idle" /\ call' = [call EXCEPT ![w] = "lock"]
             \/ call[w] = "write" /\ call' = [call EXCEPT ![w] = "sent"]
             \/ UNCHANGED call
      PROVE  SendInv'
  BY <1>0, <1>1 DEF SendInv
<1>2. ASSUME NEW w \in Caller, UNCHANGED starving, call[w] # "lock",
             call' = [call EXCEPT ![w] = "idle"], age' = [age EXCEPT ![w] = 0]
      PROVE  SendInv'
  BY <1>0, <1>2 DEF SendInv
<1>3. ASSUME NEW w \in Caller, Acquire(w) PROVE SendInv'
  <2>1. /\ \A v \in Caller : v # w => call'[v] = call[v] /\ age'[v] = age[v]
        /\ call'[w] \in {"write", "idle"} /\ age'[w] = IF call'[w] = "idle" THEN 0 ELSE age[w]
    BY <1>0, <1>3 DEF Acquire
  <2>2. \A h \in Caller : call[h] \notin {"write", "sent"}
    BY <1>3 DEF Acquire, Free, Holder
  <2>3. CASE \A v \in Caller : call[v] = "lock" => age[v] <= age[w]
    <3>1. starving' => starving
      BY <1>3, <2>3, Zenon DEF Acquire, Waiting
    <3>2. ~starving' => \A v \in Caller : call[v] = "lock" /\ v # w => age[v] <= WriteTimeout
      <4>1. ~starving' => ~starving \/ Waiting = {w} \/ age[w] = 0
        BY <1>3, <2>3, Zenon DEF Acquire, Waiting
      <4>2. Waiting = {w} => \A v \in Caller : call[v] = "lock" => v = w
        BY DEF Waiting
      <4>3. age[w] = 0 => \A v \in Caller : call[v] = "lock" => age[v] <= WriteTimeout
        BY <1>0, <2>3
      <4>4. ~starving => \A v \in Caller : call[v] = "lock" => age[v] <= WriteTimeout
        BY DEF SendInv
      <4> QED BY <4>1, <4>2, <4>3, <4>4
    <3> QED BY <1>0, <2>1, <2>2, <2>3, <3>2, SMTT(60) DEF SendInv
  <2>4. CASE ~ \A v \in Caller : call[v] = "lock" => age[v] <= age[w]
    <3>1. ~starving /\ starving' /\ age[w] = 0
      BY <1>3, <2>4, Zenon DEF Acquire, Waiting, TypeOK
    <3> QED BY <1>0, <2>1, <2>2, <3>1, SMTT(60) DEF SendInv
  <2> QED BY <2>3, <2>4
<1>4. CASE Tick
  <2>1. /\ \A w \in Caller : age'[w] = IF call[w] = "idle" THEN age[w] ELSE age[w] + 1
        /\ UNCHANGED <<call, starving>>
    BY <1>4, Zenon DEF Tick, Passed
  <2>2. \A w \in Caller : call[w] = "write" => age[w] < WriteTimeout
    BY <1>0, <1>4 DEF Tick, Quiet, Expired
  <2>3. \A w \in Caller : call[w] # "sent"
    BY <1>4, Zenon DEF Tick, Quiet
  <2>4. ASSUME NEW v \in Caller, call[v] = "lock"
        PROVE  \E h \in Caller : call[h] = "write"
    BY <1>4, <2>3, <2>4, Zenon DEF Tick, Quiet, Free, Holder, Waiting
  <2>5. ASSUME NEW v \in Caller, call[v] = "lock"
        PROVE  age[v] + 1 <= IF starving THEN 2 * WriteTimeout ELSE WriteTimeout
    <3>1. PICK h \in Caller : call[h] = "write"
      BY <2>4, <2>5
    <3>2. age[v] <= age[h] + (IF starving THEN WriteTimeout ELSE 0) /\ age[h] < WriteTimeout
      BY <2>2, <2>5, <3>1 DEF SendInv
    <3> QED BY <1>0, <3>2
  <2>6. \A w \in Caller : age'[w] <= 2 * WriteTimeout
    BY <1>0, <2>1, <2>2, <2>3, <2>5 DEF SendInv
  <2> QED BY <1>0, <2>1, <2>5, <2>6, SMTT(60) DEF SendInv
<1>5. CASE RunStep
  <2>1. CASE ReadFrame
    BY <1>1, <2>1 DEF ReadFrame
  <2>2. CASE UNCHANGED callVars
    BY <1>1, <2>2 DEF callVars
  <2> QED BY <1>5, <2>1, <2>2
         , Zenon DEF RunStep, Dial, Handshake, SetConn, StartReading, ReadErr, Fall, ClearConn, Close,
              Retry
<1>6. CASE Keepalive \/ Pong \/ Push \/ Break \/ Cancel \/ UNCHANGED vars
  <2>1. UNCHANGED callVars
    BY <1>6, Zenon DEF Keepalive, KeepaliveTick, KeepalivePing, Pong, Push, Break, Cancel, vars
  <2> QED BY <1>1, <2>1 DEF callVars
<1>7. ASSUME NEW w \in Caller, Send(w) \/ Write(w) \/ Return(w) PROVE SendInv'
  BY <1>1, <1>2, <1>7, Zenon DEF Send, Write, Return
<1> QED BY <1>3, <1>4, <1>5, <1>6, <1>7 DEF Next, SendReport

\* For any number of callers: SendReport takes at most twice its write timeout.
THEOREM SendsAreBounded == Spec => []SendBounded
<1>1. Init => SendInv
  BY WsClientAssumption DEF Init, SendInv
<1>2. SendInv => SendBounded
  BY DEF SendInv, SendBounded
<1> QED BY <1>1, <1>2, TypeCorrect, SendNext, PTL DEF Spec

-----------------------------------------------------------------------------
\* The clocks of a connection: between two pings the time since the last frame or
\* pong is on the ticker, during a ping on the timer of the ping, and once
\* keepalive has gone only a handler that is in SendReport delays the read loop.
ClockInv ==
    run = "up" =>
        /\ ka = "wait" =>
              /\ ~due => silence <= tick /\ idle <= tick
              /\ silence <= timing.ping /\ idle <= timing.ping
        /\ ka = "ping" =>
              /\ pinged <= timing.pong /\ silence <= timing.ping + pinged
              /\ ponged => silence = 0
        /\ ka = "off" => (~open \/ ctxDone) /\ silence <= timing.ping + timing.pong
        /\ call[Reader] # "idle" => silence = age[Reader]

\* Every step preserves ClockInv.
LEMMA ClockNext == TypeOK /\ LinkInv /\ SendInv /\ SendInv' /\ ClockInv /\ [Next]_vars => ClockInv'
<1> SUFFICES ASSUME TypeOK, LinkInv, SendInv, SendInv', ClockInv, [Next]_vars, run' = "up"
             PROVE  ClockInv'
  BY Zenon DEF ClockInv
<1> USE WsClientAssumption
<1>0. /\ tick \in Nat /\ pinged \in Nat /\ idle \in Nat /\ silence \in Nat
      /\ timing \in Timings /\ timing.ping \in Nat \ {0} /\ timing.pong \in Nat \ {0}
      /\ tick < timing.ping
  BY DEF TypeOK
<1>2. CASE StartReading
  <2>1. call'[Reader] = "idle"
    BY <1>2 DEF StartReading, callVars, LinkInv
  <2> QED BY <1>0, <1>2, <2>1, SMTT(60) DEF StartReading, ClockInv
<1>3. CASE ReadFrame
  <2>1. age'[Reader] = 0
    BY <1>3 DEF ReadFrame, SendInv
  <2>2. /\ UNCHANGED <<ka, tick, due, pinged, timing, open, ctxDone, run>> /\ silence' = 0
        /\ idle' \in {0, idle}
    BY <1>3 DEF ReadFrame, runVars
  <2> QED BY <1>0, <1>3, <2>1, <2>2, SMTT(60) DEF ClockInv
<1>4. CASE RunStep /\ ~StartReading /\ ~ReadFrame
  <2>1. FALSE
    BY <1>4, Zenon DEF RunStep, Dial, Returned, Interruptible, Handshake, SetConn, ReadErr, Fall,
       ClearConn, Close, Retry
  <2> QED BY <2>1
<1>5. CASE KeepaliveTick
  <2>1. UNCHANGED <<run, timing, call, age, silence>> /\ run = "up" /\ ka = "wait"
    BY <1>5 DEF KeepaliveTick, CloseNow, runVars, callVars
  <2>2. \/ ka' = "off" /\ (~open' \/ ctxDone')
        \/ ka' = "ping" /\ pinged' = 0 /\ ~ponged'
    BY <1>5 DEF KeepaliveTick, CloseNow, runVars
  <2> QED BY <1>0, <2>1, <2>2, SMTT(60) DEF ClockInv
<1>6. CASE KeepalivePing
  <2>1. UNCHANGED <<run, timing, call, age, silence>> /\ run = "up" /\ ka = "ping"
    BY <1>6 DEF KeepalivePing, CloseNow, runVars, callVars
  <2>2. \/ ka' = "off" /\ ~open'
        \/ ponged /\ ka' = "wait" /\ idle' = 0 /\ UNCHANGED tick
    BY <1>6 DEF KeepalivePing, CloseNow, Activity
  <2> QED BY <1>0, <2>1, <2>2 DEF ClockInv
<1>7. CASE Pong
  BY <1>0, <1>7, Zenon DEF Pong, runVars, callVars, ClockInv
<1>8. CASE Push \/ Break \/ Cancel \/ UNCHANGED vars
  BY <1>8, Zenon DEF Push, Break, Cancel, vars, runVars, sockVars, callVars, kaVars, ClockInv
<1>9. ASSUME NEW w \in Caller, Send(w) \/ SendReport(w) PROVE ClockInv'
  <2>1. UNCHANGED <<runVars, timing, kaVars>>
    BY <1>9, Zenon DEF Send, SendReport, Acquire, Write, Return
  <2>3. open' = open \/ open' = FALSE
    BY <1>9, Zenon DEF Send, SendReport, Acquire, Write, Return, sockVars
  <2>2. call'[Reader] # "idle" => call[Reader] # "idle" /\ age'[Reader] = age[Reader]
    BY <1>9, Zenon DEF Send, SendReport, Acquire, Write, Return, TypeOK
  <2> QED BY <2>1, <2>2, <2>3, Zenon DEF runVars, kaVars, ClockInv
<1>10. CASE Tick
  <2>0. Quiet /\ UNCHANGED <<run, call, timing, ka, ponged, open, ctxDone>> /\ run = "up"
    BY <1>10, Zenon DEF Tick, sockVars
  <2>1. /\ silence' = silence + 1
        /\ call[Reader] # "idle" => age'[Reader] = age[Reader] + 1
    BY <1>10, <2>0, Zenon DEF Tick, Passed
  <2>2. call'[Reader] # "idle" => silence' = age'[Reader]
    BY <2>0, <2>1, Zenon DEF ClockInv
  <2>3. CASE ka = "wait"
    <3>1. ~due /\ idle' = idle + 1
      BY <1>10, <2>0, <2>3, Zenon DEF Tick, Quiet, Passed
    <3>2. \/ tick + 1 = timing.ping /\ due'
          \/ tick' = tick + 1
      BY <1>10, <2>3, Zenon DEF Tick, Passed
    <3>3. silence <= tick /\ idle <= tick
      BY <2>0, <2>3, <3>1, Zenon DEF ClockInv
    <3>4. /\ silence' <= timing.ping /\ idle' <= timing.ping
          /\ ~due' => silence' <= tick' /\ idle' <= tick'
      BY <1>0, <2>1, <3>1, <3>2, <3>3
    <3> QED BY <2>0, <2>2, <2>3, <3>4, Zenon DEF ClockInv
  <2>4. CASE ka = "ping"
    <3>1. ~ponged /\ pinged # timing.pong /\ pinged' = pinged + 1
      BY <1>10, <2>0, <2>4, Zenon DEF Tick, Quiet, GivesUp, Passed
    <3>2. pinged <= timing.pong /\ silence <= timing.ping + pinged
      BY <2>0, <2>4, Zenon DEF ClockInv
    <3>3. pinged' <= timing.pong /\ silence' <= timing.ping + pinged'
      BY <1>0, <2>1, <3>1, <3>2
    <3> QED BY <2>0, <2>2, <2>4, <3>1, <3>3, Zenon DEF ClockInv
  <2>5. CASE ka = "off"
    <3>1. call[Reader] # "idle"
      BY <2>0, <2>5, Zenon DEF ClockInv, Quiet
    <3>2. age'[Reader] <= 2 * WriteTimeout
      BY Zenon DEF SendInv
    <3>3. 2 * WriteTimeout <= timing.ping + timing.pong
      BY <1>0, TimingAssumption
    <3>4. silence' <= timing.ping + timing.pong
      BY <1>0, <2>0, <2>1, <2>2, <3>1, <3>2, <3>3, SMTT(60)
    <3> QED BY <2>0, <2>2, <2>5, <3>4, Zenon DEF ClockInv
  <2> QED BY <2>3, <2>4, <2>5 DEF TypeOK
<1> QED
  BY <1>2, <1>3, <1>4, <1>5, <1>6, <1>7, <1>8, <1>9, <1>10 DEF Next, Keepalive

\* For any timing whose write timeout is short enough, and any behaviour of peer,
\* callers and handler: a connection that stays silent is given up in time.
THEOREM SilenceIsBounded == Spec => []SilenceBound
<1>1. Init => LinkInv /\ SendInv /\ ClockInv
  BY WsClientAssumption DEF Init, LinkInv, SendInv, ClockInv
<1>2. TypeOK /\ ClockInv => SilenceBound
  BY WsClientAssumption, SMTT(60) DEF TypeOK, ClockInv, SilenceBound
<1> QED BY <1>1, <1>2, TypeCorrect, LinkNext, SendNext, ClockNext, PTL DEF Spec

-----------------------------------------------------------------------------
\* A ping that a live peer has had time to answer is answered, and the pong is in
\* the stream until it is read.
PongInv ==
    ka = "ping" =>
        /\ open /\ ~mute /\ ~answered => pinged <= AnswerTime
        /\ answered /\ ~ponged => "pong" \in Range(inbound)

\* The frames that are left when the first is read, or one more has come.
LEMMA Frames ==
  ASSUME NEW q \in Seq({"command", "pong"})
  PROVE  /\ q # << >> /\ Head(q) = "command" /\ "pong" \in Range(q) => "pong" \in Range(Tail(q))
         /\ \A f \in {"command", "pong"} : Range(Append(q, f)) = Range(q) \cup {f}
<1>1. ASSUME q # << >>, Head(q) = "command", "pong" \in Range(q)
      PROVE  "pong" \in Range(Tail(q))
  <2>1. PICK i \in 1..Len(q) : q[i] = "pong"
    BY <1>1 DEF Range
  <2>2. i # 1
    BY <1>1, <2>1
  <2>3. i - 1 \in 1..Len(Tail(q)) /\ Tail(q)[i - 1] = "pong"
    BY <1>1, <2>1, <2>2
  <2> QED BY <2>3 DEF Range
<1>2. ASSUME NEW f \in {"command", "pong"} PROVE Range(Append(q, f)) = Range(q) \cup {f}
  BY RangeAppend, Zenon
<1> QED BY <1>1, <1>2

\* Every step preserves PongInv.
LEMMA PongNext == TypeOK /\ LinkInv /\ PongInv /\ [Next]_vars => PongInv'
<1> SUFFICES ASSUME TypeOK, LinkInv, PongInv, [Next]_vars, ka' = "ping"
             PROVE  PongInv'
  BY DEF PongInv
<1> USE WsClientAssumption
<1>0. inbound \in Seq({"command", "pong"}) /\ pinged \in Nat
  BY DEF TypeOK
<1>1. CASE UNCHANGED <<ka, pinged, answered, ponged, inbound>> /\ (open' => open) /\ (~mute' => ~mute)
  BY <1>1 DEF PongInv
<1>2. CASE ReadFrame
  <2>1. UNCHANGED <<ka, pinged, answered, open, mute>>
    BY <1>2 DEF ReadFrame
  <2>2. \/ ponged'
        \/ Head(inbound) = "command" /\ UNCHANGED ponged
    BY <1>2 DEF ReadFrame
  <2>3. inbound # << >> /\ inbound' = Tail(inbound)
    BY <1>2 DEF ReadFrame
  <2>4. Head(inbound) = "command" /\ "pong" \in Range(inbound) => "pong" \in Range(inbound')
    BY <1>0, <2>3, Frames, Zenon
  <2> QED BY <2>1, <2>2, <2>4, Zenon DEF PongInv
<1>3. CASE RunStep /\ ~ReadFrame
  <2>1. UNCHANGED <<kaVars, run>> => run = "up"
    BY DEF kaVars, LinkInv
  <2>2. FALSE
    BY <1>3, <2>1, Zenon DEF RunStep, Dial, Returned, Interruptible, Handshake, SetConn, StartReading,
       ReadErr, Fall, ClearConn, Close, Retry, kaVars, LinkInv
  <2> QED BY <2>2
<1>4. CASE Keepalive
  BY <1>4, SMTT(60) DEF Keepalive, KeepaliveTick, KeepalivePing, CloseNow, PongInv
<1>5. CASE Pong
  <2>1. "pong" \in Range(inbound')
    BY <1>0, <1>5, Frames, Zenon DEF Pong
  <2> QED BY <1>5, <2>1, Zenon DEF Pong, PongInv
<1>6. CASE Push
  <2>1. "pong" \in Range(inbound) => "pong" \in Range(inbound')
    BY <1>0, <1>6, Frames, Zenon DEF Push
  <2> QED BY <1>6, <2>1, Zenon DEF Push, PongInv, kaVars
<1>7. CASE Break \/ Cancel \/ UNCHANGED vars
  BY <1>7, Zenon DEF Break, Cancel, vars, sockVars, kaVars, PongInv
<1>8. ASSUME NEW w \in Caller, Send(w) \/ SendReport(w) PROVE PongInv'
  <2>1. UNCHANGED <<kaVars, mute, inbound>>
    BY <1>8, Zenon DEF Send, SendReport, Acquire, Write, Return, sockVars
  <2>2. open' = open \/ open' = FALSE
    BY <1>8, Zenon DEF Send, SendReport, Acquire, Write, Return, sockVars
  <2> QED BY <2>1, <2>2, Zenon DEF kaVars, PongInv
<1>9. CASE Tick
  <2>1. UNCHANGED <<ka, answered, ponged, open, mute, inbound>> /\ ka = "ping"
        /\ pinged' = pinged + 1
    BY <1>9, Zenon DEF Tick, Passed, sockVars
  <2>2. open /\ ~mute /\ ~answered => pinged < AnswerTime
    BY <1>9, <2>1, Zenon DEF Tick, Quiet
  <2>3. open /\ ~mute /\ ~answered => pinged' <= AnswerTime
    BY <1>0, <2>1, <2>2
  <2> QED BY <2>1, <2>3, Zenon DEF PongInv
<1> QED BY <1>2, <1>3, <1>4, <1>5, <1>6, <1>7, <1>8, <1>9 DEF Next

\* For any patient timing: keepalive closes the connection of a peer that answers
\* only while its pong waits to be read.
THEOREM LiveConnectionIsKept == Spec => LiveIsKept
<1> DEFINE Kept == Patient /\ ka # "off" /\ ka' = "off" /\ open /\ ~open'
                      => mute \/ ctxDone \/ "pong" \in Range(inbound)
<1>1. Init => LinkInv /\ SendInv /\ ClockInv /\ PongInv
  BY WsClientAssumption, SMTT(60) DEF Init, LinkInv, SendInv, ClockInv, PongInv
<1>2. TypeOK /\ LinkInv /\ ClockInv /\ PongInv /\ [Next]_vars => [Kept]_vars
  <2> SUFFICES ASSUME TypeOK, LinkInv, ClockInv, PongInv, Next,
                      Patient, ka # "off", ka' = "off", open, ~open'
               PROVE  mute \/ ctxDone \/ "pong" \in Range(inbound)
    OBVIOUS
  <2>0. /\ run = "up" /\ timing.ping \in Nat /\ timing.pong \in Nat /\ timing.silence \in Nat
        /\ idle \in Nat /\ pinged \in Nat
    BY WsClientAssumption, Zenon DEF LinkInv, TypeOK
  <2>1. KeepaliveTick \/ KeepalivePing
    BY <2>0, Zenon DEF Next, RunStep, Dial, Interruptible, Handshake, SetConn, StartReading, ReadFrame,
       ReadErr, Fall, ClearConn, Close, Retry, Keepalive, Send, SendReport, Acquire, Write,
       Return, Pong, Push, Break, Cancel, Tick, sockVars, kaVars
  <2>2. CASE KeepaliveTick
    <3>1. ka = "wait" => idle <= timing.ping
      BY <2>0, Zenon DEF ClockInv
    <3>2. ka = "wait" => ~TooSilent
      BY <2>0, <3>1, WsClientAssumption DEF TooSilent, Patient
    <3> QED BY <2>2, <3>2, Zenon DEF KeepaliveTick, sockVars
  <2>3. CASE KeepalivePing
    <3>1. ka = "ping" /\ ~ponged /\ (GivesUp \/ mute \/ ctxDone)
      BY <2>3, Zenon DEF KeepalivePing, sockVars
    <3>2. GivesUp => pinged > AnswerTime
      BY <2>0, WsClientAssumption DEF GivesUp, Patient
    <3>3. pinged > AnswerTime => ~ (pinged <= AnswerTime)
      BY <2>0, WsClientAssumption
    <3> QED BY <3>1, <3>2, <3>3, Zenon DEF PongInv
  <2> QED BY <2>1, <2>2, <2>3
<1>3. LiveIsKept <=> [][Kept]_vars
  BY DEF LiveIsKept
<1> QED
  BY <1>1, <1>2, <1>3, TypeCorrect, LinkNext, SendNext, ClockNext, PongNext, PTL DEF Spec

-----------------------------------------------------------------------------
Link ==
    CASE run = "flag" -> "open"
      [] run = "up" -> "connected"
      [] run = "falling" -> "falling"
      [] OTHER -> "down"
Calls ==
    [w \in Caller |-> CASE call[w] = "idle" -> "idle"
                        [] call[w] = "sent" -> "written"
                        [] OTHER -> "sending"]

\* The initial states of the client are initial states of the channel.
LEMMA ChannelInit == Init => Channel!Init
  BY DEF Init, Channel!Init

\* Every step of the client is a step of the channel or leaves it unchanged.
LEMMA ChannelNext == TypeOK /\ LinkInv /\ [Next]_vars => [Channel!Next]_(Channel!vars)
<1> SUFFICES ASSUME TypeOK, LinkInv, [Next]_vars
             PROVE  Channel!Next \/ (Link' = Link /\ Calls' = Calls)
  BY DEF Channel!vars, Link, Calls
<1> USE WsClientAssumption
<1>0. call \in [Caller -> {"idle", "lock", "write", "sent"}]
  BY DEF TypeOK
<1>1. ASSUME UNCHANGED call, run' = run PROVE Link' = Link /\ Calls' = Calls
  BY <1>1 DEF Link, Calls
<1>2. ASSUME UNCHANGED call, call[Reader] = "idle",
             \/ Link = "down" /\ Link' = "open"
             \/ Link = "open" /\ Link' = "connected"
             \/ Link = "connected" /\ Link' = "falling"
             \/ Link = "falling" /\ Link' = "down"
             \/ Link' = Link
      PROVE  Channel!Next \/ (Link' = Link /\ Calls' = Calls)
  <2>1. Calls' = Calls /\ Calls[Reader] = "idle"
    BY <1>2 DEF Calls
  <2> QED BY <1>2, <2>1 DEF Channel!Next, Channel!Move, Link, Calls
<1>3. ASSUME run' = run, NEW w \in Caller, NEW p, call' = [call EXCEPT ![w] = p],
             \/ Calls'[w] = Calls[w]
             \/ Link = "connected" /\ Calls[w] = "idle" /\ Calls'[w] = "sending"
             \/ Link # "down" /\ Calls[w] = "sending" /\ Calls'[w] = "written"
             \/ Calls[w] # "idle" /\ Calls'[w] = "idle"
      PROVE  Channel!Next \/ (Link' = Link /\ Calls' = Calls)
  <2>1. Link' = Link
    BY <1>3 DEF Link
  <2>2. Calls' = [Calls EXCEPT ![w] = Calls'[w]]
    BY <1>0, <1>3, Zenon DEF Calls
  <2>3. CASE Calls'[w] = Calls[w]
    BY <2>1, <2>2, <2>3, Zenon DEF Calls
  <2>4. CASE Link = "connected" /\ Calls[w] = "idle" /\ Calls'[w] = "sending"
    <3>1. Channel!Send(w)
      BY <2>1, <2>2, <2>4, Zenon DEF Channel!Send, Link, Calls
    <3> QED BY <3>1 DEF Channel!Next
  <2>5. CASE Link # "down" /\ Calls[w] = "sending" /\ Calls'[w] = "written"
    <3>1. Channel!Written(w)
      BY <2>1, <2>2, <2>5, Zenon DEF Channel!Written, Link, Calls
    <3> QED BY <3>1 DEF Channel!Next
  <2>6. CASE Calls[w] # "idle" /\ Calls'[w] = "idle"
    <3>1. Channel!Return(w)
      BY <2>1, <2>2, <2>6, Zenon DEF Channel!Return, Link, Calls
    <3> QED BY <3>1 DEF Channel!Next
  <2> QED BY <1>3, <2>3, <2>4, <2>5, <2>6, Zenon
\* Where Run is, as the channel sees it.
<1>4. \A w \in Caller : /\ Calls[w] = "idle" <=> call[w] = "idle"
                        /\ Calls[w] = "written" <=> call[w] = "sent"
                        /\ Calls[w] = "sending" <=> call[w] \in {"lock", "write"}
  BY <1>0 DEF Calls
<1>5. CASE RunStep /\ ~ReadFrame
  <2>1. UNCHANGED call
    BY <1>5, Zenon DEF RunStep, Dial, Handshake, SetConn, StartReading, ReadErr, Fall, ClearConn,
       Close, Retry, callVars
  <2>2. call[Reader] = "idle"
    BY <1>5, Zenon DEF RunStep, Dial, Interruptible, Handshake, SetConn, StartReading, ReadErr,
       ClearConn, Close, Retry, LinkInv
  <2>3. \/ Link = "down" /\ Link' = "open"
        \/ Link = "open" /\ Link' = "connected"
        \/ Link = "connected" /\ Link' = "falling"
        \/ Link = "falling" /\ Link' = "down"
        \/ Link' = Link
    BY <1>5, Zenon DEF RunStep, Dial, Returned, Interruptible, Handshake, SetConn, StartReading,
       ReadErr, Fall, ClearConn, Close, Retry, Link
  <2> QED BY <1>2, <2>1, <2>2, <2>3
<1>6. CASE ReadFrame
  <2>1. run' = run /\ Link = "connected" /\ call[Reader] = "idle"
    BY <1>6 DEF ReadFrame, runVars, Link
  <2>2. CASE UNCHANGED call
    BY <1>1, <2>1, <2>2
  <2>3. CASE call' = [call EXCEPT ![Reader] = "lock"]
    <3>1. Calls[Reader] = "idle" /\ Calls'[Reader] = "sending"
      BY <1>0, <2>1, <2>3 DEF Calls
    <3> QED BY <1>3, <2>1, <2>3, <3>1, Zenon
  <2> QED BY <1>6, <2>2, <2>3, Zenon DEF ReadFrame
<1>7. CASE Keepalive \/ Pong \/ Push \/ Break \/ Cancel \/ Tick \/ UNCHANGED vars
  <2>1. UNCHANGED call /\ run' = run
    BY <1>7, Zenon DEF Keepalive, KeepaliveTick, KeepalivePing, Pong, Push, Break, Cancel, Tick, vars,
       runVars, callVars
  <2> QED BY <1>1, <2>1
<1>8. ASSUME NEW w \in Caller, Send(w) \/ SendReport(w)
      PROVE  Channel!Next \/ (Link' = Link /\ Calls' = Calls)
  <2>1. run' = run
    BY <1>8, Zenon DEF Send, SendReport, Acquire, Write, Return, runVars
  <2>2. CASE Send(w)
    <3>1. Link = "connected" /\ Calls[w] = "idle" /\ call' = [call EXCEPT ![w] = "lock"]
      BY <1>4, <2>2 DEF Send, LinkInv, Link
    <3>2. Calls'[w] = "sending"
      BY <1>0, <3>1 DEF Calls
    <3> QED BY <1>3, <2>1, <3>1, <3>2, Zenon
  <2>3. CASE Acquire(w)
    <3>1. PICK p \in {"write", "idle"} : call' = [call EXCEPT ![w] = p]
      BY <2>3, Zenon DEF Acquire
    <3>2. Calls[w] = "sending" /\ Calls'[w] \in {"sending", "idle"}
      BY <1>0, <1>4, <2>3, <3>1 DEF Acquire, Calls
    <3> QED BY <1>3, <2>1, <3>1, <3>2, Zenon
  <2>4. CASE Write(w)
    <3>1. PICK p \in {"sent", "idle"} : call' = [call EXCEPT ![w] = p]
      BY <2>4 DEF Write
    <3>2. Calls[w] = "sending" /\ Calls'[w] \in {"written", "idle"} /\ Link # "down"
      BY <1>0, <1>4, <2>4, <3>1 DEF Write, Calls, LinkInv, Link
    <3> QED BY <1>3, <2>1, <3>1, <3>2, Zenon
  <2>5. CASE Return(w)
    <3>1. call' = [call EXCEPT ![w] = "idle"] /\ Calls[w] = "written"
      BY <1>4, <2>5, Zenon DEF Return
    <3>2. Calls'[w] = "idle"
      BY <1>0, <3>1 DEF Calls
    <3> QED BY <1>3, <2>1, <3>1, <3>2, Zenon
  <2> QED BY <1>8, <2>2, <2>3, <2>4, <2>5, Zenon DEF SendReport
<1> QED BY <1>5, <1>6, <1>7, <1>8 DEF Next

\* For any callers, timings and faults: the client implements the channel the
\* receiver is written against.
THEOREM ImplementsChannel == Spec => ChannelSpec
<1>1. Init => LinkInv
  BY WsClientAssumption DEF Init, LinkInv
<1> QED
  BY <1>1, ChannelInit, ChannelNext, TypeCorrect, LinkNext, PTL DEF Spec, ChannelSpec, Channel!Spec
=============================================================================
