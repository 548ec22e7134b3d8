---------------------------- MODULE PushChannel ----------------------------
(***************************************************************************)
(* The interface receiver.PushChannel: what the receiver may rely on,      *)
(* whatever happens to sockets, pings and timers behind it.  Module        *)
(* Receiver uses the channel in this way, and WsClient implements it.      *)
(***************************************************************************)
CONSTANTS
    Caller,           \* goroutines that call SendReport
    Reader            \* the one that calls it from the command handler

VARIABLES
    link,             \* "down", "open", "connected" or "falling"
    call              \* per caller: "idle", "sending" or "written"

vars == <<link, call>>

Init ==
    /\ link = "down"
    /\ call = [w \in Caller |-> "idle"]

\* Connected() is link = "connected".  It changes only between two commands; a
\* connection is usable a little before Connected() says so, and a little after.
Move(from, to) ==
    /\ link = from /\ link' = to
    /\ call[Reader] = "idle"
    /\ UNCHANGED call

\* SendReport: it starts on a connected channel, succeeds only if the frame was
\* written to a connection that had completed its handshake, and may fail.
Send(w) ==
    /\ link = "connected"
    /\ call[w] = "idle" /\ call' = [call EXCEPT ![w] = "sending"]
    /\ UNCHANGED link

Written(w) ==
    /\ link # "down"
    /\ call[w] = "sending" /\ call' = [call EXCEPT ![w] = "written"]
    /\ UNCHANGED link

Return(w) ==
    /\ call[w] # "idle" /\ call' = [call EXCEPT ![w] = "idle"]
    /\ UNCHANGED link

Next ==
    \/ Move("down", "open")
    \/ Move("open", "connected")
    \/ Move("connected", "falling")
    \/ Move("falling", "down")
    \/ \E w \in Caller : Send(w) \/ Written(w) \/ Return(w)

Spec == Init /\ [][Next]_vars
=============================================================================
