----------------------------- MODULE MockServer -----------------------------
(***************************************************************************)
(* cmd/mockserver: the control plane of local development.  It hands its   *)
(* commands out on the first poll, and once more on the first WebSocket    *)
(* connection.  net/http runs every request in a goroutine of its own.     *)
(***************************************************************************)
EXTENDS Naturals, Sequences

CONSTANTS
    Commands,      \* s.commands
    MaxSessions    \* bound: WebSocket connections

VARIABLES
    delivered, wsDelivered,
    sess,          \* the calls of ws: where each is, and what it has still to push
    handed         \* history: per channel, the commands handed out, in order

serverVars == <<delivered, wsDelivered, sess, handed>>

Init ==
    /\ delivered = FALSE /\ wsDelivered = FALSE
    /\ sess = << >>
    /\ handed = [c \in {"poll", "ws"} |-> << >>]

\* Mutant: the flag is read, and not set.
SwappedNever(flag) == flag

\* The flag after CompareAndSwap(false, true).
Swapped(flag) == TRUE

\* Mutant: commands are only pushed.
PollReplyNever == << >>

\* What poll answers to an authorized request.
PollReply == IF delivered THEN << >> ELSE Commands

Poll ==
    /\ delivered' = Swapped(delivered)
    /\ handed' = [handed EXCEPT !["poll"] = @ \o PollReply]
    /\ UNCHANGED <<wsDelivered, sess>>

\* A connection is accepted; the call of ws waits for the hello.
WsAccept ==
    /\ Len(sess) < MaxSessions
    /\ sess' = Append(sess, [at |-> "hello", unsent |-> << >>])
    /\ UNCHANGED <<delivered, wsDelivered, handed>>

\* The hello is answered: a wrong token ends the call.  The first call that comes
\* this far has the commands to push.
WsHello(s, authorized) ==
    /\ sess[s].at = "hello"
    /\ sess' = [sess EXCEPT ![s] =
          [at |-> IF authorized THEN "open" ELSE "gone",
           unsent |-> IF authorized /\ ~wsDelivered THEN Commands ELSE << >>]]
    /\ wsDelivered' = IF authorized THEN Swapped(wsDelivered) ELSE wsDelivered
    /\ UNCHANGED <<delivered, handed>>

WsPush(s) ==
    /\ sess[s].at = "open" /\ sess[s].unsent # << >>
    /\ sess' = [sess EXCEPT ![s].unsent = Tail(@)]
    /\ handed' = [handed EXCEPT !["ws"] = Append(@, Head(sess[s].unsent))]
    /\ UNCHANGED <<delivered, wsDelivered>>

\* A read or a write fails: the call ends, whatever it had to push.
WsGone(s) ==
    /\ sess[s].at # "gone"
    /\ sess' = [sess EXCEPT ![s] = [at |-> "gone", unsent |-> << >>]]
    /\ UNCHANGED <<delivered, wsDelivered, handed>>

\* On each channel the commands are handed out in order and each at most once,
\* over any number of polls, connections and restarts of the agent.
OncePerChannel ==
    \A c \in {"poll", "ws"} :
        \E n \in 0 .. Len(Commands) : handed[c] = SubSeq(Commands, 1, n)
=============================================================================
