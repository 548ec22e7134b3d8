----------------------------- MODULE MCReceiver -----------------------------
(* Instances of Receiver for TLC. *)
EXTENDS Receiver, TLC

CONSTANTS c1, c2

MCCmd == {c1, c2}
MCOneCmd == {c1}

\* Each command is its own nonce, so that commands can be permuted.
MCNonce == [cmd \in MCCmd |-> cmd]
MCOneNonce == [cmd \in MCOneCmd |-> cmd]
Symmetry == Permutations(MCCmd)

MCNoBad == {}
MCPoll == {"poll"}
MCBoth == {"poll", "ws"}

\* The answers to a poll: no command, one, or two.
MCResponses == {<< >>, <<c1>>, <<c2>>, <<c1, c2>>, <<c2, c1>>}
MCOneResponses == {<< >>, <<c1>>}
=============================================================================
