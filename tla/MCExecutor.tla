----------------------------- MODULE MCExecutor -----------------------------
(* Instances of Executor for TLC. *)
EXTENDS Executor

CONSTANTS x, y, v, w

MCObj == {x, y}
MCValue == {v, w}

Cmd(verb, targets) ==
    [verb |-> verb, targets |-> targets, subject |-> None, own |-> w,
     expected |-> [own |-> v, rest |-> v], override |-> FALSE, wellFormed |-> TRUE]

Unhashed(cmd) == [cmd EXCEPT !.expected = None]

\* An apply of two objects and the gated verbs beside it.
MCGated == {Cmd("apply", <<x, y>>), Cmd("patch", <<x>>), Cmd("delete", <<x>>)}

Rotate == [Unhashed(Cmd("cert-rotate", <<y>>)) EXCEPT !.subject = x]

\* The Helm verbs on one release.
MCHelm ==
    {Unhashed(Cmd(verb, <<x>>)) : verb \in {"helm-install", "helm-upgrade", "helm-uninstall"}}

\* A certificate rotation, a manifest that cannot be decoded and a verb that is
\* not supported.
MCOthers == {Rotate, Unhashed(Cmd("cluster-upgrade", <<x>>)),
             [Unhashed(Cmd("apply", <<x>>)) EXCEPT !.wellFormed = FALSE]}

MCCommand == MCGated \cup MCHelm \cup MCOthers
MCBatches == {MCGated, MCHelm, MCOthers}
=============================================================================
