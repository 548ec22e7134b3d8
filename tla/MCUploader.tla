----------------------------- MODULE MCUploader -----------------------------
(***************************************************************************)
(* Small instances of Uploader for TLC.                                    *)
(***************************************************************************)
EXTENDS Uploader

CONSTANTS e1, e2, e3, s1, s2

MCEvent == {e1, e2, e3}
MCSyncEvent == {s1, s2}

\* Nothing in the caches, or a snapshot that needs two batches.
MCSnapshots == {<< >>, <<s1, s2>>}

\* The last snapshot event alone exceeds a budget of three bytes.
MCEventSize == [e \in Event \cup SyncEvent |-> IF e = s2 THEN 4 ELSE 1]
=============================================================================
