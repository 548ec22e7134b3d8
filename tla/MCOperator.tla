----------------------------- MODULE MCOperator -----------------------------
(* Instances of Operator for TLC. *)
EXTENDS Operator, TLC

MCCommands == <<"c1", "c2">>
MCVerbOf == [c1 |-> "apply", c2 |-> "helm-install"]
MCKnown == {"pods", "nodes"}
MCDefaultInformers == <<"pods">>

\* The least environment, and others that differ from it.
Least == [SERVER_ENDPOINT |-> "url", SERVER_TOKEN |-> "right",
          SERVER_PUBLIC_KEY |-> "base64 of 32 bytes",
          WS_ENABLED |-> "", WRITER_ENABLED |-> "", DRIFT_POLICY |-> "",
          INFORMERS_ENABLED |-> << >>, LOG_LEVEL |-> "", writerToken |-> TRUE]
MCEnvironments ==
    {Least,
     [Least EXCEPT !.SERVER_TOKEN = ""],
     [Least EXCEPT !.SERVER_TOKEN = "wrong", !.WRITER_ENABLED = "false"],
     [Least EXCEPT !.SERVER_PUBLIC_KEY = "junk"],
     [Least EXCEPT !.DRIFT_POLICY = "junk"],
     [Least EXCEPT !.INFORMERS_ENABLED = <<"junk">>],
     [Least EXCEPT !.WS_ENABLED = "false", !.INFORMERS_ENABLED = <<"", "pods", "nodes">>,
                   !.WRITER_ENABLED = "junk"],
     [Least EXCEPT !.WS_ENABLED = "false", !.WRITER_ENABLED = "false",
                   !.LOG_LEVEL = "warn"],
     [Least EXCEPT !.WS_ENABLED = "false", !.writerToken = FALSE,
                   !.DRIFT_POLICY = "overwrite"]}
=============================================================================
