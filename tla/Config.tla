------------------------------- MODULE Config -------------------------------
(***************************************************************************)
(* internal/config: the configuration that Load makes of the environment.  *)
(* A variable that is not set is "", an unset list is << >>.  Settings of  *)
(* time, paths and addresses, which no model tells apart, are left out.    *)
(***************************************************************************)
EXTENDS Sequences

EnvOr(value, def) == IF value # "" THEN value ELSE def

\* A value that ParseBool rejects counts as not set.
EnvBool(value, def) ==
    CASE value \in {"1", "t", "T", "TRUE", "true", "True"} -> TRUE
      [] value \in {"0", "f", "F", "FALSE", "false", "False"} -> FALSE
      [] OTHER -> def

\* The elements of a list that are not blank; a list without any is not set.
EnvList(value, def) ==
    LET out == SelectSeq(value, LAMBDA part : part # "")
    IN  IF out = << >> THEN def ELSE out

\* What PublicKey decodes: 32 bytes, as base64 or as hex.
PublicKeyOK(value) == value \in {"base64 of 32 bytes", "hex of 32 bytes"}

DriftPolicies == {"refuse", "overwrite", "overwrite-with-approval"}
LogLevels == {"debug", "info", "warn", "error"}

\* The part of Load before Validate.
Parsed(env, defaultInformers) ==
    [ServerEndpoint   |-> env.SERVER_ENDPOINT,
     ServerToken      |-> env.SERVER_TOKEN,
     ServerPublicKey  |-> env.SERVER_PUBLIC_KEY,
     WSEnabled        |-> EnvBool(env.WS_ENABLED, TRUE),
     WriterEnabled    |-> EnvBool(env.WRITER_ENABLED, TRUE),
     DriftPolicy      |-> EnvOr(env.DRIFT_POLICY, "refuse"),
     InformersEnabled |-> EnvList(env.INFORMERS_ENABLED, defaultInformers),
     LogLevel         |-> EnvOr(env.LOG_LEVEL, "info")]

\* Validate returns nil.
Valid(c) ==
    /\ c.ServerEndpoint # "" /\ c.ServerToken # ""
    /\ PublicKeyOK(c.ServerPublicKey)
    /\ c.DriftPolicy \in DriftPolicies
    /\ c.LogLevel \in LogLevels
=============================================================================
