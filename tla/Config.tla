-------------------------------- MODULE Config --------------------------------
(***************************************************************************)
(* The configuration (internal/config/config.go): the defaults, what       *)
(* loading a file makes of them, and what the validate command checks.     *)
(* The other commands start with whatever Load returns.                    *)
(*                                                                         *)
(* A file is [kind, says]: kind is "absent", "unreadable", "malformed" or  *)
(* "toml", and `says' maps the keys that the file has to their values,     *)
(* policies to functions of the same form.  Durations are in milliseconds, *)
(* loads in thousandths.  Where logs and diagnostics go is left out.       *)
(***************************************************************************)
EXTENDS Integers, Sequences

\* What the file says, over the default; keys that nobody knows are ignored.
Overlay(says, default) ==
    [k \in DOMAIN default |-> IF k \in DOMAIN says THEN says[k] ELSE default[k]]

\* A policy without `enabled' is enabled. A missing `conditions' table is one
\* that asks for nothing.
NoPolicy ==
    [process |-> "", maxCount |-> 0, actions |-> <<>>, priority |-> 0, enabled |-> TRUE,
     parent |-> "", exclude |-> {}, minLoad1 |-> 0, minLoad5 |-> 0]

Default ==
    [periodicInterval |-> 60000,
     loadPollInterval |-> 5000,
     loadThreshold    |-> 400000,
     dryRun           |-> FALSE,
     gracePeriod      |-> 3000,
     cooldown         |-> 60000,
     policies         |-> [name \in {} |-> NoPolicy]]

Unmarshal(says) ==
    [Overlay(says, Default) EXCEPT
        !.policies = [name \in DOMAIN @ |-> Overlay(@[name], NoPolicy)]]

\* The configurations that Load may return: none if it fails. A file that does
\* not exist is no failure.
Load(file) ==
    CASE file.kind = "absent" -> {Default}
      [] file.kind = "toml"   -> {Unmarshal(file.says)}
      [] OTHER                -> {}

-----------------------------------------------------------------------------
ValidActions == {"log", "notify", "terminate", "diagnose", "sample", "spindump"}

\* Mutant of ValidatePolicy: a count of zero passes.
ValidatePolicyZero(p) ==
    /\ p.process # ""
    /\ p.maxCount >= 0
    /\ p.actions # <<>>
    /\ \A i \in DOMAIN p.actions : p.actions[i] \in ValidActions

ValidatePolicy(p) ==
    /\ p.process # ""
    /\ p.maxCount > 0
    /\ p.actions # <<>>
    /\ \A i \in DOMAIN p.actions : p.actions[i] \in ValidActions

Validate(cfg) ==
    /\ cfg.periodicInterval >= 1000
    /\ cfg.loadPollInterval >= 1000
    /\ cfg.loadThreshold > 0
    /\ cfg.gracePeriod >= 0
    /\ \A name \in DOMAIN cfg.policies : ValidatePolicy(cfg.policies[name])
=============================================================================
