-------------------------- MODULE MCRestartPolicy --------------------------
(* RestartPolicy for TLC: a scaled clock; every run stops at MaxTime. *)
EXTENDS RestartPolicy
=============================================================================
