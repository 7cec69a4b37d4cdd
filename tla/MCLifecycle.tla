---------------------------- MODULE MCLifecycle ----------------------------
(* Instances for TLC; the configurations give the constants their values.    *)
EXTENDS Lifecycle
=============================================================================
