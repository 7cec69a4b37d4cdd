-------------------------- MODULE MCGroovySession --------------------------
(* GroovySession on small instances.                                        *)
EXTENDS GroovySession
=============================================================================
