---- MODULE MCWindowCapture ----
(* Instance for TLC; the values of the constants are in the configurations. *)
EXTENDS WindowCapture
====
