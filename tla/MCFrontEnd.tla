----------------------------- MODULE MCFrontEnd -----------------------------
(* FrontEnd on a small instance: one modeline, two windows, one of them     *)
(* opened a second time.                                                    *)
EXTENDS FrontEnd

MCGate == {<<1, "a">>}
MCPresets == <<1>>
MCTitle == <<1, 2, 2>>
=============================================================================
