----------------------------- MODULE MCStartup ------------------------------
(* Startup with two configurations. *)
EXTENDS Startup

CONSTANTS c1, c2

TwoConfigurations == {c1, c2}
=============================================================================
