--------------------------- MODULE MCEventStream ---------------------------
(* Bounds for TLC: see the cfg files beside this module.                    *)
EXTENDS EventStream
=============================================================================
