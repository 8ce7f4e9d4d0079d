--------------------------- MODULE MCRecognition ----------------------------
(***************************************************************************)
(* Small instances of Recognition; the constants are given in each cfg.    *)
(* Scans and replicas are interchangeable, but ScansEnd is a liveness      *)
(* property: no symmetry is declared.                                      *)
(***************************************************************************)
EXTENDS Recognition
=============================================================================
