----------------------------- MODULE MCActiveRun -----------------------------
(***************************************************************************)
(* Instance of ActiveRun for TLC.  The pool starts with two workers and is *)
(* altered to one or two, so that it shrinks, grows again with fresh       *)
(* numbers and grows after the run is over.                                *)
(***************************************************************************)
EXTENDS ActiveRun
=============================================================================
