---------------------------- MODULE MCBenchSchema ----------------------------
(***************************************************************************)
(* Instance of BenchSchema for TLC.  Two scales tell the branches apart;   *)
(* the operations of a run go once around the accounts of the larger scale *)
(* and the ten tellers of a branch; three runs let two broken setups, or   *)
(* two scales, precede a complete one.                                     *)
(***************************************************************************)
EXTENDS BenchSchema
=============================================================================
