--------------------------- MODULE MCCoordinator ---------------------------
(***************************************************************************)
(* Instance of Coordinator for TLC: two callers, two kinds of run (one     *)
(* that Alter may shrink to one client and one of profile lock that it may *)
(* not), alterations of one field and of both.                             *)
(***************************************************************************)
EXTENDS Coordinator

Options(profile, clients) ==
    [scale |-> 1, clients |-> clients, durationSeconds |-> 2,
     warmupSeconds |-> 1, reset |-> FALSE, profile |-> profile,
     readPercent |-> IF profile = "mixed" THEN 80 ELSE Nil,
     transactionMix |-> "", targetTPS |-> Nil]

MCStartRequests == {Options("mixed", 2), Options("lock", 2)}

MCAlterRequests == {[clients |-> 1, targetTPS |-> Nil],
                    [clients |-> 3, targetTPS |-> 5]}
=============================================================================
