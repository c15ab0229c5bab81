--------------------------- MODULE MCOptionSession ---------------------------
(***************************************************************************)
(* Instance of OptionSession for TLC: every field absent, at its smallest  *)
(* valid value, just below it and, where there is a largest one, around    *)
(* that; a duration that the default warm-up does not fit into.            *)
(***************************************************************************)
EXTENDS OptionSession

MCPayloads ==
    [scale : {Nil, 0, 1}, clients : {Nil, 0, 1, 2},
     durationSeconds : {Nil, 0, 1, 10, 11}, warmupSeconds : {Nil, -1, 0, 1},
     reset : {Nil},
     profile : {"read", "transaction", "lock", "mixed", "other", Nil},
     readPercent : {Nil, -1, 100, 101},
     transactionMix : {Nil, "", "read-heavy", "other"},
     targetTPS : {Nil, 0, 1}]

MCAlterations == [clients : {Nil, 0, 1, 2, 3}, targetTPS : {Nil, 0, 1, 2}]
=============================================================================
