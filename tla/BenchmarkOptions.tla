-------------------------- MODULE BenchmarkOptions --------------------------
(***************************************************************************)
(* The option contract of package internal/benchmark: what a start request *)
(* decodes to, which options are valid and how a running benchmark's       *)
(* options are altered; and the two places in internal/benchrunner that    *)
(* check the same options again (runner.Start and activeRun.Alter).        *)
(*                                                                         *)
(* Nil is a nil pointer, as the decoder leaves it for an absent field.     *)
(***************************************************************************)
EXTENDS Integers

CONSTANT Nil

ASSUME NilAssumption == Nil \notin Int

Profiles == {"read", "write", "transaction", "join", "lock", "mixed"}

TransactionMixes == {"balanced", "read-heavy", "write-heavy"}

(***************************************************************************)
(* The Go types.  The profile and the mix are strings in Go, so a decoded  *)
(* value need not be one of the named ones; "other" stands for all others, *)
(* and the mix is "" where there is none.                                  *)
(***************************************************************************)
StartOptions ==
    [scale : Int, clients : Int, durationSeconds : Int, warmupSeconds : Int,
     reset : BOOLEAN, profile : Profiles \cup {"other"},
     readPercent : Int \cup {Nil},
     transactionMix : TransactionMixes \cup {"other", ""},
     targetTPS : Int \cup {Nil}]

AlterOptions == [clients : Int \cup {Nil}, targetTPS : Int \cup {Nil}]

-----------------------------------------------------------------------------
isValidProfile(profile) == profile \in Profiles

isValidTransactionMix(mix) == mix \in TransactionMixes

MutantValidateStartOptions(o) ==
    /\ o.scale >= 1 /\ o.clients >= 1 /\ o.durationSeconds >= 1
    /\ o.warmupSeconds \in 0..o.durationSeconds
    /\ isValidProfile(o.profile)
    /\ o.profile = "lock" => o.clients >= 2

validateStartOptions(o) ==
    /\ o.scale >= 1
    /\ o.clients >= 1
    /\ o.durationSeconds >= 1
    /\ o.warmupSeconds >= 0
    /\ o.warmupSeconds < o.durationSeconds
    /\ isValidProfile(o.profile)
    /\ o.readPercent # Nil =>
          o.profile = "mixed" /\ o.readPercent \in 0..100
    /\ o.transactionMix # "" =>
          o.profile = "transaction" /\ isValidTransactionMix(o.transactionMix)
    /\ o.profile = "lock" => o.clients >= 2
    /\ o.targetTPS # Nil => o.targetTPS >= 1

validateAlterOptions(a) ==
    /\ a.clients # Nil \/ a.targetTPS # Nil
    /\ a.clients # Nil => a.clients >= 1
    /\ a.targetTPS # Nil => a.targetTPS >= 1

(***************************************************************************)
(* DecodeStartOptions on a syntactically valid payload p: every absent     *)
(* field gets its default, and the two that only one profile supports get  *)
(* one only for that profile.  Decoded(p) is the record built;             *)
(* DecodeAccepts(p) says whether it is returned or refused.                *)
(***************************************************************************)
Default(field, value) == IF field = Nil THEN value ELSE field

MutantDefaultReadPercent(profile) == Nil

DefaultReadPercent(profile) == IF profile = "mixed" THEN 80 ELSE Nil

DefaultTransactionMix(profile) ==
    IF profile = "transaction" THEN "balanced" ELSE ""

Decoded(p) ==
    LET profile == Default(p.profile, "mixed")
    IN  [scale |-> Default(p.scale, 10),
         clients |-> Default(p.clients, 1),
         durationSeconds |-> Default(p.durationSeconds, 60),
         warmupSeconds |-> Default(p.warmupSeconds, 10),
         reset |-> Default(p.reset, FALSE),
         profile |-> profile,
         readPercent |-> Default(p.readPercent, DefaultReadPercent(profile)),
         transactionMix |->
            Default(p.transactionMix, DefaultTransactionMix(profile)),
         targetTPS |-> p.targetTPS]

DecodeAccepts(p) == validateStartOptions(Decoded(p))

(***************************************************************************)
(* StartOptions.ApplyAlter: the altered options, and whether they are      *)
(* accepted.                                                               *)
(***************************************************************************)
Altered(o, a) ==
    [o EXCEPT !.clients = Default(a.clients, @),
              !.targetTPS = Default(a.targetTPS, @)]

MutantApplyAlterAccepts(o, a) == validateAlterOptions(a)

ApplyAlterAccepts(o, a) ==
    validateAlterOptions(a) /\ validateStartOptions(Altered(o, a))

(***************************************************************************)
(* What internal/benchrunner checks of the same options: runner.Start      *)
(* before it plans the workload, newSQLWorkloadPlan when it picks one, and *)
(* activeRun.Alter before it resizes anything.  The effective values are   *)
(* the ones the plan uses.                                                 *)
(***************************************************************************)
newSQLWorkloadPlanAccepts(o) == o.profile \in Profiles

RunnerAccepts(o) ==
    /\ o.scale >= 1
    /\ o.clients >= 1
    /\ o.durationSeconds >= 1
    /\ o.warmupSeconds >= 0
    /\ o.warmupSeconds < o.durationSeconds
    /\ newSQLWorkloadPlanAccepts(o)

RunAlterAccepts(a) ==
    /\ a.clients # Nil \/ a.targetTPS # Nil
    /\ a.clients # Nil => a.clients >= 1
    /\ a.targetTPS # Nil => a.targetTPS >= 1

effectiveReadPercent(o) == Default(o.readPercent, 80)

effectiveTransactionMix(o) ==
    IF o.transactionMix # "" THEN o.transactionMix ELSE "balanced"

\* The plan of a run: what its workload was given, and the zero value where
\* the workload of the profile has no such field.
newSQLWorkloadPlan(o) ==
    [profile |-> o.profile,
     scale |-> o.scale,
     readPercent |-> IF o.profile = "mixed" THEN effectiveReadPercent(o) ELSE 0,
     mix |-> IF o.profile = "transaction" THEN effectiveTransactionMix(o) ELSE ""]
=============================================================================
