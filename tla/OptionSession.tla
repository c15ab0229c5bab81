---------------------------- MODULE OptionSession ----------------------------
(***************************************************************************)
(* The options of one run from request to request: a start request is      *)
(* decoded and validated and the plan of the workload is made from it, once*)
(* for the whole run; every alter request is applied to what the earlier   *)
(* ones left (internal/benchmark/options.go and benchrunner/workload.go,   *)
(* driven by Coordinator.Start and Coordinator.Alter).                     *)
(***************************************************************************)
EXTENDS BenchmarkOptions

CONSTANTS
    Payloads,       \* syntactically valid bodies of start requests
    Alterations     \* syntactically valid bodies of alter requests

\* The Go type startPayload: every field is a pointer.
StartPayloads ==
    [scale : Int \cup {Nil}, clients : Int \cup {Nil},
     durationSeconds : Int \cup {Nil}, warmupSeconds : Int \cup {Nil},
     reset : BOOLEAN \cup {Nil}, profile : Profiles \cup {"other", Nil},
     readPercent : Int \cup {Nil},
     transactionMix : TransactionMixes \cup {"other", "", Nil},
     targetTPS : Int \cup {Nil}]

ASSUME SessionAssumption ==
    Payloads \subseteq StartPayloads /\ Alterations \subseteq AlterOptions

VARIABLES
    options,    \* the options the API reports, Nil before the start
    plan        \* the plan that the workers of the run carry out

vars == <<options, plan>>

Init == options = Nil /\ plan = Nil

Start(p) ==
    /\ options = Nil
    /\ DecodeAccepts(p)
    /\ options' = Decoded(p)
    /\ plan' = newSQLWorkloadPlan(Decoded(p))

Alter(a) ==
    /\ options # Nil
    /\ ApplyAlterAccepts(options, a)
    /\ options' = Altered(options, a)
    /\ UNCHANGED plan

Next ==
    \/ \E p \in Payloads : Start(p)
    \/ \E a \in Alterations : Alter(a)

Spec == Init /\ [][Next]_vars

-----------------------------------------------------------------------------
(***************************************************************************)
(* The three validators agree: options that DecodeStartOptions or any      *)
(* sequence of ApplyAlter lets through are accepted by runner.Start and    *)
(* its workload plan, and an alteration ApplyAlter accepts is accepted by  *)
(* activeRun.Alter; so no accepted start fails on its options and no alter *)
(* is applied by half (runner.go:65-85, runtime.go:74-82).                 *)
(***************************************************************************)
ValidatorsAgree ==
    options # Nil =>
       /\ RunnerAccepts(options)
       /\ \A a \in Alterations :
             ApplyAlterAccepts(options, a) => RunAlterAccepts(a)

(***************************************************************************)
(* What the API reports is what the workers do, after any sequence of      *)
(* alterations: profile, scale and read percentage are those of the plan   *)
(* that was made at the start, and the plan's mix is the reported one or,  *)
(* where the API reports an empty mix, the default that an absent one      *)
(* would have got; either way one that the workload knows                  *)
(* (options.go:85-111, 136-154, workload.go:26-64).                        *)
(***************************************************************************)
ReportedIsEffective ==
    options # Nil =>
       /\ options.profile = plan.profile /\ options.scale = plan.scale
       /\ options.profile = "mixed" => options.readPercent = plan.readPercent
       /\ options.profile = "transaction" =>
             /\ plan.mix \in TransactionMixes
             /\ \/ options.transactionMix = plan.mix
                \/ /\ options.transactionMix = ""
                   /\ plan.mix = DefaultTransactionMix("transaction")

(***************************************************************************)
(* A lock run always has two clients to contend, also after it has been    *)
(* altered, although the alter request itself may name any number from one *)
(* (options.go:149-151, 209-211).                                          *)
(***************************************************************************)
LockKeepsContention ==
    options # Nil /\ options.profile = "lock" => options.clients >= 2
=============================================================================
