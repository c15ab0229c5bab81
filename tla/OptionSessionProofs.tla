------------------------- MODULE OptionSessionProofs -------------------------
(***************************************************************************)
(* Proofs about OptionSession for all requests and all integers.           *)
(***************************************************************************)
EXTENDS OptionSession, TLAPS

(***************************************************************************)
(* What every accepted request leaves behind: well-formed options that     *)
(* were validated last and tell what the plan does.                        *)
(***************************************************************************)
Settled ==
    options # Nil =>
       /\ options \in StartOptions
       /\ validateStartOptions(options)
       /\ ReportedIsEffective

LEMMA DecodedType == \A p \in StartPayloads : Decoded(p) \in StartOptions
  <1>. TAKE p \in StartPayloads
  <1>. DEFINE profile == Default(p.profile, "mixed")
  <1>1. profile \in Profiles \cup {"other"}
    BY DEF StartPayloads, Default, Profiles
  <1>0. /\ p.scale \in Int \cup {Nil} /\ p.clients \in Int \cup {Nil}
        /\ p.durationSeconds \in Int \cup {Nil}
        /\ p.warmupSeconds \in Int \cup {Nil}
        /\ p.readPercent \in Int \cup {Nil} /\ p.targetTPS \in Int \cup {Nil}
    BY Zenon DEF StartPayloads
  <1>2. /\ Default(p.scale, 10) \in Int
        /\ Default(p.clients, 1) \in Int
        /\ Default(p.durationSeconds, 60) \in Int
        /\ Default(p.warmupSeconds, 10) \in Int
    BY <1>0 DEF Default
  <1>3. Default(p.reset, FALSE) \in BOOLEAN
    BY Zenon DEF StartPayloads, Default
  <1>4. /\ Default(p.readPercent, DefaultReadPercent(profile)) \in Int \cup {Nil}
        /\ p.targetTPS \in Int \cup {Nil}
    BY <1>0 DEF Default, DefaultReadPercent
  <1>5. Default(p.transactionMix, DefaultTransactionMix(profile))
           \in TransactionMixes \cup {"other", ""}
    BY DEF StartPayloads, Default, DefaultTransactionMix, TransactionMixes
  <1>. HIDE DEF profile
  <1>. QED BY <1>1, <1>2, <1>3, <1>4, <1>5 DEF Decoded, StartOptions, profile

LEMMA StartSettles ==
    ASSUME NEW p \in Payloads, Start(p)
    PROVE  Settled'
  <1>1. options' = Decoded(p) /\ validateStartOptions(Decoded(p))
    BY DEF Start, DecodeAccepts
  <1>2. options' \in StartOptions
    BY <1>1, DecodedType, SessionAssumption
  <1>3. plan' = newSQLWorkloadPlan(options')
    BY <1>1 DEF Start
  <1>4. options'.profile = "mixed" => options'.readPercent # Nil
    BY <1>1, NilAssumption DEF Decoded, Default, DefaultReadPercent
  <1>5. ReportedIsEffective'
    BY <1>1, <1>3, <1>4
    DEF ReportedIsEffective, newSQLWorkloadPlan, validateStartOptions,
        isValidTransactionMix, TransactionMixes, Default, DefaultTransactionMix,
        effectiveReadPercent, effectiveTransactionMix
  <1>. QED BY <1>1, <1>2, <1>5 DEF Settled

LEMMA AlterSettles ==
    ASSUME Settled, NEW a \in Alterations, Alter(a)
    PROVE  Settled'
  <1>1. /\ options \in StartOptions /\ ReportedIsEffective /\ options # Nil
        /\ options' = Altered(options, a) /\ plan' = plan
        /\ validateStartOptions(options')
    BY DEF Alter, ApplyAlterAccepts, Settled
  <1>2. a \in AlterOptions
    BY SessionAssumption
  <1>. DEFINE clients == Default(a.clients, options.clients)
              targetTPS == Default(a.targetTPS, options.targetTPS)
  <1>3. clients \in Int /\ targetTPS \in Int \cup {Nil}
    BY <1>1, <1>2 DEF Default, AlterOptions, StartOptions
  <1>4. options' = [options EXCEPT !.clients = clients, !.targetTPS = targetTPS]
    BY <1>1 DEF Altered, StartOptions
  <1>. HIDE DEF clients, targetTPS
  <1>5. /\ options' \in StartOptions
        /\ options'.profile = options.profile /\ options'.scale = options.scale
        /\ options'.readPercent = options.readPercent
        /\ options'.transactionMix = options.transactionMix
    BY <1>1, <1>3, <1>4 DEF StartOptions
  <1>6. ReportedIsEffective'
    BY <1>1, <1>5 DEF ReportedIsEffective
  <1>. QED BY <1>1, <1>5, <1>6 DEF Settled

(***************************************************************************)
(* Whatever sequence of requests was accepted, the options are settled.    *)
(***************************************************************************)
THEOREM AlwaysSettled == Spec => []Settled
  <1>1. Init => Settled
    BY DEF Init, Settled
  <1>2. Settled /\ [Next]_vars => Settled'
    <2>1. ASSUME Settled, UNCHANGED vars PROVE Settled'
      BY <2>1 DEF Settled, ReportedIsEffective, validateStartOptions, vars
    <2>. QED BY <2>1, StartSettles, AlterSettles DEF Next
  <1>. QED BY <1>1, <1>2, PTL DEF Spec

(***************************************************************************)
(* runner.Start and activeRun.Alter never refuse what the API accepted.    *)
(***************************************************************************)
THEOREM ValidatorsAlwaysAgree == Spec => []ValidatorsAgree
  <1>1. Settled => ValidatorsAgree
    BY DEF Settled, ValidatorsAgree, validateStartOptions, RunnerAccepts,
       newSQLWorkloadPlanAccepts, isValidProfile, ApplyAlterAccepts,
       validateAlterOptions, RunAlterAccepts
  <1>. QED BY <1>1, AlwaysSettled, PTL

(***************************************************************************)
(* A lock run keeps two clients through any sequence of alterations.       *)
(***************************************************************************)
THEOREM LockAlwaysContends == Spec => []LockKeepsContention
  <1>1. Settled => LockKeepsContention
    BY DEF Settled, LockKeepsContention, validateStartOptions
  <1>. QED BY <1>1, AlwaysSettled, PTL

(***************************************************************************)
(* The reported profile, scale and read percentage are the plan's; so is   *)
(* the mix, or it is reported empty and the plan's is the default.         *)
(***************************************************************************)
THEOREM ReportedAlwaysEffective == Spec => []ReportedIsEffective
  <1>1. Settled => ReportedIsEffective
    BY DEF Settled, ReportedIsEffective
  <1>. QED BY <1>1, AlwaysSettled, PTL
=============================================================================
