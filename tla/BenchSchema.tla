----------------------------- MODULE BenchSchema -----------------------------
(***************************************************************************)
(* The bench schema as the runner leaves it and as the workloads use it:   *)
(* internal/benchrunner/runner.go executes setupStatements one by one, each*)
(* in a transaction of its own, so that a stop or an error between two of  *)
(* them leaves what the earlier ones did; internal/benchrunner/workload*.go*)
(* then addresses rows by numbers computed from the scale of the run, not  *)
(* from what the tables hold.                                              *)
(*                                                                         *)
(* Rows are their keys; balances, names and notes are left out: no         *)
(* operation branches on them.  The coordinator never lets two runs        *)
(* overlap (module Coordinator), so one run is under way at a time.  The   *)
(* statements of several workers interleave only through the atomic        *)
(* counters of the plan, which number the operations.                      *)
(***************************************************************************)
EXTENDS Integers, Sequences, FiniteSets

CONSTANTS
    Scales,             \* values of scale in start requests
    AccountsPerScale,   \* 100000 in the code
    MixedReadPercent,   \* read_percent of a run of the mixed profile
    MaxSetups,          \* bound: runs started
    MaxIterations       \* bound: operations of one run

ASSUME SchemaAssumption ==
    /\ Scales \subseteq Nat \ {0}
    /\ AccountsPerScale \in Nat /\ AccountsPerScale >= 8
    /\ MixedReadPercent \in 0..100
    /\ MaxSetups \in Nat /\ MaxIterations \in Nat

VARIABLES
    db,         \* the contents of the bench schema
    run,        \* scale, reset, profile and mix of the current or last run
    phase,      \* "idle", "setup" or "running"
    step,       \* index of the next statement of setupStatements
    counter,    \* the atomic counters of the plan and of its two parts
    lastError,  \* error class the last run ended with
    matched,    \* "none" if a statement of the last operation matched no row
    setups,     \* number of runs started
    seededWith  \* scales of the runs started since the schema was dropped

vars == <<db, run, phase, step, counter, lastError, matched, setups, seededWith>>

Profiles == {"read", "write", "mixed", "transaction", "join", "lock"}

Mixes(profile) ==
    IF profile = "transaction" THEN {"balanced", "read-heavy", "write-heavy"}
                               ELSE {""}

Objects == {"schema", "branches", "tellers", "accounts", "history",
            "accounts_idx", "tellers_idx", "history_idx"}

EmptySchema ==
    [objects |-> {}, branches |-> {}, tellers |-> [id \in {} |-> 0],
     accounts |-> [id \in {} |-> 0], history |-> {}]

-----------------------------------------------------------------------------
(***************************************************************************)
(* benchmark.ResolveScale and the row numbers of workload.go.              *)
(***************************************************************************)
MutantResolveScale(scale) ==
    [branches |-> scale, tellers |-> scale * 10,
     accounts |-> scale * AccountsPerScale + 1]

ResolveScale(scale) ==
    [branches |-> scale, tellers |-> scale * 10,
     accounts |-> scale * AccountsPerScale]

Size == ResolveScale(run.scale)

accountID(iteration) == ((iteration - 1) % Size.accounts) + 1

MutantBranchID(iteration) == (iteration % Size.branches) + 1

branchID(iteration) == ((iteration - 1) % Size.branches) + 1

MutantTellerID(iteration, branch) == branch * 10 + ((iteration - 1) % 10)

tellerID(iteration, branch) ==
    LET teller == (branch - 1) * 10 + 1 + ((iteration - 1) % 10) IN
    IF teller > Size.tellers THEN Size.tellers ELSE teller

hotAccountID(iteration) ==
    LET hotSetSize == IF Size.accounts > 8 THEN 8 ELSE Size.accounts IN
    ((iteration - 1) % hotSetSize) + 1

-----------------------------------------------------------------------------
(***************************************************************************)
(* runner.setupStatements.  A statement drops the schema, creates an object*)
(* unless it exists, or seeds a table unless it has rows.                  *)
(***************************************************************************)
Drop == [does |-> "drop", object |-> "schema"]

Create(object) == [does |-> "create", object |-> object]

Seed(table) == [does |-> "seed", object |-> table]

setupStatements(reset) ==
    (IF reset = "yes" THEN <<Drop>> ELSE <<>>)
    \o <<Create("schema"), Create("branches"), Create("tellers"),
         Create("accounts"), Create("history"), Create("accounts_idx"),
         Create("tellers_idx"), Create("history_idx"),
         Seed("branches"), Seed("tellers"), Seed("accounts")>>

Statement == setupStatements(run.reset)[step]

\* What the definition of an object refers to.
Needs(object) ==
    CASE object = "schema" -> {}
      [] object = "branches" -> {"schema"}
      [] object \in {"tellers", "accounts"} -> {"branches"}
      [] object = "history" -> {"branches", "tellers", "accounts"}
      [] object = "accounts_idx" -> {"accounts"}
      [] object = "tellers_idx" -> {"tellers"}
      [] object = "history_idx" -> {"history"}

\* The rows the INSERT of a table generates, with their branch_id.
TellerRows == [id \in 1..Size.tellers |-> ((id - 1) \div 10) + 1]

AccountRows == [id \in 1..Size.accounts |-> ((id - 1) % Size.branches) + 1]

BranchesReferred(table) ==
    CASE table = "tellers" -> {TellerRows[id] : id \in DOMAIN TellerRows}
      [] table = "accounts" -> {AccountRows[id] : id \in DOMAIN AccountRows}
      [] OTHER -> {}

MutantUnseeded(table) == db.branches = {}

\* WHERE NOT EXISTS: the table that is seeded has no rows.
Unseeded(table) ==
    CASE table = "branches" -> db.branches = {}
      [] table = "tellers" -> DOMAIN db.tellers = {}
      [] table = "accounts" -> DOMAIN db.accounts = {}

\* The error the database answers with.
StatementError(s) ==
    IF \/ s.does = "create" /\ ~(Needs(s.object) \subseteq db.objects)
       \/ s.does = "seed" /\ s.object \notin db.objects
    THEN "missing"
    ELSE IF /\ s.does = "seed" /\ Unseeded(s.object)
            /\ ~(BranchesReferred(s.object) \subseteq db.branches)
    THEN "foreignKey"
    ELSE "none"

Seeded(table) ==
    CASE table = "branches" -> [db EXCEPT !.branches = 1..Size.branches]
      [] table = "tellers" -> [db EXCEPT !.tellers = TellerRows]
      [] table = "accounts" -> [db EXCEPT !.accounts = AccountRows]

Executed(s) ==
    CASE s.does = "drop" -> EmptySchema
      [] s.does = "create" -> [db EXCEPT !.objects = @ \cup {s.object}]
      [] s.does = "seed" -> IF Unseeded(s.object) THEN Seeded(s.object) ELSE db

-----------------------------------------------------------------------------
(***************************************************************************)
(* The queries of workload_sql.go.  A query for one row fails without it.  *)
(* An UPDATE, a range read or an aggregation succeeds on no rows: these    *)
(* are given as the rows they match.                                       *)
(***************************************************************************)
pointReadQuery(account) ==
    IF account \in DOMAIN db.accounts THEN "none" ELSE "noRows"

historyInsertQuery(row) ==
    IF /\ row.account \in DOMAIN db.accounts
       /\ row.teller \in DOMAIN db.tellers
       /\ row.branch \in db.branches
    THEN "none" ELSE "foreignKey"

joinQuery(account) ==
    IF /\ account \in DOMAIN db.accounts
       /\ \E id \in DOMAIN db.tellers : db.tellers[id] = db.accounts[account]
    THEN "none" ELSE "noRows"

\* countFailedOperation makes any error of this query a counted one.
lockAccountNowaitQuery(account) ==
    IF account \in DOMAIN db.accounts THEN "none" ELSE "counted"

MutantRangeReadQuery(branch, startID, endID) ==
    {id \in DOMAIN db.accounts :
        db.accounts[id] = branch /\ id \in endID..startID}

rangeReadQuery(branch, startID, endID) ==
    {id \in DOMAIN db.accounts :
        db.accounts[id] = branch /\ id \in startID..endID}

accountUpdateQuery(account) == {account} \cap DOMAIN db.accounts

aggregationQuery(branch) ==
    {id \in DOMAIN db.accounts : db.accounts[id] = branch}

HistoryRow(i) ==
    [account |-> accountID(i), branch |-> branchID(i),
     teller |-> tellerID(i, branchID(i))]

-----------------------------------------------------------------------------
Init ==
    /\ db = EmptySchema
    /\ run \in [scale : Scales, reset : {"no"}, profile : {"read"}, mix : {""}]
    /\ phase = "idle"
    /\ step = 1
    /\ counter = [plan |-> 0, read |-> 0, write |-> 0]
    /\ lastError = "none"
    /\ matched = "some"
    /\ setups = 0
    /\ seededWith = {}

\* runner.Start, with options that passed its checks, up to the statements.
Start(scale, reset, profile, mix) ==
    /\ phase = "idle"
    /\ setups < MaxSetups
    /\ setups' = setups + 1
    /\ run' = [scale |-> scale, reset |-> reset, profile |-> profile,
               mix |-> mix]
    /\ phase' = "setup"
    /\ step' = 1
    /\ counter' = [plan |-> 0, read |-> 0, write |-> 0]
    /\ lastError' = "none"
    /\ matched' = "some"
    /\ seededWith' = seededWith \cup {scale}
    /\ UNCHANGED db

ScalesAfter(s) == IF s.does = "drop" THEN {run.scale} ELSE seededWith

\* The loop over the statements; after the last one the run begins.
ExecStatement ==
    /\ phase = "setup"
    /\ StatementError(Statement) = "none"
    /\ db' = Executed(Statement)
    /\ seededWith' = ScalesAfter(Statement)
    /\ step' = step + 1
    /\ phase' = IF step = Len(setupStatements(run.reset)) THEN "running"
                ELSE "setup"
    /\ UNCHANGED <<run, counter, lastError, matched, setups>>

StatementFails ==
    /\ phase = "setup"
    /\ StatementError(Statement) # "none"
    /\ phase' = "idle"
    /\ lastError' = StatementError(Statement)
    /\ UNCHANGED <<db, run, step, counter, matched, setups, seededWith>>

\* Stop, or a lost connection: the statement may have taken effect or not.
SetupInterrupted ==
    /\ phase = "setup"
    /\ \/ UNCHANGED <<db, seededWith>>
       \/ /\ StatementError(Statement) = "none"
          /\ db' = Executed(Statement)
          /\ seededWith' = ScalesAfter(Statement)
    /\ phase' = "idle"
    /\ lastError' = "interrupted"
    /\ UNCHANGED <<run, step, counter, matched, setups>>

\* The run ends for a reason that is not in the data.
RunEnds ==
    /\ phase = "running"
    /\ phase' = "idle"
    /\ UNCHANGED <<db, run, step, counter, lastError, matched, setups, seededWith>>

-----------------------------------------------------------------------------
\* RunOnce returns err, which ends the run unless it is nil or counted.
Returns(err) ==
    /\ lastError' = err
    /\ phase' = IF err \in {"none", "counted"} THEN "running" ELSE "idle"
    /\ UNCHANGED <<run, step, setups, seededWith>>

\* The statements that succeed on no rows, as the sets of rows they match.
Match(statements) ==
    matched' = IF {} \in statements THEN "none" ELSE "some"

Running(profile) ==
    /\ phase = "running"
    /\ run.profile = profile
    /\ counter.plan < MaxIterations

\* w.counter.Add(1), on the counter of the plan or of a part of it.
Count(parts) ==
    counter' = [c \in DOMAIN counter |->
                   IF c \in parts THEN counter[c] + 1 ELSE counter[c]]

Insert(i) ==
    LET err == historyInsertQuery(HistoryRow(i)) IN
    /\ db' = IF err = "none" THEN [db EXCEPT !.history = @ \cup {HistoryRow(i)}]
             ELSE db
    /\ Returns(err)

\* readWorkload.runRangeRead: up to ten accounts of a branch.
RangeRead(i) ==
    LET startID == branchID(i)
        endID == startID + (Size.branches * 9)
    IN  rangeReadQuery(branchID(i), startID,
                       IF endID > Size.accounts THEN Size.accounts ELSE endID)

\* readWorkload.RunOnce: a point read, then a range read.
Read(i) ==
    /\ UNCHANGED db
    /\ \/ i % 2 = 1 /\ Returns(pointReadQuery(accountID(i))) /\ Match({})
       \/ i % 2 = 0 /\ Returns("none") /\ Match({RangeRead(i)})

\* writeWorkload.RunOnce: a history row, then an update.
Write(i) ==
    \/ i % 2 = 1 /\ Insert(i) /\ Match({})
    \/ /\ i % 2 = 0
       /\ Returns("none")
       /\ Match({accountUpdateQuery(accountID(i))})
       /\ UNCHANGED db

ReadOperation ==
    /\ Running("read")
    /\ Count({"plan"})
    /\ Read(counter.plan + 1)

WriteOperation ==
    /\ Running("write")
    /\ Count({"plan"})
    /\ Write(counter.plan + 1)

\* mixedWorkload.RunOnce: its counter chooses the part, which has its own.
MixedOperation ==
    /\ Running("mixed")
    /\ IF (counter.plan + 1) % 100 < MixedReadPercent
       THEN Count({"plan", "read"}) /\ Read(counter.read + 1)
       ELSE Count({"plan", "write"}) /\ Write(counter.write + 1)

\* The statements of runTransaction that cannot fail on the data.
TransactionMatches(i) ==
    LET branch == branchID(i)
        teller == tellerID(i, branch)
    IN  {accountUpdateQuery(accountID(i))} \cup
        CASE run.mix = "read-heavy" ->
                {rangeReadQuery(branch, branch, branch + (Size.branches * 4))}
          [] run.mix = "write-heavy" -> {{teller} \cap DOMAIN db.tellers}
          [] OTHER -> {}

\* A step that returns an error is rolled back as a whole.
runTransactionalOperation(err, committed) ==
    /\ db' = IF err = "none" THEN committed ELSE db
    /\ Returns(err)

\* transactionWorkload.RunOnce: without the row of the point read nothing else
\* is tried.
TransactionOperation ==
    LET i == counter.plan + 1
        read == pointReadQuery(accountID(i))
        err == IF read = "none" THEN historyInsertQuery(HistoryRow(i)) ELSE read
    IN
    /\ Running("transaction")
    /\ Count({"plan"})
    /\ runTransactionalOperation(err,
                                 [db EXCEPT !.history = @ \cup {HistoryRow(i)}])
    /\ Match(IF read = "none" THEN TransactionMatches(i) ELSE {})

\* joinWorkload.RunOnce: a join, then an aggregation over a branch.
JoinOperation ==
    LET i == counter.plan + 1 IN
    /\ Running("join")
    /\ Count({"plan"})
    /\ \/ i % 2 = 1 /\ Returns(joinQuery(accountID(i))) /\ Match({})
       \/ i % 2 = 0 /\ Returns("none") /\ Match({aggregationQuery(branchID(i))})
    /\ UNCHANGED db

\* lockWorkload.RunOnce: a row lock without waiting, then an update.  A lock
\* that is held is counted and changes nothing.
LockOperation ==
    LET i == counter.plan + 1
        account == hotAccountID(i)
    IN
    /\ Running("lock")
    /\ Count({"plan"})
    /\ \/ /\ i % 2 = 1
          /\ runTransactionalOperation(lockAccountNowaitQuery(account), db)
          /\ Match({})
       \/ /\ i % 2 = 0
          /\ runTransactionalOperation("none", db)
          /\ Match({accountUpdateQuery(account)})

Next ==
    \/ \E scale \in Scales, reset \in {"no", "yes"}, profile \in Profiles :
          \E mix \in Mixes(profile) : Start(scale, reset, profile, mix)
    \/ ExecStatement
    \/ StatementFails
    \/ SetupInterrupted
    \/ RunEnds
    \/ ReadOperation
    \/ WriteOperation
    \/ MixedOperation
    \/ TransactionOperation
    \/ JoinOperation
    \/ LockOperation

Spec == Init /\ [][Next]_vars

-----------------------------------------------------------------------------
Errors == {"none", "missing", "foreignKey", "noRows", "counted", "interrupted"}

TypeOK ==
    /\ db.objects \subseteq Objects
    /\ \E s \in Scales : db.branches \subseteq 1..s
    /\ \E s \in Scales : DOMAIN db.tellers \subseteq 1..(s * 10)
    /\ \E s \in Scales : DOMAIN db.accounts \subseteq 1..(s * AccountsPerScale)
    /\ run \in [scale : Scales, reset : {"no", "yes"}, profile : Profiles,
               mix : UNION {Mixes(p) : p \in Profiles}]
    /\ phase \in {"idle", "setup", "running"}
    /\ step \in 1..13
    /\ counter \in [{"plan", "read", "write"} -> 0..MaxIterations]
    /\ lastError \in Errors
    /\ matched \in {"some", "none"}
    /\ setups \in 0..MaxSetups
    /\ seededWith \subseteq Scales

\* Every run since the schema was dropped had the scale of this one.
OneScale == seededWith = {run.scale}

HasRowsOfScale ==
    /\ db.branches = 1..Size.branches
    /\ DOMAIN db.tellers = 1..Size.tellers
    /\ DOMAIN db.accounts = 1..Size.accounts

(***************************************************************************)
(* A run begins on a complete dataset: however many setups of its scale    *)
(* were broken off before, at whatever statement and with or without its   *)
(* effect, the last one has made up for what is missing and has doubled    *)
(* nothing (runner.go:87-91, 149-160).                                     *)
(***************************************************************************)
SetupCompletesDataset ==
    phase = "running" /\ OneScale => db.objects = Objects /\ HasRowsOfScale

(***************************************************************************)
(* The data is never the reason why a setup or a run fails: the seeding    *)
(* order respects the foreign keys, and every row that an operation of the *)
(* run addresses by a computed number exists.  The hot rows exist even on  *)
(* a dataset of another scale (workload.go:66-89, runner.go:149-160).      *)
(***************************************************************************)
DataNeverFailsRun ==
    /\ OneScale => lastError \notin {"missing", "foreignKey", "noRows"}
    /\ lastError # "counted"

(***************************************************************************)
(* No operation measures an empty statement: every update, range read and  *)
(* aggregation of a run finds rows on a dataset of its scale, although the *)
(* code could not tell if it did not (workload_read_write.go:31-43, 77-82, *)
(* workload_transaction.go:47-77, workload_join.go:31-36,                  *)
(* workload_lock.go:61-73).                                                *)
(***************************************************************************)
StatementsFindRows == OneScale => matched = "some"

(***************************************************************************)
(* A history row is about one branch: the account and the teller computed  *)
(* for an iteration belong, in the rows that were seeded, to the branch    *)
(* computed for it.  It rests on the three formulas of workload.go, the two*)
(* of the seeding statements and the ratios of ResolveScale (scale.go:17,  *)
(* runner.go:153-160, workload.go:66-81).                                  *)
(***************************************************************************)
HistoryNamesOneBranch ==
    [][OneScale =>
          \A row \in db'.history \ db.history :
             /\ db.tellers[row.teller] = row.branch
             /\ db.accounts[row.account] = row.branch]_vars
=============================================================================
