------------------------- MODULE BenchSchemaProofs -------------------------
(***************************************************************************)
(* Proofs about BenchSchema for every scale, every number of accounts per  *)
(* scale from the eight hot ones on, and any history of setups that were   *)
(* completed, broken off or failed.                                        *)
(***************************************************************************)
EXTENDS BenchSchema, TLAPS

-----------------------------------------------------------------------------
(***************************************************************************)
(* The inductive invariant.  A table holds the rows of one of the scales   *)
(* the schema was set up with, or none; a setup has the effect of every    *)
(* statement before the next one; a run has that of all of them.           *)
(***************************************************************************)
EmptyTable == [id \in {} |-> 0]

TellersOf(scale) == [id \in 1..(scale * 10) |-> ((id - 1) \div 10) + 1]

AccountsOf(scale) ==
    [id \in 1..(scale * AccountsPerScale) |-> ((id - 1) % scale) + 1]

\* The fields of db, so that a statement changes one and leaves the others.
IsDb ==
    db = [objects |-> db.objects, branches |-> db.branches,
          tellers |-> db.tellers, accounts |-> db.accounts,
          history |-> db.history]

Populated ==
    /\ db.branches = {} \/ \E s \in seededWith : db.branches = 1..s
    /\ db.tellers = EmptyTable \/ \E s \in seededWith : db.tellers = TellersOf(s)
    /\ db.accounts = EmptyTable
       \/ \E s \in seededWith : db.accounts = AccountsOf(s)

Statements == setupStatements(run.reset)

Tables == {"branches", "tellers", "accounts"}

Kinds == {Drop} \cup {Create(o) : o \in Objects} \cup {Seed(t) : t \in Tables}

\* s stands before position j.
Precedes(stmts, s, j) == \E k \in 1..(j - 1) : stmts[k] = s

HasEffect(s) ==
    /\ s.does = "create" => s.object \in db.objects
    /\ s.does = "seed" => ~Unseeded(s.object)

InSetupPhase ==
    phase = "setup" =>
       /\ step \in 1..Len(Statements)
       /\ \A s \in Kinds : Precedes(Statements, s, step) => HasEffect(s)
       /\ lastError = "none" /\ matched = "some"

InRunPhase ==
    phase = "running" =>
       /\ db.objects = Objects
       /\ \A t \in Tables : ~Unseeded(t)

SchemaInv ==
    /\ TypeOK
    /\ IsDb
    /\ Populated
    /\ phase # "idle" => run.scale \in seededWith
    /\ InSetupPhase
    /\ InRunPhase
    /\ counter["read"] <= counter["plan"] /\ counter["write"] <= counter["plan"]
    /\ DataNeverFailsRun
    /\ StatementsFindRows

-----------------------------------------------------------------------------
(* Arithmetic of the row numbers.                                          *)

LEMMA Remainder ==
    ASSUME NEW n \in Nat \ {0}, NEW x \in Int
    PROVE  x % n \in 0..(n - 1) /\ x = n * (x \div n) + (x % n)
  OBVIOUS

LEMMA RemainderIsUnique ==
    ASSUME NEW n \in Nat \ {0}, NEW q \in Int, NEW r \in 0..(n - 1)
    PROVE  (n * q + r) % n = r
  OBVIOUS

LEMMA ProductIsPositive ==
    ASSUME NEW n \in Nat \ {0}, NEW m \in Nat \ {0}
    PROVE  n * m \in Nat \ {0} /\ n <= n * m /\ m <= n * m
  <1>1. n * (m - 1) \in Nat /\ m * (n - 1) \in Nat
    OBVIOUS
  <1>2. n * m = n * (m - 1) + n /\ n * m = m * (n - 1) + m
    OBVIOUS
  <1>. QED BY <1>1, <1>2

\* The remainder by a multiple of n has the same remainder by n.
LEMMA RemainderOfMultiple ==
    ASSUME NEW n \in Nat \ {0}, NEW m \in Nat \ {0}, NEW x \in Int
    PROVE  (x % (n * m)) % n = x % n
  <1>. DEFINE k == n * m
              y == x % k
              q == x \div k
              p == y \div n
              r == y % n
  <1>1. k \in Nat \ {0}
    BY ProductIsPositive
  <1>. HIDE DEF k
  <1>2. y \in Int /\ q \in Int /\ x = k * q + y
    BY <1>1, Remainder
  <1>. HIDE DEF y, q
  <1>3. p \in Int /\ r \in 0..(n - 1) /\ y = n * p + r
    BY <1>2, Remainder
  <1>. HIDE DEF p, r
  <1>4. x = n * (m * q + p) + r /\ m * q + p \in Int
    BY <1>2, <1>3 DEF k
  <1>5. x % n = r
    BY <1>3, <1>4, RemainderIsUnique
  <1>. QED BY <1>5 DEF r, y, k

LEMMA TellerBranch ==
    ASSUME NEW b \in Nat \ {0}, NEW r \in 0..9
    PROVE  (((b - 1) * 10 + 1 + r - 1) \div 10) + 1 = b
  OBVIOUS

LEMMA TellerBranchBound ==
    ASSUME NEW n \in Nat \ {0}, NEW id \in 1..(n * 10)
    PROVE  ((id - 1) \div 10) + 1 \in 1..n
  OBVIOUS

-----------------------------------------------------------------------------
(* The statements.                                                         *)

\* What the proofs use of the order of the statements.
WellOrdered(stmts) ==
    /\ Len(stmts) \in 1..12
    /\ \A j \in 1..Len(stmts) :
          /\ stmts[j] \in Kinds
          /\ stmts[j] = Drop => j = 1
          /\ \A o \in Objects : stmts[j] = Create(o) =>
                \A need \in Needs(o) : Precedes(stmts, Create(need), j)
          /\ \A t \in Tables :
                stmts[j] = Seed(t) => Precedes(stmts, Create(t), j)
          /\ \A t \in {"tellers", "accounts"} :
                stmts[j] = Seed(t) => Precedes(stmts, Seed("branches"), j)
    /\ \A o \in Objects : Precedes(stmts, Create(o), Len(stmts) + 1)
    /\ \A t \in Tables :
          Precedes(stmts, Seed(t), Len(stmts) + 1)

\* The list of the code from position d on.
ListedFrom(stmts, d) ==
    /\ Len(stmts) = d + 11
    /\ stmts[d + 1] = Create("schema") /\ stmts[d + 2] = Create("branches")
    /\ stmts[d + 3] = Create("tellers") /\ stmts[d + 4] = Create("accounts")
    /\ stmts[d + 5] = Create("history") /\ stmts[d + 6] = Create("accounts_idx")
    /\ stmts[d + 7] = Create("tellers_idx")
    /\ stmts[d + 8] = Create("history_idx")
    /\ stmts[d + 9] = Seed("branches") /\ stmts[d + 10] = Seed("tellers")
    /\ stmts[d + 11] = Seed("accounts")

LEMMA Listing ==
    /\ ListedFrom(setupStatements("no"), 0)
    /\ ListedFrom(setupStatements("yes"), 1) /\ setupStatements("yes")[1] = Drop
  <1>1. ListedFrom(setupStatements("no"), 0)
    BY DEF setupStatements, ListedFrom
  <1>2. ListedFrom(setupStatements("yes"), 1) /\ setupStatements("yes")[1] = Drop
    BY DEF setupStatements, ListedFrom
  <1>. QED BY <1>1, <1>2

LEMMA NeedsOf ==
    /\ Needs("schema") = {} /\ Needs("branches") = {"schema"}
    /\ Needs("tellers") = {"branches"} /\ Needs("accounts") = {"branches"}
    /\ Needs("history") = {"branches", "tellers", "accounts"}
    /\ Needs("accounts_idx") = {"accounts"} /\ Needs("tellers_idx") = {"tellers"}
    /\ Needs("history_idx") = {"history"}
  BY DEF Needs

LEMMA NeedsAreObjects == \A o \in Objects : Needs(o) \subseteq Objects
  BY NeedsOf DEF Objects

LEMMA StatementsDiffer ==
    /\ \A o, p : Create(o) = Create(p) => o = p
    /\ \A t, u : Seed(t) = Seed(u) => t = u
    /\ \A o, t : Create(o) # Seed(t) /\ Create(o) # Drop /\ Seed(t) # Drop
  BY DEF Create, Seed, Drop

LEMMA ListIsWellOrdered ==
    ASSUME NEW stmts, NEW d \in {0, 1}, ListedFrom(stmts, d),
           d = 1 => stmts[1] = Drop
    PROVE  WellOrdered(stmts)
  <1>1. \A k \in 1..11, j \in Int : j > d + k => d + k \in 1..(j - 1)
    OBVIOUS
  <1>2. \A k \in 1..11, j \in Int :
           j > d + k => Precedes(stmts, stmts[d + k], j)
    BY <1>1 DEF Precedes
  <1>3. \A j \in Int :
           /\ j > d + 1 => Precedes(stmts, Create("schema"), j)
           /\ j > d + 2 => Precedes(stmts, Create("branches"), j)
           /\ j > d + 3 => Precedes(stmts, Create("tellers"), j)
           /\ j > d + 4 => Precedes(stmts, Create("accounts"), j)
           /\ j > d + 5 => Precedes(stmts, Create("history"), j)
           /\ j > d + 6 => Precedes(stmts, Create("accounts_idx"), j)
           /\ j > d + 7 => Precedes(stmts, Create("tellers_idx"), j)
           /\ j > d + 8 => Precedes(stmts, Create("history_idx"), j)
           /\ j > d + 9 => Precedes(stmts, Seed("branches"), j)
           /\ j > d + 10 => Precedes(stmts, Seed("tellers"), j)
           /\ j > d + 11 => Precedes(stmts, Seed("accounts"), j)
    BY <1>2 DEF ListedFrom
  <1>4. Len(stmts) = d + 11
    BY DEF ListedFrom
  <1>5. ASSUME NEW j \in 1..Len(stmts)
        PROVE  /\ stmts[j] \in Kinds
               /\ stmts[j] = Drop => j = 1
               /\ \A o \in Objects : stmts[j] = Create(o) =>
                     \A need \in Needs(o) : Precedes(stmts, Create(need), j)
               /\ \A t \in Tables :
                     stmts[j] = Seed(t) => Precedes(stmts, Create(t), j)
               /\ \A t \in {"tellers", "accounts"} :
                     stmts[j] = Seed(t) => Precedes(stmts, Seed("branches"), j)
    <2>1. CASE j = 1 /\ d = 1
      BY <2>1, StatementsDiffer DEF Kinds
    <2>2. CASE j \in {d + 1, d + 2, d + 3, d + 4}
      BY <1>3, <2>2, StatementsDiffer, NeedsOf DEF ListedFrom, Kinds, Tables, Objects
    <2>3. CASE j \in {d + 5, d + 6, d + 7, d + 8}
      BY <1>3, <2>3, StatementsDiffer, NeedsOf DEF ListedFrom, Kinds, Tables, Objects
    <2>4. CASE j \in {d + 9, d + 10, d + 11}
      BY <1>3, <2>4, StatementsDiffer DEF ListedFrom, Kinds, Tables, Objects
    <2>. QED BY <1>4, <2>1, <2>2, <2>3, <2>4
  <1>6. \A o \in Objects : Precedes(stmts, Create(o), Len(stmts) + 1)
    BY <1>3, <1>4 DEF Objects
  <1>7. \A t \in Tables :
           Precedes(stmts, Seed(t), Len(stmts) + 1)
    BY <1>3, <1>4 DEF Tables
  <1>8. Len(stmts) \in 1..12
    BY <1>4
  <1>. QED BY <1>5, <1>6, <1>7, <1>8 DEF WellOrdered

LEMMA SetupIsWellOrdered ==
    \A reset \in {"no", "yes"} : WellOrdered(setupStatements(reset))
  BY Listing, ListIsWellOrdered

-----------------------------------------------------------------------------
(* The rows of a scale and the numbers the operations compute.             *)

LEMMA SizeFacts ==
    ASSUME TypeOK
    PROVE  /\ run.scale \in Nat \ {0}
           /\ Size.branches = run.scale /\ Size.tellers = run.scale * 10
           /\ Size.accounts = run.scale * AccountsPerScale
           /\ TellerRows = TellersOf(run.scale)
           /\ AccountRows = AccountsOf(run.scale)
  <1>1. run.scale \in Nat \ {0}
    BY SchemaAssumption DEF TypeOK
  <1>2. /\ Size.branches = run.scale /\ Size.tellers = run.scale * 10
        /\ Size.accounts = run.scale * AccountsPerScale
    BY DEF Size, ResolveScale
  <1>. QED BY <1>1, <1>2 DEF TellerRows, AccountRows, TellersOf, AccountsOf

\* The foreign keys of the rows of a scale point to its branches.
LEMMA RowsReferToBranches ==
    ASSUME NEW s \in Nat \ {0}
    PROVE  /\ \A id \in 1..(s * 10) : TellersOf(s)[id] \in 1..s
           /\ \A id \in 1..(s * AccountsPerScale) : AccountsOf(s)[id] \in 1..s
  <1>1. \A id \in 1..(s * 10) : TellersOf(s)[id] \in 1..s
    BY TellerBranchBound DEF TellersOf
  <1>2. ASSUME NEW id \in 1..(s * AccountsPerScale)
        PROVE  AccountsOf(s)[id] \in 1..s
    <2>1. AccountsOf(s)[id] = ((id - 1) % s) + 1
      BY DEF AccountsOf
    <2>2. id \in Int
      BY SchemaAssumption
    <2>3. (id - 1) % s \in 0..(s - 1)
      BY <2>2, Remainder
    <2>. QED BY <2>1, <2>3
  <1>. QED BY <1>1, <1>2

\* A branch has a teller and, among the first accounts, one of its own.
LEMMA BranchHasRows ==
    ASSUME NEW s \in Nat \ {0}, NEW b \in 1..s
    PROVE  /\ (b - 1) * 10 + 1 \in 1..(s * 10)
           /\ TellersOf(s)[(b - 1) * 10 + 1] = b
           /\ b \in 1..(s * AccountsPerScale)
           /\ AccountsOf(s)[b] = b
  <1>1. (b - 1) * 10 + 1 \in 1..(s * 10)
    OBVIOUS
  <1>2. TellersOf(s)[(b - 1) * 10 + 1] = b
    BY <1>1 DEF TellersOf
  <1>3. b \in 1..(s * AccountsPerScale)
    <2>1. AccountsPerScale \in Nat \ {0}
      BY SchemaAssumption
    <2>2. s <= s * AccountsPerScale /\ s * AccountsPerScale \in Nat
      BY <2>1, ProductIsPositive
    <2>. QED BY <2>2
  <1>4. (b - 1) % s = b - 1
    <2>1. b - 1 \in 0..(s - 1) /\ b - 1 = s * 0 + (b - 1)
      OBVIOUS
    <2>. QED BY <2>1, RemainderIsUnique
  <1>5. AccountsOf(s)[b] = b
    BY <1>3, <1>4 DEF AccountsOf
  <1>. QED BY <1>1, <1>2, <1>3, <1>5

(***************************************************************************)
(* The numbers an iteration computes are those of rows, and the teller and *)
(* the account are of its branch.                                          *)
(***************************************************************************)
LEMMA RowNumbers ==
    ASSUME TypeOK, NEW i \in Nat \ {0}
    PROVE  /\ branchID(i) \in 1..run.scale
           /\ accountID(i) \in 1..(run.scale * AccountsPerScale)
           /\ tellerID(i, branchID(i)) \in 1..(run.scale * 10)
           /\ hotAccountID(i) \in 1..8
           /\ AccountsOf(run.scale)[accountID(i)] = branchID(i)
           /\ TellersOf(run.scale)[tellerID(i, branchID(i))] = branchID(i)
  <1>. DEFINE s == run.scale
              n == run.scale * AccountsPerScale
              b == branchID(i)
              r == (i - 1) % 10
  <1>1. /\ s \in Nat \ {0} /\ AccountsPerScale \in Nat \ {0}
        /\ AccountsPerScale >= 8
        /\ Size.branches = s /\ Size.tellers = s * 10 /\ Size.accounts = n
    BY SizeFacts, SchemaAssumption
  <1>2. n \in Nat \ {0} /\ n >= AccountsPerScale
    BY <1>1, ProductIsPositive
  <1>3. b = ((i - 1) % s) + 1 /\ b \in 1..s
    <2>1. b = ((i - 1) % s) + 1
      BY <1>1 DEF branchID
    <2>2. s \in Nat \ {0} /\ i - 1 \in Int
      BY <1>1
    <2>. HIDE DEF s, b
    <2>3. (i - 1) % s \in 0..(s - 1)
      BY <2>2, Remainder
    <2>. QED BY <2>1, <2>2, <2>3
  <1>4. accountID(i) = ((i - 1) % n) + 1 /\ accountID(i) \in 1..n
    <2>1. accountID(i) = ((i - 1) % n) + 1
      BY <1>1 DEF accountID
    <2>. HIDE DEF n
    <2>2. (i - 1) % n \in 0..(n - 1)
      BY <1>2, Remainder
    <2>. QED BY <1>2, <2>1, <2>2
  <1>5. r \in 0..9
    OBVIOUS
  <1>. HIDE DEF r, b
  <1>6. /\ (b - 1) * 10 + 1 + r \in 1..(s * 10)
        /\ tellerID(i, b) = (b - 1) * 10 + 1 + r
    <2>1. (b - 1) * 10 + 1 + r \in 1..(s * 10)
      BY <1>1, <1>3, <1>5
    <2>. QED BY <1>1, <2>1 DEF tellerID, r
  <1>7. TellersOf(s)[tellerID(i, b)] = b
    <2>1. b \in Nat \ {0}
      BY <1>1, <1>3
    <2>2. (((b - 1) * 10 + 1 + r - 1) \div 10) + 1 = b
      BY <1>5, <2>1, TellerBranch
    <2>. DEFINE t == tellerID(i, b)
    <2>3. t \in 1..(s * 10) /\ t = (b - 1) * 10 + 1 + r
      BY <1>6
    <2>. HIDE DEF t, s
    <2>4. TellersOf(s)[t] = ((t - 1) \div 10) + 1
      BY <2>3 DEF TellersOf
    <2>5. t - 1 = (b - 1) * 10 + 1 + r - 1
      BY <1>5, <2>1, <2>3
    <2>6. TellersOf(s)[t] = b
      BY <2>2, <2>4, <2>5
    <2>. QED BY <2>6 DEF t, s
  <1>8. AccountsOf(s)[accountID(i)] = b
    <2>1. AccountsOf(s)[accountID(i)] = ((accountID(i) - 1) % s) + 1
      BY <1>4 DEF AccountsOf
    <2>2. accountID(i) - 1 = (i - 1) % n
      BY <1>2, <1>4
    <2>3. ((i - 1) % n) % s = (i - 1) % s
      BY <1>1, RemainderOfMultiple
    <2>. QED BY <1>3, <2>1, <2>2, <2>3
  <1>9. hotAccountID(i) \in 1..8
    BY <1>1, <1>2 DEF hotAccountID
  <1>. QED BY <1>3, <1>4, <1>6, <1>7, <1>8, <1>9 DEF b

-----------------------------------------------------------------------------
(* What is in the tables.                                                  *)

\* TypeOK without the tables, whose rows Populated describes.
RestType ==
    /\ db.objects \subseteq Objects
    /\ run \in [scale : Scales, reset : {"no", "yes"}, profile : Profiles,
                mix : UNION {Mixes(p) : p \in Profiles}]
    /\ phase \in {"idle", "setup", "running"}
    /\ step \in 1..13
    /\ counter \in [{"plan", "read", "write"} -> 0..MaxIterations]
    /\ lastError \in Errors
    /\ matched \in {"some", "none"}
    /\ setups \in 0..MaxSetups
    /\ seededWith \subseteq Scales

LEMMA TablesType == RestType /\ Populated => TypeOK
  <1>. SUFFICES ASSUME RestType, Populated PROVE TypeOK
    OBVIOUS
  <1>1. run.scale \in Scales /\ seededWith \subseteq Scales
    BY DEF RestType
  <1>2. \E s \in Scales : db.branches \subseteq 1..s
    BY <1>1 DEF Populated
  <1>3. \E s \in Scales : DOMAIN db.tellers \subseteq 1..(s * 10)
    BY <1>1 DEF Populated, EmptyTable, TellersOf
  <1>4. \E s \in Scales : DOMAIN db.accounts \subseteq 1..(s * AccountsPerScale)
    BY <1>1 DEF Populated, EmptyTable, AccountsOf
  <1>. QED BY <1>2, <1>3, <1>4 DEF RestType, TypeOK

LEMMA UnseededOf ==
    /\ Unseeded("branches") <=> db.branches = {}
    /\ Unseeded("tellers") <=> DOMAIN db.tellers = {}
    /\ Unseeded("accounts") <=> DOMAIN db.accounts = {}
  BY DEF Unseeded

LEMMA RowsExist ==
    ASSUME NEW s \in Nat \ {0}
    PROVE  /\ 1..s # {}
           /\ DOMAIN TellersOf(s) = 1..(s * 10) /\ DOMAIN TellersOf(s) # {}
           /\ DOMAIN AccountsOf(s) = 1..(s * AccountsPerScale)
           /\ 8 <= s * AccountsPerScale /\ s * AccountsPerScale \in Nat
           /\ DOMAIN AccountsOf(s) # {}
  <1>1. 1 \in 1..s /\ 1 \in 1..(s * 10)
    OBVIOUS
  <1>2. AccountsPerScale \in Nat \ {0} /\ AccountsPerScale >= 8
    BY SchemaAssumption
  <1>3. s * AccountsPerScale \in Nat \ {0} /\ AccountsPerScale <= s * AccountsPerScale
    BY <1>2, ProductIsPositive
  <1>4. 8 <= s * AccountsPerScale /\ 1 \in 1..(s * AccountsPerScale)
    BY <1>2, <1>3
  <1>. QED BY <1>1, <1>3, <1>4 DEF TellersOf, AccountsOf

\* With one scale since the last drop, a table that has rows has those of
\* this run.
LEMMA OneScaleRows ==
    ASSUME SchemaInv, OneScale
    PROVE  /\ ~Unseeded("branches") => db.branches = 1..run.scale
           /\ ~Unseeded("tellers") => db.tellers = TellersOf(run.scale)
           /\ ~Unseeded("accounts") => db.accounts = AccountsOf(run.scale)
  <1>1. DOMAIN EmptyTable = {}
    BY DEF EmptyTable
  <1>2. /\ db.branches = {} \/ db.branches = 1..run.scale
        /\ db.tellers = EmptyTable \/ db.tellers = TellersOf(run.scale)
        /\ db.accounts = EmptyTable \/ db.accounts = AccountsOf(run.scale)
    BY DEF SchemaInv, Populated, OneScale
  <1>. QED BY <1>1, <1>2, UnseededOf

-----------------------------------------------------------------------------
(* Setup.                                                                  *)

\* The next statement and those before it.
LEMMA NextStatement ==
    ASSUME SchemaInv, phase = "setup"
    PROVE  /\ step \in 1..Len(Statements) /\ Statement = Statements[step]
           /\ Statement \in Kinds
           /\ Statement = Drop => step = 1
           /\ \A s \in Kinds : Precedes(Statements, s, step) => HasEffect(s)
           /\ \A o \in Objects : Statement = Create(o) =>
                 \A need \in Needs(o) : Precedes(Statements, Create(need), step)
           /\ \A t \in Tables :
                 Statement = Seed(t) => Precedes(Statements, Create(t), step)
           /\ \A t \in {"tellers", "accounts"} :
                 Statement = Seed(t) => Precedes(Statements, Seed("branches"), step)
  <1>1. WellOrdered(Statements)
    BY SetupIsWellOrdered DEF SchemaInv, TypeOK, Statements
  <1>2. /\ step \in 1..Len(Statements)
        /\ \A s \in Kinds : Precedes(Statements, s, step) => HasEffect(s)
    BY DEF SchemaInv, InSetupPhase
  <1>3. Statement = Statements[step]
    BY DEF Statement, Statements
  <1>. QED BY <1>1, <1>2, <1>3 DEF WellOrdered

LEMMA StatementKinds ==
    ASSUME NEW s \in Kinds
    PROVE  \/ s = Drop
           \/ \E o \in Objects : s = Create(o)
           \/ \E t \in Tables : s = Seed(t)
  BY DEF Kinds

\* No statement lacks what it refers to, and with one scale since the last
\* drop every branch that seeded rows refer to is there.
LEMMA NoStatementFails ==
    ASSUME SchemaInv, phase = "setup", OneScale
    PROVE  StatementError(Statement) = "none"
  <1>. USE NextStatement
  <1>1. CASE Statement = Drop
    BY <1>1 DEF StatementError, Drop
  <1>2. ASSUME NEW o \in Objects, Statement = Create(o)
        PROVE  StatementError(Statement) = "none"
    <2>1. Needs(o) \subseteq db.objects
      <3>1. \A need \in Needs(o) : HasEffect(Create(need))
        BY <1>2, NeedsAreObjects DEF Kinds
      <3>. QED BY <3>1 DEF HasEffect, Create
    <2>. QED BY <1>2, <2>1 DEF StatementError, Create
  <1>3. ASSUME NEW t \in Tables, Statement = Seed(t)
        PROVE  StatementError(Statement) = "none"
    <2>1. t \in db.objects
      <3>1. HasEffect(Create(t))
        BY <1>3 DEF Kinds, Tables, Objects
      <3>. QED BY <3>1 DEF HasEffect, Create
    <2>2. BranchesReferred(t) \subseteq db.branches
      <3>1. CASE t = "branches"
        BY <3>1 DEF BranchesReferred
      <3>2. CASE t \in {"tellers", "accounts"}
        <4>1. HasEffect(Seed("branches"))
          BY <1>3, <3>2 DEF Kinds, Tables
        <4>2. db.branches = 1..run.scale
          BY <4>1, OneScaleRows DEF HasEffect, Seed
        <4>3. /\ run.scale \in Nat \ {0} /\ TellerRows = TellersOf(run.scale)
              /\ AccountRows = AccountsOf(run.scale)
          BY SizeFacts DEF SchemaInv
        <4>4. /\ \A id \in DOMAIN TellersOf(run.scale) :
                    TellersOf(run.scale)[id] \in 1..run.scale
              /\ \A id \in DOMAIN AccountsOf(run.scale) :
                    AccountsOf(run.scale)[id] \in 1..run.scale
          BY <4>3, RowsReferToBranches, RowsExist
        <4>. QED BY <3>2, <4>2, <4>3, <4>4 DEF BranchesReferred
      <3>. QED BY <3>1, <3>2 DEF Tables
    <2>. QED BY <1>3, <2>1, <2>2 DEF StatementError, Seed
  <1>. QED BY <1>1, <1>2, <1>3, StatementKinds

\* What stays when no table is emptied and no object dropped.
LEMMA EffectsStay ==
    ASSUME db.objects \subseteq db'.objects,
           \A t \in Tables : ~Unseeded(t) => ~Unseeded(t)',
           NEW s \in Kinds, HasEffect(s)
    PROVE  HasEffect(s)'
  <1>1. CASE s = Drop
    BY <1>1 DEF HasEffect, Drop
  <1>2. CASE \E o \in Objects : s = Create(o)
    BY <1>2 DEF HasEffect, Create
  <1>3. CASE \E t \in Tables : s = Seed(t)
    BY <1>3 DEF HasEffect, Seed
  <1>. QED BY <1>1, <1>2, <1>3, StatementKinds

\* A statement that is executed changes one object or one table.
StatementRuns ==
    /\ phase = "setup"
    /\ StatementError(Statement) = "none"
    /\ db' = Executed(Statement)
    /\ seededWith' = ScalesAfter(Statement)
    /\ UNCHANGED run

StatementRan ==
    /\ IsDb' /\ Populated' /\ db'.objects \subseteq Objects
    /\ \A s \in Kinds : Precedes(Statements, s, step + 1) => HasEffect(s)'
    /\ run.scale \in seededWith' /\ seededWith' \subseteq Scales
    /\ db'.history \subseteq db.history

LEMMA StatementEffect == SchemaInv /\ StatementRuns => StatementRan
  <1>. SUFFICES ASSUME SchemaInv, StatementRuns PROVE StatementRan
    OBVIOUS
  <1>1. /\ phase = "setup" /\ db' = Executed(Statement)
        /\ seededWith' = ScalesAfter(Statement) /\ run' = run
    BY DEF StatementRuns
  <1>2. /\ run.scale \in seededWith /\ seededWith \subseteq Scales
        /\ run.scale \in Scales /\ db.objects \subseteq Objects
        /\ IsDb /\ Populated
    BY <1>1 DEF SchemaInv, TypeOK
  <1>3. /\ step \in 1..Len(Statements) /\ Statement = Statements[step]
        /\ Statement \in Kinds
        /\ Statement = Drop => step = 1
        /\ \A s \in Kinds : Precedes(Statements, s, step) => HasEffect(s)
    BY <1>1, NextStatement
  <1>4. \A s : Precedes(Statements, s, step + 1) =>
              s = Statement \/ Precedes(Statements, s, step)
    BY <1>3 DEF Precedes
  <1>5. CASE Statement = Drop
    <2>1. db' = EmptySchema /\ seededWith' = {run.scale}
      BY <1>1, <1>5 DEF Executed, ScalesAfter, Drop
    <2>2. /\ db'.objects = {} /\ db'.branches = {} /\ db'.tellers = EmptyTable
          /\ db'.accounts = EmptyTable /\ db'.history = {} /\ IsDb'
      BY <2>1 DEF EmptySchema, EmptyTable, IsDb
    <2>3. HasEffect(Drop)'
      BY DEF HasEffect, Drop
    <2>4. \A s : ~Precedes(Statements, s, step)
      BY <1>3, <1>5 DEF Precedes
    <2>5. \A s \in Kinds : Precedes(Statements, s, step + 1) => HasEffect(s)'
      BY <1>4, <1>5, <2>3, <2>4
    <2>. QED BY <1>2, <2>1, <2>2, <2>5 DEF Populated, StatementRan
  <1>6. ASSUME NEW s \in Kinds, Statement = s, HasEffect(s)',
               IsDb', Populated', seededWith' = seededWith,
               db'.objects \subseteq Objects, db.objects \subseteq db'.objects,
               \A t \in Tables : ~Unseeded(t) => ~Unseeded(t)',
               db'.history = db.history
        PROVE  StatementRan
    <2>1. \A e \in Kinds : HasEffect(e) => HasEffect(e)'
      BY <1>6, EffectsStay
    <2>2. \A e \in Kinds : Precedes(Statements, e, step + 1) => HasEffect(e)'
      BY <1>3, <1>4, <1>6, <2>1
    <2>. QED BY <1>2, <1>6, <2>2 DEF StatementRan
  <1>7. ASSUME NEW o \in Objects, Statement = Create(o) PROVE StatementRan
    <2>1. /\ db' = [db EXCEPT !.objects = @ \cup {o}]
          /\ seededWith' = seededWith
      BY <1>1, <1>7 DEF Executed, ScalesAfter, Create
    <2>2. /\ IsDb' /\ db'.objects = db.objects \cup {o}
          /\ db'.branches = db.branches /\ db'.tellers = db.tellers
          /\ db'.accounts = db.accounts /\ db'.history = db.history
      BY <1>2, <2>1 DEF IsDb
    <2>3. Populated'
      BY <1>2, <2>1, <2>2 DEF Populated
    <2>4. \A t \in Tables : ~Unseeded(t) => ~Unseeded(t)'
      BY <2>2 DEF Unseeded, Tables
    <2>5. HasEffect(Create(o))' /\ Create(o) \in Kinds
      BY <2>2 DEF HasEffect, Create, Kinds
    <2>. QED BY <1>2, <1>6, <1>7, <2>1, <2>2, <2>3, <2>4, <2>5
  <1>8. ASSUME NEW t \in Tables, Statement = Seed(t) PROVE StatementRan
    <2>1. /\ db' = IF Unseeded(t) THEN Seeded(t) ELSE db
          /\ seededWith' = seededWith /\ Seed(t) \in Kinds
      BY <1>1, <1>8 DEF Executed, ScalesAfter, Seed, Kinds
    <2>2. CASE ~Unseeded(t)
      <3>1. db' = db
        BY <2>1, <2>2
      <3>2. IsDb' /\ Populated' /\ \A u \in Tables : ~Unseeded(u) => ~Unseeded(u)'
        BY <1>2, <2>1, <3>1 DEF IsDb, Populated, Unseeded, Tables
      <3>3. HasEffect(Seed(t))'
        BY <2>2, <3>2 DEF HasEffect, Seed
      <3>. QED BY <1>2, <1>6, <1>8, <2>1, <3>1, <3>2, <3>3
    <2>3. CASE Unseeded(t)
      <3>1. /\ run.scale \in Nat \ {0} /\ Size.branches = run.scale
            /\ TellerRows = TellersOf(run.scale)
            /\ AccountRows = AccountsOf(run.scale)
        BY SizeFacts DEF SchemaInv
      <3>2. /\ IsDb' /\ db'.objects = db.objects /\ db'.history = db.history
            /\ db'.branches = IF t = "branches" THEN 1..run.scale ELSE db.branches
            /\ db'.tellers = IF t = "tellers" THEN TellersOf(run.scale)
                                             ELSE db.tellers
            /\ db'.accounts = IF t = "accounts" THEN AccountsOf(run.scale)
                                               ELSE db.accounts
        <4>1. db' = Seeded(t)
          BY <2>1, <2>3
        <4>2. CASE t = "branches"
          BY <1>2, <3>1, <4>1, <4>2 DEF Seeded, IsDb
        <4>3. CASE t = "tellers"
          BY <1>2, <3>1, <4>1, <4>3 DEF Seeded, IsDb
        <4>4. CASE t = "accounts"
          BY <1>2, <3>1, <4>1, <4>4 DEF Seeded, IsDb
        <4>. QED BY <4>2, <4>3, <4>4 DEF Tables
      <3>3. Populated'
        BY <1>2, <2>1, <3>2 DEF Populated
      <3>4. /\ 1..run.scale # {} /\ DOMAIN TellersOf(run.scale) # {}
            /\ DOMAIN AccountsOf(run.scale) # {}
        BY <3>1, RowsExist
      <3>5. /\ \A u \in Tables : ~Unseeded(u) => ~Unseeded(u)'
            /\ ~Unseeded(t)'
        BY <3>2, <3>4 DEF Unseeded, Tables
      <3>6. HasEffect(Seed(t))'
        BY <3>5 DEF HasEffect, Seed
      <3>. QED BY <1>2, <1>6, <1>8, <2>1, <3>2, <3>3, <3>5, <3>6
    <2>. QED BY <2>2, <2>3
  <1>. QED BY <1>3, <1>5, <1>7, <1>8, StatementKinds

-----------------------------------------------------------------------------
(* The steps around the statements.                                        *)

LEMMA InitSchema == Init => SchemaInv
  <1>. SUFFICES ASSUME Init PROVE SchemaInv
    OBVIOUS
  <1>1. /\ db.objects = {} /\ db.branches = {} /\ db.tellers = EmptyTable
        /\ db.accounts = EmptyTable /\ IsDb
    BY DEF Init, EmptySchema, EmptyTable, IsDb
  <1>2. run \in [scale : Scales, reset : {"no", "yes"}, profile : Profiles,
                 mix : UNION {Mixes(p) : p \in Profiles}]
    <2>1. "" \in UNION {Mixes(p) : p \in Profiles}
      BY Mixes("read") = {""} DEF Mixes, Profiles
    <2>. QED BY <2>1 DEF Init, Profiles
  <1>3. /\ counter \in [{"plan", "read", "write"} -> 0..MaxIterations]
        /\ counter["read"] <= counter["plan"]
        /\ counter["write"] <= counter["plan"]
    <2>1. counter = [plan |-> 0, read |-> 0, write |-> 0]
      BY DEF Init
    <2>. QED BY <2>1, SchemaAssumption
  <1>4. /\ phase = "idle" /\ step = 1 /\ lastError = "none" /\ matched = "some"
        /\ setups = 0 /\ seededWith = {}
    BY DEF Init
  <1>5. 0 \in 0..MaxSetups /\ 1 \in 1..13
    BY SchemaAssumption
  <1>6. RestType
    BY <1>1, <1>2, <1>3, <1>4, <1>5 DEF RestType, Errors
  <1>7. Populated
    BY <1>1 DEF Populated
  <1>8. TypeOK
    BY <1>6, <1>7, TablesType
  <1>. QED BY <1>1, <1>3, <1>4, <1>7, <1>8 DEF SchemaInv, InSetupPhase,
           InRunPhase, DataNeverFailsRun, StatementsFindRows

\* What a step that leaves the tables alone keeps of them.
LEMMA TablesKept ==
    ASSUME SchemaInv, db' = db, seededWith \subseteq seededWith'
    PROVE  IsDb' /\ Populated' /\ db'.objects \subseteq Objects
  BY DEF SchemaInv, IsDb, Populated, TypeOK

LEMMA StartKeeps ==
    ASSUME SchemaInv, NEW scale \in Scales, NEW reset \in {"no", "yes"},
           NEW profile \in Profiles, NEW mix \in Mixes(profile),
           Start(scale, reset, profile, mix)
    PROVE  SchemaInv'
  <1>1. /\ phase' = "setup" /\ step' = 1 /\ lastError' = "none"
        /\ matched' = "some" /\ db' = db
        /\ seededWith' = seededWith \cup {scale}
    BY DEF Start
  <1>2. run' \in [scale : Scales, reset : {"no", "yes"}, profile : Profiles,
                  mix : UNION {Mixes(p) : p \in Profiles}]
        /\ run'.scale = scale /\ run'.reset = reset
    BY DEF Start
  <1>3. /\ counter' \in [{"plan", "read", "write"} -> 0..MaxIterations]
        /\ counter'["read"] <= counter'["plan"]
        /\ counter'["write"] <= counter'["plan"]
    <2>1. counter' = [plan |-> 0, read |-> 0, write |-> 0]
      BY DEF Start
    <2>. QED BY <2>1, SchemaAssumption
  <1>4. setups' \in 0..MaxSetups
    <2>1. setups \in 0..MaxSetups /\ setups < MaxSetups /\ setups' = setups + 1
      BY DEF Start, SchemaInv, TypeOK
    <2>. QED BY <2>1, SchemaAssumption
  <1>5. seededWith' \subseteq Scales /\ scale \in seededWith'
    BY <1>1 DEF SchemaInv, TypeOK
  <1>6. IsDb' /\ Populated' /\ db'.objects \subseteq Objects
    BY <1>1, TablesKept
  <1>7. RestType'
    BY <1>1, <1>2, <1>3, <1>4, <1>5, <1>6 DEF RestType, Errors
  <1>8. TypeOK'
    BY <1>6, <1>7, TablesType, PTL
  <1>9. InSetupPhase'
    <2>1. WellOrdered(Statements')
      BY <1>2, SetupIsWellOrdered DEF Statements
    <2>2. step' \in 1..Len(Statements')
      <3>. DEFINE n == Len(Statements')
      <3>1. n \in 1..12
        BY <2>1 DEF WellOrdered
      <3>. HIDE DEF n
      <3>2. 1 \in 1..n
        BY <3>1
      <3>. QED BY <1>1, <3>2 DEF n
    <2>3. \A s : ~Precedes(Statements', s, step')
      BY <1>1 DEF Precedes
    <2>. QED BY <1>1, <2>2, <2>3 DEF InSetupPhase
  <1>. QED BY <1>1, <1>2, <1>3, <1>5, <1>6, <1>8, <1>9 DEF SchemaInv, InRunPhase,
           DataNeverFailsRun, StatementsFindRows

LEMMA ExecStatementKeeps ==
    ASSUME SchemaInv, ExecStatement
    PROVE  SchemaInv'
  <1>1. /\ phase = "setup" /\ step' = step + 1 /\ run' = run
        /\ counter' = counter /\ lastError' = lastError /\ matched' = matched
        /\ setups' = setups
        /\ phase' = IF step = Len(Statements) THEN "running" ELSE "setup"
    BY DEF ExecStatement, Statements
  <1>2. StatementRuns
    BY DEF ExecStatement, StatementRuns
  <1>3. /\ IsDb' /\ Populated' /\ db'.objects \subseteq Objects
        /\ \A s \in Kinds : Precedes(Statements, s, step + 1) => HasEffect(s)'
        /\ run.scale \in seededWith' /\ seededWith' \subseteq Scales
    BY <1>2, StatementEffect DEF StatementRan
  <1>4. lastError = "none" /\ matched = "some" /\ step \in 1..Len(Statements)
    BY <1>1 DEF SchemaInv, InSetupPhase
  <1>5. WellOrdered(Statements) /\ Statements' = Statements
    BY <1>1, SetupIsWellOrdered DEF SchemaInv, TypeOK, Statements
  <1>6. Len(Statements) \in 1..12 /\ step + 1 \in 1..13
    <2>. DEFINE n == Len(Statements)
    <2>1. n \in 1..12 /\ step \in 1..n
      BY <1>4, <1>5 DEF WellOrdered
    <2>. HIDE DEF n
    <2>2. n \in 1..12 /\ step + 1 \in 1..13
      BY <2>1
    <2>. QED BY <2>2 DEF n
  <1>7. RestType'
    BY <1>1, <1>3, <1>6 DEF SchemaInv, TypeOK, RestType
  <1>8. TypeOK'
    BY <1>3, <1>7, TablesType, PTL
  <1>9. InSetupPhase'
    <2>1. phase' = "setup" => step + 1 \in 1..Len(Statements)
      BY <1>1, <1>4, <1>6
    <2>. QED BY <1>1, <1>3, <1>4, <1>5, <2>1 DEF InSetupPhase
  <1>10. InRunPhase'
    <2>. SUFFICES ASSUME phase' = "running"
                  PROVE  /\ db'.objects = Objects
                         /\ \A t \in Tables : ~Unseeded(t)'
      BY DEF InRunPhase
    <2>1. step = Len(Statements)
      BY <1>1
    <2>2. \A o \in Objects : HasEffect(Create(o))'
      <3>1. \A o \in Objects : Create(o) \in Kinds
        BY DEF Kinds
      <3>2. \A o \in Objects : Precedes(Statements, Create(o), step + 1)
        BY <1>5, <2>1 DEF WellOrdered
      <3>. QED BY <1>3, <3>1, <3>2
    <2>3. \A t \in Tables : HasEffect(Seed(t))'
      <3>1. \A t \in Tables : Seed(t) \in Kinds
        BY DEF Kinds
      <3>2. \A t \in Tables : Precedes(Statements, Seed(t), step + 1)
        BY <1>5, <2>1 DEF WellOrdered
      <3>. QED BY <1>3, <3>1, <3>2
    <2>4. \A o \in Objects : o \in db'.objects
      BY <2>2 DEF HasEffect, Create
    <2>5. \A t \in Tables : ~Unseeded(t)'
      BY <2>3 DEF HasEffect, Seed
    <2>. QED BY <1>3, <2>4, <2>5
  <1>11. DataNeverFailsRun' /\ StatementsFindRows'
    BY <1>1, <1>4 DEF DataNeverFailsRun, StatementsFindRows
  <1>12. /\ counter'["read"] <= counter'["plan"]
         /\ counter'["write"] <= counter'["plan"]
    BY <1>1 DEF SchemaInv
  <1>. QED BY <1>1, <1>3, <1>8, <1>9, <1>10, <1>11, <1>12 DEF SchemaInv

\* A step after which no run is under way.
LEMMA EndKeeps ==
    ASSUME SchemaInv, phase' = "idle", IsDb', Populated',
           db'.objects \subseteq Objects, seededWith' \subseteq Scales,
           UNCHANGED <<run, step, counter, matched, setups>>,
           lastError' \in Errors, DataNeverFailsRun', StatementsFindRows'
    PROVE  SchemaInv'
  <1>1. RestType'
    BY DEF SchemaInv, TypeOK, RestType
  <1>2. TypeOK'
    BY <1>1, TablesType, PTL
  <1>3. /\ counter'["read"] <= counter'["plan"]
        /\ counter'["write"] <= counter'["plan"]
    BY DEF SchemaInv
  <1>. QED BY <1>2, <1>3 DEF SchemaInv, InSetupPhase, InRunPhase

LEMMA StatementFailsKeeps ==
    ASSUME SchemaInv, StatementFails
    PROVE  SchemaInv'
  <1>1. /\ phase = "setup" /\ StatementError(Statement) # "none"
        /\ phase' = "idle" /\ lastError' = StatementError(Statement)
        /\ db' = db /\ seededWith' = seededWith /\ run' = run
        /\ UNCHANGED <<run, step, counter, matched, setups>>
    BY DEF StatementFails
  <1>2. ~OneScale
    BY <1>1, NoStatementFails
  <1>3. ~OneScale'
    BY <1>1, <1>2 DEF OneScale
  <1>4. StatementError(Statement) \in {"missing", "foreignKey", "none"}
    BY DEF StatementError
  <1>5. DataNeverFailsRun' /\ StatementsFindRows' /\ lastError' \in Errors
    BY <1>1, <1>3, <1>4 DEF DataNeverFailsRun, StatementsFindRows, Errors
  <1>6. IsDb' /\ Populated' /\ db'.objects \subseteq Objects
    BY <1>1, TablesKept
  <1>7. seededWith' \subseteq Scales
    BY <1>1 DEF SchemaInv, TypeOK
  <1>. QED BY <1>1, <1>5, <1>6, <1>7, EndKeeps

LEMMA SetupInterruptedKeeps ==
    ASSUME SchemaInv, SetupInterrupted
    PROVE  SchemaInv'
  <1>1. /\ phase = "setup" /\ phase' = "idle" /\ lastError' = "interrupted"
        /\ UNCHANGED <<run, step, counter, matched, setups>>
    BY DEF SetupInterrupted
  <1>2. matched' = "some"
    BY <1>1 DEF SchemaInv, InSetupPhase
  <1>3. DataNeverFailsRun' /\ StatementsFindRows' /\ lastError' \in Errors
    BY <1>1, <1>2 DEF DataNeverFailsRun, StatementsFindRows, Errors
  <1>4. CASE db' = db /\ seededWith' = seededWith
    <2>1. IsDb' /\ Populated' /\ db'.objects \subseteq Objects
      BY <1>4, TablesKept
    <2>2. seededWith' \subseteq Scales
      BY <1>4 DEF SchemaInv, TypeOK
    <2>. QED BY <1>1, <1>3, <2>1, <2>2, EndKeeps
  <1>5. CASE /\ StatementError(Statement) = "none"
             /\ db' = Executed(Statement)
             /\ seededWith' = ScalesAfter(Statement)
    <2>1. StatementRuns
      BY <1>1, <1>5 DEF StatementRuns
    <2>2. /\ IsDb' /\ Populated' /\ db'.objects \subseteq Objects
          /\ seededWith' \subseteq Scales
      BY <2>1, StatementEffect DEF StatementRan
    <2>. QED BY <1>1, <1>3, <2>2, EndKeeps
  <1>. QED BY <1>4, <1>5 DEF SetupInterrupted

LEMMA RunEndsKeeps ==
    ASSUME SchemaInv, RunEnds
    PROVE  SchemaInv'
  <1>1. /\ phase' = "idle" /\ db' = db /\ seededWith' = seededWith
        /\ lastError' = lastError /\ matched' = matched /\ run' = run
        /\ UNCHANGED <<run, step, counter, matched, setups>>
    BY DEF RunEnds
  <1>2. IsDb' /\ Populated' /\ db'.objects \subseteq Objects
    BY <1>1, TablesKept
  <1>3. seededWith' \subseteq Scales /\ lastError' \in Errors
    BY <1>1 DEF SchemaInv, TypeOK
  <1>4. DataNeverFailsRun' /\ StatementsFindRows'
    BY <1>1 DEF SchemaInv, DataNeverFailsRun, StatementsFindRows, OneScale
  <1>. QED BY <1>1, <1>2, <1>3, <1>4, EndKeeps

-----------------------------------------------------------------------------
(* Operations.                                                             *)

\* What an operation finds in a run: the hot accounts on any dataset, and on
\* one of its scale the rows it computes.
LEMMA RunFinds ==
    ASSUME SchemaInv, phase = "running"
    PROVE  /\ 1..8 \subseteq DOMAIN db.accounts
           /\ OneScale => /\ db.branches = 1..run.scale
                          /\ db.tellers = TellersOf(run.scale)
                          /\ db.accounts = AccountsOf(run.scale)
  <1>1. ~Unseeded("branches") /\ ~Unseeded("tellers") /\ ~Unseeded("accounts")
    BY DEF SchemaInv, InRunPhase, Tables
  <1>2. OneScale => /\ db.branches = 1..run.scale
                    /\ db.tellers = TellersOf(run.scale)
                    /\ db.accounts = AccountsOf(run.scale)
    BY <1>1, OneScaleRows
  <1>3. 1..8 \subseteq DOMAIN db.accounts
    <2>1. DOMAIN EmptyTable = {}
      BY DEF EmptyTable
    <2>2. \E s \in seededWith : db.accounts = AccountsOf(s)
      BY <1>1, <2>1, UnseededOf DEF SchemaInv, Populated
    <2>3. PICK s \in seededWith : db.accounts = AccountsOf(s)
      BY <2>2
    <2>4. s \in Nat \ {0}
      BY SchemaAssumption DEF SchemaInv, TypeOK
    <2>. DEFINE n == s * AccountsPerScale
    <2>5. DOMAIN db.accounts = 1..n /\ 8 <= n /\ n \in Nat
      BY <2>3, <2>4, RowsExist
    <2>. HIDE DEF n
    <2>6. 1..8 \subseteq 1..n
      BY <2>5
    <2>. QED BY <2>5, <2>6
  <1>. QED BY <1>2, <1>3

\* What an operation may change besides the counters.
Operated ==
    /\ phase = "running" /\ phase' \in {"running", "idle"}
    /\ UNCHANGED <<run, step, setups, seededWith>>
    /\ \/ db' = db
       \/ \E i \in Nat \ {0} :
             db' = [db EXCEPT !.history = @ \cup {HistoryRow(i)}]
    /\ lastError' \in {"none", "noRows", "foreignKey"}
    /\ matched' \in {"some", "none"}
    /\ OneScale => lastError' = "none" /\ matched' = "some"

Counted ==
    /\ counter' \in [{"plan", "read", "write"} -> 0..MaxIterations]
    /\ counter'["read"] <= counter'["plan"]
    /\ counter'["write"] <= counter'["plan"]

LEMMA OperatedKeeps ==
    ASSUME SchemaInv, Operated, Counted
    PROVE  SchemaInv'
  <1>1. /\ phase = "running" /\ phase' \in {"running", "idle"}
        /\ run' = run /\ step' = step /\ setups' = setups
        /\ seededWith' = seededWith
    BY DEF Operated
  <1>2. /\ IsDb' /\ db'.objects = db.objects /\ db'.branches = db.branches
        /\ db'.tellers = db.tellers /\ db'.accounts = db.accounts
    BY DEF Operated, SchemaInv, IsDb
  <1>3. Populated'
    BY <1>1, <1>2 DEF SchemaInv, Populated
  <1>4. lastError' \in Errors /\ matched' \in {"some", "none"}
    BY DEF Operated, Errors
  <1>5. /\ counter' \in [{"plan", "read", "write"} -> 0..MaxIterations]
        /\ counter'["read"] <= counter'["plan"]
        /\ counter'["write"] <= counter'["plan"]
    BY DEF Counted
  <1>6. RestType'
    BY <1>1, <1>2, <1>4, <1>5 DEF SchemaInv, TypeOK, RestType
  <1>7. TypeOK'
    BY <1>3, <1>6, TablesType, PTL
  <1>8. InSetupPhase'
    BY <1>1 DEF InSetupPhase
  <1>9. InRunPhase'
    <2>1. \A t \in Tables : ~Unseeded(t) => ~Unseeded(t)'
      BY <1>2 DEF Unseeded, Tables
    <2>. QED BY <1>1, <1>2, <2>1 DEF SchemaInv, InRunPhase
  <1>10. DataNeverFailsRun' /\ StatementsFindRows'
    BY <1>1 DEF Operated, DataNeverFailsRun, StatementsFindRows, OneScale
  <1>11. run'.scale \in seededWith'
    BY <1>1 DEF SchemaInv
  <1>. QED BY <1>2, <1>3, <1>5, <1>7, <1>8, <1>9, <1>10, <1>11 DEF SchemaInv

LEMMA CountKeeps ==
    ASSUME SchemaInv, counter["plan"] < MaxIterations,
           NEW parts, "plan" \in parts, Count(parts)
    PROVE  /\ Counted
           /\ counter["plan"] + 1 \in Nat \ {0}
           /\ counter["read"] + 1 \in Nat \ {0}
           /\ counter["write"] + 1 \in Nat \ {0}
  <1>1. /\ counter \in [{"plan", "read", "write"} -> 0..MaxIterations]
        /\ counter["read"] <= counter["plan"]
        /\ counter["write"] <= counter["plan"] /\ MaxIterations \in Nat
    BY SchemaAssumption DEF SchemaInv, TypeOK
  <1>2. /\ counter["plan"] \in 0..MaxIterations
        /\ counter["read"] \in 0..MaxIterations
        /\ counter["write"] \in 0..MaxIterations
    BY <1>1
  <1>3. counter' = [c \in {"plan", "read", "write"} |->
                       IF c \in parts THEN counter[c] + 1 ELSE counter[c]]
    BY <1>1 DEF Count
  <1>4. /\ counter'["plan"] = counter["plan"] + 1
        /\ counter'["read"] \in {counter["read"], counter["read"] + 1}
        /\ counter'["write"] \in {counter["write"], counter["write"] + 1}
    BY <1>3
  <1>5. /\ counter'["plan"] \in 0..MaxIterations
        /\ counter'["read"] \in 0..MaxIterations
        /\ counter'["write"] \in 0..MaxIterations
        /\ counter'["read"] <= counter'["plan"]
        /\ counter'["write"] <= counter'["plan"]
    BY <1>1, <1>2, <1>4
  <1>6. counter' \in [{"plan", "read", "write"} -> 0..MaxIterations]
    BY <1>3, <1>5
  <1>. QED BY <1>2, <1>5, <1>6 DEF Counted

(***************************************************************************)
(* Every statement of an iteration finds its rows on a dataset of the run's*)
(* scale; the hot ones on any.                                             *)
(***************************************************************************)
LEMMA QueriesFind ==
    ASSUME SchemaInv, phase = "running", NEW i \in Nat \ {0}
    PROVE  /\ pointReadQuery(accountID(i)) \in {"none", "noRows"}
           /\ historyInsertQuery(HistoryRow(i)) \in {"none", "foreignKey"}
           /\ joinQuery(accountID(i)) \in {"none", "noRows"}
           /\ lockAccountNowaitQuery(hotAccountID(i)) = "none"
           /\ accountUpdateQuery(hotAccountID(i)) # {}
           /\ OneScale => /\ pointReadQuery(accountID(i)) = "none"
                          /\ historyInsertQuery(HistoryRow(i)) = "none"
                          /\ joinQuery(accountID(i)) = "none"
                          /\ RangeRead(i) # {}
                          /\ accountUpdateQuery(accountID(i)) # {}
                          /\ aggregationQuery(branchID(i)) # {}
                          /\ {} \notin TransactionMatches(i)
  <1>. DEFINE s == run.scale
              b == branchID(i)
              a == accountID(i)
              t == tellerID(i, branchID(i))
              h == hotAccountID(i)
              n == s * AccountsPerScale
  <1>1. /\ b \in 1..s /\ a \in 1..n /\ t \in 1..(s * 10) /\ h \in 1..8
        /\ AccountsOf(s)[a] = b
    BY RowNumbers DEF SchemaInv
  <1>2. /\ s \in Nat \ {0} /\ Size.branches = s /\ Size.accounts = n
    BY SizeFacts DEF SchemaInv
  <1>3. h \in DOMAIN db.accounts
    BY <1>1, RunFinds
  <1>4. /\ pointReadQuery(a) \in {"none", "noRows"}
        /\ joinQuery(a) \in {"none", "noRows"}
        /\ historyInsertQuery(HistoryRow(i)) \in {"none", "foreignKey"}
    BY DEF pointReadQuery, joinQuery, historyInsertQuery
  <1>5. lockAccountNowaitQuery(h) = "none" /\ accountUpdateQuery(h) # {}
    BY <1>3 DEF lockAccountNowaitQuery, accountUpdateQuery
  <1>6. ASSUME OneScale
        PROVE  /\ pointReadQuery(a) = "none"
               /\ historyInsertQuery(HistoryRow(i)) = "none"
               /\ joinQuery(a) = "none"
               /\ RangeRead(i) # {}
               /\ accountUpdateQuery(a) # {}
               /\ aggregationQuery(b) # {}
               /\ {} \notin TransactionMatches(i)
    <2>1. /\ db.branches = 1..s /\ db.tellers = TellersOf(s)
          /\ db.accounts = AccountsOf(s)
      BY <1>6, RunFinds
    <2>2. DOMAIN db.accounts = 1..n /\ DOMAIN db.tellers = 1..(s * 10)
      BY <1>2, <2>1, RowsExist
    <2>3. /\ b \in DOMAIN db.accounts /\ db.accounts[b] = b
          /\ (b - 1) * 10 + 1 \in DOMAIN db.tellers
          /\ db.tellers[(b - 1) * 10 + 1] = b
      <3>. DEFINE first == (b - 1) * 10 + 1
      <3>. HIDE DEF s, b
      <3>1. /\ first \in 1..(s * 10) /\ TellersOf(s)[first] = b
            /\ b \in 1..n /\ AccountsOf(s)[b] = b
        BY <1>1, <1>2, BranchHasRows
      <3>. HIDE DEF first
      <3>2. /\ b \in DOMAIN db.accounts /\ db.accounts[b] = b
            /\ first \in DOMAIN db.tellers /\ db.tellers[first] = b
        BY <2>1, <2>2, <3>1
      <3>. QED BY <3>2 DEF first
    <2>4. a \in DOMAIN db.accounts /\ db.accounts[a] = b /\ t \in DOMAIN db.tellers
      BY <1>1, <2>1, <2>2
    <2>. HIDE DEF a, b, t, h
    <2>5. pointReadQuery(a) = "none" /\ accountUpdateQuery(a) # {}
      BY <2>4 DEF pointReadQuery, accountUpdateQuery
    <2>6. historyInsertQuery(HistoryRow(i)) = "none"
      <3>1. HistoryRow(i) = [account |-> a, branch |-> b, teller |-> t]
        BY DEF HistoryRow, a, b, t
      <3>. QED BY <1>1, <2>1, <2>4, <3>1 DEF historyInsertQuery
    <2>7. joinQuery(a) = "none"
      BY <2>3, <2>4 DEF joinQuery
    <2>8. aggregationQuery(b) # {}
      BY <2>3 DEF aggregationQuery
    <2>9. b \in b..n /\ b \in b..(b + (s * 9)) /\ b \in b..(b + (s * 4))
      <3>1. b \in 1..n /\ s \in Nat /\ n \in Int
        BY <1>2, <2>2, <2>3, SchemaAssumption
      <3>. HIDE DEF n, s
      <3>. QED BY <3>1
    <2>10. RangeRead(i) # {}
      <3>1. RangeRead(i) =
              rangeReadQuery(b, b, IF b + (s * 9) > n THEN n ELSE b + (s * 9))
        BY <1>2 DEF RangeRead, b
      <3>2. b \in b..(IF b + (s * 9) > n THEN n ELSE b + (s * 9))
        BY <2>9
      <3>. QED BY <2>3, <3>1, <3>2 DEF rangeReadQuery
    <2>11. rangeReadQuery(b, b, b + (s * 4)) # {}
      BY <2>3, <2>9 DEF rangeReadQuery
    <2>12. {} \notin TransactionMatches(i)
      <3>1. TransactionMatches(i) \subseteq
              {accountUpdateQuery(a), rangeReadQuery(b, b, b + (s * 4)),
               {t} \cap DOMAIN db.tellers}
        BY <1>2 DEF TransactionMatches, a, b, t
      <3>2. {t} \cap DOMAIN db.tellers # {}
        BY <2>4
      <3>. QED BY <2>5, <2>11, <3>1, <3>2
    <2>. QED BY <2>5, <2>6, <2>7, <2>8, <2>10, <2>12
  <1>. QED BY <1>4, <1>5, <1>6

\* What RunOnce returns and what its statements matched.
LEMMA Outcome ==
    ASSUME SchemaInv, phase = "running",
           NEW err, Returns(err), NEW matches, Match(matches),
           \/ db' = db
           \/ \E i \in Nat \ {0} :
                 db' = [db EXCEPT !.history = @ \cup {HistoryRow(i)}],
           err \in {"none", "noRows", "foreignKey"},
           OneScale => err = "none" /\ {} \notin matches
    PROVE  Operated
  <1>1. /\ lastError' = err /\ phase' \in {"running", "idle"}
        /\ UNCHANGED <<run, step, setups, seededWith>>
    BY DEF Returns
  <1>2. matched' = IF {} \in matches THEN "none" ELSE "some"
    BY DEF Match
  <1>. QED BY <1>1, <1>2 DEF Operated

LEMMA ReadOutcome ==
    ASSUME SchemaInv, phase = "running", NEW i \in Nat \ {0}, Read(i)
    PROVE  Operated
  <1>. USE QueriesFind
  <1>1. CASE Returns(pointReadQuery(accountID(i))) /\ Match({})
    BY <1>1, Outcome DEF Read
  <1>2. CASE Returns("none") /\ Match({RangeRead(i)})
    BY <1>2, Outcome DEF Read
  <1>. QED BY <1>1, <1>2 DEF Read

LEMMA WriteOutcome ==
    ASSUME SchemaInv, phase = "running", NEW i \in Nat \ {0}, Write(i)
    PROVE  Operated
  <1>. USE QueriesFind
  <1>1. CASE Insert(i) /\ Match({})
    BY <1>1, Outcome DEF Insert
  <1>2. CASE /\ Returns("none") /\ Match({accountUpdateQuery(accountID(i))})
             /\ db' = db
    BY <1>2, Outcome
  <1>. QED BY <1>1, <1>2 DEF Write

\* An operation counts itself on the counter of the plan.
LEMMA OperationStep ==
    ASSUME SchemaInv
    PROVE  /\ ReadOperation => Operated /\ Counted
           /\ WriteOperation => Operated /\ Counted
           /\ MixedOperation => Operated /\ Counted
           /\ TransactionOperation => Operated /\ Counted
           /\ JoinOperation => Operated /\ Counted
           /\ LockOperation => Operated /\ Counted
  <1>1. ASSUME ReadOperation PROVE Operated /\ Counted
    <2>1. /\ phase = "running" /\ counter["plan"] < MaxIterations
          /\ Count({"plan"}) /\ Read(counter["plan"] + 1)
      BY <1>1 DEF ReadOperation, Running
    <2>2. Counted /\ counter["plan"] + 1 \in Nat \ {0}
      BY <2>1, CountKeeps
    <2>. QED BY <2>1, <2>2, ReadOutcome
  <1>2. ASSUME WriteOperation PROVE Operated /\ Counted
    <2>1. /\ phase = "running" /\ counter["plan"] < MaxIterations
          /\ Count({"plan"}) /\ Write(counter["plan"] + 1)
      BY <1>2 DEF WriteOperation, Running
    <2>2. Counted /\ counter["plan"] + 1 \in Nat \ {0}
      BY <2>1, CountKeeps
    <2>. QED BY <2>1, <2>2, WriteOutcome
  <1>3. ASSUME MixedOperation PROVE Operated /\ Counted
    <2>1. phase = "running" /\ counter["plan"] < MaxIterations
      BY <1>3 DEF MixedOperation, Running
    <2>2. \/ Count({"plan", "read"}) /\ Read(counter["read"] + 1)
          \/ Count({"plan", "write"}) /\ Write(counter["write"] + 1)
      BY <1>3 DEF MixedOperation
    <2>3. CASE Count({"plan", "read"}) /\ Read(counter["read"] + 1)
      <3>1. Counted /\ counter["read"] + 1 \in Nat \ {0}
        BY <2>1, <2>3, CountKeeps
      <3>. QED BY <2>1, <2>3, <3>1, ReadOutcome
    <2>4. CASE Count({"plan", "write"}) /\ Write(counter["write"] + 1)
      <3>1. Counted /\ counter["write"] + 1 \in Nat \ {0}
        BY <2>1, <2>4, CountKeeps
      <3>. QED BY <2>1, <2>4, <3>1, WriteOutcome
    <2>. QED BY <2>2, <2>3, <2>4
  <1>4. ASSUME TransactionOperation PROVE Operated /\ Counted
    <2>. DEFINE i == counter["plan"] + 1
                read == pointReadQuery(accountID(i))
                err == IF read = "none" THEN historyInsertQuery(HistoryRow(i))
                       ELSE read
                matches == IF read = "none" THEN TransactionMatches(i) ELSE {}
    <2>1. /\ phase = "running" /\ counter["plan"] < MaxIterations
          /\ Count({"plan"})
          /\ runTransactionalOperation(err,
                [db EXCEPT !.history = @ \cup {HistoryRow(i)}])
          /\ Match(matches)
      BY <1>4 DEF TransactionOperation, Running
    <2>2. Counted /\ i \in Nat \ {0}
      BY <2>1, CountKeeps
    <2>. HIDE DEF i
    <2>3. /\ err \in {"none", "noRows", "foreignKey"}
          /\ OneScale => err = "none" /\ {} \notin matches
      BY <2>1, <2>2, QueriesFind
    <2>4. /\ Returns(err)
          /\ \/ db' = db
             \/ db' = [db EXCEPT !.history = @ \cup {HistoryRow(i)}]
      BY <2>1 DEF runTransactionalOperation
    <2>. HIDE DEF err, matches
    <2>. QED BY <2>1, <2>2, <2>3, <2>4, Outcome
  <1>5. ASSUME JoinOperation PROVE Operated /\ Counted
    <2>. DEFINE i == counter["plan"] + 1
    <2>1. /\ phase = "running" /\ counter["plan"] < MaxIterations
          /\ Count({"plan"}) /\ db' = db
          /\ \/ Returns(joinQuery(accountID(i))) /\ Match({})
             \/ Returns("none") /\ Match({aggregationQuery(branchID(i))})
      BY <1>5 DEF JoinOperation, Running
    <2>2. Counted /\ i \in Nat \ {0}
      BY <2>1, CountKeeps
    <2>. HIDE DEF i
    <2>3. CASE Returns(joinQuery(accountID(i))) /\ Match({})
      BY <2>1, <2>2, <2>3, QueriesFind, Outcome
    <2>4. CASE Returns("none") /\ Match({aggregationQuery(branchID(i))})
      BY <2>1, <2>2, <2>4, QueriesFind, Outcome
    <2>. QED BY <2>1, <2>3, <2>4
  <1>6. ASSUME LockOperation PROVE Operated /\ Counted
    <2>. DEFINE i == counter["plan"] + 1
    <2>1. /\ phase = "running" /\ counter["plan"] < MaxIterations
          /\ Count({"plan"})
          /\ \/ /\ runTransactionalOperation(
                      lockAccountNowaitQuery(hotAccountID(i)), db)
                /\ Match({})
             \/ /\ runTransactionalOperation("none", db)
                /\ Match({accountUpdateQuery(hotAccountID(i))})
      BY <1>6 DEF LockOperation, Running
    <2>2. Counted /\ i \in Nat \ {0}
      BY <2>1, CountKeeps
    <2>. HIDE DEF i
    <2>3. /\ lockAccountNowaitQuery(hotAccountID(i)) = "none"
          /\ accountUpdateQuery(hotAccountID(i)) # {}
      BY <2>1, <2>2, QueriesFind
    <2>4. /\ db' = db /\ Returns("none")
          /\ Match({}) \/ Match({accountUpdateQuery(hotAccountID(i))})
      BY <2>1, <2>3 DEF runTransactionalOperation
    <2>. QED BY <2>1, <2>2, <2>3, <2>4, Outcome
  <1>. QED BY <1>1, <1>2, <1>3, <1>4, <1>5, <1>6

-----------------------------------------------------------------------------
(***************************************************************************)
(* The invariant holds of every behaviour of the runner and its workloads. *)
(***************************************************************************)
THEOREM SchemaInvariance == Spec => []SchemaInv
  <1>1. Init => SchemaInv
    BY InitSchema
  <1>2. SchemaInv /\ [Next]_vars => SchemaInv'
    <2>. SUFFICES ASSUME SchemaInv, [Next]_vars PROVE SchemaInv'
      OBVIOUS
    <2>1. CASE \E scale \in Scales, reset \in {"no", "yes"}, profile \in Profiles :
                  \E mix \in Mixes(profile) : Start(scale, reset, profile, mix)
      BY <2>1, StartKeeps
    <2>2. CASE ExecStatement
      BY <2>2, ExecStatementKeeps
    <2>3. CASE StatementFails
      BY <2>3, StatementFailsKeeps
    <2>4. CASE SetupInterrupted
      BY <2>4, SetupInterruptedKeeps
    <2>5. CASE RunEnds
      BY <2>5, RunEndsKeeps
    <2>6. CASE ReadOperation \/ WriteOperation \/ MixedOperation
      BY <2>6, OperationStep, OperatedKeeps
    <2>7. CASE TransactionOperation \/ JoinOperation \/ LockOperation
      BY <2>7, OperationStep, OperatedKeeps
    <2>8. CASE UNCHANGED vars
      <3>1. /\ db' = db /\ run' = run /\ phase' = phase /\ step' = step
            /\ counter' = counter /\ lastError' = lastError
            /\ matched' = matched /\ setups' = setups
            /\ seededWith' = seededWith
        BY <2>8 DEF vars
      <3>2. TypeOK' /\ IsDb' /\ Populated'
        BY <3>1 DEF SchemaInv, TypeOK, IsDb, Populated
      <3>3. InSetupPhase' /\ InRunPhase'
        BY <3>1 DEF SchemaInv, InSetupPhase, InRunPhase, Statements, HasEffect,
                    Unseeded
      <3>4. DataNeverFailsRun' /\ StatementsFindRows'
        BY <3>1 DEF SchemaInv, DataNeverFailsRun, StatementsFindRows, OneScale
      <3>. QED BY <3>1, <3>2, <3>3, <3>4 DEF SchemaInv
    <2>. QED BY <2>1, <2>2, <2>3, <2>4, <2>5, <2>6, <2>7, <2>8 DEF Next
  <1>. QED BY <1>1, <1>2, PTL DEF Spec

(***************************************************************************)
(* The type invariant: in particular no setup leaves a row beyond the      *)
(* counts of ResolveScale for one of the scales in use.                    *)
(***************************************************************************)
THEOREM SchemaTypeCorrect == Spec => []TypeOK
  <1>1. SchemaInv => TypeOK
    BY DEF SchemaInv
  <1>. QED BY <1>1, SchemaInvariance, PTL

(***************************************************************************)
(* A run begins on a complete dataset, after any number of setups of its   *)
(* scale that were broken off at any statement (runner.go:87-91, 149-160). *)
(***************************************************************************)
THEOREM DatasetAlwaysComplete == Spec => []SetupCompletesDataset
  <1>1. SchemaInv => SetupCompletesDataset
    <2>. SUFFICES ASSUME SchemaInv, phase = "running", OneScale
                  PROVE  db.objects = Objects /\ HasRowsOfScale
      BY DEF SetupCompletesDataset
    <2>1. db.objects = Objects
      BY DEF SchemaInv, InRunPhase
    <2>2. /\ run.scale \in Nat \ {0} /\ Size.branches = run.scale
          /\ Size.tellers = run.scale * 10
          /\ Size.accounts = run.scale * AccountsPerScale
      BY SizeFacts DEF SchemaInv
    <2>3. /\ db.branches = 1..run.scale /\ db.tellers = TellersOf(run.scale)
          /\ db.accounts = AccountsOf(run.scale)
      BY RunFinds
    <2>4. /\ DOMAIN TellersOf(run.scale) = 1..(run.scale * 10)
          /\ DOMAIN AccountsOf(run.scale) = 1..(run.scale * AccountsPerScale)
      BY <2>2, RowsExist
    <2>. QED BY <2>1, <2>2, <2>3, <2>4 DEF HasRowsOfScale
  <1>. QED BY <1>1, SchemaInvariance, PTL

(***************************************************************************)
(* The data is never the reason why a setup or a run fails: the order of   *)
(* the statements respects the foreign keys and every computed row number  *)
(* is that of a row (workload.go:66-89, runner.go:149-160).                *)
(***************************************************************************)
THEOREM DataAlwaysSuffices == Spec => []DataNeverFailsRun
  <1>1. SchemaInv => DataNeverFailsRun
    BY DEF SchemaInv
  <1>. QED BY <1>1, SchemaInvariance, PTL

(***************************************************************************)
(* No update, range read or aggregation of a run is one over no rows       *)
(* (workload_read_write.go:31-43, workload_transaction.go:47-77).          *)
(***************************************************************************)
THEOREM StatementsAlwaysFindRows == Spec => []StatementsFindRows
  <1>1. SchemaInv => StatementsFindRows
    BY DEF SchemaInv
  <1>. QED BY <1>1, SchemaInvariance, PTL

(***************************************************************************)
(* The account and the teller of a history row belong to its branch, for   *)
(* every iteration of every run on a dataset of its scale (scale.go:17,    *)
(* runner.go:153-160, workload.go:66-81).                                  *)
(***************************************************************************)
THEOREM HistoryAlwaysNamesOneBranch == Spec => HistoryNamesOneBranch
  <1>. DEFINE OneBranch ==
         OneScale => \A row \in db'.history \ db.history :
                        /\ db.tellers[row.teller] = row.branch
                        /\ db.accounts[row.account] = row.branch
  <1>1. SchemaInv /\ [Next]_vars => OneBranch
    <2>. SUFFICES ASSUME SchemaInv, [Next]_vars PROVE OneBranch
      OBVIOUS
    <2>1. CASE db'.history \subseteq db.history
      BY <2>1
    <2>2. CASE \E scale \in Scales, reset \in {"no", "yes"}, profile \in Profiles :
                  \E mix \in Mixes(profile) : Start(scale, reset, profile, mix)
      BY <2>1, <2>2 DEF Start
    <2>3. CASE ExecStatement
      <3>1. StatementRuns
        BY <2>3 DEF ExecStatement, StatementRuns
      <3>. QED BY <2>1, <3>1, StatementEffect DEF StatementRan
    <2>4. CASE StatementFails \/ RunEnds
      BY <2>1, <2>4 DEF StatementFails, RunEnds
    <2>5. CASE SetupInterrupted
      <3>1. StatementRuns \/ db' = db
        BY <2>5 DEF SetupInterrupted, StatementRuns
      <3>. QED BY <2>1, <3>1, StatementEffect DEF StatementRan
    <2>6. CASE Operated
      <3>. SUFFICES ASSUME OneScale, NEW row \in db'.history \ db.history
                    PROVE  /\ db.tellers[row.teller] = row.branch
                           /\ db.accounts[row.account] = row.branch
        OBVIOUS
      <3>1. \E i \in Nat \ {0} : db' = [db EXCEPT !.history = @ \cup {HistoryRow(i)}]
        BY <2>6 DEF Operated
      <3>2. PICK i \in Nat \ {0} :
               db' = [db EXCEPT !.history = @ \cup {HistoryRow(i)}]
        BY <3>1
      <3>3. db'.history = db.history \cup {HistoryRow(i)}
        BY <3>2 DEF SchemaInv, IsDb
      <3>4. row = HistoryRow(i)
        BY <3>3
      <3>5. /\ row.account = accountID(i) /\ row.branch = branchID(i)
            /\ row.teller = tellerID(i, branchID(i))
        BY <3>4 DEF HistoryRow
      <3>6. /\ db.tellers = TellersOf(run.scale)
            /\ db.accounts = AccountsOf(run.scale)
        BY <2>6, RunFinds DEF Operated
      <3>7. /\ AccountsOf(run.scale)[accountID(i)] = branchID(i)
            /\ TellersOf(run.scale)[tellerID(i, branchID(i))] = branchID(i)
        BY RowNumbers DEF SchemaInv
      <3>. QED BY <3>5, <3>6, <3>7
    <2>7. CASE UNCHANGED vars
      BY <2>1, <2>7 DEF vars
    <2>8. CASE ReadOperation \/ WriteOperation \/ MixedOperation
               \/ TransactionOperation \/ JoinOperation \/ LockOperation
      BY <2>6, <2>8, OperationStep
    <2>. QED BY <2>2, <2>3, <2>4, <2>5, <2>7, <2>8 DEF Next
  <1>. HIDE DEF OneBranch
  <1>2. Spec => [][OneBranch]_vars
    BY <1>1, SchemaInvariance, PTL DEF Spec
  <1>. QED BY <1>2 DEF HistoryNamesOneBranch, OneBranch

=============================================================================
