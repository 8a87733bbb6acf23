------------------------------ MODULE Resident ------------------------------
(***************************************************************************)
(* Evaluation in a resident host (execution/resident.py) and the keys of   *)
(* stochastic programs (random.py).  Every rank of the solver is served by *)
(* a thread of the native worker; the worker's kernel lets one of them     *)
(* evaluate at a time.  The evaluator of a compiled model divides the rows *)
(* of the exchange into ranges, which threads of its budget compute at the *)
(* same time into one result; the others compute all rows in one call, with*)
(* a key of that invocation where they draw random numbers.  Any of it may *)
(* raise: then the exchange has no answer, but the ranges that are under   *)
(* way or wait for a thread of the pool go on, into a result nobody asks   *)
(* for any more, while the next rank evaluates.                            *)
(* A value is represented by the rank and exchange it was computed from.   *)
(***************************************************************************)
EXTENDS Integers, Sequences, FiniteSets

CONSTANTS
    MaxServed,  \* most ranks served
    MaxRows,    \* bound on the cells of a rank; without cells nothing is evaluated
    MaxThreads, \* largest thread budget
    Rounds,     \* bound on the exchanges of a rank
    Words,      \* number of key words: 2^32 in the code
    Seed,       \* the user's seed
    MaxSeed     \* bound on the seeds compared

ASSUME ResidentAssumption ==
    /\ MaxServed \in Nat /\ MaxRows \in Nat \ {0} /\ MaxThreads \in Nat \ {0}
    /\ Rounds \in Nat /\ Words \in Nat \ {0, 1} /\ Seed \in Nat /\ MaxSeed \in Nat

NoRank == 0

VARIABLES
    served,   \* ranks the host serves
    format,   \* of the artifact: see EvaluatorFormats
    scope,    \* of the root key: "global" or "rank"
    threads,  \* the host's thread budget
    rows,     \* per rank, its cells
    asked,    \* per rank, the exchange it waits for, or 0
    round,    \* per rank, exchanges asked for so far
    turn,     \* the rank whose evaluation holds the kernel, or NoRank
    ranges,   \* tasks nobody has started: a range of rows of the exchange of a rank
    active,   \* tasks threads are computing
    failed,   \* a range of the evaluation has raised
    lost,     \* ranks that were answered with an error
    output,   \* result of the evaluation: per row, what it was computed from
    answers   \* [rank, exchange, output, keys] returned so far

residentVars ==
    <<served, format, scope, threads, rows, asked, round, turn, ranges, active, failed, lost, output, answers>>
residentShape == <<served, format, scope, threads, rows>>

Blank == <<0, 0>>
Served == 1..served
\* "batched" is an Equinox model that takes the batch, not a row.
EvaluatorFormats == {"compiled", "joblib", "function", "equinox", "batched"}
Tasks == [first : 0..MaxRows, last : 0..MaxRows, rank : 1..MaxServed, exchange : 1..Rounds]
RowOf == [1..MaxRows -> (0..MaxServed) \X (0..Rounds)]

ResidentTypeOK ==
    /\ served \in 0..MaxServed /\ format \in EvaluatorFormats
    /\ scope \in {"global", "rank"} /\ threads \in 1..MaxThreads
    /\ rows \in [1..MaxServed -> 1..MaxRows]
    /\ asked \in [1..MaxServed -> 0..Rounds] /\ round \in [1..MaxServed -> 0..Rounds]
    /\ turn \in 0..served
    /\ ranges \cup active \subseteq Tasks
    /\ failed \in BOOLEAN /\ lost \subseteq Served /\ output \in RowOf

ResidentInit ==
    /\ served \in 0..MaxServed /\ format \in EvaluatorFormats
    /\ scope \in {"global", "rank"} /\ threads \in 1..MaxThreads
    /\ rows \in [1..MaxServed -> 1..MaxRows]
    /\ asked = [r \in 1..MaxServed |-> 0] /\ round = asked
    /\ turn = NoRank /\ ranges = {} /\ active = {} /\ failed = FALSE /\ lost = {}
    /\ output = [n \in 1..MaxRows |-> Blank] /\ answers = {}
-----------------------------------------------------------------------------
\* _word
Word(value) == value % Words

\* key: the words of a seed from the low one on, two at least.
SeedWords[seed \in Nat] ==
    IF seed < Words * Words THEN <<Word(seed), Word(seed \div Words)>>
    ELSE <<Word(seed)>> \o SeedWords[seed \div Words]
RootKey(seed, keyScope) == [entropy |-> SeedWords[seed], path |-> <<>>, scope |-> keyScope]

FoldIn(key, value) == [key EXCEPT !.path = Append(@, Word(value))]

\* invocation, for the one program of this host: ranks share a key unless the
\* scope of the root says otherwise.
Invocation(exchange, rank) ==
    LET shared == FoldIn(RootKey(Seed, scope), exchange) IN IF scope = "rank" THEN FoldIn(shared, rank) ELSE shared
-----------------------------------------------------------------------------
Smaller(a, b) == IF a < b THEN a ELSE b

\* Mutant of Ranges: ranges of equal length, the last of which is not cut.
CeilingRanges(count, budget) ==
    LET workers == Smaller(budget, count)
        length == (count + workers - 1) \div workers
    IN  {<<k * length, (k + 1) * length>> : k \in 0..workers - 1}

\* The ranges <<start, stop>> of count rows, for a budget of threads: the first
\* `remainder` ranges have a row more.  Few rows are one range.
Ranges(count, budget) ==
    LET workers == Smaller(budget, count)
        start(k) == k * (count \div workers) + Smaller(k, count % workers)
    IN  IF workers <= 1 THEN {<<0, count>>} ELSE {<<start(k), start(k + 1)>> : k \in 0..workers - 1}

\* A forest divides many rows by its trees instead: a thread adds up what its trees
\* say of every row, and the sums of the threads are added.  The ranges of each tree:
ForestBatch(trees, budget) ==
    [tree \in 1..trees |-> {range \in Ranges(trees, budget) : range[1] < tree /\ tree <= range[2]}]

\* The evaluators: the ranges of a batch, and the keys its random numbers come from.
CompiledBatch(count) == [ranges |-> Ranges(count, threads), keys |-> {}]
JoblibBatch(count) == [ranges |-> {<<0, count>>}, keys |-> {}]
FunctionBatch(count, exchange, rank) ==
    [ranges |-> {<<0, count>>}, keys |-> {Invocation(exchange, rank)}]

\* jax.random.split makes a key for each row, unless the model takes the batch.
EquinoxBatch(count, exchange, rank) ==
    [ranges |-> {<<0, count>>},
     keys |-> {<<Invocation(exchange, rank), n>> : n \in IF format = "batched" THEN {0} ELSE 1..count}]

\* main: the evaluator of the artifact's format, for the exchange a rank waits for.
Evaluator(r) ==
    CASE format = "compiled" -> CompiledBatch(rows[r])
      [] format = "joblib" -> JoblibBatch(rows[r])
      [] format = "function" -> FunctionBatch(rows[r], asked[r], r)
      [] format \in {"equinox", "batched"} -> EquinoxBatch(rows[r], asked[r], r)

\* A rank sends its batch and waits for the answer.
RankAsks(r) ==
    /\ asked[r] = 0 /\ round[r] < Rounds
    /\ round' = [round EXCEPT ![r] = @ + 1]
    /\ asked' = [asked EXCEPT ![r] = round[r] + 1]
    /\ UNCHANGED <<residentShape, turn, ranges, active, failed, lost, output, answers>>

\* SynchronizedKernel takes its mutex and calls the evaluator, which makes a result
\* with nothing in it and hands the ranges out.
EvaluationBegins(r) ==
    /\ turn = NoRank /\ asked[r] # 0 /\ r \notin lost
    /\ turn' = r
    /\ ranges' = ranges \cup {[first |-> range[1], last |-> range[2], rank |-> r, exchange |-> asked[r]] :
                                range \in Evaluator(r).ranges}
    /\ failed' = FALSE
    /\ output' = [n \in 1..MaxRows |-> Blank]
    /\ UNCHANGED <<residentShape, asked, round, active, lost, answers>>

\* The task belongs to the evaluation that holds the kernel.
Own(task) == turn # NoRank /\ task.rank = turn /\ task.exchange = asked[turn]
OwnTasks == {task \in ranges \cup active : Own(task)}

\* A range of all rows is computed by the thread of the rank itself, the others by
\* the threads of the pool.
Direct(task) == task.first = 0 /\ task.last = rows[task.rank]

\* A thread takes a range ...
RangeBegins(task) ==
    /\ task \in ranges /\ (Direct(task) \/ Cardinality({other \in active : ~Direct(other)}) < threads)
    /\ ranges' = ranges \ {task} /\ active' = active \cup {task}
    /\ UNCHANGED <<residentShape, asked, round, turn, failed, lost, output, answers>>

\* Mutant of RangeEnds: every evaluation writes to one result.
SharedResult(task) ==
    /\ task \in active /\ active' = active \ {task}
    /\ output' = [n \in 1..MaxRows |-> IF task.first < n /\ n <= task.last THEN <<task.rank, task.exchange>>
                                       ELSE output[n]]
    /\ UNCHANGED <<residentShape, asked, round, turn, ranges, failed, lost, answers>>

\* ... and has written its rows of the result of its evaluation, ...
RangeEnds(task) ==
    /\ task \in active /\ active' = active \ {task}
    /\ output' = [n \in 1..MaxRows |->
                     IF Own(task) /\ task.first < n /\ n <= task.last THEN <<task.rank, task.exchange>>
                     ELSE output[n]]
    /\ UNCHANGED <<residentShape, asked, round, turn, ranges, failed, lost, answers>>

\* ... or has not: a status of the compiled model, an exception of the function, a
\* result that is not what the artifact says it returns.
RangeFails(task) ==
    /\ task \in active /\ active' = active \ {task} /\ failed' = (failed \/ Own(task))
    /\ UNCHANGED <<residentShape, asked, round, turn, ranges, lost, output, answers>>

\* All ranges are joined and their futures asked for their results; the answer is a
\* copy of the result, and the mutex is released.
EvaluationReturns ==
    /\ turn # NoRank /\ OwnTasks = {} /\ ~failed
    /\ answers' = answers \cup
          {[rank |-> turn, exchange |-> asked[turn], output |-> [n \in 1..rows[turn] |-> output[n]],
            keys |-> Evaluator(turn).keys]}
    /\ asked' = [asked EXCEPT ![turn] = 0]
    /\ turn' = NoRank
    /\ UNCHANGED <<residentShape, round, ranges, active, failed, lost, output>>

\* The exception of a range, which the pool does not wait for the others to raise: the
\* mutex is released, the exchange fails, and its rank asks for nothing more.
EvaluationRaises ==
    /\ turn # NoRank /\ failed
    /\ lost' = lost \cup {turn}
    /\ turn' = NoRank
    /\ UNCHANGED <<residentShape, asked, round, ranges, active, failed, output, answers>>

Evaluate ==
    \/ \E r \in Served : RankAsks(r) \/ EvaluationBegins(r)
    \/ \E task \in ranges \cup active : RangeBegins(task) \/ RangeEnds(task) \/ RangeFails(task)
    \/ EvaluationReturns
    \/ EvaluationRaises

ResidentSpec == ResidentInit /\ [][Evaluate]_residentVars
-----------------------------------------------------------------------------
\* Two seeds never make the same root key.
SeedsDiffer == \A a, b \in 0..MaxSeed : SeedWords[a] = SeedWords[b] => a = b

\* A rank is answered with all its rows, each computed from its own batch of that
\* exchange, however the rows were divided, whatever range has failed, whatever an
\* evaluation that raised has left in the pool and whoever evaluated in between.
AnswersAreWhole ==
    \A a \in answers :
        /\ DOMAIN a.output = 1..rows[a.rank]
        /\ \A n \in DOMAIN a.output : a.output[n] = <<a.rank, a.exchange>>

\* Two invocations share keys exactly when they are the same exchange, up to the width
\* of a key word, of the same rank where the scope is "rank"; and a row of a batch
\* never has the key of another one.
KeysAreTheirs ==
    /\ \A a, b \in answers :
          a.keys # {} /\ b.keys # {} =>
             (a.keys \cap b.keys # {} <=>
                            /\ a.exchange % Words = b.exchange % Words
                            /\ scope = "rank" => a.rank % Words = b.rank % Words)
    /\ format = "equinox" => \A a \in answers : Cardinality(a.keys) = rows[a.rank]

\* An evaluation never computes with more threads than the budget.
WithinBudget == Cardinality({task \in active : Own(task)}) <= threads

\* Every tree of a forest is in the sum once, whatever the budget (bound: forests of at
\* most MaxRows trees).
EveryTreeOnce ==
    \A trees \in 1..MaxRows : \A tree \in 1..trees : Cardinality(ForestBatch(trees, threads)[tree]) = 1

\* What the host answers is true, no other seed would have made its keys, and it
\* keeps to its budget.
EvaluationIsTrue == AnswersAreWhole /\ KeysAreTheirs /\ SeedsDiffer /\ EveryTreeOnce /\ WithinBudget
=============================================================================
