------------------------- MODULE FieldExchangeProofs -------------------------
(***************************************************************************)
(* Proofs about the field exchange, for any ranks, fields, slots and       *)
(* number of calls: a call changes all its fields or none, what it takes   *)
(* over was evaluated for it, and the model sees the inputs of one call.   *)
(* The inductive invariant speaks of one rank: its connection, its caller  *)
(* and its runner; ranks meet only in the mutex and in interrupt().        *)
(***************************************************************************)
EXTENDS FieldExchange, FiniteSetTheorems, TLAPS

\* Runes a solver that is at its call n may have sent.
UpRunes(n) == {rune \in Rune :
    rune.exchange <= n /\ (rune.kind = "tensor" => rune.name \in Inputs)}

\* Runes a runner that completed exchange n last may have sent.
DownRunes(n) == {rune \in Rune : rune.kind \in {"tensor", "complete"} => rune.exchange <= n}

\* Until the copy the fields are those of the last exchange that succeeded; the copy
\* replaces them one by one.
FieldsFollow(r) ==
    /\ spc[r] \notin {"copying", "left"} => \A o \in Outputs : field[r][o] = previous[r]
    /\ spc[r] = "copying" =>
          \A o \in Outputs : field[r][o] = IF o \in uncopied[r] THEN previous[r] ELSE call[r]

\* Whatever a batch has collected is of the exchange that began it.
BatchIsOne(r) ==
    /\ started[r] => \A i \in Inputs : inputs[r][i] \in {0, index[r]}
    /\ wpc[r] \in {"lock", "evaluate"} => started[r] /\ \A i \in Inputs : inputs[r][i] = index[r]

\* The worker never is ahead of the solver's call, and the solver never takes over
\* what the worker has not completed.
EndsInStep(r) ==
    /\ index[r] <= call[r]
    /\ started[r] /\ wpc[r] \in {"receive", "lock", "evaluate"} => last[r] < index[r]
    /\ wpc[r] = "publish" => last[r] = index[r]
    /\ previous[r] <= last[r] /\ last[r] <= call[r]
    /\ spc[r] = "copying" => last[r] = call[r]

\* What is on its way was sent for calls made and exchanges completed.
WireInStep(r) == up[r] \in Seq(UpRunes(call[r])) /\ down[r] \in Seq(DownRunes(last[r]))

RankInv(r) == FieldsFollow(r) /\ BatchIsOne(r) /\ EndsInStep(r) /\ WireInStep(r)

IInv == TypeOK /\ \A r \in Ranks : RankInv(r)
-----------------------------------------------------------------------------
\* A function into subsets, changed at one rank.
LEMMA SubsetAt ==
    ASSUME NEW R, NEW S, NEW f \in [R -> SUBSET S], NEW g,
           g = f \/ \E r \in R : \E T \in SUBSET S : g = [f EXCEPT ![r] = T]
    PROVE  g \in [R -> SUBSET S]
<1>1. CASE g = f
  BY <1>1
<1>2. ASSUME NEW r \in R, NEW T \in SUBSET S, g = [f EXCEPT ![r] = T] PROVE g \in [R -> SUBSET S]
  BY <1>2
<1> QED
  BY <1>1, <1>2

\* What sending, receiving and a larger set of runes mean for a queue.
LEMMA QueueSteps ==
    ASSUME NEW S, NEW queue \in Seq(S)
    PROVE  /\ \A rune \in S : Append(queue, rune) \in Seq(S)
           /\ queue # <<>> => Head(queue) \in S /\ Tail(queue) \in Seq(S)
           /\ \A T : S \subseteq T => queue \in Seq(T)
OBVIOUS

LEMMA RuneSets ==
    /\ \A m, n \in Nat : m <= n => UpRunes(m) \subseteq UpRunes(n)
    /\ \A m, n \in Nat : m <= n => DownRunes(m) \subseteq DownRunes(n)
BY DEF UpRunes, DownRunes, Rune

\* The runes the two ends make are in those sets.
LEMMA RunesMade ==
    ASSUME NEW n \in Nat
    PROVE  /\ \A i \in Inputs : Tensor(i, n) \in UpRunes(n)
           /\ Complete(n, Cardinality(Inputs)) \in UpRunes(n) /\ Shutdown \in UpRunes(n)
           /\ \A o \in Outputs : Tensor(o, n) \in DownRunes(n)
           /\ Complete(n, Cardinality(Outputs)) \in DownRunes(n)
           /\ \A m \in Nat : Error(m) \in DownRunes(n)
<1>1. Cardinality(Inputs) \in Nat /\ Cardinality(Outputs) \in Nat
  BY FS_CardinalityType, FieldsAssumption
<1>2. 0 \in Nat /\ 0 <= n
  OBVIOUS
<1> QED
  BY <1>1, <1>2 DEF UpRunes, DownRunes, Rune, Tensor, Complete, Shutdown, Error

LEMMA InvariantInit == Init => IInv
<1> SUFFICES ASSUME Init PROVE IInv
  OBVIOUS
<1>1. TypeOK
  BY DEF Init, TypeOK, ConnectionTypeOK, SolverTypeOK, BatchTypeOK, SolverLabels, RunnerLabels,
         ExchangeStates
<1>2. ASSUME NEW r \in Ranks PROVE RankInv(r)
  <2>1. FieldsFollow(r) /\ BatchIsOne(r) /\ EndsInStep(r)
    BY DEF Init, FieldsFollow, BatchIsOne, EndsInStep
  <2>2. WireInStep(r)
    BY DEF Init, WireInStep
  <2> QED
    BY <2>1, <2>2 DEF RankInv
<1> QED
  BY <1>1, <1>2 DEF IInv
-----------------------------------------------------------------------------
(***************************************************************************)
(* Types.                                                                  *)
(***************************************************************************)

LEMMA SolverTypes ==
    ASSUME TypeOK, NEW r \in Ranks, Call(r) \/ Solver(r) \/ Leave(r) \/ Crash(r) PROVE TypeOK'
<1>1. /\ up[r] \in Seq(Rune) /\ down[r] \in Seq(Rune) /\ call[r] \in Nat
      /\ up \in [Ranks -> Seq(Rune)] /\ down \in [Ranks -> Seq(Rune)]
  BY DEF TypeOK, ConnectionTypeOK, SolverTypeOK
<1>2. /\ \A i \in Inputs : Tensor(i, call[r]) \in Rune
      /\ Complete(call[r], Cardinality(Inputs)) \in Rune /\ Shutdown \in Rune
  BY <1>1, RunesMade DEF UpRunes
<1>3. UNCHANGED workerVars /\ UNCHANGED closed
  BY DEF Call, Solver, Send, ReceiveOutput, Copy, Leave, Crash, connectionVars
<1>4. ConnectionTypeOK'
  <2>1. \/ up' = up
        \/ \E rune \in Rune : up' = [up EXCEPT ![r] = Append(@, rune)]
    <3>1. CASE Send(r)
      <4>1. \/ up' = up
            \/ \E i \in Inputs : up' = [up EXCEPT ![r] = Append(@, Tensor(i, call[r]))]
            \/ up' = [up EXCEPT ![r] = Append(@, Complete(call[r], Cardinality(Inputs)))]
        BY <3>1 DEF Send, TypeOK, SolverTypeOK
      <4> QED
        BY <1>2, <4>1
    <3>2. CASE Leave(r)
      BY <1>2, <3>2 DEF Leave
    <3> QED
      BY <3>1, <3>2 DEF Call, Solver, ReceiveOutput, Copy, Crash, connectionVars
  <2>2. \/ down' = down
        \/ down[r] # <<>> /\ down' = [down EXCEPT ![r] = Tail(@)]
    BY DEF Call, Solver, Send, ReceiveOutput, Copy, Leave, Crash, connectionVars
  <2>3. up' \in [Ranks -> Seq(Rune)]
    BY <1>1, <2>1, QueueSteps
  <2>4. down' \in [Ranks -> Seq(Rune)]
    BY <1>1, <2>2, QueueSteps
  <2> QED
    BY <1>3, <2>3, <2>4 DEF ConnectionTypeOK, TypeOK
<1>5. SolverTypeOK'
  <2> USE DEF SolverTo, Throw
  <2>1. spc' \in [Ranks -> SolverLabels]
    <3>1. spc' = spc \/ \E label \in SolverLabels : spc' = [spc EXCEPT ![r] = label]
      BY DEF Call, Solver, Send, ReceiveOutput, Copy, Leave, Crash, SolverLabels
    <3> QED
      BY <3>1 DEF TypeOK, SolverTypeOK
  <2>2. call' \in [Ranks -> Nat] /\ previous' \in [Ranks -> Nat]
    <3>1. /\ call' = call \/ call' = [call EXCEPT ![r] = @ + 1]
          /\ previous' = previous \/ previous' = [previous EXCEPT ![r] = call[r]]
      BY DEF Call, Solver, Send, ReceiveOutput, Copy, Leave, Crash
    <3>2. call \in [Ranks -> Nat] /\ previous \in [Ranks -> Nat]
      BY DEF TypeOK, SolverTypeOK
    <3> QED
      BY <3>1, <3>2
  <2>3. unsent' \in [Ranks -> SUBSET Inputs]
    <3>1. \/ unsent' = unsent \/ unsent' = [unsent EXCEPT ![r] = Inputs]
          \/ \E i \in Inputs : unsent' = [unsent EXCEPT ![r] = @ \ {i}]
      BY DEF Call, Solver, Send, ReceiveOutput, Copy, Leave, Crash, TypeOK, SolverTypeOK
    <3>2. unsent \in [Ranks -> SUBSET Inputs]
      BY DEF TypeOK, SolverTypeOK
    <3>3. Inputs \in SUBSET Inputs /\ \A i : unsent[r] \ {i} \in SUBSET Inputs
      BY <3>2
    <3> QED
      BY <3>1, <3>2, <3>3, SubsetAt
  <2>4. prepared' \in [Ranks -> SUBSET Outputs]
    <3>1. \/ prepared' = prepared \/ prepared' = [prepared EXCEPT ![r] = {}]
          \/ \E o \in Outputs : prepared' = [prepared EXCEPT ![r] = @ \cup {o}]
      BY DEF Call, Solver, Send, ReceiveOutput, Expected, Copy, Leave, Crash
    <3>2. prepared \in [Ranks -> SUBSET Outputs]
      BY DEF TypeOK, SolverTypeOK
    <3>3. {} \in SUBSET Outputs /\ \A o \in Outputs : prepared[r] \cup {o} \in SUBSET Outputs
      BY <3>2
    <3> QED
      BY <3>1, <3>2, <3>3, SubsetAt
  <2>5. uncopied' \in [Ranks -> SUBSET Outputs]
    <3>1. \/ uncopied' = uncopied \/ uncopied' = [uncopied EXCEPT ![r] = Outputs]
          \/ \E o \in uncopied[r] : uncopied' = [uncopied EXCEPT ![r] = @ \ {o}]
      BY DEF Call, Solver, Send, ReceiveOutput, Copy, Leave, Crash
    <3>2. uncopied \in [Ranks -> SUBSET Outputs]
      BY DEF TypeOK, SolverTypeOK
    <3>3. Outputs \in SUBSET Outputs /\ \A o : uncopied[r] \ {o} \in SUBSET Outputs
      BY <3>2
    <3> QED
      BY <3>1, <3>2, <3>3, SubsetAt
  <2>6. field' \in [Ranks -> [Outputs -> Nat]]
    <3>1. field' = field \/ \E o \in uncopied[r] : field' = [field EXCEPT ![r][o] = call[r]]
      BY DEF Call, Solver, Send, ReceiveOutput, Copy, Leave, Crash
    <3>2. field \in [Ranks -> [Outputs -> Nat]] /\ field[r] \in [Outputs -> Nat]
          /\ uncopied[r] \subseteq Outputs
      BY DEF TypeOK, SolverTypeOK
    <3>3. ASSUME NEW o \in uncopied[r] PROVE [field[r] EXCEPT ![o] = call[r]] \in [Outputs -> Nat]
      BY <1>1, <3>2
    <3> QED
      BY <3>1, <3>2, <3>3
  <2> QED
    BY <2>1, <2>2, <2>3, <2>4, <2>5, <2>6 DEF SolverTypeOK
<1> QED
  BY <1>3, <1>4, <1>5 DEF TypeOK, BatchTypeOK, workerVars, batchVars

LEMMA RunnerTypes == ASSUME TypeOK, NEW r \in Ranks, Runner(r) PROVE TypeOK'
<1>1. /\ up[r] \in Seq(Rune) /\ down[r] \in Seq(Rune) /\ index[r] \in Nat
      /\ up \in [Ranks -> Seq(Rune)] /\ down \in [Ranks -> Seq(Rune)]
      /\ closed \in [Ranks -> BOOLEAN]
  BY DEF TypeOK, ConnectionTypeOK, BatchTypeOK
<1>2. /\ \A o \in Outputs : Tensor(o, index[r]) \in Rune
      /\ Complete(index[r], Cardinality(Outputs)) \in Rune
      /\ \A n \in Nat : Error(n) \in Rune
  BY <1>1, RunesMade DEF DownRunes
<1>3. UNCHANGED solverVars
  BY DEF Runner, ReceiveInput, Lock, Evaluate, Publish, Report, Interrupt
<1>4. ConnectionTypeOK'
  <2>1. \/ up' = up
        \/ up[r] # <<>> /\ up' = [up EXCEPT ![r] = Tail(@)]
    BY DEF Runner, ReceiveInput, Lock, Evaluate, Publish, Report, Interrupt, connectionVars
  <2>2. \/ down' = down
        \/ \E rune \in Rune : down' = [down EXCEPT ![r] = Append(@, rune)]
    <3>1. CASE Publish(r)
      <4>1. \/ down' = down
            \/ \E o \in Outputs : down' = [down EXCEPT ![r] = Append(@, Tensor(o, index[r]))]
            \/ down' = [down EXCEPT ![r] = Append(@, Complete(index[r], Cardinality(Outputs)))]
        BY <3>1 DEF Publish, TypeOK, BatchTypeOK
      <4> QED
        BY <1>2, <4>1
    <3>2. CASE Report(r)
      BY <1>1, <1>2, <3>2 DEF Report
    <3> QED
      BY <3>1, <3>2 DEF Runner, ReceiveInput, Lock, Evaluate, Interrupt, connectionVars
  <2>3. closed' = closed \/ \E q \in Ranks : closed' = [closed EXCEPT ![q] = TRUE]
    <3>1. CASE Interrupt(r)
      BY <3>1 DEF Interrupt, TypeOK
    <3> QED
      BY <3>1 DEF Runner, ReceiveInput, Lock, Evaluate, Publish, Report, connectionVars
  <2>4. up' \in [Ranks -> Seq(Rune)]
    BY <1>1, <2>1, QueueSteps
  <2>5. down' \in [Ranks -> Seq(Rune)]
    BY <1>1, <2>2, QueueSteps
  <2>6. closed' \in [Ranks -> BOOLEAN]
    BY <1>1, <2>3
  <2> QED
    BY <2>4, <2>5, <2>6 DEF ConnectionTypeOK
<1>5. BatchTypeOK' /\ wpc' \in [Ranks -> RunnerLabels]
  <2> USE DEF TypeOK, BatchTypeOK, RunnerLabels, ExchangeStates, WorkerTo, Fail
  <2>1. CASE ReceiveInput(r)
    <3>1. /\ UNCHANGED <<last, unpublished>>
          /\ \/ \E rune \in Rune : TakeInput(r, rune) \/ TakeComplete(r, rune) \/ TakeShutdown(r)
             \/ Fail(r) /\ UNCHANGED <<started, index, inputs>>
      BY <1>1, <2>1, QueueSteps DEF ReceiveInput
    <3>2. ASSUME NEW rune \in Rune, TakeInput(r, rune)
          PROVE  BatchTypeOK' /\ wpc' \in [Ranks -> RunnerLabels]
      <4>1. rune.exchange \in Nat
        BY DEF Rune
      <4>2. index' = index \/ index' = [index EXCEPT ![r] = index[r]]
               \/ index' = [index EXCEPT ![r] = rune.exchange]
        BY <3>2 DEF TakeInput
      <4>3. started' \in [Ranks -> BOOLEAN]
        BY <3>2 DEF TakeInput, MayBegin
      <4>4. \E row \in [Inputs -> Nat] : inputs' = [inputs EXCEPT ![r] = row]
        <5> DEFINE collected == IF ~started[r] THEN [i \in Inputs |-> 0] ELSE inputs[r]
        <5>1. collected \in [Inputs -> Nat] /\ inputs[r] \in [Inputs -> Nat]
          OBVIOUS
        <5>2. [collected EXCEPT ![rune.name] = rune.exchange] \in [Inputs -> Nat]
          BY <4>1, <5>1
        <5>3. inputs' = [inputs EXCEPT ![r] = [collected EXCEPT ![rune.name] = rune.exchange]]
                 \/ inputs' = [inputs EXCEPT ![r] = collected]
                 \/ inputs' = [inputs EXCEPT ![r] = inputs[r]]
          BY <3>2 DEF TakeInput
        <5> QED
          BY <5>1, <5>2, <5>3
      <4>5. inputs' \in [Ranks -> [Inputs -> Nat]]
        BY <4>4
      <4>6. wpc' \in [Ranks -> RunnerLabels] /\ state' \in [Ranks -> ExchangeStates]
        BY <3>2 DEF TakeInput
      <4>7. index' \in [Ranks -> Nat]
        BY <4>1, <4>2
      <4> QED
        BY <3>1, <4>3, <4>5, <4>6, <4>7
    <3>3. ASSUME NEW rune \in Rune, TakeComplete(r, rune) \/ TakeShutdown(r)
          PROVE  BatchTypeOK' /\ wpc' \in [Ranks -> RunnerLabels]
      BY <3>1, <3>3 DEF TakeComplete, TakeShutdown
    <3>4. CASE Fail(r) /\ UNCHANGED <<started, index, inputs>>
      BY <3>1, <3>4
    <3> QED
      BY <3>1, <3>2, <3>3, <3>4
  <2>2. CASE Lock(r)
    BY <2>2 DEF Lock, batchVars
  <2>3. CASE Evaluate(r)
    <3>1. /\ \E label \in RunnerLabels : wpc' = [wpc EXCEPT ![r] = label]
          /\ \E label \in ExchangeStates : state' = [state EXCEPT ![r] = label]
          /\ last' = last \/ last' = [last EXCEPT ![r] = index[r]]
          /\ unpublished' = unpublished \/ unpublished' = [unpublished EXCEPT ![r] = Outputs]
          /\ UNCHANGED <<started, index, inputs>>
      BY <2>3 DEF Evaluate
    <3>2. last' \in [Ranks -> Nat]
      BY <1>1, <3>1
    <3>3. unpublished' \in [Ranks -> SUBSET Outputs]
      BY <3>1
    <3>4. wpc' \in [Ranks -> RunnerLabels]
      BY <3>1
    <3>5. state' \in [Ranks -> ExchangeStates]
      BY <3>1
    <3> QED
      BY <3>1, <3>2, <3>3, <3>4, <3>5
  <2>4. CASE Publish(r)
    <3>1. /\ wpc' = wpc \/ \E label \in RunnerLabels : wpc' = [wpc EXCEPT ![r] = label]
          /\ state' = state \/ state' = [state EXCEPT ![r] = "failed"]
          /\ unpublished' = unpublished
                \/ \E o \in Outputs : unpublished' = [unpublished EXCEPT ![r] = @ \ {o}]
          /\ started' = started \/ started' = [started EXCEPT ![r] = FALSE]
          /\ UNCHANGED <<last, index, inputs>>
      BY <2>4 DEF Publish
    <3>2. started' \in [Ranks -> BOOLEAN]
      BY <3>1
    <3>3. unpublished' \in [Ranks -> SUBSET Outputs]
      <4>1. unpublished \in [Ranks -> SUBSET Outputs] /\ \A o : unpublished[r] \ {o} \in SUBSET Outputs
        OBVIOUS
      <4> QED
        BY <3>1, <4>1, SubsetAt
    <3>4. wpc' \in [Ranks -> RunnerLabels]
      BY <3>1
    <3>5. state' \in [Ranks -> ExchangeStates]
      BY <3>1
    <3> QED
      BY <3>1, <3>2, <3>3, <3>4, <3>5
  <2>5. CASE Report(r) \/ Interrupt(r)
    BY <2>5 DEF Report, Interrupt, batchVars
  <2> QED
    BY <2>1, <2>2, <2>3, <2>4, <2>5 DEF Runner
<1>6. /\ model' \in Ranks \cup {Nobody} /\ failure' \in Ranks \cup {Nobody}
      /\ interrupting' \in [Ranks -> SUBSET Ranks]
  <2>1. model' \in {model, r, Nobody} /\ failure' \in {failure, r}
    BY DEF Runner, ReceiveInput, Lock, Evaluate, Publish, Report, Interrupt
  <2>2. interrupting' = interrupting
           \/ \E rest \in SUBSET Ranks : interrupting' = [interrupting EXCEPT ![r] = rest]
    BY DEF Runner, ReceiveInput, Lock, Evaluate, Publish, Report, Interrupt, TypeOK
  <2> QED
    BY <2>1, <2>2 DEF TypeOK
<1> QED
  BY <1>3, <1>4, <1>5, <1>6 DEF TypeOK, SolverTypeOK, solverVars
-----------------------------------------------------------------------------
(***************************************************************************)
(* A step of one rank leaves the others alone.                             *)
(***************************************************************************)
SameRank(q) ==
    /\ up'[q] = up[q] /\ down'[q] = down[q]
    /\ spc'[q] = spc[q] /\ call'[q] = call[q] /\ previous'[q] = previous[q]
    /\ uncopied'[q] = uncopied[q] /\ field'[q] = field[q]
    /\ wpc'[q] = wpc[q] /\ index'[q] = index[q] /\ last'[q] = last[q]
    /\ started'[q] = started[q] /\ inputs'[q] = inputs[q]

LEMMA SameRankKeeps == ASSUME NEW q \in Ranks, RankInv(q), SameRank(q) PROVE RankInv(q)'
BY DEF RankInv, FieldsFollow, BatchIsOne, EndsInStep, WireInStep, SameRank

LEMMA OtherRanks ==
    ASSUME TypeOK, NEW r \in Ranks, NEW q \in Ranks \ {r},
           Call(r) \/ Solver(r) \/ Leave(r) \/ Crash(r) \/ Runner(r)
    PROVE  SameRank(q)
<1> USE DEF SameRank, TypeOK, ConnectionTypeOK, SolverTypeOK, BatchTypeOK, connectionVars,
            solverVars, batchVars, workerVars
<1>1. CASE Call(r) \/ Leave(r) \/ Crash(r)
  BY <1>1 DEF Call, Leave, Crash, SolverTo, Throw
<1>2. CASE Solver(r)
  BY <1>2 DEF Solver, Send, ReceiveOutput, Copy, SolverTo, Throw
<1>3. CASE ReceiveInput(r)
  BY <1>3 DEF ReceiveInput, TakeInput, TakeComplete, TakeShutdown, Fail, WorkerTo
<1>4. CASE Lock(r) \/ Evaluate(r) \/ Publish(r)
  BY <1>4 DEF Lock, Evaluate, Publish, Fail, WorkerTo
<1>5. CASE Report(r) \/ Interrupt(r)
  BY <1>5 DEF Report, Interrupt, WorkerTo
<1> QED
  BY <1>1, <1>2, <1>3, <1>4, <1>5 DEF Runner
-----------------------------------------------------------------------------
(***************************************************************************)
(* A step of a rank keeps its own invariant.                               *)
(***************************************************************************)

\* What the solver's end does to the values at its rank.
LEMMA SolverKeepsRank ==
    ASSUME TypeOK, NEW r \in Ranks, RankInv(r),
           Call(r) \/ Solver(r) \/ Leave(r) \/ Crash(r)
    PROVE  RankInv(r)'
<1> USE DEF At, Throw, SolverTo
<1>1. /\ spc \in [Ranks -> SolverLabels] /\ call \in [Ranks -> Nat] /\ previous \in [Ranks -> Nat]
      /\ uncopied \in [Ranks -> SUBSET Outputs] /\ unsent \in [Ranks -> SUBSET Inputs]
      /\ field \in [Ranks -> [Outputs -> Nat]]
      /\ up \in [Ranks -> Seq(Rune)] /\ down \in [Ranks -> Seq(Rune)]
  BY DEF TypeOK, SolverTypeOK, ConnectionTypeOK
<1>2. index[r] \in Nat /\ last[r] \in Nat /\ call[r] \in Nat /\ previous[r] \in Nat
  BY DEF TypeOK, SolverTypeOK, BatchTypeOK
<1>3. UNCHANGED <<wpc, index, last, started, inputs>>
  BY DEF Call, Solver, Send, ReceiveOutput, Copy, Leave, Crash, workerVars, batchVars
<1>4. BatchIsOne(r)'
  BY <1>3 DEF RankInv, BatchIsOne
<1>5. CASE Call(r)
  <2>1. /\ call'[r] = call[r] + 1 /\ spc[r] = "idle" /\ spc'[r] \in {"publishing", "idle"}
        /\ UNCHANGED <<up, down, previous, uncopied, field>>
    BY <1>1, <1>5 DEF Call, connectionVars
  <2>2. FieldsFollow(r)' /\ EndsInStep(r)'
    BY <1>2, <1>3, <2>1 DEF RankInv, FieldsFollow, EndsInStep
  <2>3. WireInStep(r)'
    BY <1>2, <1>3, <2>1, RuneSets, QueueSteps DEF RankInv, WireInStep
  <2> QED
    BY <1>4, <2>2, <2>3 DEF RankInv
<1>6. CASE Send(r)
  <2>1. /\ spc[r] = "publishing" /\ spc'[r] \in {"publishing", "waiting", "idle"}
        /\ UNCHANGED <<down, call, previous, uncopied, field>>
    BY <1>1, <1>6 DEF Send
  <2>2. FieldsFollow(r)' /\ EndsInStep(r)'
    BY <1>3, <2>1 DEF RankInv, FieldsFollow, EndsInStep
  <2>3. \/ up'[r] = up[r]
        \/ \E i \in Inputs : up'[r] = Append(up[r], Tensor(i, call[r]))
        \/ up'[r] = Append(up[r], Complete(call[r], Cardinality(Inputs)))
    BY <1>1, <1>6 DEF Send
  <2>4. up'[r] \in Seq(UpRunes(call[r]))
    BY <1>2, <2>3, RunesMade, QueueSteps DEF RankInv, WireInStep
  <2>5. WireInStep(r)'
    BY <1>3, <2>1, <2>4 DEF RankInv, WireInStep
  <2> QED
    BY <1>4, <2>2, <2>5 DEF RankInv
<1>7. CASE ReceiveOutput(r)
  <2>1. /\ spc[r] = "waiting" /\ UNCHANGED <<up, call, previous, field>>
        /\ down'[r] = down[r] \/ (down[r] # <<>> /\ down'[r] = Tail(down[r]))
    BY <1>1, <1>7 DEF ReceiveOutput
  <2>2. \/ spc'[r] \in {"waiting", "idle"}
        \/ /\ down[r] # <<>> /\ Committed(r, Head(down[r]))
           /\ spc'[r] = "copying" /\ uncopied'[r] = Outputs
    BY <1>1, <1>7 DEF ReceiveOutput
  <2>3. WireInStep(r)'
    BY <1>3, <2>1, QueueSteps DEF RankInv, WireInStep
  <2>4. spc'[r] = "copying" => last[r] = call[r]
    <3>1. ASSUME down[r] # <<>>, Committed(r, Head(down[r])) PROVE call[r] <= last[r]
      <4>1. Head(down[r]) \in DownRunes(last[r])
        BY <3>1, QueueSteps DEF RankInv, WireInStep
      <4> QED
        BY <3>1, <4>1 DEF Committed, DownRunes
    <3> QED
      BY <1>2, <2>2, <3>1 DEF RankInv, EndsInStep
  <2>5. FieldsFollow(r)' /\ EndsInStep(r)'
    BY <1>2, <1>3, <2>1, <2>2, <2>4 DEF RankInv, FieldsFollow, EndsInStep
  <2> QED
    BY <1>4, <2>3, <2>5 DEF RankInv
<1>8. CASE Copy(r)
  <2>1. spc[r] = "copying" /\ UNCHANGED <<up, down, call>>
    BY <1>8 DEF Copy, connectionVars
  <2>2. \/ /\ \E o \in uncopied[r] : /\ field'[r] = [field[r] EXCEPT ![o] = call[r]]
                                     /\ uncopied'[r] = uncopied[r] \ {o}
           /\ UNCHANGED <<spc, previous>>
        \/ /\ uncopied[r] = {} /\ previous'[r] = call[r] /\ spc'[r] = "idle"
           /\ UNCHANGED <<field, uncopied>>
    BY <1>1, <1>8 DEF Copy
  <2>3. FieldsFollow(r)'
    <3>1. /\ field[r] \in [Outputs -> Nat] /\ uncopied[r] \subseteq Outputs
          /\ \A o \in Outputs : field[r][o] = IF o \in uncopied[r] THEN previous[r] ELSE call[r]
      BY <1>1, <2>1 DEF RankInv, FieldsFollow
    <3>2. ASSUME NEW o \in uncopied[r], field'[r] = [field[r] EXCEPT ![o] = call[r]],
                 uncopied'[r] = uncopied[r] \ {o}, UNCHANGED <<spc, previous, call>>
          PROVE  FieldsFollow(r)'
      <4>1. \A p \in Outputs : field'[r][p] = IF p \in uncopied'[r] THEN previous[r] ELSE call[r]
        BY <3>1, <3>2
      <4> QED
        BY <2>1, <3>2, <4>1 DEF FieldsFollow
    <3>3. CASE uncopied[r] = {} /\ previous'[r] = call[r] /\ spc'[r] = "idle" /\ UNCHANGED field
      BY <3>1, <3>3 DEF FieldsFollow
    <3> QED
      BY <2>1, <2>2, <3>2, <3>3
  <2>4. EndsInStep(r)'
    BY <1>2, <1>3, <2>1, <2>2 DEF RankInv, EndsInStep
  <2> QED
    BY <1>3, <1>4, <2>1, <2>3, <2>4 DEF RankInv, WireInStep
<1>9. CASE Leave(r) \/ Crash(r)
  <2>1. /\ spc'[r] = "left" /\ UNCHANGED <<down, call, previous, uncopied, field>>
        /\ up'[r] = up[r] \/ up'[r] = Append(up[r], Shutdown)
    BY <1>1, <1>9 DEF Leave, Crash, connectionVars
  <2>2. up'[r] \in Seq(UpRunes(call[r]))
    BY <1>2, <2>1, RunesMade, QueueSteps DEF RankInv, WireInStep
  <2> QED
    BY <1>2, <1>3, <1>4, <2>1, <2>2 DEF RankInv, FieldsFollow, EndsInStep, WireInStep
<1> QED
  BY <1>5, <1>6, <1>7, <1>8, <1>9 DEF Solver

\* A rune of the solver changes the batch, or fails it.
LEMMA TakenRuneKeepsRank ==
    ASSUME TypeOK, NEW r \in Ranks, RankInv(r), At(wpc, r, "receive"),
           NEW rune \in UpRunes(call[r]),
           \/ rune.kind = "tensor" /\ TakeInput(r, rune)
           \/ rune.kind = "complete" /\ TakeComplete(r, rune)
           \/ rune.kind = "shutdown" /\ TakeShutdown(r),
           UNCHANGED <<last, call, previous, spc>>
    PROVE  BatchIsOne(r)' /\ EndsInStep(r)'
<1> USE DEF At, Fail, WorkerTo
<1>1. /\ index[r] \in Nat /\ last[r] \in Nat /\ call[r] \in Nat /\ inputs[r] \in [Inputs -> Nat]
      /\ inputs \in [Ranks -> [Inputs -> Nat]] /\ index \in [Ranks -> Nat]
      /\ started \in [Ranks -> BOOLEAN] /\ wpc \in [Ranks -> RunnerLabels] /\ wpc[r] = "receive"
  BY DEF TypeOK, SolverTypeOK, BatchTypeOK
<1>2. rune.exchange \in Nat /\ rune.exchange <= call[r]
  BY DEF UpRunes, Rune
<1>3. CASE rune.kind = "tensor" /\ TakeInput(r, rune)
  <2> DEFINE fresh == ~started[r]
             exchange == IF fresh THEN rune.exchange ELSE index[r]
             collected == IF fresh THEN [i \in Inputs |-> 0] ELSE inputs[r]
             begun == started[r] \/ MayBegin(r, rune)
  <2>1. rune.name \in Inputs /\ collected \in [Inputs -> Nat]
    BY <1>1, <1>3 DEF UpRunes
  <2>2. /\ started'[r] = begun /\ index'[r] = (IF begun THEN exchange ELSE index[r])
        /\ \/ /\ begun /\ rune.exchange = exchange /\ wpc'[r] = "receive"
              /\ inputs'[r] = [collected EXCEPT ![rune.name] = rune.exchange]
           \/ inputs'[r] = (IF begun THEN collected ELSE inputs[r]) /\ wpc'[r] = "report"
    BY <1>1, <1>3 DEF TakeInput
  <2>3. begun => last[r] < exchange /\ exchange <= call[r]
    BY <1>1, <1>2 DEF MayBegin, RankInv, EndsInStep
  <2>4. begun => \A i \in Inputs : collected[i] \in {0, exchange}
    BY <1>1 DEF RankInv, BatchIsOne
  <2> HIDE DEF fresh, exchange, collected, begun
  <2>5. BatchIsOne(r)'
    BY <2>1, <2>2, <2>4 DEF BatchIsOne
  <2>6. EndsInStep(r)'
    BY <1>1, <2>2, <2>3 DEF RankInv, EndsInStep
  <2> QED
    BY <2>5, <2>6
<1>4. CASE rune.kind = "complete" /\ TakeComplete(r, rune)
  <2>1. /\ UNCHANGED <<started, index, inputs>>
        /\ wpc'[r] = "report" \/ (wpc'[r] = "lock" /\ started[r] /\ Received(r) = Inputs)
    BY <1>1, <1>4 DEF TakeComplete
  <2>2. started[r] /\ Received(r) = Inputs => \A i \in Inputs : inputs[r][i] = index[r]
    BY DEF RankInv, BatchIsOne, Received
  <2> QED
    BY <1>1, <2>1, <2>2 DEF RankInv, BatchIsOne, EndsInStep
<1>5. CASE rune.kind = "shutdown" /\ TakeShutdown(r)
  <2>1. UNCHANGED <<started, index, inputs>> /\ wpc'[r] \in {"report", "stopped"}
    BY <1>1, <1>5 DEF TakeShutdown
  <2> QED
    BY <1>1, <2>1 DEF RankInv, BatchIsOne, EndsInStep
<1> QED
  BY <1>3, <1>4, <1>5

LEMMA RunnerKeepsRank == ASSUME TypeOK, NEW r \in Ranks, RankInv(r), Runner(r) PROVE RankInv(r)'
<1> USE DEF Fail, WorkerTo
<1>1. /\ index[r] \in Nat /\ last[r] \in Nat /\ call[r] \in Nat /\ previous[r] \in Nat
      /\ up \in [Ranks -> Seq(Rune)] /\ down \in [Ranks -> Seq(Rune)]
      /\ wpc \in [Ranks -> RunnerLabels] /\ last \in [Ranks -> Nat]
      /\ started \in [Ranks -> BOOLEAN]
  BY DEF TypeOK, ConnectionTypeOK, SolverTypeOK, BatchTypeOK
<1>2. UNCHANGED <<spc, call, previous, uncopied, field>>
  BY DEF Runner, ReceiveInput, Lock, Evaluate, Publish, Report, Interrupt, solverVars
<1>3. FieldsFollow(r)'
  BY <1>2 DEF RankInv, FieldsFollow
<1>4. CASE ReceiveInput(r)
  <2>1. UNCHANGED <<down, last>> /\ At(wpc, r, "receive")
    BY <1>4 DEF ReceiveInput
  <2>2. CASE up[r] # <<>> /\ up' = [up EXCEPT ![r] = Tail(@)]
    <3>1. Head(up[r]) \in UpRunes(call[r]) /\ up'[r] \in Seq(UpRunes(call[r]))
      BY <1>1, <2>2, QueueSteps DEF RankInv, WireInStep
    <3>2. CASE up[r] = <<>>
      BY <2>2, <3>2
    <3>3. \/ Head(up[r]).kind = "tensor" /\ TakeInput(r, Head(up[r]))
          \/ Head(up[r]).kind = "complete" /\ TakeComplete(r, Head(up[r]))
          \/ Head(up[r]).kind = "shutdown" /\ TakeShutdown(r)
      BY <1>4, <2>2 DEF ReceiveInput
    <3>4. BatchIsOne(r)' /\ EndsInStep(r)'
      BY <1>2, <2>1, <3>1, <3>3, TakenRuneKeepsRank
    <3> QED
      BY <1>2, <1>3, <2>1, <3>1, <3>4 DEF RankInv, WireInStep
  <2>3. CASE UNCHANGED up
    <3>1. UNCHANGED <<started, index, inputs>> /\ wpc'[r] = "report"
      BY <1>1, <1>4, <2>3 DEF ReceiveInput
    <3> QED
      BY <1>1, <1>2, <1>3, <2>1, <2>3, <3>1 DEF RankInv, BatchIsOne, EndsInStep, WireInStep
  <2> QED
    BY <1>4, <2>2, <2>3 DEF ReceiveInput
<1>5. CASE Lock(r)
  <2>1. /\ wpc[r] = "lock" /\ wpc'[r] = "evaluate"
        /\ UNCHANGED <<up, down, index, last, started, inputs>>
    BY <1>1, <1>5 DEF Lock, At, connectionVars, batchVars
  <2> QED
    BY <1>2, <1>3, <2>1 DEF RankInv, BatchIsOne, EndsInStep, WireInStep
<1>6. CASE Evaluate(r)
  <2>1. /\ wpc[r] = "evaluate" /\ UNCHANGED <<up, down, index, started, inputs>>
        /\ \/ wpc'[r] = "publish" /\ last'[r] = index[r]
           \/ wpc'[r] = "report" /\ last' = last
    BY <1>1, <1>6 DEF Evaluate, At, connectionVars
  <2>2. last[r] < index[r] /\ index[r] <= call[r] /\ spc[r] # "copying"
    BY <1>1, <2>1 DEF RankInv, EndsInStep, BatchIsOne
  <2>3. BatchIsOne(r)' /\ EndsInStep(r)'
    BY <1>1, <1>2, <2>1, <2>2 DEF RankInv, BatchIsOne, EndsInStep
  <2>4. last'[r] \in Nat /\ last[r] <= last'[r]
    BY <1>1, <2>1, <2>2
  <2>5. WireInStep(r)'
    BY <1>1, <1>2, <2>1, <2>4, RuneSets, QueueSteps DEF RankInv, WireInStep
  <2> QED
    BY <1>3, <2>3, <2>5 DEF RankInv
<1>7. CASE Publish(r)
  <2>1. /\ wpc[r] = "publish" /\ UNCHANGED <<up, index, last, inputs>>
        /\ \/ wpc'[r] \in {"publish", "report"} /\ started' = started
           \/ wpc'[r] = "receive" /\ ~started'[r]
    BY <1>1, <1>7 DEF Publish, At
  <2>2. \/ down' = down
        \/ \E o \in Outputs : down'[r] = Append(down[r], Tensor(o, index[r]))
        \/ down'[r] = Append(down[r], Complete(index[r], Cardinality(Outputs)))
    BY <1>1, <1>7 DEF Publish, TypeOK, BatchTypeOK
  <2>3. last[r] = index[r]
    BY <2>1 DEF RankInv, EndsInStep
  <2>4. down'[r] \in Seq(DownRunes(last[r]))
    BY <1>1, <2>2, <2>3, RunesMade, QueueSteps DEF RankInv, WireInStep
  <2> QED
    BY <1>2, <1>3, <2>1, <2>3, <2>4 DEF RankInv, BatchIsOne, EndsInStep, WireInStep
<1>8. CASE Report(r)
  <2>1. /\ wpc'[r] = "interrupt" /\ UNCHANGED <<up, index, last, started, inputs>>
        /\ down' = down \/ \E n \in Nat : down'[r] = Append(down[r], Error(n))
    BY <1>1, <1>8 DEF Report, batchVars
  <2>2. down'[r] \in Seq(DownRunes(last[r]))
    BY <1>1, <2>1, RunesMade, QueueSteps DEF RankInv, WireInStep
  <2> QED
    BY <1>2, <1>3, <2>1, <2>2 DEF RankInv, BatchIsOne, EndsInStep, WireInStep
<1>9. CASE Interrupt(r)
  <2>1. /\ wpc[r] = "interrupt" /\ wpc'[r] \in {"interrupt", "threw"}
        /\ UNCHANGED <<up, down, index, last, started, inputs>>
    BY <1>1, <1>9 DEF Interrupt, At, batchVars
  <2> QED
    BY <1>2, <1>3, <2>1 DEF RankInv, BatchIsOne, EndsInStep, WireInStep
<1> QED
  BY <1>4, <1>5, <1>6, <1>7, <1>8, <1>9 DEF Runner
-----------------------------------------------------------------------------
LEMMA InvariantStep == IInv /\ [Next]_vars => IInv'
<1> SUFFICES ASSUME IInv, [Next]_vars PROVE IInv'
  OBVIOUS
<1>1. CASE UNCHANGED vars
  BY <1>1 DEF IInv, TypeOK, ConnectionTypeOK, SolverTypeOK, BatchTypeOK, RankInv, FieldsFollow,
              BatchIsOne, EndsInStep, WireInStep, vars, connectionVars, solverVars, workerVars,
              batchVars
<1>2. ASSUME NEW r \in Ranks, Call(r) \/ Solver(r) \/ Leave(r) \/ Crash(r) \/ Runner(r)
      PROVE  IInv'
  <2>1. TypeOK'
    BY <1>2, SolverTypes, RunnerTypes DEF IInv
  <2>2. RankInv(r)'
    BY <1>2, SolverKeepsRank, RunnerKeepsRank DEF IInv
  <2>3. ASSUME NEW q \in Ranks \ {r} PROVE RankInv(q)'
    BY <1>2, OtherRanks, SameRankKeeps DEF IInv
  <2> QED
    BY <2>1, <2>2, <2>3 DEF IInv
<1> QED
  BY <1>1, <1>2 DEF Next

LEMMA Invariant == Spec => []IInv
BY InvariantInit, InvariantStep, PTL DEF Spec
-----------------------------------------------------------------------------
\* Type correctness of both ends of every connection.
THEOREM TypeCorrect == Spec => []TypeOK
<1>1. IInv => TypeOK
  BY DEF IInv
<1> QED
  BY <1>1, Invariant, PTL

\* AtomicFieldExchange::execute: wherever a call fails, and whoever fails it, no field
\* of the caller has been touched, and a call that succeeds has replaced them all.
THEOREM CallsAreAtomic == Spec => []AllOrNothing
<1>1. IInv => AllOrNothing
  BY DEF IInv, RankInv, FieldsFollow, AllOrNothing
<1> QED
  BY <1>1, Invariant, PTL

\* The commit record of a call is believed only when the worker has completed that
\* very exchange, whatever runes of abandoned calls the connection still holds.
THEOREM CommitsComeFromTheModel == Spec => []CommitsAreEvaluated
<1>1. IInv => CommitsAreEvaluated
  BY DEF IInv, RankInv, EndsInStep, CommitsAreEvaluated
<1> QED
  BY <1>1, Invariant, PTL

\* CellInferenceExchange never evaluates a batch mixed of two calls, although an
\* abandoned call leaves part of its inputs on the connection.
THEOREM BatchesAreNotMixed == Spec => []OneBatch
<1>1. IInv => OneBatch
  BY DEF IInv, RankInv, BatchIsOne, OneBatch
<1> QED
  BY <1>1, Invariant, PTL
-----------------------------------------------------------------------------
(***************************************************************************)
(* The exchange implements ExchangeService.                                *)
(***************************************************************************)

\* A function that differs at one rank at most.
LEMMA DiffersAt ==
    ASSUME NEW f, NEW g, NEW r \in Ranks, DOMAIN f = Ranks, DOMAIN g = Ranks,
           f = [q \in Ranks |-> f[q]], g = [q \in Ranks |-> g[q]],
           \A q \in Ranks \ {r} : g[q] = f[q]
    PROVE  g = [f EXCEPT ![r] = g[r]]
OBVIOUS

\* A step of the service changes what is seen of its own rank only.
LEMMA OthersSeeNothing ==
    ASSUME NEW r \in Ranks, \A q \in Ranks \ {r} : SameRank(q)
    PROVE  /\ Seen' = [Seen EXCEPT ![r] = Seen'[r]]
           /\ Settled' = [Settled EXCEPT ![r] = Settled'[r]]
<1>1. \A q \in Ranks \ {r} : Seen'[q] = Seen[q] /\ Settled'[q] = Settled[q]
  BY DEF SameRank, Seen, Settled
<1>2. /\ DOMAIN Seen = Ranks /\ Seen = [q \in Ranks |-> Seen[q]]
      /\ DOMAIN Seen' = Ranks /\ Seen' = [q \in Ranks |-> Seen'[q]]
  BY DEF Seen
<1>3. /\ DOMAIN Settled = Ranks /\ Settled = [q \in Ranks |-> Settled[q]]
      /\ DOMAIN Settled' = Ranks /\ Settled' = [q \in Ranks |-> Settled'[q]]
  BY DEF Settled
<1>4. Seen' = [Seen EXCEPT ![r] = Seen'[r]]
  BY <1>1, <1>2, DiffersAt
<1>5. Settled' = [Settled EXCEPT ![r] = Settled'[r]]
  BY <1>1, <1>3, DiffersAt
<1> QED
  BY <1>4, <1>5

\* What the solver's end does is a call of the service, a part of one, or its end.
LEMMA SolverServes ==
    ASSUME IInv, TypeOK', NEW r \in Ranks, Call(r) \/ Solver(r) \/ Leave(r) \/ Crash(r)
    PROVE  Service!Next \/ UNCHANGED <<Seen, call, last, Settled>>
<1> USE DEF At, Throw, SolverTo
<1>1. /\ spc \in [Ranks -> SolverLabels] /\ call \in [Ranks -> Nat] /\ previous \in [Ranks -> Nat]
      /\ uncopied \in [Ranks -> SUBSET Outputs] /\ field \in [Ranks -> [Outputs -> Nat]]
  BY DEF IInv, TypeOK, SolverTypeOK
<1>2. FieldsFollow(r) /\ EndsInStep(r)
  BY DEF IInv, RankInv
<1>3. /\ Seen' = [Seen EXCEPT ![r] = Seen'[r]]
      /\ Settled' = [Settled EXCEPT ![r] = Settled'[r]]
  BY OtherRanks, OthersSeeNothing DEF IInv
<1>4. UNCHANGED last
  BY DEF Call, Solver, Send, ReceiveOutput, Copy, Leave, Crash, workerVars, batchVars
<1>5. ASSUME Seen'[r] = Seen[r] PROVE Seen' = Seen
  BY <1>3, <1>5 DEF Seen
<1>6. ASSUME Settled'[r] = Settled[r] PROVE Settled' = Settled
  BY <1>3, <1>6 DEF Settled
<1>7. CASE Call(r)
  <2>1. /\ spc[r] = "idle" /\ spc'[r] \in {"publishing", "idle"}
        /\ call' = [call EXCEPT ![r] = @ + 1] /\ UNCHANGED <<previous, field>>
    BY <1>1, <1>7 DEF Call
  <2>2. Seen[r] = "idle" /\ Seen'[r] \in {"idle", "asking"} /\ Settled'[r] = Settled[r]
    BY <2>1 DEF Seen, Settled
  <2>3. Seen' \in {Seen, [Seen EXCEPT ![r] = "asking"]}
    BY <1>3, <1>5, <2>2
  <2>4. Service!Ask(r)
    BY <1>4, <1>6, <2>1, <2>2, <2>3 DEF Service!Ask
  <2> QED
    BY <2>4 DEF Service!Next
<1>8. CASE Send(r)
  <2>1. /\ spc[r] = "publishing" /\ spc'[r] \in {"publishing", "waiting", "idle"}
        /\ UNCHANGED <<call, previous, field>>
    BY <1>1, <1>8 DEF Send
  <2>2. Settled' = Settled
    BY <1>6, <2>1 DEF Settled
  <2>3. CASE spc'[r] = "idle"
    <3>1. Seen[r] = "asking" /\ Seen'[r] = "idle"
      BY <2>1, <2>3 DEF Seen
    <3>2. Service!Throw(r)
      BY <1>3, <1>4, <2>1, <2>2, <3>1 DEF Service!Throw
    <3> QED
      BY <3>2 DEF Service!Next
  <2>4. CASE spc'[r] # "idle"
    <3>1. Seen'[r] = Seen[r]
      BY <2>1, <2>4 DEF Seen
    <3> QED
      BY <1>4, <1>5, <2>1, <2>2, <3>1
  <2> QED
    BY <2>3, <2>4
<1>9. CASE ReceiveOutput(r)
  <2>1. /\ spc[r] = "waiting" /\ spc'[r] \in {"waiting", "copying", "idle"}
        /\ UNCHANGED <<call, previous, field>>
    BY <1>1, <1>9 DEF ReceiveOutput
  <2>2. field[r] = [o \in Outputs |-> previous[r]]
    BY <1>1, <1>2, <2>1 DEF FieldsFollow
  <2>3. Settled' = Settled
    BY <1>6, <2>1, <2>2 DEF Settled
  <2>4. CASE spc'[r] = "idle"
    <3>1. Seen[r] = "asking" /\ Seen'[r] = "idle"
      BY <2>1, <2>4 DEF Seen
    <3>2. Service!Throw(r)
      BY <1>3, <1>4, <2>1, <2>3, <3>1 DEF Service!Throw
    <3> QED
      BY <3>2 DEF Service!Next
  <2>5. CASE spc'[r] # "idle"
    <3>1. Seen'[r] = Seen[r]
      BY <2>1, <2>5 DEF Seen
    <3> QED
      BY <1>4, <1>5, <2>1, <2>3, <3>1
  <2> QED
    BY <2>4, <2>5
<1>10. CASE Copy(r)
  <2>1. spc[r] = "copying" /\ UNCHANGED call
    BY <1>10 DEF Copy
  <2>2. CASE UNCHANGED <<spc, previous>>
    <3>1. Seen'[r] = Seen[r] /\ Settled'[r] = Settled[r]
      BY <2>1, <2>2 DEF Seen, Settled
    <3> QED
      BY <1>4, <1>5, <1>6, <2>1, <3>1
  <2>3. CASE uncopied[r] = {} /\ spc'[r] = "idle" /\ UNCHANGED field
    <3>1. field[r] = [o \in Outputs |-> call[r]]
      BY <1>1, <1>2, <2>1, <2>3 DEF FieldsFollow
    <3>2. Seen[r] = "asking" /\ Seen'[r] = "idle" /\ Settled'[r] = [o \in Outputs |-> call[r]]
      BY <2>1, <2>3, <3>1 DEF Seen, Settled
    <3>3. last[r] = call[r]
      BY <1>2, <2>1 DEF EndsInStep
    <3>4. Service!Return(r)
      BY <1>3, <1>4, <2>1, <3>2, <3>3 DEF Service!Return
    <3> QED
      BY <3>4 DEF Service!Next
  <2> QED
    BY <1>1, <1>10, <2>2, <2>3 DEF Copy
<1>11. CASE Leave(r) \/ Crash(r)
  <2>1. spc[r] # "left" /\ spc'[r] = "left" /\ UNCHANGED <<call, previous, field>>
    BY <1>1, <1>11 DEF Leave, Crash
  <2>2. Seen[r] # "gone" /\ Seen'[r] = "gone"
    BY <1>1, <2>1 DEF Seen, SolverLabels
  <2>3. CASE spc[r] = "copying"
    <3>1. Settled[r] = [o \in Outputs |-> previous[r]] /\ Settled'[r] = field[r]
      BY <2>1, <2>3 DEF Settled
    <3>2. field[r] = [o \in Outputs |-> IF o \in uncopied[r] THEN Settled[r][o] ELSE call[r]]
      BY <1>1, <1>2, <2>3, <3>1 DEF FieldsFollow
    <3>3. Settled' = [Settled EXCEPT ![r] = [o \in Outputs |-> IF o \in uncopied[r] THEN @[o] ELSE call[r]]]
      BY <1>3, <3>1, <3>2 DEF Settled
    <3>4. Seen[r] = "asking" /\ last[r] = call[r] /\ uncopied[r] \in SUBSET Outputs
      BY <1>1, <1>2, <2>3 DEF Seen, EndsInStep
    <3>5. Service!End(r)
      BY <1>3, <1>4, <2>1, <2>2, <3>3, <3>4 DEF Service!End
    <3> QED
      BY <3>5 DEF Service!Next
  <2>4. CASE spc[r] # "copying"
    <3>1. Settled' = Settled
      BY <1>6, <2>1, <2>4 DEF Settled
    <3>2. Service!End(r)
      BY <1>3, <1>4, <2>1, <2>2, <3>1 DEF Service!End
    <3> QED
      BY <3>2 DEF Service!Next
  <2> QED
    BY <2>3, <2>4
<1> QED
  BY <1>7, <1>8, <1>9, <1>10, <1>11 DEF Solver

\* Of what a runner does, the caller's service sees the answer of the model only.
LEMMA RunnerServes ==
    ASSUME IInv, NEW r \in Ranks, Runner(r)
    PROVE  Service!Next \/ UNCHANGED <<Seen, call, last, Settled>>
<1>1. UNCHANGED <<spc, call, previous, field>>
  BY DEF Runner, ReceiveInput, Lock, Evaluate, Publish, Report, Interrupt, solverVars
<1>2. UNCHANGED <<Seen, call, Settled>>
  BY <1>1 DEF Seen, Settled
<1>3. CASE Evaluate(r) /\ last' # last
  <2>1. wpc[r] = "evaluate" /\ last' = [last EXCEPT ![r] = index[r]]
    BY <1>3 DEF Evaluate, At
  <2>2. last[r] < index[r] /\ index[r] <= call[r]
    BY <2>1 DEF IInv, RankInv, BatchIsOne, EndsInStep
  <2>3. index[r] \in last[r] + 1..call[r]
    BY <2>2 DEF IInv, TypeOK, SolverTypeOK, BatchTypeOK
  <2>4. Service!Answer(r)
    BY <1>2, <2>1, <2>3 DEF Service!Answer
  <2> QED
    BY <2>4 DEF Service!Next
<1>4. CASE ~Evaluate(r)
  <2>1. last' = last
    BY <1>4 DEF Runner, ReceiveInput, Lock, Publish, Report, Interrupt, batchVars
  <2> QED
    BY <1>2, <2>1
<1> QED
  BY <1>2, <1>3, <1>4

\* BlockingFieldExchange::execute, over AtomicFieldExchange, Harbor and a runner that serves
\* several ranks, is for its caller a call of ExchangeService: it takes effect in one step or
\* not at all, and only with the answer to that very call.
THEOREM ExchangeImplementsService == Spec => ImplementsService
<1>1. Init => Service!Init
  BY DEF Init, Seen, Settled, Service!Init
<1>2. IInv /\ IInv' /\ [Next]_vars => [Service!Next]_(Service!serviceVars)
  <2> SUFFICES ASSUME IInv, IInv', [Next]_vars
               PROVE  Service!Next \/ UNCHANGED <<Seen, call, last, Settled>>
    BY DEF Service!serviceVars
  <2>1. CASE UNCHANGED vars
    BY <2>1 DEF vars, solverVars, workerVars, batchVars, Seen, Settled
  <2>2. CASE Next
    BY <2>2, SolverServes, RunnerServes DEF Next, IInv
  <2> QED
    BY <2>1, <2>2
<1> QED
  BY <1>1, <1>2, Invariant, PTL DEF Spec, ImplementsService, Service!Spec
=============================================================================
