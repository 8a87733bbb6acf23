--------------------------- MODULE FieldExchange ---------------------------
(***************************************************************************)
(* Field exchanges between the solver's MPI ranks and one resident model   *)
(* worker.  Every rank has a connection of its own: the solver side runs   *)
(* BlockingFieldExchange over AtomicFieldExchange (adapter/exchange.cpp),  *)
(* the worker one InferenceRunner (inference/runner.cpp) in a thread of    *)
(* ModelWorker::run (inference/worker.cpp).  The runners share one model   *)
(* behind a mutex, and the first that fails interrupts every connection.   *)
(*                                                                         *)
(* A connection carries whole runes: up from the solver, down to it, each  *)
(* way a FIFO of Slots runes.  What interrupt() does to it is stated       *)
(* ideally here: a blocked end is released at once.  ShmChannel shows      *)
(* where the real channel falls short of that.                             *)
(***************************************************************************)
EXTENDS Naturals, Sequences, FiniteSets

CONSTANTS Ranks,     \* solver ranks, one connection each
          Inputs,    \* fields the model reads
          Outputs,   \* fields the model replaces
          Slots      \* runes one direction of a connection holds

ASSUME RanksAssumption == IsFiniteSet(Ranks) /\ Ranks # {}
\* ExchangeContract::validate and ProgramContract::validate refuse less.
ASSUME FieldsAssumption ==
    /\ IsFiniteSet(Inputs) /\ Inputs # {}
    /\ IsFiniteSet(Outputs) /\ Outputs # {}
ASSUME SlotsAssumption == Slots \in Nat \ {0}

VARIABLES
    \* the connection
    up, down,   \* runes on their way, per rank
    closed,     \* interrupt() was called on the connection
    \* the solver's end
    spc,        \* where the caller is
    call,       \* exchange index of the last call; ExchangeSequence
    previous,   \* previous_exchange_: last exchange that succeeded, or 0
    unsent,     \* input fields still to be sent in this call
    prepared,   \* output fields received in this call
    uncopied,   \* output fields still to be copied into place
    field,      \* the exchange each output field of the solver comes from
    \* the worker's end
    wpc,        \* where the runner is
    state,      \* CellInferenceExchange::state_
    index,      \* its exchange_index_
    last,       \* its previous_exchange_index_, or 0
    started,    \* run_one has begun a batch
    inputs,     \* the call each input field collected comes from, 0: missing
    unpublished, \* output fields still to be sent
    model,      \* runner that holds the mutex of SynchronizedKernel, or Nobody
    failure,    \* runner whose failure run() will rethrow, or Nobody
    interrupting \* connections a failed runner has still to interrupt

connectionVars == <<up, down, closed>>
solverVars == <<spc, call, previous, unsent, prepared, uncopied, field>>
batchVars == <<state, index, last, started, inputs, unpublished>>
workerVars == <<wpc, batchVars, model, failure, interrupting>>
vars == <<connectionVars, solverVars, workerVars>>

Nobody == "nobody"
ASSUME NobodyAssumption == Nobody \notin Ranks

Tensor(name, exchange) == [kind |-> "tensor", name |-> name, exchange |-> exchange, count |-> 0]
Complete(exchange, count) ==
    [kind |-> "complete", name |-> "none", exchange |-> exchange, count |-> count]
Error(exchange) == [kind |-> "error", name |-> "none", exchange |-> exchange, count |-> 0]
Shutdown == [kind |-> "shutdown", name |-> "none", exchange |-> 0, count |-> 0]

Init ==
    /\ up = [r \in Ranks |-> <<>>] /\ down = [r \in Ranks |-> <<>>]
    /\ closed = [r \in Ranks |-> FALSE]
    /\ spc = [r \in Ranks |-> "idle"]
    /\ call = [r \in Ranks |-> 0] /\ previous = [r \in Ranks |-> 0]
    /\ unsent = [r \in Ranks |-> {}] /\ prepared = [r \in Ranks |-> {}]
    /\ uncopied = [r \in Ranks |-> {}]
    /\ field = [r \in Ranks |-> [o \in Outputs |-> 0]]
    /\ wpc = [r \in Ranks |-> "receive"]
    /\ state = [r \in Ranks |-> "waiting"]
    /\ index = [r \in Ranks |-> 0] /\ last = [r \in Ranks |-> 0]
    /\ started = [r \in Ranks |-> FALSE]
    /\ inputs = [r \in Ranks |-> [i \in Inputs |-> 0]]
    /\ unpublished = [r \in Ranks |-> {}]
    /\ model = Nobody /\ failure = Nobody
    /\ interrupting = [r \in Ranks |-> {}]

At(pcs, r, label) == pcs[r] = label
SolverTo(r, label) == spc' = [spc EXCEPT ![r] = label]
WorkerTo(r, label) == wpc' = [wpc EXCEPT ![r] = label]
-----------------------------------------------------------------------------
(***************************************************************************)
(* The solver's end.  An exception ends the call; the caller may call      *)
(* again or leave.                                                         *)
(***************************************************************************)
Throw(r) == SolverTo(r, "idle")

\* BlockingFieldExchange::execute takes the next index first; a call whose
\* fields are missing or out of step throws before anything is sent.
Call(r) ==
    /\ At(spc, r, "idle")
    /\ call' = [call EXCEPT ![r] = @ + 1]
    /\ \/ SolverTo(r, "publishing") /\ unsent' = [unsent EXCEPT ![r] = Inputs]
       \/ Throw(r) /\ UNCHANGED unsent
    /\ prepared' = [prepared EXCEPT ![r] = {}]
    /\ UNCHANGED <<connectionVars, previous, uncopied, field, workerVars>>

\* Harbor::publish sends the tensors one by one and then the commit record.
\* send throws for a tensor beyond the negotiated payload, when others of the
\* batch may be on their way; a write throws when it would block on a closed
\* connection.
Send(r) ==
    /\ At(spc, r, "publishing")
    /\ \/ /\ unsent[r] # {}
          /\ Throw(r)
          /\ UNCHANGED <<up, unsent>>
       \/ /\ Len(up[r]) < Slots
          /\ \/ \E i \in unsent[r] :
                   /\ up' = [up EXCEPT ![r] = Append(@, Tensor(i, call[r]))]
                   /\ unsent' = [unsent EXCEPT ![r] = @ \ {i}]
                   /\ UNCHANGED spc
             \/ /\ unsent[r] = {}
                /\ up' = [up EXCEPT ![r] = Append(@, Complete(call[r], Cardinality(Inputs)))]
                /\ SolverTo(r, "waiting")
                /\ UNCHANGED unsent
       \/ /\ Len(up[r]) = Slots /\ closed[r]
          /\ Throw(r)
          /\ UNCHANGED <<up, unsent>>
    /\ UNCHANGED <<down, closed, call, previous, prepared, uncopied, field, workerVars>>

\* An output the call is waiting for.
Expected(r, rune) ==
    /\ rune.kind = "tensor" /\ rune.exchange = call[r]
    /\ rune.name \in Outputs \ prepared[r]

\* The commit record of a batch that has arrived in full.
Committed(r, rune) ==
    /\ rune.kind = "complete" /\ rune.exchange = call[r]
    /\ rune.count = Cardinality(prepared[r])
    /\ prepared[r] = Outputs

\* Mutant of ReceiveOutput: an output is written into its field on arrival.
WriteOnArrival(r) ==
    /\ At(spc, r, "waiting") /\ down[r] # <<>>
    /\ down' = [down EXCEPT ![r] = Tail(@)]
    /\ LET rune == Head(down[r])
       IN  IF Expected(r, rune)
           THEN /\ prepared' = [prepared EXCEPT ![r] = @ \cup {rune.name}]
                /\ field' = [field EXCEPT ![r][rune.name] = call[r]]
                /\ UNCHANGED <<spc, previous>>
           ELSE /\ Throw(r)
                /\ previous' = [previous EXCEPT ![r] = IF Committed(r, rune) THEN call[r] ELSE @]
                /\ UNCHANGED <<prepared, field>>
    /\ UNCHANGED <<up, closed, call, unsent, uncopied, workerVars>>

\* receive_message in AtomicFieldExchange::execute: collect, commit or throw.
\* A batch whose shapes do not fit the destination fields is refused whole, so
\* a commit record too may end in an exception.
ReceiveOutput(r) ==
    /\ At(spc, r, "waiting")
    /\ \/ /\ down[r] # <<>>
          /\ down' = [down EXCEPT ![r] = Tail(@)]
          /\ LET rune == Head(down[r])
             IN  \/ /\ Expected(r, rune)
                    /\ prepared' = [prepared EXCEPT ![r] = @ \cup {rune.name}]
                    /\ UNCHANGED <<spc, uncopied>>
                 \/ /\ Committed(r, rune)
                    /\ SolverTo(r, "copying")
                    /\ uncopied' = [uncopied EXCEPT ![r] = Outputs]
                    /\ UNCHANGED prepared
                 \/ /\ ~Expected(r, rune)
                    /\ Throw(r)
                    /\ UNCHANGED <<prepared, uncopied>>
       \/ /\ down[r] = <<>> /\ closed[r]
          /\ Throw(r)
          /\ UNCHANGED <<down, prepared, uncopied>>
    /\ UNCHANGED <<up, closed, call, previous, unsent, field, workerVars>>

\* The destinations are overwritten one after the other.
Copy(r) ==
    /\ At(spc, r, "copying")
    /\ \/ \E o \in uncopied[r] :
             /\ field' = [field EXCEPT ![r][o] = call[r]]
             /\ uncopied' = [uncopied EXCEPT ![r] = @ \ {o}]
             /\ UNCHANGED <<spc, previous>>
       \/ /\ uncopied[r] = {}
          /\ previous' = [previous EXCEPT ![r] = call[r]]
          /\ SolverTo(r, "idle")
          /\ UNCHANGED <<field, uncopied>>
    /\ UNCHANGED <<connectionVars, call, unsent, prepared, workerVars>>

\* FieldProgramSession::shutdown: a shutdown rune, then the end.
Leave(r) ==
    /\ At(spc, r, "idle")
    /\ \/ Len(up[r]) < Slots /\ up' = [up EXCEPT ![r] = Append(@, Shutdown)]
       \/ Len(up[r]) = Slots /\ closed[r] /\ UNCHANGED up
    /\ SolverTo(r, "left")
    /\ UNCHANGED <<down, closed, call, previous, unsent, prepared, uncopied, field,
                   workerVars>>

\* The solver process dies; shared memory does not tell the worker.
Crash(r) ==
    /\ spc[r] # "left"
    /\ SolverTo(r, "left")
    /\ UNCHANGED <<connectionVars, call, previous, unsent, prepared, uncopied, field,
                   workerVars>>
-----------------------------------------------------------------------------
(***************************************************************************)
(* The worker's end.                                                       *)
(***************************************************************************)

\* An exception in run_one: exchange_.fail, then the handler reports it.
Fail(r) ==
    /\ WorkerTo(r, "report")
    /\ state' = [state EXCEPT ![r] = "failed"]

\* CellInferenceExchange::begin accepts a first tensor.
MayBegin(r, rune) ==
    /\ state[r] \in {"waiting", "completed"}
    /\ rune.exchange > last[r]

\* Mutant of TakeInput: a tensor of a later call joins the batch, and a field
\* that is already there is kept.
TakeAnyInput(r, rune) ==
    /\ started' = [started EXCEPT ![r] = TRUE]
    /\ index' = [index EXCEPT ![r] = rune.exchange]
    /\ inputs' = [inputs EXCEPT ![r][rune.name] = IF started[r] /\ @ # 0 THEN @
                                                 ELSE rune.exchange]
    /\ state' = [state EXCEPT ![r] = "collecting_inputs"]
    /\ UNCHANGED wpc

\* begin for the first tensor of a batch, then add_input: the tensor must be
\* of this exchange and its field not yet there.
TakeInput(r, rune) ==
    LET fresh == ~started[r]
        exchange == IF fresh THEN rune.exchange ELSE index[r]
        collected == IF fresh THEN [i \in Inputs |-> 0] ELSE inputs[r]
        begun == started[r] \/ MayBegin(r, rune)
        fits == rune.exchange = exchange /\ collected[rune.name] = 0
    IN  /\ started' = [started EXCEPT ![r] = begun]
        /\ index' = [index EXCEPT ![r] = IF begun THEN exchange ELSE @]
        /\ IF begun /\ fits
           THEN /\ inputs' = [inputs EXCEPT ![r] = [collected EXCEPT ![rune.name] = rune.exchange]]
                /\ state' = [state EXCEPT ![r] = "collecting_inputs"]
                /\ UNCHANGED wpc
           ELSE /\ inputs' = [inputs EXCEPT ![r] = IF begun THEN collected ELSE @]
                /\ Fail(r)

Received(r) == {i \in Inputs : inputs[r][i] # 0}

\* The commit record: its index and count must be those of the batch, and
\* seal_inputs wants every input.
TakeComplete(r, rune) ==
    /\ IF /\ started[r] /\ rune.exchange = index[r]
          /\ rune.count = Cardinality(Received(r))
          /\ Received(r) = Inputs
       THEN WorkerTo(r, "lock") /\ state' = [state EXCEPT ![r] = "evaluating"]
       ELSE Fail(r)
    /\ UNCHANGED <<started, index, inputs>>

\* A shutdown between two exchanges ends the runner, within one it is an error.
TakeShutdown(r) ==
    /\ IF started[r] THEN Fail(r) ELSE WorkerTo(r, "stopped") /\ UNCHANGED state
    /\ UNCHANGED <<started, index, inputs>>

ReceiveInput(r) ==
    /\ At(wpc, r, "receive")
    /\ \/ /\ up[r] # <<>>
          /\ up' = [up EXCEPT ![r] = Tail(@)]
          /\ LET rune == Head(up[r])
             IN  \/ rune.kind = "tensor" /\ TakeInput(r, rune)
                 \/ rune.kind = "complete" /\ TakeComplete(r, rune)
                 \/ rune.kind = "shutdown" /\ TakeShutdown(r)
       \/ /\ up[r] = <<>> /\ closed[r]
          /\ Fail(r)
          /\ UNCHANGED <<up, started, index, inputs>>
    /\ UNCHANGED <<down, closed, solverVars, last, unpublished, model, failure, interrupting>>

\* SynchronizedKernel: one evaluation at a time.
Lock(r) ==
    /\ At(wpc, r, "lock") /\ model = Nobody
    /\ model' = r
    /\ WorkerTo(r, "evaluate")
    /\ UNCHANGED <<connectionVars, solverVars, batchVars, failure, interrupting>>

\* Mutant of Evaluate: finish() is not called.
NeverFinish(r) ==
    /\ At(wpc, r, "evaluate")
    /\ model' = Nobody
    /\ WorkerTo(r, "publish")
    /\ state' = [state EXCEPT ![r] = "outputs_ready"]
    /\ unpublished' = [unpublished EXCEPT ![r] = Outputs]
    /\ UNCHANGED <<connectionVars, solverVars, index, started, inputs, last, failure,
                   interrupting>>

\* Mutant of Evaluate: a model that throws keeps the mutex.
ThrowLocked(r) ==
    /\ At(wpc, r, "evaluate")
    /\ Fail(r)
    /\ UNCHANGED <<connectionVars, solverVars, index, started, inputs, last, unpublished,
                   model, failure, interrupting>>

\* The model answers in full, and finish() completes the exchange; or the
\* bypass policy or the model throws, or the outputs are refused.
Evaluate(r) ==
    /\ At(wpc, r, "evaluate")
    /\ model' = Nobody
    /\ \/ /\ WorkerTo(r, "publish")
          /\ state' = [state EXCEPT ![r] = "completed"]
          /\ last' = [last EXCEPT ![r] = index[r]]
          /\ unpublished' = [unpublished EXCEPT ![r] = Outputs]
       \/ Fail(r) /\ UNCHANGED <<last, unpublished>>
    /\ UNCHANGED <<connectionVars, solverVars, index, started, inputs, failure, interrupting>>

\* Harbor::publish of the outputs; run_one returns after the commit record.
Publish(r) ==
    /\ At(wpc, r, "publish")
    /\ \/ /\ Len(down[r]) < Slots
          /\ \/ \E o \in unpublished[r] :
                   /\ down' = [down EXCEPT ![r] = Append(@, Tensor(o, index[r]))]
                   /\ unpublished' = [unpublished EXCEPT ![r] = @ \ {o}]
                   /\ UNCHANGED <<wpc, started>>
             \/ /\ unpublished[r] = {}
                /\ down' = [down EXCEPT ![r] =
                               Append(@, Complete(index[r], Cardinality(Outputs)))]
                /\ WorkerTo(r, "receive")
                /\ started' = [started EXCEPT ![r] = FALSE]
                /\ UNCHANGED unpublished
          /\ UNCHANGED state
       \/ /\ Len(down[r]) = Slots /\ closed[r]
          /\ Fail(r)
          /\ UNCHANGED <<down, unpublished, started>>
    /\ UNCHANGED <<up, closed, solverVars, index, last, inputs, model, failure, interrupting>>

\* Mutant of Report: the runner ends and tells nobody.
FailQuietly(r) ==
    /\ At(wpc, r, "report")
    /\ WorkerTo(r, "threw")
    /\ UNCHANGED <<connectionVars, solverVars, batchVars, model, failure, interrupting>>

\* Harbor::fail_exchange; an error of this write is swallowed.  The first
\* failure is the one run() rethrows.
Report(r) ==
    /\ At(wpc, r, "report")
    /\ \/ /\ Len(down[r]) < Slots
          /\ down' = [down EXCEPT ![r] = Append(@, Error(IF started[r] THEN index[r] ELSE 0))]
       \/ Len(down[r]) = Slots /\ closed[r] /\ UNCHANGED down
    /\ failure' = IF failure = Nobody THEN r ELSE failure
    /\ interrupting' = [interrupting EXCEPT ![r] = Ranks]
    /\ WorkerTo(r, "interrupt")
    /\ UNCHANGED <<up, closed, solverVars, batchVars, model>>

\* Every connection is interrupted, one after the other.
Interrupt(r) ==
    /\ At(wpc, r, "interrupt")
    /\ \/ \E other \in interrupting[r] :
             /\ closed' = [closed EXCEPT ![other] = TRUE]
             /\ interrupting' = [interrupting EXCEPT ![r] = @ \ {other}]
             /\ UNCHANGED wpc
       \/ /\ interrupting[r] = {}
          /\ WorkerTo(r, "threw")
          /\ UNCHANGED <<closed, interrupting>>
    /\ UNCHANGED <<up, down, solverVars, batchVars, model, failure>>
-----------------------------------------------------------------------------
Solver(r) == Send(r) \/ ReceiveOutput(r) \/ Copy(r)

Runner(r) ==
    \/ ReceiveInput(r)
    \/ Lock(r)
    \/ Evaluate(r)
    \/ Publish(r)
    \/ Report(r)
    \/ Interrupt(r)

Next == \E r \in Ranks : Call(r) \/ Solver(r) \/ Leave(r) \/ Crash(r) \/ Runner(r)

Spec == Init /\ [][Next]_vars

\* Threads are scheduled: a call under way goes on, the model answers or
\* throws, a runner that can go on does.  Nobody has to call or to leave.
Fairness == \A r \in Ranks : WF_vars(Solver(r)) /\ WF_vars(Runner(r))

FairSpec == Spec /\ Fairness
-----------------------------------------------------------------------------
Rune ==
    [kind : {"tensor", "complete", "error", "shutdown"},
     name : Inputs \cup Outputs \cup {"none"}, exchange : Nat, count : Nat]

SolverLabels == {"idle", "publishing", "waiting", "copying", "left"}
RunnerLabels == {"receive", "lock", "evaluate", "publish", "report", "interrupt", "stopped",
                 "threw"}

\* "outputs_ready" is not among them: the runner always finishes what it evaluated.
ExchangeStates == {"waiting", "collecting_inputs", "evaluating", "completed", "failed"}

ConnectionTypeOK ==
    /\ up \in [Ranks -> Seq(Rune)] /\ down \in [Ranks -> Seq(Rune)]
    /\ closed \in [Ranks -> BOOLEAN]

SolverTypeOK ==
    /\ spc \in [Ranks -> SolverLabels]
    /\ call \in [Ranks -> Nat] /\ previous \in [Ranks -> Nat]
    /\ unsent \in [Ranks -> SUBSET Inputs]
    /\ prepared \in [Ranks -> SUBSET Outputs] /\ uncopied \in [Ranks -> SUBSET Outputs]
    /\ field \in [Ranks -> [Outputs -> Nat]]

BatchTypeOK ==
    /\ state \in [Ranks -> ExchangeStates]
    /\ index \in [Ranks -> Nat] /\ last \in [Ranks -> Nat]
    /\ started \in [Ranks -> BOOLEAN]
    /\ inputs \in [Ranks -> [Inputs -> Nat]]
    /\ unpublished \in [Ranks -> SUBSET Outputs]

\* The values the variables range over.
TypeOK ==
    /\ ConnectionTypeOK /\ SolverTypeOK /\ BatchTypeOK
    /\ wpc \in [Ranks -> RunnerLabels]
    /\ model \in Ranks \cup {Nobody} /\ failure \in Ranks \cup {Nobody}
    /\ interrupting \in [Ranks -> SUBSET Ranks]

\* Whenever the solver is not in the middle of the copy, all its output fields
\* come from one exchange, the last that succeeded: a call that failed, at
\* whatever point, has left every field alone.
AllOrNothing ==
    \A r \in Ranks : spc[r] \notin {"copying", "left"} =>
        \A o \in Outputs : field[r][o] = previous[r]

\* What the solver takes over was computed for this very call: the worker has
\* completed the exchange, and completes none the solver did not call for.
CommitsAreEvaluated ==
    \A r \in Ranks :
        /\ spc[r] = "copying" => last[r] = call[r]
        /\ previous[r] <= last[r] /\ last[r] <= call[r]

\* The model is run only on inputs of one and the same call, all of them, even
\* when an earlier call was abandoned with part of its batch sent.
OneBatch ==
    \A r \in Ranks : wpc[r] \in {"lock", "evaluate"} =>
        \A i \in Inputs : inputs[r][i] = index[r]

\* What the caller of a rank sees of the exchange: nothing of a copy under way.
Seen == [r \in Ranks |-> CASE spc[r] = "idle" -> "idle" [] spc[r] = "left" -> "gone" [] OTHER -> "asking"]
Settled == [r \in Ranks |-> IF spc[r] = "copying" THEN [o \in Outputs |-> previous[r]] ELSE field[r]]

Service == INSTANCE ExchangeService
    WITH caller <- Seen, asked <- call, answered <- last, fields <- Settled

\* BlockingFieldExchange::execute keeps the promise of ExchangeService, whatever is
\* left on the connection by calls that were abandoned: a call answers itself, once,
\* and takes effect in one step or not at all.
ImplementsService == Service!Spec

\* A call ends: it returns or throws, whatever the worker and the other ranks
\* do.
CallsEnd ==
    \A r \in Ranks : spc[r] \in {"publishing", "waiting", "copying"} ~> spc[r] \in {"idle", "left"}

\* A runner that fails takes all the others with it, so that ModelWorker::run
\* ends and rethrows.
FailTogether ==
    failure # Nobody ~> \A r \in Ranks : wpc[r] \in {"stopped", "threw"}
=============================================================================
