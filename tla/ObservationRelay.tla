--------------------------- MODULE ObservationRelay ---------------------------
(***************************************************************************)
(* Observations on their way from the solver's ranks                       *)
(* (backend/adapter/observation.cpp, observation_stream.cpp).  The solver  *)
(* thread of a rank hands its records to a bounded buffer and never waits. *)
(* A thread of its own writes them to a file (ObservationJsonlWriter,      *)
(* which module ObservationReader reads), or to a channel                  *)
(* (ObservationPublisher); at the far end of the channels a thread for     *)
(* each source merges them into one bounded stream                         *)
(* (LongshipObservationStream).  A record is its exchange index here.      *)
(***************************************************************************)
EXTENDS Integers, Sequences, FiniteSetsExt

CONSTANTS Sources,    \* ranks that are observed
          Decisions,  \* bound: records made and stops, by how many ranks are observed
          Size,       \* byte_size of the record of each exchange; bound: how many each
          MaxRecords, \* retention.max_records
          MaxBytes,   \* retention.max_bytes
          Pieces      \* what a channel holds: lengths and frames

ASSUME RetentionAssumption == MaxRecords \in Nat \ {0} /\ MaxBytes \in Nat \ {0}
ASSUME SourcesAssumption == IsFiniteSet(Sources)
ASSUME RecordsAssumption ==
    /\ Decisions \in [1..Cardinality(Sources) -> Nat] /\ Pieces \in Nat \ {0}
    /\ Size \in Seq(Nat \ {0})

VARIABLES
    kind,     \* per source: "file", "stream" or "off"
    policy,   \* overflow: "drop_oldest" or "drop_newest"
    \* the end of a rank
    made,     \* records handed over
    solver,   \* where the solver thread is
    buffer, bytes, closed, dropped, \* ObservationBuffer
    healthy,  \* healthy_
    worker,   \* where run() is
    held,     \* the record it has popped, or 0
    file,     \* records in the file
    channel,  \* pieces on their way
    shut,     \* the channel was interrupted or closed, from either end
    \* the end of the stream
    reader,   \* where the thread of a source is
    reading,  \* the record it has received, or 0
    merged, mergedBytes, mergedDropped, \* records_, bytes_, dropped_
    nextIndex, \* next_stream_index_
    streamStopped, streamHealthy, owner, \* flags, and where stop() is
    delivered, \* what receive() has returned, per source
    latest     \* the stream index it returned last

rankVars == <<made, solver, buffer, bytes, closed, dropped, healthy, worker, held, file>>
mergedVars == <<merged, mergedBytes, mergedDropped, nextIndex>>
streamVars == <<mergedVars, streamStopped, streamHealthy, owner, delivered, latest>>
fixed == <<kind, policy>>
vars == <<fixed, rankVars, channel, shut, reader, reading, streamVars>>

Observed == {s \in Sources : kind[s] # "off"}
Streams == {s \in Sources : kind[s] = "stream"}
Stopping == {"close", "interrupt", "join", "hang_up"}

Init ==
    /\ kind \in [Sources -> {"file", "stream", "off"}] /\ Observed # {}
    /\ policy \in {"drop_oldest", "drop_newest"}
    /\ made = [s \in Sources |-> 0]
    /\ solver = [s \in Sources |-> IF kind[s] = "off" THEN "stopped" ELSE "run"]
    /\ buffer = [s \in Sources |-> <<>>] /\ bytes = [s \in Sources |-> 0]
    /\ closed = [s \in Sources |-> FALSE] /\ dropped = [s \in Sources |-> 0]
    /\ healthy = [s \in Sources |-> TRUE]
    /\ worker = [s \in Sources |->
                    CASE kind[s] = "file" -> "open" [] kind[s] = "stream" -> "pop" [] OTHER -> "done"]
    /\ held = [s \in Sources |-> 0] /\ file = [s \in Sources |-> <<>>]
    /\ channel = [s \in Sources |-> <<>>] /\ shut = [s \in Sources |-> FALSE]
    /\ reader = [s \in Sources |-> IF kind[s] = "stream" THEN "test" ELSE "ended"]
    /\ reading = [s \in Sources |-> 0]
    /\ merged = <<>> /\ mergedBytes = 0 /\ mergedDropped = 0 /\ nextIndex = 0
    /\ streamStopped = FALSE /\ streamHealthy = TRUE
    /\ owner = IF Streams = {} THEN "stopped" ELSE "run"
    /\ delivered = [s \in Sources |-> <<>>] /\ latest = 0

To(pcs, s, label) == [pcs EXCEPT ![s] = label]
\* The bound on what the solvers and the owner of the stream do.
MayDecide ==
    MapThenSumSet(LAMBDA s : made[s], Observed)
        + Cardinality({s \in Observed : solver[s] \notin {"run", "check"}})
        + (IF streamStopped THEN 1 ELSE 0) < Decisions[Cardinality(Observed)]
SolverAt(s, label) == solver[s] = label
WorkerAt(s, label) == worker[s] = label
ReaderAt(s, label) == reader[s] = label
-----------------------------------------------------------------------------
(***************************************************************************)
(* Retention, of the buffer and of the merged stream.                      *)
(***************************************************************************)
SizeOf(records) ==
    LET sum[n \in 0..Len(records)] == IF n = 0 THEN 0 ELSE sum[n - 1] + Size[records[n]]
    IN  sum[Len(records)]
Full(count, used, size) == count >= MaxRecords \/ used + size > MaxBytes

\* A record that is not admitted is dropped itself.
Refused(records, used, size) ==
    \/ size > MaxBytes
    \/ policy = "drop_newest" /\ Full(Len(records), used, size)

\* Mutant of Evicted: one record makes room.
EvictOne(records, used, size) == IF records # <<>> /\ Full(Len(records), used, size) THEN 1 ELSE 0

\* How many of the oldest records an admitted one replaces.
Evicted(records, used, size) ==
    Min({n \in 0..Len(records) :
            \/ n = Len(records)
            \/ ~Full(Len(records) - n, used - SizeOf(SubSeq(records, 1, n)), size)})
-----------------------------------------------------------------------------
(***************************************************************************)
(* A rank.                                                                 *)
(***************************************************************************)
buffered == <<buffer, bytes, closed, dropped>>
farEnd == <<reader, reading, streamVars>>

\* try_publish; the mutex may be held by the worker, or seem to be.
Publish(s) ==
    LET i == made[s] + 1
        n == Evicted(buffer[s], bytes[s], Size[i])
    IN
    /\ SolverAt(s, "run") /\ made[s] < Len(Size) /\ MayDecide
    /\ made' = [made EXCEPT ![s] = i] /\ solver' = To(solver, s, "check")
    /\ \/ ~healthy[s] /\ UNCHANGED buffered
       \/ /\ healthy[s]
          /\ worker[s] = "pop" \/ closed[s] \/ Refused(buffer[s], bytes[s], Size[i])
          /\ dropped' = [dropped EXCEPT ![s] = @ + 1] /\ UNCHANGED <<buffer, bytes, closed>>
       \/ /\ healthy[s] /\ ~closed[s] /\ ~Refused(buffer[s], bytes[s], Size[i])
          /\ buffer' = [buffer EXCEPT ![s] = Append(SubSeq(@, n + 1, Len(@)), i)]
          /\ bytes' = [bytes EXCEPT ![s] = @ - SizeOf(SubSeq(buffer[s], 1, n)) + Size[i]]
          /\ dropped' = [dropped EXCEPT ![s] = @ + n]
          /\ UNCHANGED closed
    /\ UNCHANGED <<fixed, healthy, worker, held, file, channel, shut, farEnd>>

\* FieldProgramObservation::publish stops what is not healthy any more ...
Check(s) ==
    /\ SolverAt(s, "check")
    /\ solver' = To(solver, s, IF healthy[s] THEN "run" ELSE "close")
    /\ UNCHANGED <<fixed, made, buffered, healthy, worker, held, file, channel, shut, farEnd>>

\* ... and shutdown what is.
Shutdown(s) ==
    /\ SolverAt(s, "run") /\ MayDecide /\ solver' = To(solver, s, "close")
    /\ UNCHANGED <<fixed, made, buffered, healthy, worker, held, file, channel, shut, farEnd>>

\* stop() closes the buffer, ...
StopCloses(s) ==
    /\ SolverAt(s, "close")
    /\ closed' = [closed EXCEPT ![s] = TRUE]
    /\ solver' = To(solver, s, IF kind[s] = "file" THEN "join" ELSE "interrupt")
    /\ UNCHANGED <<fixed, made, buffer, bytes, dropped, healthy, worker, held, file, channel,
                   shut, farEnd>>

\* Mutant of StopInterrupts: the worker is left to finish its frame.
StopPatiently(s) ==
    /\ SolverAt(s, "interrupt") /\ solver' = To(solver, s, "join")
    /\ UNCHANGED <<fixed, made, buffered, healthy, worker, held, file, channel, shut, farEnd>>

\* ... interrupts the channel, ...
StopInterrupts(s) ==
    /\ SolverAt(s, "interrupt") /\ solver' = To(solver, s, "join")
    /\ shut' = [shut EXCEPT ![s] = TRUE]
    /\ UNCHANGED <<fixed, made, buffered, healthy, worker, held, file, channel, farEnd>>

\* ... and joins the worker.
StopJoins(s) ==
    /\ SolverAt(s, "join") /\ worker[s] = "done" /\ solver' = To(solver, s, "stopped")
    /\ UNCHANGED <<fixed, made, buffered, healthy, worker, held, file, channel, shut, farEnd>>

SolverStops(s) == Check(s) \/ StopCloses(s) \/ StopInterrupts(s) \/ StopJoins(s)
-----------------------------------------------------------------------------
(***************************************************************************)
(* The thread of a rank.                                                   *)
(***************************************************************************)
solverSide == <<fixed, made, solver, dropped>>
WorkerTo(s, here, next) == WorkerAt(s, here) /\ worker' = To(worker, s, next)

Open(s) ==
    /\ WorkerAt(s, "open") /\ \E next \in {"pop", "failed"} : worker' = To(worker, s, next)
    /\ UNCHANGED <<solverSide, buffer, bytes, closed, healthy, held, file, channel, shut, farEnd>>

\* Mutant of Pop: the newest record is handed out.
PopNewest(s) ==
    /\ \/ /\ WorkerTo(s, "pop", IF kind[s] = "file" THEN "write" ELSE "length") /\ buffer[s] # <<>>
          /\ held' = [held EXCEPT ![s] = buffer[s][Len(buffer[s])]]
          /\ buffer' = [buffer EXCEPT ![s] = SubSeq(@, 1, Len(@) - 1)]
          /\ bytes' = [bytes EXCEPT ![s] = @ - Size[buffer[s][Len(buffer[s])]]]
       \/ /\ WorkerTo(s, "pop", "done") /\ buffer[s] = <<>> /\ closed[s]
          /\ UNCHANGED <<held, buffer, bytes>>
    /\ UNCHANGED <<solverSide, closed, healthy, file, channel, shut, farEnd>>

\* wait_pop_oldest; what is in a closed buffer is still handed out.
Pop(s) ==
    /\ \/ /\ WorkerTo(s, "pop", IF kind[s] = "file" THEN "write" ELSE "length") /\ buffer[s] # <<>>
          /\ held' = [held EXCEPT ![s] = Head(buffer[s])]
          /\ buffer' = [buffer EXCEPT ![s] = Tail(@)]
          /\ bytes' = [bytes EXCEPT ![s] = @ - Size[Head(buffer[s])]]
       \/ /\ WorkerTo(s, "pop", "done") /\ buffer[s] = <<>> /\ closed[s]
          /\ UNCHANGED <<held, buffer, bytes>>
    /\ UNCHANGED <<solverSide, closed, healthy, file, channel, shut, farEnd>>

\* A line is written and flushed, or the disk is full.
WriteLine(s) ==
    /\ \/ /\ WorkerTo(s, "write", "pop")
          /\ file' = [file EXCEPT ![s] = Append(@, held[s])] /\ held' = [held EXCEPT ![s] = 0]
       \/ WorkerTo(s, "write", "failed") /\ UNCHANGED <<file, held>>
    /\ UNCHANGED <<solverSide, buffer, bytes, closed, healthy, channel, shut, farEnd>>

\* write_frame: the length, then the frame; each waits for room.
SendPiece(s, part) ==
    /\ ~shut[s] /\ Len(channel[s]) < Pieces
    /\ channel' = [channel EXCEPT ![s] = Append(@, [part |-> part, index |-> held[s]])]

WriteFrame(s) ==
    /\ \/ WorkerTo(s, "length", "frame") /\ SendPiece(s, "length") /\ UNCHANGED held
       \/ /\ WorkerTo(s, "frame", "pop") /\ SendPiece(s, "frame")
          /\ held' = [held EXCEPT ![s] = 0]
       \/ /\ WorkerTo(s, "length", "failed") \/ WorkerTo(s, "frame", "failed")
          /\ shut[s] /\ UNCHANGED <<channel, held>>
    /\ UNCHANGED <<solverSide, buffer, bytes, closed, healthy, file, shut, farEnd>>

\* The exception handler of run(): healthy_ first, then, for a channel, the buffer
\* and the channel are closed.
WorkerFails(s) ==
    /\ \/ /\ WorkerTo(s, "failed", IF kind[s] = "file" THEN "done" ELSE "close")
          /\ healthy' = [healthy EXCEPT ![s] = FALSE] /\ held' = [held EXCEPT ![s] = 0]
          /\ UNCHANGED <<closed, shut>>
       \/ /\ WorkerTo(s, "close", "hang_up") /\ closed' = [closed EXCEPT ![s] = TRUE]
          /\ UNCHANGED <<healthy, held, shut>>
       \/ /\ WorkerTo(s, "hang_up", "done") /\ shut' = [shut EXCEPT ![s] = TRUE]
          /\ UNCHANGED <<healthy, held, closed>>
    /\ UNCHANGED <<solverSide, buffer, bytes, file, channel, farEnd>>

WorkerStep(s) == Open(s) \/ Pop(s) \/ WriteLine(s) \/ WriteFrame(s) \/ WorkerFails(s)
-----------------------------------------------------------------------------
(***************************************************************************)
(* The merged stream.                                                      *)
(***************************************************************************)
nearEnd == <<fixed, rankVars>>
ReaderTo(s, here, next) == ReaderAt(s, here) /\ reader' = To(reader, s, next)

\* The head of run()'s loop, and wait_readable of a socket with its 100 ms, where poll
\* reports a hang-up before the data that are still there.
AwaitFrame(s) ==
    /\ \/ ReaderTo(s, "test", IF streamStopped THEN "ended" ELSE "wait")
       \/ ReaderTo(s, "wait", "length") /\ channel[s] # <<>>
       \/ ReaderTo(s, "wait", "test") /\ channel[s] = <<>> /\ ~shut[s]
       \/ ReaderTo(s, "wait", "threw") /\ shut[s]
    /\ UNCHANGED <<nearEnd, channel, shut, reading, streamVars>>

\* read_frame has no time limit of its own.  The length is there, wait_readable saw it.
ReadFrame(s) ==
    /\ \/ /\ channel[s] # <<>> /\ channel' = [channel EXCEPT ![s] = Tail(@)]
          /\ \/ ReaderTo(s, "length", "frame") /\ UNCHANGED reading
             \/ /\ ReaderTo(s, "frame", "retain")
                /\ reading' = [reading EXCEPT ![s] = Head(channel[s]).index]
       \/ ReaderTo(s, "frame", "threw") /\ channel[s] = <<>> /\ shut[s] /\ UNCHANGED <<channel, reading>>
    /\ UNCHANGED <<nearEnd, shut, streamVars>>

\* Mutant of Retain: what is pushed out is not counted.
RetainUncounted(s) ==
    LET n == Evicted([k \in DOMAIN merged |-> merged[k].index], mergedBytes, Size[reading[s]])
    IN  /\ ReaderTo(s, "retain", "test") /\ reading' = [reading EXCEPT ![s] = 0]
        /\ merged' = Append(SubSeq(merged, n + 1, Len(merged)),
                            [order |-> nextIndex, source |-> s, index |-> reading[s]])
        /\ mergedBytes' = mergedBytes + Size[reading[s]]
                              - SizeOf([k \in 1..n |-> merged[k].index])
        /\ nextIndex' = nextIndex + 1
        /\ UNCHANGED <<nearEnd, channel, shut, mergedDropped, streamStopped, streamHealthy, owner, delivered,
                       latest>>

\* retain, under the mutex; after stop() the record is let go.
Retain(s) ==
    LET records == [k \in DOMAIN merged |-> merged[k].index]
        size == Size[reading[s]]
        n == Evicted(records, mergedBytes, size)
    IN
    /\ ReaderTo(s, "retain", "test") /\ reading' = [reading EXCEPT ![s] = 0]
    /\ \/ streamStopped /\ UNCHANGED mergedVars
       \/ /\ ~streamStopped /\ Refused(records, mergedBytes, size)
          /\ mergedDropped' = mergedDropped + 1 /\ UNCHANGED <<merged, mergedBytes, nextIndex>>
       \/ /\ ~streamStopped /\ ~Refused(records, mergedBytes, size)
          /\ merged' = Append(SubSeq(merged, n + 1, Len(merged)),
                              [order |-> nextIndex, source |-> s, index |-> reading[s]])
          /\ mergedBytes' = mergedBytes - SizeOf(SubSeq(records, 1, n)) + size
          /\ mergedDropped' = mergedDropped + n /\ nextIndex' = nextIndex + 1
    /\ UNCHANGED <<nearEnd, channel, shut, streamStopped, streamHealthy, owner, delivered, latest>>

\* An exception is a failure unless the stream is being stopped.
ReaderThrew(s) ==
    /\ ReaderTo(s, "threw", "ended") /\ streamHealthy' = (streamHealthy /\ streamStopped)
    /\ UNCHANGED <<nearEnd, channel, shut, reading, mergedVars, streamStopped, owner, delivered, latest>>

ReaderStep(s) == AwaitFrame(s) \/ ReadFrame(s) \/ Retain(s) \/ ReaderThrew(s)

\* receive; what it waits for, and until when, does not change anything.
Receive ==
    /\ merged # <<>>
    /\ LET first == Head(merged)
       IN  /\ delivered' = [delivered EXCEPT ![first.source] = Append(@, first.index)]
           /\ latest' = first.order
           /\ mergedBytes' = mergedBytes - Size[first.index]
    /\ merged' = Tail(merged)
    /\ UNCHANGED <<nearEnd, channel, shut, reader, reading, mergedDropped, nextIndex, streamStopped, streamHealthy,
                   owner>>

\* stop(): the flag, an interrupt for each source, and the joins.
OwnerStops ==
    /\ \/ /\ owner = "run" /\ MayDecide /\ owner' = "interrupt" /\ streamStopped' = TRUE /\ UNCHANGED shut
       \/ /\ owner = "interrupt"
          /\ \E s \in Streams :
                /\ ~shut[s] /\ shut' = [shut EXCEPT ![s] = TRUE]
                /\ owner' = IF \A q \in Streams : shut'[q] THEN "join" ELSE "interrupt"
          /\ UNCHANGED streamStopped
       \/ /\ owner = "interrupt" /\ (\A s \in Streams : shut[s]) /\ owner' = "join"
          /\ UNCHANGED <<shut, streamStopped>>
       \/ /\ owner = "join" /\ (\A s \in Streams : reader[s] = "ended") /\ owner' = "stopped"
          /\ UNCHANGED <<shut, streamStopped>>
    /\ UNCHANGED <<nearEnd, channel, reader, reading, mergedVars, streamHealthy, delivered, latest>>

Next ==
    \/ \E s \in Sources : Publish(s) \/ Shutdown(s) \/ SolverStops(s) \/ WorkerStep(s) \/ ReaderStep(s)
    \/ Receive \/ OwnerStops

Spec == Init /\ [][Next]_vars

\* The threads of one side are scheduled, and waits of limited time end; nobody has to
\* publish, to receive or to stop anything, and the other side may hang at any point.
RanksRun == \A s \in Sources : WF_vars(SolverStops(s)) /\ WF_vars(WorkerStep(s))
ReadersRun == WF_vars(OwnerStops /\ streamStopped) /\ \A s \in Sources : WF_vars(ReaderStep(s))
-----------------------------------------------------------------------------
(***************************************************************************)
(* Properties.                                                             *)
(***************************************************************************)
\* The records of a source at each station; 0 is something else, or nothing.
Frames(s) == [k \in DOMAIN channel[s] |-> IF channel[s][k].part = "frame" THEN channel[s][k].index ELSE 0]
Merged(s) == [k \in DOMAIN merged |-> IF merged[k].source = s THEN merged[k].index ELSE 0]

\* All records of a source that are anywhere, from the reader's end to the solver's.
Trail(s) ==
    file[s] \o delivered[s] \o Merged(s) \o <<reading[s]>> \o Frames(s) \o <<held[s]>> \o buffer[s]

Increasing(records) ==
    \A j, k \in DOMAIN records : j < k /\ records[j] # 0 /\ records[k] # 0 => records[j] < records[k]

\* Nowhere on its way is a record repeated or overtaken by a later one of its source,
\* whatever is dropped, and the merged stream hands out its indices in order
\* (docs/architecture/observations-and-retention.md, LongshipObservationStream).
OrderKept ==
    /\ \A s \in Sources : Increasing(Trail(s))
    /\ \A j, k \in DOMAIN merged : j < k => merged[j].order < merged[k].order
    /\ merged # <<>> => latest <= merged[1].order /\ merged[Len(merged)].order < nextIndex

In(records) == {records[k] : k \in DOMAIN records}
Missing(s) == (1..made[s]) \ In(Trail(s))

\* No record disappears without being counted as dropped, by its rank or by the
\* stream, while nothing has failed and nothing is being stopped; and a file that was
\* written without failure holds every record that was not counted as dropped, since
\* stop() lets its thread empty the buffer (try_publish, retain).
RecordsAccounted ==
    /\ (\A s \in Observed : healthy[s] /\ solver[s] \in {"run", "check"} /\ ~shut[s]) /\ ~streamStopped =>
          Cardinality(UNION {{s} \X Missing(s) : s \in Sources})
             = Cardinality(UNION {{s} \X (1..dropped[s]) : s \in Sources}) + mergedDropped
    /\ \A s \in Sources : kind[s] = "file" /\ solver[s] = "stopped" /\ healthy[s] =>
          Len(file[s]) = made[s] - dropped[s]

\* What is retained stays within both limits, and the bytes counted are those that
\* are there (ObservationBuffer, LongshipObservationStream::retain).
RetentionBounded ==
    LET within(records, used) ==
            /\ Len(records) <= MaxRecords
            /\ used = SizeOf(records) /\ used <= MaxBytes
    IN  /\ \A s \in Sources : within(buffer[s], bytes[s])
        /\ within([k \in DOMAIN merged |-> merged[k].index], mergedBytes)

\* A solver that stops its observation goes on, also when nobody reads or the reader
\* hangs, and so does whoever stops the merged stream while a rank hangs in the
\* middle of a frame (ObservationPublisher::stop, LongshipObservationStream::stop).
StopsEnd ==
    /\ RanksRun => \A s \in Sources : solver[s] \in Stopping ~> solver[s] = "stopped"
    /\ ReadersRun => (owner \in {"interrupt", "join"} ~> owner = "stopped")
=============================================================================
