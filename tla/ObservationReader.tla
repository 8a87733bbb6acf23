-------------------------- MODULE ObservationReader --------------------------
(***************************************************************************)
(* Run.observe() and its iterator (execution/observe.py).  Every rank of   *)
(* the solver appends lines to a file of its own below the run directory;  *)
(* the reader makes passes over the files, remembers an offset for each,   *)
(* merges the records of one exchange once all ranks have written theirs,  *)
(* and asks the handle for the status after every pass.  The run directory *)
(* is renamed under it when the run is finished.                           *)
(*                                                                         *)
(* A pair <<exchange, rank>> stands for a record; its reductions and the   *)
(* arithmetic of merging them are left out.                                *)
(***************************************************************************)
EXTENDS RunControl, Sequences, FiniteSetsExt

CONSTANTS
    Reader,     \* the thread that iterates the observations
    MaxSources, \* most ranks
    Exchanges,  \* bound on the exchanges of a run
    Lines       \* bound on the lines all ranks write together

ASSUME ReaderAssumption ==
    Reader \in Threads /\ MaxSources \in Nat \ {0} /\ Exchanges \in Nat \ {0}

VARIABLES
    sources,      \* ObservationStream.expected_sources; 0: nobody observes
    lines,        \* per rank, the exchanges whose lines its file holds
    torn,         \* per rank, the exchange whose line is written in part, or 0
    at,           \* where the reader is
    path,         \* the directory of ObservationStream.path
    offset,       \* per rank, lines read
    unread,       \* ranks whose file this pass has still to open
    opened,       \* the rank whose file is open, or 0
    pending,      \* per exchange, the ranks whose record waits to be merged
    emitted,      \* this pass has yielded
    terminalSeen, \* an earlier pass found the run terminal
    delivered,    \* <<exchange, ranks>> of the records yielded
    twice         \* history: something was yielded a second time

fileVars == <<lines, torn>>
passVars == <<path, unread, opened, emitted, terminalSeen>>
recordVars == <<offset, pending, delivered, twice>>
readerVars == <<sources, fileVars, at, passVars, recordVars>>

Ranks == 1..sources
Index == 1..Exchanges
Observed == sources > 0

ReaderTypeOK ==
    /\ sources \in 0..MaxSources
    /\ lines \in [1..MaxSources -> Seq(Index)] /\ torn \in [1..MaxSources -> 0..Exchanges]
    /\ at \in {"follow", "read", "answer", "ended", "failed", "closed"}
    /\ path \in {Prepared, Final} /\ offset \in [1..MaxSources -> 0..Exchanges]
    /\ unread \subseteq 1..MaxSources /\ opened \in 0..MaxSources
    /\ pending \in [Index -> SUBSET (1..MaxSources)]
    /\ emitted \in BOOLEAN /\ terminalSeen \in BOOLEAN /\ twice \in BOOLEAN
    /\ delivered \subseteq Index \X SUBSET (1..MaxSources)

ReaderInit ==
    /\ sources \in 0..MaxSources
    /\ lines = [r \in 1..MaxSources |-> <<>>] /\ torn = [r \in 1..MaxSources |-> 0]
    /\ at = "follow" /\ path = Prepared /\ unread = {} /\ opened = 0
    /\ offset = [r \in 1..MaxSources |-> 0] /\ pending = [i \in Index |-> {}]
    /\ emitted = FALSE /\ terminalSeen = FALSE
    /\ delivered = {} /\ twice = FALSE
-----------------------------------------------------------------------------
(***************************************************************************)
(* The writer of a rank.  Its buffer drops records when it is full, so an  *)
(* exchange may have no line; a line reaches the file in parts.            *)
(***************************************************************************)
Latest(r) == IF lines[r] = <<>> THEN 0 ELSE lines[r][Len(lines[r])]

Written == MapThenSumSet(LAMBDA r : Len(lines[r]) + IF torn[r] = 0 THEN 0 ELSE 1, Ranks)

BeginLine(r, i) ==
    /\ torn[r] = 0 /\ i > Latest(r) /\ Written < Lines
    /\ torn' = [torn EXCEPT ![r] = i]
    /\ UNCHANGED <<sources, lines, at, passVars, recordVars>>

EndLine(r) ==
    /\ torn[r] # 0
    /\ lines' = [lines EXCEPT ![r] = Append(@, torn[r])]
    /\ torn' = [torn EXCEPT ![r] = 0]
    /\ UNCHANGED <<sources, at, passVars, recordVars>>
-----------------------------------------------------------------------------
(***************************************************************************)
(* The iterator.                                                           *)
(***************************************************************************)
Iterating == kernel = "alive" /\ Observed /\ process # "absent" /\ starter = Nobody
ReaderAt(label) == Iterating /\ at = label

\* _merge_records: what these ranks recorded of exchange i is yielded as one record.
Deliver(i, ranks) ==
    /\ delivered' = delivered \cup {<<i, ranks>>}
    /\ twice' = (twice \/ \E d \in delivered : d[1] = i /\ d[2] \cap ranks # {})

\* Mutant of Follow: offsets stay keyed by the old paths, so the files are new.
FollowAfresh ==
    /\ ReaderAt("follow")
    /\ path' = workDir
    /\ offset' = IF path = workDir THEN offset ELSE [r \in DOMAIN offset |-> 0]
    /\ unread' = IF Exists(workDir) THEN {r \in Ranks : lines[r] # <<>> \/ torn[r] # 0} ELSE {}
    /\ emitted' = FALSE /\ at' = "read"
    /\ UNCHANGED <<sources, fileVars, opened, terminalSeen, pending, delivered, twice>>

\* The head of the loop: the directory the handle names now is followed, offsets
\* and waiting records being carried over to it, and its files are listed.
Follow ==
    /\ ReaderAt("follow")
    /\ path' = workDir
    /\ unread' = IF Exists(workDir) THEN {r \in Ranks : lines[r] # <<>> \/ torn[r] # 0} ELSE {}
    /\ emitted' = FALSE /\ at' = "read"
    /\ UNCHANGED <<sources, fileVars, opened, terminalSeen, recordVars>>

\* close() sets a flag that only the head of the loop looks at: the consumer may
\* have called it by then.
Closed ==
    /\ ReaderAt("follow")
    /\ at' = "closed"
    /\ UNCHANGED <<sources, fileVars, passVars, recordVars>>

\* The files are opened in the order of their names; one that is gone is passed
\* over, an open one survives the rename of its directory.
OpenFile ==
    /\ ReaderAt("read") /\ opened = 0 /\ unread # {}
    /\ LET next == Min(unread)
       IN  /\ opened' = IF Exists(path) THEN next ELSE 0
           /\ unread' = unread \ {next}
    /\ UNCHANGED <<sources, fileVars, at, path, emitted, terminalSeen, recordVars>>

\* A complete line beyond the offset: its record is yielded, or waits until the
\* records of the exchange are complete.
ReadLine ==
    /\ ReaderAt("read") /\ opened # 0 /\ offset[opened] < Len(lines[opened])
    /\ offset' = [offset EXCEPT ![opened] = @ + 1]
    /\ LET i == lines[opened][offset[opened] + 1]
           group == pending[i] \cup {opened}
       IN  IF Cardinality(group) >= sources
           THEN /\ Deliver(i, group) /\ emitted' = TRUE
                /\ pending' = [pending EXCEPT ![i] = {}]
           ELSE pending' = [pending EXCEPT ![i] = group] /\ UNCHANGED <<delivered, twice, emitted>>
    /\ UNCHANGED <<sources, fileVars, at, path, unread, opened, terminalSeen>>

\* No complete line is left in the file.
LeaveFile ==
    /\ ReaderAt("read") /\ opened # 0 /\ offset[opened] >= Len(lines[opened])
    /\ opened' = 0
    /\ UNCHANGED <<sources, fileVars, at, path, unread, emitted, terminalSeen, recordVars>>

\* The loop is left: the groups that never completed are yielded as they are.
LastPass ==
    /\ at' = "ended"
    /\ delivered' = delivered \cup {<<i, pending[i]>> : i \in {j \in Index : pending[j] # {}}}
    /\ twice' = (twice \/ \E d \in delivered : d[2] \cap pending[d[1]] # {})
    /\ pending' = [i \in Index |-> {}]
    /\ UNCHANGED terminalSeen

AnotherPass(terminal) ==
    /\ at' = "follow" /\ terminalSeen' = (terminalSeen \/ terminal)
    /\ UNCHANGED <<delivered, twice, pending>>

\* Mutant of Judge: the loop is left only by a pass that yields something.
AwaitRecord(terminal) ==
    IF terminal /\ terminalSeen /\ emitted THEN LastPass ELSE AnotherPass(terminal)

\* What the loop does with the status: one pass more after the run was first
\* found terminal, and on until a pass yields nothing.
Judge(terminal) ==
    IF terminal /\ terminalSeen /\ ~emitted THEN LastPass ELSE AnotherPass(terminal)

\* run.status: answered at once, unless this thread has to finish the run.
Ask ==
    /\ ReaderAt("read") /\ opened = 0 /\ unread = {} /\ Status(Reader)
    /\ IF process = "exited" /\ ~Finished
       THEN at' = "answer" /\ UNCHANGED <<delivered, twice, pending, terminalSeen>>
       ELSE Judge(Finished)
    /\ UNCHANGED <<sources, fileVars, path, unread, opened, emitted, offset>>

\* The finish it started has returned: the run is found terminal for the first time
\* and one more pass is due.  Or its exception ends the iteration.
Answered ==
    /\ ReaderAt("answer") /\ pc[Reader] \in Ended
    /\ IF pc[Reader] = "raised"
       THEN at' = "failed" /\ UNCHANGED terminalSeen
            /\ UNCHANGED <<delivered, twice, pending>>
       ELSE AnotherPass(TRUE)
    /\ UNCHANGED <<sources, fileVars, path, unread, opened, emitted, offset>>

\* The kernel is gone, and with it all the reader knew.
ReaderGone ==
    /\ at' = "closed" /\ path' = Prepared /\ unread' = {} /\ opened' = 0
    /\ emitted' = FALSE /\ terminalSeen' = FALSE
    /\ offset' = [r \in DOMAIN offset |-> 0] /\ pending' = [i \in Index |-> {}]
    /\ delivered' = {} /\ twice' = FALSE
    /\ UNCHANGED <<sources, fileVars>>

ReaderSteps == Follow \/ OpenFile \/ ReadLine \/ LeaveFile \/ Answered
=============================================================================
