---------------------------- MODULE FeatureArchive ----------------------------
(***************************************************************************)
(* The durable feature archive of one detector replica                      *)
(* (detector/archive.py, FeatureArchive.append): threads of one process     *)
(* append the rows of their requests to the CSV file of the day.            *)
(*                                                                         *)
(* The path and write_header are computed before the lock is taken; the     *)
(* file is opened, given a header and written under it.  An OSError is      *)
(* swallowed.  A container restart keeps the files (persistent volume) and  *)
(* the host name, hence the file names.                                     *)
(***************************************************************************)
EXTENDS Naturals, Sequences, FiniteSets

CONSTANTS
    Threads,      \* threads of the process
    MaxDay,       \* bound: the UTC days of a behaviour are 1..MaxDay
    MaxAppends,   \* bound: calls of append
    MaxRows,      \* bound: records of one call
    MaxErrors,    \* bound: OSErrors
    MaxCrashes,   \* bound: container restarts
    Free          \* the lock's owner when nobody holds it

Days == 1..MaxDay
Requests == 1..MaxAppends

ASSUME ArchiveAssumption ==
    /\ MaxDay \in Nat \ {0}
    /\ MaxAppends \in Nat /\ MaxRows \in Nat \ {0}
    /\ MaxErrors \in Nat /\ MaxCrashes \in Nat
    /\ IsFiniteSet(Threads)
    /\ Free \notin Threads

VARIABLES
    today,          \* the UTC day
    exists,         \* days whose file exists
    content,        \* content[d]: lines of the file of day d
    lock,           \* _lock
    pc,
    path,           \* per thread: the day its path was computed for
    write_header,   \* per thread
    req,            \* per thread: number of the call
    len, next,      \* per thread: number of records, next record to write
    done,           \* calls that wrote all of their records
    appends, errors, crashes

file   == <<exists, content>>
locals == <<path, write_header, req, len, next>>
counts == <<appends, errors, crashes>>
vars   == <<today, file, lock, pc, locals, done, counts>>

\* A line: record i of call r, the header, or the torn end of a line.
Header == [req |-> 0, row |-> 0]
TornLine == [req |-> 0, row |-> 1]

Init ==
    /\ today = 1
    /\ exists = {} /\ content = [d \in Days |-> <<>>]
    /\ lock = Free
    /\ pc = [t \in Threads |-> "idle"]
    /\ path = [t \in Threads |-> 1]
    /\ write_header = [t \in Threads |-> FALSE]
    /\ req = [t \in Threads |-> 0]
    /\ len = [t \in Threads |-> 0] /\ next = [t \in Threads |-> 1]
    /\ done = {} /\ appends = 0 /\ errors = 0 /\ crashes = 0

Goto(t, l) == pc' = [pc EXCEPT ![t] = l]

\* append(records): the path of today's file.
AppendCall(t) ==
    /\ pc[t] = "idle" /\ appends < MaxAppends
    /\ appends' = appends + 1
    /\ req' = [req EXCEPT ![t] = appends + 1]
    /\ \E n \in 1..MaxRows : len' = [len EXCEPT ![t] = n]
    /\ next' = [next EXCEPT ![t] = 1]
    /\ path' = [path EXCEPT ![t] = today]
    /\ Goto(t, "stat")
    /\ UNCHANGED <<today, file, lock, write_header, done, errors, crashes>>

\* Variant: every call writes the header.
StatAlways(t) ==
    /\ pc[t] = "stat"
    /\ write_header' = [write_header EXCEPT ![t] = TRUE]
    /\ Goto(t, "lock")
    /\ UNCHANGED <<today, file, lock, path, req, len, next, done, counts>>

\* Variant: the test inverted.
StatInverted(t) ==
    /\ pc[t] = "stat"
    /\ write_header' = [write_header EXCEPT ![t] = path[t] \in exists]
    /\ Goto(t, "lock")
    /\ UNCHANGED <<today, file, lock, path, req, len, next, done, counts>>

\* write_header = not path.exists(), before the lock.
Stat(t) ==
    /\ pc[t] = "stat"
    /\ write_header' = [write_header EXCEPT ![t] = path[t] \notin exists]
    /\ Goto(t, "lock")
    /\ UNCHANGED <<today, file, lock, path, req, len, next, done, counts>>

\* Variant: the lock not honoured.
AcquireAnyway(t) ==
    /\ pc[t] = "lock"
    /\ lock' = t
    /\ Goto(t, "open")
    /\ UNCHANGED <<today, file, locals, done, counts>>

Acquire(t) ==
    /\ pc[t] = "lock" /\ lock = Free
    /\ lock' = t
    /\ Goto(t, "open")
    /\ UNCHANGED <<today, file, locals, done, counts>>

\* path.open("a") creates the file.
Open(t) ==
    /\ pc[t] = "open"
    /\ exists' = exists \cup {path[t]}
    /\ Goto(t, IF write_header[t] THEN "header" ELSE "rows")
    /\ UNCHANGED <<today, content, lock, locals, done, counts>>

\* A line reaches the file.  The writer is buffered, so lines may reach it as
\* late as the close; nobody else writes the file before then.
Write(t, line) ==
    content' = [content EXCEPT ![path[t]] = Append(@, line)]

WriteHeader(t) ==
    /\ pc[t] = "header"
    /\ Write(t, Header)
    /\ Goto(t, "rows")
    /\ UNCHANGED <<today, exists, lock, locals, done, counts>>

WriteRow(t) ==
    /\ pc[t] = "rows"
    /\ Write(t, [req |-> req[t], row |-> next[t]])
    /\ next' = [next EXCEPT ![t] = @ + 1]
    /\ Goto(t, IF next[t] = len[t] THEN "close" ELSE "rows")
    /\ UNCHANGED <<today, exists, lock, path, write_header, req, len, done, counts>>

\* The file is closed, the lock released.
Close(t) ==
    /\ pc[t] = "close"
    /\ lock' = Free
    /\ done' = done \cup {req[t]}
    /\ Goto(t, "idle")
    /\ UNCHANGED <<today, file, locals, counts>>

\* A write that fails may have put part of a line on disk.
Tears(t) ==
    \/ UNCHANGED content
    \/ pc[t] \in {"header", "rows"} /\ Write(t, TornLine)

\* Variant: an OSError leaves the lock held.
OSErrorKeepsLock(t) ==
    /\ pc[t] \in {"open", "header", "rows", "close"} /\ errors < MaxErrors
    /\ errors' = errors + 1
    /\ Tears(t)
    /\ Goto(t, "idle")
    /\ UNCHANGED <<today, exists, lock, locals, done, appends, crashes>>

\* "Archiving must never break scoring; drop silently on IO error."
OSError(t) ==
    /\ pc[t] \in {"open", "header", "rows", "close"} /\ errors < MaxErrors
    /\ errors' = errors + 1
    /\ Tears(t)
    /\ lock' = Free
    /\ Goto(t, "idle")
    /\ UNCHANGED <<today, exists, locals, done, appends, crashes>>

Midnight ==
    /\ today + 1 \in Days
    /\ today' = today + 1
    /\ UNCHANGED <<file, lock, pc, locals, done, counts>>

\* The container is killed and restarted: threads and lock are new.
Crash ==
    /\ crashes < MaxCrashes
    /\ crashes' = crashes + 1
    /\ IF lock = Free THEN UNCHANGED content ELSE Tears(lock)
    /\ lock' = Free
    /\ pc' = [t \in Threads |-> "idle"]
    /\ UNCHANGED <<today, exists, locals, done, appends, errors>>

Step(t) ==
    \/ Stat(t) \/ Acquire(t) \/ Open(t) \/ WriteHeader(t) \/ WriteRow(t)
    \/ Close(t) \/ OSError(t)

Next ==
    \/ \E t \in Threads : AppendCall(t) \/ Step(t)
    \/ Midnight
    \/ Crash

Spec == Init /\ [][Next]_vars

\* A thread that can run does (the OS schedules every thread of the pool).
FairSpec == Spec /\ \A t \in Threads : WF_vars(Step(t))

-----------------------------------------------------------------------------
(* Properties.                                                              *)

Headers(d) == {i \in DOMAIN content[d] : content[d][i] = Header}

\* A reader that takes the first line of a file for its header is right: the
\* first line written to a file is the header.
HeaderFirst == \A d \in Days : content[d] # <<>> => content[d][1] = Header

\* "Thread-safe within a process (multiple uvicorn workers share one writer
\* lock)" (archive.py:18): appends of several threads leave one header per file.
OneHeader == \A d \in Days : Cardinality(Headers(d)) <= 1

\* Without I/O errors and restarts the race on path.exists() costs no more than
\* extra headers: the header comes first, and a file gets at most one per thread.
HeadersUnlessFault ==
    errors + crashes = 0 =>
        HeaderFirst /\ \A d \in Days : Cardinality(Headers(d)) <= Cardinality(Threads)

\* The rows that calls of D left among the first lines of s: SelectSeq, as a
\* recursive function of the number of lines.
RowsOf(s, D) ==
    LET upTo[i \in 0..Len(s)] ==
            IF i = 0 THEN <<>>
            ELSE IF s[i].req \in D THEN Append(upTo[i - 1], s[i]) ELSE upTo[i - 1]
    IN  upTo

\* The rows of completed calls, as a reader that skips headers sees them.
CommittedLog == [d \in Days |-> RowsOf(content[d], done)[Len(content[d])]]

Log == INSTANCE ArchiveLog WITH log <- CommittedLog

\* A call's rows become part of the archive all at once, contiguous and in
\* order, at the release of the lock, and stay (FeatureArchive.append under
\* OSErrors, midnight and restarts).
AppendsAreAtomic == Log!Spec

\* The critical section always ends, also by an OSError.
LockReleased == \A t \in Threads : (lock = t) ~> (lock # t)

=============================================================================
