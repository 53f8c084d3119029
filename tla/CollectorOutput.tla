--------------------------- MODULE CollectorOutput ----------------------------
(***************************************************************************)
(* The main loop of collector-go/main.go and Emit in collector-go/output.go:*)
(* every window's rows go to features.csv, to features.jsonl and, in one    *)
(* POST with a timeout of 5 s, to the detector, which may score it after    *)
(* the collector gave up.  Writes fail or are cut short, and the process    *)
(* can be killed at any step.                                               *)
(*                                                                         *)
(* A line of a file is a row <<window, number>>, the header, Torn (cut off, *)
(* the file ends in it) or Bad (a torn line that a later write has ended).  *)
(***************************************************************************)
EXTENDS Naturals, SequencesExt

CONSTANTS
    Rows,          \* rows of a window
    MaxWindows,    \* bound: windows
    MaxErrors,     \* bound: failing writes
    MaxCrashes     \* bound: restarts

ASSUME OutputAssumption ==
    Rows \in Nat \ {0} /\ {MaxWindows, MaxErrors, MaxCrashes} \subseteq Nat

Header == <<0, 0>>
Torn   == <<0, 1>>
Bad    == <<0, 2>>

VARIABLES
    emitting,      \* where Emit is
    win,           \* windows drained so far, the last one being emitted
    csvExists, csv, jsonl,
    header,        \* writeCSV: statErr was IsNotExist
    wire,          \* windows posted, the detector has not dealt with yet
    replied,       \* windows whose response is on its way
    scored,        \* windows the detector scored, in order
    failed,        \* history: windows one of whose CSV writes failed
    errors, crashes

files  == <<csvExists, csv, jsonl>>
net    == <<wire, replied, scored>>
faulty == <<failed, errors, crashes>>
outputVars == <<emitting, win, header, files, net, faulty>>

OutputInit ==
    /\ emitting = "idle" /\ win = 0 /\ header = FALSE
    /\ csvExists = FALSE /\ csv = <<>> /\ jsonl = <<>>
    /\ wire = {} /\ replied = {} /\ scored = <<>>
    /\ failed = {} /\ errors = 0 /\ crashes = 0

-----------------------------------------------------------------------------
(* Appending to a file.                                                     *)

\* O_APPEND: the line goes after what is there, also after a torn line.
AppendLine(file, line) ==
    IF file # <<>> /\ Last(file) = Torn
    THEN Append(Front(file), IF line = Torn THEN Torn ELSE Bad)
    ELSE Append(file, line)

\* A torn line in lines can only be the last one, so that only the first of them
\* can meet another.
AppendLines(file, lines) ==
    IF lines = <<>> THEN file ELSE AppendLine(file, Head(lines)) \o Tail(lines)

\* What a write that is cut short can have added: some of the lines, and a part
\* of the next one.
CutShort(lines) ==
    {SubSeq(lines, 1, n) : n \in 0..(Len(lines) - 1)}
    \cup {Append(SubSeq(lines, 1, n), Torn) : n \in 0..(Len(lines) - 1)}

rows(w) == [r \in 1..Rows |-> <<w, r>>]

-----------------------------------------------------------------------------
(* The main loop.                                                           *)

Drained(full) ==
    /\ emitting = "idle" /\ win < MaxWindows
    /\ win' = win + 1
    /\ emitting' = IF full THEN "csv" ELSE "idle"
    /\ UNCHANGED <<header, files, net, faulty>>

\* The ticker fires: drain, then Emit, which returns at once without rows.
Window == \E full \in BOOLEAN : Drained(full)

\* Variant: the header goes to every file that was opened by this process.
OpenCsvHeader ==
    /\ emitting = "csv"
    /\ header' = TRUE /\ csvExists' = TRUE /\ emitting' = "flush"
    /\ UNCHANGED <<win, csv, jsonl, net, faulty>>

\* writeCSV: Stat, then OpenFile, which creates the file, then the writer gets
\* the header if the file was not there.
OpenCsv ==
    /\ emitting = "csv"
    /\ \/ header' = ~csvExists /\ csvExists' = TRUE /\ emitting' = "flush"
          /\ UNCHANGED <<failed, errors>>
       \/ /\ errors < MaxErrors /\ errors' = errors + 1
          /\ failed' = failed \cup {win} /\ emitting' = "jsonl"
          /\ UNCHANGED <<header, csvExists>>
    /\ UNCHANGED <<win, csv, jsonl, net, crashes>>

csvLines == (IF header THEN <<Header>> ELSE <<>>) \o rows(win)

\* Variant: the rows of a window are handed to the file only when the window has
\* been pushed.
FlushLate ==
    /\ emitting = "flush"
    /\ emitting' = "jsonl" /\ header' = FALSE
    /\ UNCHANGED <<win, files, net, faulty>>

\* cw.Flush: all of it, or an error after a part of it.
Flush ==
    /\ emitting = "flush"
    /\ \/ csv' = AppendLines(csv, csvLines) /\ UNCHANGED <<failed, errors>>
       \/ /\ errors < MaxErrors /\ errors' = errors + 1
          /\ failed' = failed \cup {win}
          /\ \E part \in CutShort(csvLines) : csv' = AppendLines(csv, part)
    /\ emitting' = "jsonl" /\ header' = FALSE
    /\ UNCHANGED <<win, csvExists, jsonl, net, crashes>>

\* One f.Write per row that may fail: those of P are cut short, those of S are
\* whole, of the others nothing was written.
SomeRows(w, S, P) ==
    FoldLeft(LAMBDA file, r : IF r \in S THEN AppendLine(file, <<w, r>>)
                              ELSE IF r \in P THEN AppendLine(file, Torn) ELSE file,
             jsonl, [r \in 1..Rows |-> r])

\* writeJSONL: a write that fails is not noticed, and the next row is tried.
WriteJsonl ==
    /\ emitting = "jsonl"
    /\ \/ jsonl' = AppendLines(jsonl, rows(win)) /\ UNCHANGED errors
       \/ /\ errors < MaxErrors /\ errors' = errors + 1
          /\ \E S, P \in SUBSET (1..Rows) : S # 1..Rows /\ jsonl' = SomeRows(win, S, P)
    /\ emitting' = "push"
    /\ UNCHANGED <<win, header, csvExists, csv, net, failed, crashes>>

\* push: the request goes out, or the connection fails; without a push URL
\* nothing is sent.
Push ==
    /\ emitting = "push"
    /\ \/ wire' = wire \cup {win} /\ emitting' = "wait"
       \/ emitting' = "idle" /\ UNCHANGED wire
    /\ UNCHANGED <<win, header, files, replied, scored, faulty>>

\* The response, of any status.
Response ==
    /\ emitting = "wait" /\ win \in replied
    /\ replied' = replied \ {win} /\ emitting' = "idle"
    /\ UNCHANGED <<win, header, files, wire, scored, faulty>>

\* Variant: a push that times out is sent again.
TimeoutRetries ==
    /\ emitting = "wait"
    /\ emitting' = "push"
    /\ UNCHANGED <<win, header, files, net, faulty>>

\* Variant: a client without a timeout.
TimeoutNever == emitting = "wait" /\ FALSE /\ UNCHANGED outputVars

\* client.Timeout, or the connection breaks: logged, and that was it.
Timeout ==
    /\ emitting = "wait"
    /\ emitting' = "idle"
    /\ UNCHANGED <<win, header, files, net, faulty>>

-----------------------------------------------------------------------------
(* The detector, the network and the container's restart policy.            *)

\* The detector scores a batch and answers.
ScoreBatch(w) ==
    /\ w \in wire
    /\ wire' = wire \ {w} /\ replied' = replied \cup {w} /\ scored' = Append(scored, w)
    /\ UNCHANGED <<emitting, win, header, files, faulty>>

\* The batch is lost, or refused with an error status.
Refuse(w) ==
    /\ w \in wire
    /\ wire' = wire \ {w}
    /\ replied' \in {replied, replied \cup {w}}
    /\ UNCHANGED <<emitting, win, header, files, scored, faulty>>

\* The process is killed, also inside a write, and starts again.  Its counters
\* and the window it was emitting are gone.
Kill ==
    /\ crashes < MaxCrashes /\ crashes' = crashes + 1
    /\ \/ UNCHANGED <<csv, jsonl>>
       \/ /\ emitting = "flush" /\ UNCHANGED jsonl
          /\ \E part \in CutShort(csvLines) : csv' = AppendLines(csv, part)
       \/ /\ emitting = "jsonl" /\ UNCHANGED csv
          /\ \E part \in CutShort(rows(win)) : jsonl' = AppendLines(jsonl, part)
    /\ emitting' = "idle" /\ header' = FALSE
    /\ failed' = IF emitting \in {"csv", "flush"} THEN failed \cup {win} ELSE failed
    /\ UNCHANGED <<win, csvExists, net, errors>>

EmitStep == OpenCsv \/ Flush \/ WriteJsonl \/ Push \/ Response \/ Timeout

OutputNext ==
    \/ Window \/ EmitStep \/ Kill
    \/ \E w \in wire : ScoreBatch(w) \/ Refuse(w)

\* The process runs, and the client's timer fires.
OutputSpec == OutputInit /\ [][OutputNext]_outputVars /\ WF_outputVars(EmitStep)

-----------------------------------------------------------------------------
(* Properties.                                                              *)

\* The detector scores a window at most once, though a push that timed out may
\* be scored late and the collector may restart (push does not retry).
ScoredOnce == IsInjective(scored)

\* A window that was scored can be found in features.csv: its rows are there
\* unless its own write failed, or its first row was glued to a line that an
\* earlier failure had torn (Emit writes the files before it pushes).
ScoredIsOnDisk ==
    \A w \in Range(scored) \ failed, r \in 1..Rows :
        <<w, r>> \in Range(csv) \/ (r = 1 /\ Bad \in Range(csv))

\* features.csv holds the windows in order and none twice, and a header only as
\* its first line, whatever writes failed and however often the collector
\* restarted (writeCSV).
CsvInOrder ==
    \A m, n \in 1..Len(csv) :
        /\ csv[n] = Header => n = 1
        /\ m < n /\ csv[m][1] # 0 /\ csv[n][1] # 0 =>
              csv[m][1] < csv[n][1] \/ (csv[m][1] = csv[n][1] /\ csv[m][2] < csv[n][2])

\* Emit always comes back to the main loop, even when the detector never
\* answers (client.Timeout).
EmitEnds == (emitting # "idle") ~> (emitting = "idle")

=============================================================================
