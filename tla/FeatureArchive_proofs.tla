------------------------ MODULE FeatureArchive_proofs ------------------------
(***************************************************************************)
(* Proofs about FeatureArchive, for any finite set of threads and any       *)
(* number of days, calls, records, OSErrors and restarts: the archive       *)
(* implements ArchiveLog, and without faults every file starts with its     *)
(* header and has at most one per thread.                                   *)
(*                                                                         *)
(* The refinement rests on mutual exclusion: between Acquire and the end of *)
(* the critical section only the holder writes, so the rows of its call are *)
(* the end of the file, in order, and Close commits exactly them.  What the *)
(* recursive function RowsOf computes is proved by induction on the number  *)
(* of lines.                                                                *)
(***************************************************************************)
EXTENDS FeatureArchive, SequenceTheorems, FiniteSetTheorems,
        WellFoundedInduction, TLAPS

\* Control points under the lock.
Critical == {"open", "header", "rows", "close"}

Line == [req : Nat, row : Nat]

ArchiveTypes ==
    /\ today \in Days /\ exists \subseteq Days
    /\ content \in [Days -> Seq(Line)]
    /\ lock \in Threads \cup {Free}
    /\ pc \in [Threads -> {"idle", "stat", "lock", "open", "header", "rows", "close"}]
    /\ path \in [Threads -> Days] /\ write_header \in [Threads -> BOOLEAN]
    /\ req \in [Threads -> Nat]
    /\ len \in [Threads -> Nat] /\ next \in [Threads -> Nat \ {0}]
    /\ done \subseteq 1..appends /\ appends \in 0..MaxAppends
    /\ errors \in Nat /\ crashes \in Nat

\* No line is of a call that is still to come.
LinesOld == \A d \in Days : \A i \in 1..Len(content[d]) : content[d][i].req <= appends

\* The lock is held exactly from Acquire to the end of the critical section.
Mutex == \A t \in Threads : pc[t] \in Critical <=> lock = t

\* Running calls are different calls, not yet committed, and know their progress.
Call(t) ==
    /\ req[t] \in 1..appends /\ req[t] \notin done
    /\ len[t] \in 1..MaxRows
    /\ pc[t] \in {"stat", "lock", "open", "header"} => next[t] = 1
    /\ pc[t] = "rows" => next[t] \in 1..len[t]
    /\ pc[t] = "close" => next[t] = len[t] + 1
    /\ \A u \in Threads : pc[u] # "idle" /\ req[u] = req[t] => u = t

Calls == \A t \in Threads : pc[t] # "idle" => Call(t)

\* The rows 1..k of call r are the end of s and its only ones.
Ends(s, r, k) ==
    /\ k \in 0..Len(s)
    /\ \A i \in 1..k : s[(Len(s) - k) + i] = [req |-> r, row |-> i]
    /\ \A i \in 1..(Len(s) - k) : s[i].req # r

\* The rows a running call has written are the end of its file, in order.
Contiguous ==
    \A t \in Threads : pc[t] # "idle" =>
        /\ Ends(content[path[t]], req[t], next[t] - 1)
        /\ \A d \in Days \ {path[t]} : \A i \in 1..Len(content[d]) : content[d][i].req # req[t]

ArchiveInv == ArchiveTypes /\ LinesOld /\ Mutex /\ Calls /\ Contiguous

\* The lines of a file are lines.
LEMMA LineTypes ==
    ASSUME ArchiveTypes, NEW d \in Days
    PROVE  /\ content[d] \in Seq(Line) /\ Len(content[d]) \in Nat
           /\ \A i \in 1..Len(content[d]) : content[d][i] \in Line /\ content[d][i].req \in Nat
<1>1. content[d] \in Seq(Line)
  BY DEF ArchiveTypes
<1>2. Len(content[d]) \in Nat /\ \A i \in 1..Len(content[d]) : content[d][i] \in Line
  BY <1>1, LenProperties, ElementOfSeq
<1> QED BY <1>1, <1>2 DEF Line

\* A line that is written is the last of its file (archive.py:54-60).
LEMMA LineAdded ==
    ASSUME ArchiveTypes, NEW d \in Days, NEW e \in Line,
           content' = [content EXCEPT ![d] = Append(@, e)]
    PROVE  /\ content' \in [Days -> Seq(Line)]
           /\ Len(content'[d]) = Len(content[d]) + 1
           /\ content'[d][Len(content[d]) + 1] = e
           /\ \A i \in 1..Len(content[d]) : content'[d][i] = content[d][i]
           /\ \A c \in Days \ {d} : content'[c] = content[c]
           /\ content'[d] # <<>>
<1>1. content \in [Days -> Seq(Line)] /\ content[d] \in Seq(Line)
  BY DEF ArchiveTypes
<1>2. content'[d] = Append(content[d], e) /\ \A c \in Days \ {d} : content'[c] = content[c]
  BY <1>1
<1>3. Append(content[d], e) \in Seq(Line)
  BY <1>1, AppendProperties
<1>4. content' \in [Days -> Seq(Line)]
  BY <1>1, <1>3
<1> QED BY <1>1, <1>2, <1>4, AppendProperties

\* Adding the call's next row, or a line of another call before its first.
LEMMA EndsAdd ==
    ASSUME NEW s \in Seq(Line), NEW u \in Seq(Line), NEW r \in Nat, NEW k \in Nat, Ends(s, r, k),
           Len(u) = Len(s) + 1, \A i \in 1..Len(s) : u[i] = s[i]
    PROVE  /\ u[Len(s) + 1] = [req |-> r, row |-> k + 1] => Ends(u, r, k + 1)
           /\ k = 0 /\ u[Len(s) + 1].req # r => Ends(u, r, 0)
<1> DEFINE L == Len(s)
<1>0. L \in Nat /\ k <= L
  BY LenProperties DEF Ends
<1>1. ASSUME u[L + 1] = [req |-> r, row |-> k + 1] PROVE Ends(u, r, k + 1)
  <2>1. Len(u) - (k + 1) = L - k
    BY <1>0
  <2>2. ASSUME NEW i \in 1..(k + 1) PROVE u[(L - k) + i] = [req |-> r, row |-> i]
    <3>1. CASE i = k + 1
      BY <1>0, <1>1, <3>1
    <3>2. CASE i # k + 1
      <4>1. i \in 1..k /\ (L - k) + i \in 1..L
        BY <1>0, <3>2
      <4> QED BY <4>1 DEF Ends
    <3> QED BY <3>1, <3>2
  <2>3. ASSUME NEW i \in 1..(L - k) PROVE u[i].req # r
    BY <1>0 DEF Ends
  <2>4. k + 1 \in 0..Len(u)
    BY <1>0
  <2> QED BY <2>1, <2>2, <2>3, <2>4 DEF Ends
<1>2. ASSUME k = 0, u[L + 1].req # r PROVE Ends(u, r, 0)
  BY <1>0, <1>2 DEF Ends
<1> QED BY <1>1, <1>2

\* A detector starts with no file of its own (archive.py, FeatureArchive.__init__).
LEMMA ArchiveInit == Init => ArchiveInv
<1> SUFFICES ASSUME Init PROVE ArchiveInv
  OBVIOUS
<1> USE ArchiveAssumption DEF Init
<1>1. ArchiveTypes
  BY DEF ArchiveTypes, Days
<1>2. LinesOld /\ Mutex /\ Calls /\ Contiguous
  BY DEF LinesOld, Mutex, Calls, Contiguous, Critical
<1> QED BY <1>1, <1>2 DEF ArchiveInv

\* A line that no running call but the writer's may claim.
LEMMA LinesOfOthers ==
    ASSUME ArchiveInv, NEW t \in Threads, lock = t, NEW e \in Line,
           content' = [content EXCEPT ![path[t]] = Append(@, e)],
           e.req <= appends,
           NEW u \in Threads, u # t, pc[u] # "idle", e.req # req[u]
    PROVE  /\ Ends(content'[path[u]], req[u], next[u] - 1)
           /\ \A d \in Days \ {path[u]} : \A i \in 1..Len(content'[d]) : content'[d][i].req # req[u]
<1> DEFINE p == path[t]
<1>1. p \in Days /\ path[u] \in Days /\ req[u] \in Nat /\ \A d \in Days : content[d] \in Seq(Line)
  BY DEF ArchiveInv, ArchiveTypes
<1>2. next[u] = 1
  BY DEF ArchiveInv, ArchiveTypes, Mutex, Critical, Calls, Call
<1>3. Ends(content[path[u]], req[u], 0)
  BY <1>2 DEF ArchiveInv, Contiguous
<1>4. /\ content' \in [Days -> Seq(Line)]
      /\ Len(content'[p]) = Len(content[p]) + 1
      /\ content'[p][Len(content[p]) + 1] = e
      /\ \A i \in 1..Len(content[p]) : content'[p][i] = content[p][i]
      /\ \A c \in Days \ {p} : content'[c] = content[c]
  BY <1>1, LineAdded DEF ArchiveInv
<1>5. Ends(content'[path[u]], req[u], 0)
  <2>1. CASE path[u] = p
    <3>1. content[p] \in Seq(Line) /\ content'[p] \in Seq(Line) /\ 0 \in Nat
      BY <1>1, <1>4
    <3>2. content'[p][Len(content[p]) + 1].req # req[u]
      BY <1>4
    <3>3. Ends(content[p], req[u], 0)
      BY <1>3, <2>1
    <3> HIDE DEF p
    <3>4. Ends(content'[p], req[u], 0)
      BY <1>1, <1>4, <3>1, <3>2, <3>3, EndsAdd
    <3> QED BY <2>1, <3>4
  <2>2. CASE path[u] # p
    BY <1>1, <1>3, <1>4, <2>2
  <2> QED BY <2>1, <2>2
<1>6. ASSUME NEW d \in Days \ {path[u]}, NEW i \in 1..Len(content'[d])
      PROVE  content'[d][i].req # req[u]
  <2>1. \A j \in 1..Len(content[d]) : content[d][j].req # req[u]
    BY DEF ArchiveInv, Contiguous
  <2>2. CASE d = p
    <3>1. Len(content[d]) \in Nat
      BY <1>1, LenProperties
    <3>2. i \in 1..Len(content[d]) \/ i = Len(content[d]) + 1
      BY <1>4, <2>2, <3>1
    <3> QED BY <1>4, <2>1, <2>2, <3>2
  <2>3. CASE d # p
    BY <1>4, <2>1, <2>3
  <2> QED BY <2>2, <2>3
<1> QED BY <1>2, <1>5, <1>6

-----------------------------------------------------------------------------

\* A failing write leaves the file as it is or adds one torn line.
LEMMA TearsAdds ==
    ASSUME ArchiveTypes, NEW t \in Threads, Tears(t)
    PROVE  \/ content' = content
           \/ content' = [content EXCEPT ![path[t]] = Append(@, TornLine)]
BY DEF Tears, Write

\* Lines written by a failing step belong to no call.
LEMMA OldStays ==
    ASSUME ArchiveInv, NEW d \in Days, NEW e \in Line, e.req <= appends,
           content' = [content EXCEPT ![d] = Append(@, e)]
    PROVE  \A c \in Days : \A i \in 1..Len(content'[c]) : content'[c][i].req <= appends
<1>1. /\ Len(content'[d]) = Len(content[d]) + 1
      /\ content'[d][Len(content[d]) + 1] = e
      /\ \A i \in 1..Len(content[d]) : content'[d][i] = content[d][i]
      /\ \A c \in Days \ {d} : content'[c] = content[c]
  BY LineAdded DEF ArchiveInv
<1>2. Len(content[d]) \in Nat
  BY LenProperties DEF ArchiveInv, ArchiveTypes
<1>3. \A i \in 1..Len(content'[d]) : i \in 1..Len(content[d]) \/ i = Len(content[d]) + 1
  BY <1>1, <1>2
<1> QED BY <1>1, <1>3 DEF ArchiveInv, LinesOld

\* Every step of append, midnight and a restart keep the invariant.
LEMMA ArchiveStep == ArchiveInv /\ [Next]_vars => ArchiveInv'
<1> SUFFICES ASSUME ArchiveInv, [Next]_vars PROVE ArchiveInv'
  OBVIOUS
<1> USE ArchiveAssumption DEF ArchiveInv
<1>H. Header \in Line /\ TornLine \in Line /\ Header.req = 0 /\ TornLine.req = 0 /\ appends \in Nat
  BY DEF Header, TornLine, Line, ArchiveTypes
<1>1. ASSUME NEW t \in Threads, AppendCall(t) PROVE ArchiveInv'
  <2>1. ArchiveTypes'
    BY <1>1 DEF AppendCall, ArchiveTypes, Goto, file
  <2>2. LinesOld'
    BY <1>1, <1>H, LineTypes DEF AppendCall, LinesOld, file
  <2>3. Mutex'
    BY <1>1 DEF AppendCall, Mutex, ArchiveTypes, Goto, Critical
  <2>4. Calls'
    <3> SUFFICES ASSUME NEW u \in Threads, pc'[u] # "idle" PROVE Call(u)'
      BY DEF Calls
    <3>1. /\ req' = [req EXCEPT ![t] = appends + 1] /\ next' = [next EXCEPT ![t] = 1]
          /\ pc' = [pc EXCEPT ![t] = "stat"] /\ appends' = appends + 1
          /\ \A v \in Threads \ {t} : len'[v] = len[v]
          /\ len'[t] \in 1..MaxRows /\ done' = done
      BY <1>1 DEF AppendCall, Goto, ArchiveTypes
    <3>2. done \subseteq 1..appends /\ \A v \in Threads : pc[v] # "idle" => req[v] \in 1..appends
      BY DEF ArchiveTypes, Calls, Call
    <3>3. CASE u = t
      <4>1. req'[u] = appends + 1 /\ next'[u] = 1 /\ pc'[u] = "stat"
        BY <3>1, <3>3 DEF ArchiveTypes
      <4>2. \A v \in Threads : pc'[v] # "idle" /\ req'[v] = req'[u] => v = u
        BY <1>H, <3>1, <3>2, <3>3, <4>1 DEF ArchiveTypes
      <4> QED BY <1>H, <3>1, <3>2, <3>3, <4>1, <4>2 DEF Call
    <3>4. CASE u # t
      <4>1. req'[u] = req[u] /\ next'[u] = next[u] /\ pc'[u] = pc[u] /\ len'[u] = len[u] /\ Call(u)
        BY <3>1, <3>4 DEF ArchiveTypes, Calls
      <4>2. req[u] # appends + 1 /\ req[u] \in 1..(appends + 1)
        BY <1>H, <3>2, <3>4, <4>1
      <4>3. \A v \in Threads : pc'[v] # "idle" /\ req'[v] = req'[u] => v = u
        BY <3>1, <4>1, <4>2 DEF ArchiveTypes, Call
      <4> QED BY <3>1, <4>1, <4>2, <4>3 DEF Call
    <3> QED BY <3>3, <3>4
  <2>5. Contiguous'
    <3> SUFFICES ASSUME NEW u \in Threads, pc'[u] # "idle"
                 PROVE  /\ Ends(content'[path'[u]], req'[u], next'[u] - 1)
                        /\ \A d \in Days \ {path'[u]} : \A i \in 1..Len(content'[d]) : content'[d][i].req # req'[u]
      BY DEF Contiguous
    <3>1. CASE u = t
      <4>1. req'[u] = appends + 1 /\ next'[u] = 1 /\ content' = content /\ path'[u] \in Days
        BY <1>1, <3>1 DEF AppendCall, ArchiveTypes, file
      <4>2. \A d \in Days : Len(content[d]) \in Nat /\ \A i \in 1..Len(content[d]) : content[d][i].req # appends + 1
        BY <1>H, LineTypes DEF LinesOld
      <4> QED BY <4>1, <4>2 DEF Ends
    <3>2. CASE u # t
      BY <1>1, <3>2 DEF AppendCall, ArchiveTypes, Contiguous, Goto, file
    <3> QED BY <3>1, <3>2
  <2> QED BY <2>1, <2>2, <2>3, <2>4, <2>5
<1>2. ASSUME NEW t \in Threads, Stat(t) PROVE ArchiveInv'
  <2>1. ArchiveTypes'
    BY <1>2 DEF Stat, ArchiveTypes, Goto, counts, file
  <2>2. LinesOld' /\ Mutex'
    BY <1>2 DEF Stat, ArchiveTypes, LinesOld, Mutex, Goto, counts, file, Critical
  <2>3. Calls'
    BY <1>2 DEF Stat, ArchiveTypes, Calls, Call, Goto, counts, file
  <2>4. Contiguous'
    BY <1>2 DEF Stat, ArchiveTypes, Contiguous, Goto, counts, file
  <2> QED BY <2>1, <2>2, <2>3, <2>4
<1>3. ASSUME NEW t \in Threads, Acquire(t) PROVE ArchiveInv'
  <2>1. ArchiveTypes'
    BY <1>3 DEF Acquire, ArchiveTypes, Goto, counts, file, locals
  <2>2. LinesOld' /\ Mutex'
    BY <1>3 DEF Acquire, ArchiveTypes, LinesOld, Mutex, Goto, counts, file, locals, Critical
  <2>3. Calls'
    BY <1>3 DEF Acquire, ArchiveTypes, Calls, Call, Goto, counts, file, locals
  <2>4. Contiguous'
    BY <1>3 DEF Acquire, ArchiveTypes, Contiguous, Goto, counts, file, locals
  <2> QED BY <2>1, <2>2, <2>3, <2>4
<1>4. ASSUME NEW t \in Threads, Open(t) PROVE ArchiveInv'
  <2>1. ArchiveTypes'
    BY <1>4 DEF Open, ArchiveTypes, Goto, counts, locals
  <2>2. LinesOld' /\ Mutex'
    BY <1>4 DEF Open, ArchiveTypes, LinesOld, Mutex, Goto, counts, locals, Critical
  <2>3. Calls'
    <3>1. /\ pc' = [pc EXCEPT ![t] = IF write_header[t] THEN "header" ELSE "rows"]
          /\ pc[t] = "open" /\ UNCHANGED <<req, len, next, done, appends>>
      BY <1>4 DEF Open, Goto, counts, locals
    <3>2. \A v \in Threads : pc'[v] # "idle" <=> pc[v] # "idle"
      BY <3>1 DEF ArchiveTypes
    <3> SUFFICES ASSUME NEW u \in Threads, pc'[u] # "idle" PROVE Call(u)'
      BY DEF Calls
    <3>3. Call(u)
      BY <3>2 DEF Calls
    <3>4. CASE u = t
      <4>1. (pc'[u] = "header" \/ pc'[u] = "rows") /\ next[u] = 1 /\ len[u] \in 1..MaxRows
        BY <3>1, <3>3, <3>4 DEF ArchiveTypes, Call
      <4> QED BY <3>1, <3>2, <3>3, <4>1 DEF Call
    <3>5. CASE u # t
      <4>1. pc'[u] = pc[u]
        BY <3>1, <3>5 DEF ArchiveTypes
      <4> QED BY <3>1, <3>2, <3>3, <4>1 DEF Call
    <3> QED BY <3>4, <3>5
  <2>4. Contiguous'
    <3>1. UNCHANGED <<content, path, req, next>> /\ pc[t] = "open"
          /\ \A v \in Threads \ {t} : pc'[v] = pc[v]
      BY <1>4 DEF Open, Goto, locals, ArchiveTypes
    <3>2. \A v \in Threads : pc'[v] # "idle" => pc[v] # "idle"
      BY <3>1
    <3> QED BY <3>1, <3>2 DEF Contiguous
  <2> QED BY <2>1, <2>2, <2>3, <2>4
<1>5. ASSUME NEW t \in Threads, WriteHeader(t) PROVE ArchiveInv'
  <2>1. content' = [content EXCEPT ![path[t]] = Append(@, Header)] /\ path[t] \in Days /\ lock = t
    BY <1>5 DEF WriteHeader, Write, ArchiveTypes, Mutex, Critical
  <2>2. UNCHANGED <<today, exists, lock, locals, done, counts>> /\ pc' = [pc EXCEPT ![t] = "rows"]
    BY <1>5 DEF WriteHeader, Goto
  <2>3. ArchiveTypes'
    BY <1>H, <2>1, <2>2, LineAdded DEF ArchiveTypes, locals, counts
  <2>4. LinesOld'
    BY <1>H, <2>1, <2>2, OldStays DEF LinesOld, counts
  <2>5. Mutex' /\ Calls'
    BY <1>5, <2>2
       DEF WriteHeader, ArchiveTypes, Mutex, Calls, Call, Critical, locals, counts
  <2>6. Contiguous'
    <3> SUFFICES ASSUME NEW u \in Threads, pc'[u] # "idle"
                 PROVE  /\ Ends(content'[path[u]], req[u], next[u] - 1)
                        /\ \A d \in Days \ {path[u]} : \A i \in 1..Len(content'[d]) : content'[d][i].req # req[u]
      BY <2>2 DEF Contiguous, locals
    <3>1. pc[u] # "idle"
      BY <1>5, <2>2 DEF WriteHeader, ArchiveTypes
    <3>2. CASE u # t
      <4>1. Header.req # req[u] /\ Header.req <= appends
        BY <1>H, <3>1 DEF Calls, Call
      <4> QED BY <1>H, <2>1, <3>1, <3>2, <4>1, LinesOfOthers
    <3>3. CASE u = t
      <4>1. next[t] = 1 /\ req[t] \in Nat /\ req[t] # 0 /\ pc[t] # "idle"
        BY <1>5 DEF WriteHeader, Calls, Call, ArchiveTypes
      <4>2. Ends(content[path[t]], req[t], 0)
        BY <4>1 DEF Contiguous
      <4>3. /\ content[path[t]] \in Seq(Line) /\ content'[path[t]] \in Seq(Line)
            /\ Len(content'[path[t]]) = Len(content[path[t]]) + 1
            /\ content'[path[t]][Len(content[path[t]]) + 1] = Header
            /\ \A i \in 1..Len(content[path[t]]) : content'[path[t]][i] = content[path[t]][i]
            /\ \A d \in Days \ {path[t]} : content'[d] = content[d]
        BY <1>H, <2>1, LineAdded DEF ArchiveTypes
      <4>4. Ends(content'[path[t]], req[t], 0)
        BY <1>H, <4>1, <4>2, <4>3, EndsAdd
      <4> QED BY <3>3, <4>1, <4>3, <4>4 DEF Contiguous
    <3> QED BY <3>2, <3>3
  <2> QED BY <2>3, <2>4, <2>5, <2>6
<1>6. ASSUME NEW t \in Threads, WriteRow(t) PROVE ArchiveInv'
  <2> DEFINE e == [req |-> req[t], row |-> next[t]]
  <2>1. /\ content' = [content EXCEPT ![path[t]] = Append(@, e)] /\ path[t] \in Days /\ lock = t
        /\ e \in Line /\ e.req = req[t] /\ req[t] \in 1..appends /\ pc[t] # "idle"
        /\ next[t] \in 1..len[t]
    BY <1>6 DEF WriteRow, Write, ArchiveTypes, Mutex, Critical, Calls, Call, Line
  <2>2. /\ UNCHANGED <<today, exists, lock, path, write_header, req, len, done, counts>>
        /\ pc' = [pc EXCEPT ![t] = IF next[t] = len[t] THEN "close" ELSE "rows"]
        /\ next' = [next EXCEPT ![t] = @ + 1]
    BY <1>6 DEF WriteRow, Goto
  <2> HIDE DEF e
  <2>3. ArchiveTypes'
    <3>1. content' \in [Days -> Seq(Line)]
      BY <2>1, LineAdded
    <3>2. next' \in [Threads -> Nat \ {0}] /\ pc' \in [Threads -> {"idle", "stat", "lock", "open", "header", "rows", "close"}]
      BY <2>2 DEF ArchiveTypes
    <3> QED BY <2>2, <3>1, <3>2 DEF ArchiveTypes, counts
  <2>4. LinesOld'
    BY <1>H, <2>1, <2>2, OldStays DEF LinesOld, counts
  <2>5. Mutex'
    BY <1>6, <2>2 DEF WriteRow, ArchiveTypes, Mutex, Critical
  <2>6. Calls'
    BY <1>6, <2>1, <2>2 DEF WriteRow, ArchiveTypes, Calls, Call, counts
  <2>7. Contiguous'
    <3> SUFFICES ASSUME NEW u \in Threads, pc'[u] # "idle"
                 PROVE  /\ Ends(content'[path[u]], req[u], next'[u] - 1)
                        /\ \A d \in Days \ {path[u]} : \A i \in 1..Len(content'[d]) : content'[d][i].req # req[u]
      BY <2>2 DEF Contiguous
    <3>1. pc[u] # "idle"
      BY <2>1, <2>2 DEF ArchiveTypes
    <3>2. CASE u # t
      <4>1. next'[u] = next[u] /\ req[u] # req[t]
        BY <2>1, <2>2, <3>1, <3>2 DEF ArchiveTypes, Calls, Call
      <4>2. e.req # req[u] /\ e.req <= appends
        BY <1>H, <2>1, <4>1
      <4> QED BY <2>1, <3>1, <3>2, <4>1, <4>2, LinesOfOthers
    <3>3. CASE u = t
      <4>0. req[t] \in Nat /\ next[t] \in Nat \ {0} /\ next \in [Threads -> Nat \ {0}]
        BY DEF ArchiveTypes
      <4>1. next'[t] = next[t] + 1 /\ req[t] \in Nat /\ next[t] - 1 \in Nat /\ next[t] \in Nat
        <5>1. next'[t] = next[t] + 1
          BY <2>2, <4>0
        <5> QED BY <4>0, <5>1
      <4>2. Ends(content[path[t]], req[t], next[t] - 1)
        BY <2>1 DEF Contiguous
      <4>3. /\ content[path[t]] \in Seq(Line) /\ content'[path[t]] \in Seq(Line)
            /\ Len(content'[path[t]]) = Len(content[path[t]]) + 1
            /\ content'[path[t]][Len(content[path[t]]) + 1] = e
            /\ \A i \in 1..Len(content[path[t]]) : content'[path[t]][i] = content[path[t]][i]
            /\ \A d \in Days \ {path[t]} : content'[d] = content[d]
        BY <1>H, <2>1, LineAdded DEF ArchiveTypes
      <4>4. e = [req |-> req[t], row |-> (next[t] - 1) + 1]
        BY <4>1 DEF e, ArchiveTypes
      <4>5. Ends(content'[path[t]], req[t], (next[t] - 1) + 1)
        BY <4>1, <4>2, <4>3, <4>4, EndsAdd
      <4>6. (next[t] - 1) + 1 = next'[t] - 1
        BY <4>1
      <4> QED BY <2>1, <3>3, <4>3, <4>5, <4>6 DEF Contiguous
    <3> QED BY <3>2, <3>3
  <2> QED BY <2>3, <2>4, <2>5, <2>6, <2>7
<1>7. ASSUME NEW t \in Threads, Close(t) PROVE ArchiveInv'
  <2>1. ArchiveTypes' /\ LinesOld'
    BY <1>7 DEF Close, ArchiveTypes, LinesOld, Calls, Call, Goto, file, counts, locals
  <2>2. Mutex'
    BY <1>7 DEF Close, ArchiveTypes, Mutex, Goto, Critical
  <2>3. Calls'
    <3> SUFFICES ASSUME NEW u \in Threads, pc'[u] # "idle" PROVE Call(u)'
      BY DEF Calls
    <3>1. u # t /\ pc'[u] = pc[u] /\ pc[t] # "idle" /\ UNCHANGED <<locals, counts>> /\ done' = done \cup {req[t]}
      BY <1>7 DEF Close, Goto, ArchiveTypes
    <3>2. Call(u) /\ req[u] # req[t]
      BY <3>1 DEF Calls, Call
    <3>3. \A v \in Threads : pc'[v] # "idle" => pc[v] # "idle"
      BY <1>7 DEF Close, Goto, ArchiveTypes
    <3> QED BY <3>1, <3>2, <3>3 DEF Call, locals, counts
  <2>4. Contiguous'
    BY <1>7 DEF Close, ArchiveTypes, Contiguous, Goto, file, locals
  <2> QED BY <2>1, <2>2, <2>3, <2>4
<1>8. ASSUME NEW t \in Threads, OSError(t) PROVE ArchiveInv'
  <2>1. /\ path[t] \in Days /\ lock = t /\ pc' = [pc EXCEPT ![t] = "idle"] /\ lock' = Free
        /\ UNCHANGED <<today, exists, locals, done, appends, crashes>> /\ errors' = errors + 1
    BY <1>8 DEF OSError, Goto, ArchiveTypes, Mutex, Critical
  <2>2. \/ content' = content
        \/ content' = [content EXCEPT ![path[t]] = Append(@, TornLine)]
    BY <1>8, TearsAdds DEF OSError
  <2>3. content' \in [Days -> Seq(Line)]
    BY <1>H, <2>1, <2>2, LineAdded DEF ArchiveTypes
  <2>4. ArchiveTypes'
    BY <2>1, <2>3 DEF ArchiveTypes, locals
  <2>5. LinesOld'
    <3>1. CASE content' = content
      BY <2>1, <3>1 DEF LinesOld
    <3>2. CASE content' = [content EXCEPT ![path[t]] = Append(@, TornLine)]
      BY <1>H, <2>1, <3>2, OldStays DEF LinesOld
    <3> QED BY <2>2, <3>1, <3>2
  <2>6. Mutex'
    BY <2>1 DEF ArchiveTypes, Mutex, Critical
  <2>7. Calls'
    BY <2>1 DEF ArchiveTypes, Calls, Call, locals
  <2>8. Contiguous'
    <3> SUFFICES ASSUME NEW u \in Threads, pc'[u] # "idle"
                 PROVE  /\ Ends(content'[path[u]], req[u], next[u] - 1)
                        /\ \A d \in Days \ {path[u]} : \A i \in 1..Len(content'[d]) : content'[d][i].req # req[u]
      BY <2>1 DEF Contiguous, locals
    <3>1. pc[u] # "idle" /\ u # t
      BY <2>1 DEF ArchiveTypes
    <3>2. CASE content' = content
      BY <3>1, <3>2 DEF Contiguous
    <3>3. CASE content' = [content EXCEPT ![path[t]] = Append(@, TornLine)]
      <4>1. TornLine.req # req[u] /\ TornLine.req <= appends
        BY <1>H, <3>1 DEF Calls, Call
      <4> QED BY <1>H, <2>1, <3>1, <3>3, <4>1, LinesOfOthers
    <3> QED BY <2>2, <3>2, <3>3
  <2> QED BY <2>4, <2>5, <2>6, <2>7, <2>8
<1>9. CASE Midnight \/ UNCHANGED vars
  <2>1. UNCHANGED <<file, lock, pc, locals, done, counts>> /\ today' \in Days
    BY <1>9 DEF Midnight, vars, ArchiveTypes
  <2>2. ArchiveTypes'
    BY <2>1 DEF ArchiveTypes, file, locals, counts
  <2>3. LinesOld' /\ Mutex' /\ Calls' /\ Contiguous'
    BY <2>1 DEF LinesOld, Mutex, Calls, Call, Contiguous, file, locals, counts
  <2> QED BY <2>2, <2>3
<1>10. CASE Crash
  <2>1. /\ pc' = [t \in Threads |-> "idle"] /\ lock' = Free
        /\ UNCHANGED <<today, exists, locals, done, appends, errors>> /\ crashes' = crashes + 1
    BY <1>10 DEF Crash
  <2>2. \/ content' = content
        \/ lock \in Threads /\ content' = [content EXCEPT ![path[lock]] = Append(@, TornLine)]
    BY <1>10, TearsAdds DEF Crash, ArchiveTypes
  <2>3. content' \in [Days -> Seq(Line)]
    BY <1>H, <2>1, <2>2, LineAdded DEF ArchiveTypes
  <2>4. ArchiveTypes'
    BY <2>1, <2>3 DEF ArchiveTypes, locals
  <2>5. LinesOld'
    <3>1. CASE content' = content
      BY <2>1, <3>1 DEF LinesOld
    <3>2. CASE lock \in Threads /\ content' = [content EXCEPT ![path[lock]] = Append(@, TornLine)]
      <4>1. path[lock] \in Days /\ appends' = appends /\ TornLine.req <= appends
        BY <1>H, <2>1, <3>2 DEF ArchiveTypes
      <4> QED BY <1>H, <3>2, <4>1, OldStays DEF LinesOld
    <3> QED BY <2>2, <3>1, <3>2
  <2>6. Mutex' /\ Calls' /\ Contiguous'
    BY <2>1 DEF Mutex, Calls, Contiguous, Critical
  <2> QED BY <2>4, <2>5, <2>6
<1> QED
  BY <1>1, <1>2, <1>3, <1>4, <1>5, <1>6, <1>7, <1>8, <1>9, <1>10 DEF Next, Step

\* The invariant holds of every behaviour (FeatureArchive.append).
LEMMA ArchiveInvariant == Spec => []ArchiveInv
BY ArchiveInit, ArchiveStep, PTL DEF Spec

-----------------------------------------------------------------------------
(* RowsOf is what its recursive definition says.                            *)

\* Induction, for a set of numbers.
LEMMA NatSetInduction ==
    ASSUME NEW T, 0 \in T, \A n \in Nat : n \in T => n + 1 \in T
    PROVE  Nat \subseteq T
<1> SUFFICES ASSUME Nat \ T # {} PROVE FALSE
  OBVIOUS
<1> DEFINE R == OpToRel(<, Nat)
<1>1. PICK x \in Nat \ T : \A y \in Nat \ T : <<y, x>> \notin R
  <2>1. IsWellFoundedOn(R, Nat)
    BY NatLessThanWellFounded
  <2> HIDE DEF R
  <2> QED BY <2>1, WFMin
<1>2. x # 0 /\ x - 1 \in Nat
  OBVIOUS
<1>3. x - 1 \in T
  <2>1. <<x - 1, x>> \in R
    BY <1>2 DEF OpToRel
  <2> QED BY <1>1, <1>2, <2>1
<1> QED BY <1>2, <1>3

\* One step of the recursion.
NextRow(s, D, f, i) ==
    IF i = 0 THEN <<>>
    ELSE IF s[i].req \in D THEN Append(f[i - 1], s[i]) ELSE f[i - 1]

\* A function that satisfies the recursion exists.
LEMMA RowsOfExists ==
    ASSUME NEW s, NEW D
    PROVE  \A n \in Nat : \E f : f = [i \in 0..n |-> NextRow(s, D, f, i)]
<1> DEFINE T == {n \in Nat : \E f : f = [i \in 0..n |-> NextRow(s, D, f, i)]}
<1>1. 0 \in T
  <2> DEFINE f == [i \in 0..0 |-> <<>>]
  <2>1. f = [i \in 0..0 |-> NextRow(s, D, f, i)]
    BY DEF NextRow
  <2> QED BY <2>1
<1>2. ASSUME NEW n \in Nat, n \in T PROVE n + 1 \in T
  <2>1. PICK f : f = [i \in 0..n |-> NextRow(s, D, f, i)]
    BY <1>2
  <2> DEFINE g == [i \in 0..(n + 1) |->
                      IF i = n + 1 THEN NextRow(s, D, f, n + 1) ELSE f[i]]
  <2>2. ASSUME NEW i \in 0..(n + 1) PROVE g[i] = NextRow(s, D, g, i)
    <3>1. CASE i = n + 1
      BY <3>1 DEF NextRow
    <3>2. CASE i # n + 1
      <4>1. i \in 0..n /\ (i # 0 => i - 1 \in 0..n)
        BY <3>2
      <4>2. f[i] = NextRow(s, D, f, i)
        BY <2>1, <4>1
      <4> QED BY <4>1, <4>2, <3>2 DEF NextRow
    <3> QED BY <3>1, <3>2
  <2>3. g = [i \in 0..(n + 1) |-> NextRow(s, D, g, i)]
    BY <2>2
  <2> HIDE DEF g
  <2> QED BY <2>3
<1> HIDE DEF T
<1>3. Nat \subseteq T
  BY <1>1, <1>2, NatSetInduction
<1> QED BY <1>3 DEF T

\* RowsOf takes a line over when its call is one of D.
LEMMA RowsOfDef ==
    ASSUME NEW s \in Seq(Line), NEW D
    PROVE  /\ RowsOf(s, D)[0] = <<>>
           /\ \A i \in 1..Len(s) :
                RowsOf(s, D)[i] = IF s[i].req \in D THEN Append(RowsOf(s, D)[i - 1], s[i])
                                                    ELSE RowsOf(s, D)[i - 1]
<1> DEFINE P(f) == f = [i \in 0..Len(s) |-> NextRow(s, D, f, i)]
<1>0. Len(s) \in Nat
  BY LenProperties
<1>1. \E f : P(f)
  BY <1>0, RowsOfExists
<1>2. RowsOf(s, D) = CHOOSE f : P(f)
  BY DEF RowsOf, NextRow
<1> HIDE DEF P
<1>3. P(CHOOSE f : P(f))
  BY <1>1
<1>4. RowsOf(s, D) = [i \in 0..Len(s) |-> NextRow(s, D, RowsOf(s, D), i)]
  BY <1>2, <1>3 DEF P
<1>5. \A i \in 0..Len(s) : RowsOf(s, D)[i] = NextRow(s, D, RowsOf(s, D), i)
  BY <1>4
<1> QED BY <1>0, <1>5 DEF NextRow

\* It returns lines.
LEMMA RowsOfType ==
    ASSUME NEW s \in Seq(Line), NEW D
    PROVE  \A i \in 0..Len(s) : RowsOf(s, D)[i] \in Seq(Line)
<1> DEFINE T == {i \in Nat : i <= Len(s) => RowsOf(s, D)[i] \in Seq(Line)}
<1>0. Len(s) \in Nat /\ \A i \in 1..Len(s) : s[i] \in Line
  BY LenProperties, ElementOfSeq
<1>1. 0 \in T
  <2>1. RowsOf(s, D)[0] = <<>>
    BY RowsOfDef
  <2>2. <<>> \in Seq(Line)
    BY EmptySeq
  <2> QED BY <2>1, <2>2
<1>2. ASSUME NEW n \in Nat, n \in T PROVE n + 1 \in T
  <2> SUFFICES ASSUME n + 1 <= Len(s) PROVE RowsOf(s, D)[n + 1] \in Seq(Line)
    OBVIOUS
  <2>1. n + 1 \in 1..Len(s) /\ (n + 1) - 1 = n /\ RowsOf(s, D)[n] \in Seq(Line) /\ s[n + 1] \in Line
    BY <1>0, <1>2
  <2>2. Append(RowsOf(s, D)[n], s[n + 1]) \in Seq(Line)
    BY <2>1, AppendProperties
  <2>3. RowsOf(s, D)[n + 1] = IF s[n + 1].req \in D THEN Append(RowsOf(s, D)[n], s[n + 1])
                                                   ELSE RowsOf(s, D)[n]
    BY <2>1, RowsOfDef
  <2> HIDE DEF T
  <2> QED BY <2>1, <2>2, <2>3
<1> HIDE DEF T
<1>3. Nat \subseteq T
  BY <1>1, <1>2, NatSetInduction
<1> QED BY <1>0, <1>3 DEF T

\* Two files that start with the same n lines, of which D and E have the same.
SameStart(s, u, n) == \A i \in 1..n : s[i] = u[i]
SameCalls(s, n, D, E) == \A i \in 1..n : s[i].req \in D <=> s[i].req \in E

\* It depends on the lines it has seen, and on whether D has their calls.
LEMMA RowsOfAgree ==
    ASSUME NEW s \in Seq(Line), NEW u \in Seq(Line), NEW D, NEW E,
           NEW n \in Nat, n <= Len(s), n <= Len(u),
           SameStart(s, u, n), SameCalls(s, n, D, E)
    PROVE  RowsOf(s, D)[n] = RowsOf(u, E)[n]
<1> DEFINE T == {i \in Nat : i <= n => RowsOf(s, D)[i] = RowsOf(u, E)[i]}
<1>0. Len(s) \in Nat /\ Len(u) \in Nat
  BY LenProperties
<1>1. 0 \in T
  BY RowsOfDef
<1>2. ASSUME NEW k \in Nat, k \in T PROVE k + 1 \in T
  <2> SUFFICES ASSUME k + 1 <= n PROVE RowsOf(s, D)[k + 1] = RowsOf(u, E)[k + 1]
    OBVIOUS
  <2>1. k + 1 \in 1..n /\ k + 1 \in 1..Len(s) /\ k + 1 \in 1..Len(u) /\ (k + 1) - 1 = k
    BY <1>0
  <2>2. RowsOf(s, D)[k] = RowsOf(u, E)[k]
    BY <1>2
  <2>3. s[k + 1] = u[k + 1] /\ (s[k + 1].req \in D <=> u[k + 1].req \in E)
    BY <2>1 DEF SameStart, SameCalls
  <2> QED BY <2>1, <2>2, <2>3, RowsOfDef
<1> HIDE DEF T
<1>3. Nat \subseteq T
  BY <1>1, <1>2, NatSetInduction
<1> QED BY <1>3 DEF T

\* The same lines under two sets of calls.
LEMMA RowsOfSame ==
    ASSUME NEW s \in Seq(Line), NEW D, NEW E, NEW n \in Nat, n <= Len(s), SameCalls(s, n, D, E)
    PROVE  RowsOf(s, D)[n] = RowsOf(s, E)[n]
<1>1. SameStart(s, s, n)
  BY DEF SameStart
<1> QED BY <1>1, RowsOfAgree

\* Two files that start alike.
LEMMA RowsOfPrefix ==
    ASSUME NEW s \in Seq(Line), NEW u \in Seq(Line), NEW D, NEW n \in Nat,
           n <= Len(s), n <= Len(u), SameStart(s, u, n)
    PROVE  RowsOf(s, D)[n] = RowsOf(u, D)[n]
<1>1. SameCalls(s, n, D, D)
  BY DEF SameCalls
<1> QED BY <1>1, RowsOfAgree

\* A line appended to a concatenation is appended to its second part.
LEMMA AppendToConcat ==
    ASSUME NEW u \in Seq(Line), NEW v \in Seq(Line), NEW x \in Line
    PROVE  Append(u \o v, x) = u \o Append(v, x)
<1>1. Append(v, x) = v \o <<x>> /\ <<x>> \in Seq(Line) /\ u \o v \in Seq(Line)
  BY AppendIsConcat, ConcatProperties
<1>2. Append(u \o v, x) = (u \o v) \o <<x>>
  BY <1>1, AppendIsConcat
<1>3. (u \o v) \o <<x>> = u \o (v \o <<x>>)
  BY <1>1, ConcatAssociative
<1> QED BY <1>1, <1>2, <1>3

\* A call's rows at the end of a file are added at once when it commits.
LEMMA RowsOfCommit ==
    ASSUME NEW s \in Seq(Line), NEW D, NEW r \in Nat, r \notin D,
           NEW E, \A x : x \in E <=> x \in D \/ x = r, NEW k \in Nat, Ends(s, r, k)
    PROVE  RowsOf(s, E)[Len(s)] = RowsOf(s, D)[Len(s)] \o Log!Rows(r, k)
<1> DEFINE b == Len(s) - k
           base == RowsOf(s, D)[b]
<1>0. Len(s) \in Nat /\ b \in Nat /\ b <= Len(s) /\ b + k = Len(s)
  BY LenProperties DEF Ends
<1>1. RowsOf(s, E)[b] = base
  <2>1. SameCalls(s, b, E, D)
    BY DEF Ends, SameCalls
  <2>2. b \in Nat /\ b <= Len(s)
    BY <1>0
  <2> HIDE DEF b
  <2>3. RowsOf(s, E)[b] = RowsOf(s, D)[b]
    BY <2>1, <2>2, RowsOfSame
  <2> QED BY <2>3 DEF base
<1>2. base \in Seq(Line)
  BY <1>0, RowsOfType
<1>3. \A i \in 1..k : /\ b + i \in 1..Len(s) /\ (b + i) - 1 = b + (i - 1)
                      /\ s[b + i] = [req |-> r, row |-> i]
  <2>1. \A i \in 1..k : s[b + i] = [req |-> r, row |-> i]
    BY DEF Ends
  <2> HIDE DEF b
  <2> QED BY <1>0, <2>1
<1> HIDE DEF b, base
<1> DEFINE T == {i \in Nat : i <= k =>
                    /\ RowsOf(s, D)[b + i] = base
                    /\ RowsOf(s, E)[b + i] = base \o Log!Rows(r, i)}
<1>4. 0 \in T
  <2>1. Log!Rows(r, 0) = <<>>
    BY DEF Log!Rows
  <2>2. base \o <<>> = base
    BY <1>2, ConcatEmptySeq
  <2>3. b + 0 = b
    BY <1>0
  <2>4. RowsOf(s, D)[b + 0] = base /\ RowsOf(s, E)[b + 0] = base \o Log!Rows(r, 0)
    BY <1>1, <2>1, <2>2, <2>3 DEF base
  <2> QED BY <2>4
<1>5. ASSUME NEW i \in Nat, i \in T PROVE i + 1 \in T
  <2> SUFFICES ASSUME i + 1 <= k
               PROVE  /\ RowsOf(s, D)[b + (i + 1)] = base
                      /\ RowsOf(s, E)[b + (i + 1)] = base \o Log!Rows(r, i + 1)
    OBVIOUS
  <2> DEFINE e == [req |-> r, row |-> i + 1]
  <2>1. /\ b + (i + 1) \in 1..Len(s) /\ (b + (i + 1)) - 1 = b + i
        /\ s[b + (i + 1)] = e /\ e \in Line /\ r \in E
    <3>1. i + 1 \in 1..k /\ (b + (i + 1)) - 1 = b + i /\ r \in E
      BY <1>0
    <3> QED BY <1>3, <3>1 DEF Line
  <2>2. RowsOf(s, D)[b + i] = base /\ RowsOf(s, E)[b + i] = base \o Log!Rows(r, i)
    BY <1>5
  <2>3. RowsOf(s, D)[b + (i + 1)] = base
    BY <2>1, <2>2, RowsOfDef
  <2>4. RowsOf(s, E)[b + (i + 1)] = Append(base \o Log!Rows(r, i), e)
    <3>1. RowsOf(s, E)[b + (i + 1)] = Append(RowsOf(s, E)[b + i], e)
      <4> HIDE DEF e
      <4>1. e.req \in E
        BY <2>1 DEF e
      <4> DEFINE j == b + (i + 1)
      <4>2. j \in 1..Len(s) /\ s[j] = e /\ j - 1 = b + i
        BY <2>1
      <4> HIDE DEF j
      <4>3. RowsOf(s, E)[j] = IF s[j].req \in E THEN Append(RowsOf(s, E)[j - 1], s[j])
                                                 ELSE RowsOf(s, E)[j - 1]
        BY <4>2, RowsOfDef
      <4> QED BY <4>1, <4>2, <4>3 DEF j
    <3> QED BY <2>2, <3>1
  <2>5. Log!Rows(r, i) \in Seq(Line) /\ Len(Log!Rows(r, i)) = i
    BY DEF Log!Rows, Line
  <2>6. Log!Rows(r, i + 1) = Append(Log!Rows(r, i), e)
    BY DEF Log!Rows
  <2>7. Append(base \o Log!Rows(r, i), e) = base \o Append(Log!Rows(r, i), e)
    <3> DEFINE rows == Log!Rows(r, i)
    <3>1. rows \in Seq(Line) /\ e \in Line
      BY <2>1, <2>5
    <3> HIDE DEF rows, e
    <3>2. Append(base \o rows, e) = base \o Append(rows, e)
      BY <1>2, <3>1, AppendToConcat
    <3> QED BY <3>2 DEF rows
  <2> QED BY <2>3, <2>4, <2>6, <2>7
<1> HIDE DEF T
<1>6. Nat \subseteq T
  BY <1>4, <1>5, NatSetInduction
<1>7. RowsOf(s, D)[b + k] = base /\ RowsOf(s, E)[b + k] = base \o Log!Rows(r, k)
  BY <1>6 DEF T
<1> QED BY <1>0, <1>7 DEF b

-----------------------------------------------------------------------------

\* Steps that touch neither the files nor done are invisible to a reader.
LEMMA LogUnchanged ==
    ASSUME UNCHANGED <<content, done>>
    PROVE  UNCHANGED CommittedLog
BY DEF CommittedLog

\* So are lines of calls that have not completed (archive.py:54-60).
LEMMA LogIgnores ==
    ASSUME ArchiveInv, NEW p \in Days, NEW e \in Line, e.req \notin done, done' = done,
           content' = [content EXCEPT ![p] = Append(@, e)]
    PROVE  UNCHANGED CommittedLog
<1> SUFFICES ASSUME NEW d \in Days
             PROVE  RowsOf(content'[d], done)[Len(content'[d])] = RowsOf(content[d], done)[Len(content[d])]
  BY DEF CommittedLog
<1>1. CASE d # p
  BY <1>1 DEF ArchiveInv, ArchiveTypes
<1>2. CASE d = p
  <2> DEFINE s == content[p]
             u == content'[p]
  <2>1. /\ s \in Seq(Line) /\ u \in Seq(Line) /\ Len(s) \in Nat /\ Len(u) = Len(s) + 1
        /\ u[Len(s) + 1] = e /\ SameStart(s, u, Len(s))
    BY LineTypes, LineAdded DEF ArchiveInv, SameStart
  <2> HIDE DEF s, u
  <2>3. RowsOf(s, done)[Len(s)] = RowsOf(u, done)[Len(s)]
    BY <2>1, RowsOfPrefix
  <2>4. Len(u) \in 1..Len(u) /\ Len(u) - 1 = Len(s) /\ u[Len(u)] = e
    BY <2>1
  <2>5. RowsOf(u, done)[Len(u)] = RowsOf(u, done)[Len(u) - 1]
    BY <2>1, <2>4, RowsOfDef
  <2> QED BY <1>2, <2>3, <2>4, <2>5 DEF s, u
<1> QED BY <1>1, <1>2

\* The end of the critical section adds the call's rows to the log (archive.py:54-60).
LEMMA LogCommits ==
    ASSUME ArchiveInv, NEW t \in Threads, Close(t)
    PROVE  Log!AddRows(path[t], req[t], len[t])
<1> DEFINE p == path[t]
           r == req[t]
<1>1. /\ content' = content /\ done' = done \cup {r}
      /\ p \in Days /\ r \in Nat /\ r \notin done /\ len[t] \in Nat /\ pc[t] # "idle" /\ next[t] - 1 = len[t]
  <2>1. pc[t] = "close" /\ content' = content /\ done' = done \cup {r}
    BY DEF Close, file
  <2>2. Call(t) /\ p \in Days /\ r \in Nat /\ len[t] \in Nat
    BY <2>1 DEF ArchiveInv, ArchiveTypes, Calls
  <2>3. next[t] = len[t] + 1 /\ r \notin done
    BY <2>1, <2>2 DEF Call
  <2> QED BY <2>1, <2>2, <2>3
<1>2. /\ Ends(content[p], r, len[t])
      /\ \A d \in Days \ {p} : \A i \in 1..Len(content[d]) : content[d][i].req # r
  BY <1>1 DEF ArchiveInv, Contiguous
<1>3. \A d \in Days : content[d] \in Seq(Line) /\ Len(content[d]) \in Nat
  BY LineTypes DEF ArchiveInv
<1>4. \A x : x \in done' <=> x \in done \/ x = r
  BY <1>1
<1> HIDE DEF p, r
<1>5. RowsOf(content[p], done')[Len(content[p])]
        = RowsOf(content[p], done)[Len(content[p])] \o Log!Rows(r, len[t])
  <2> DEFINE s == content[p]
             k == len[t]
  <2>1. s \in Seq(Line) /\ r \in Nat /\ r \notin done /\ k \in Nat /\ Ends(s, r, k)
    BY <1>1, <1>2, <1>3
  <2> HIDE DEF s, k
  <2>2. RowsOf(s, done')[Len(s)] = RowsOf(s, done)[Len(s)] \o Log!Rows(r, k)
    BY <1>4, <2>1, RowsOfCommit
  <2> QED BY <2>2 DEF s, k
<1>6. ASSUME NEW d \in Days, d # p
      PROVE  RowsOf(content[d], done')[Len(content[d])] = RowsOf(content[d], done)[Len(content[d])]
  <2> DEFINE s == content[d]
  <2>1. s \in Seq(Line) /\ Len(s) \in Nat /\ \A i \in 1..Len(s) : s[i].req # r
    BY <1>2, <1>3, <1>6
  <2> HIDE DEF s
  <2>2. SameCalls(s, Len(s), done', done)
    BY <1>4, <2>1 DEF SameCalls
  <2>3. RowsOf(s, done')[Len(s)] = RowsOf(s, done)[Len(s)]
    BY <2>1, <2>2, RowsOfSame
  <2> QED BY <2>3 DEF s
<1>7. CommittedLog' = [CommittedLog EXCEPT ![p] = @ \o Log!Rows(r, len[t])]
  BY <1>1, <1>5, <1>6 DEF CommittedLog
<1> QED BY <1>7 DEF Log!AddRows, p, r

\* The archive starts as an empty log.
LEMMA LogInit == Init => Log!Init
<1> SUFFICES ASSUME Init PROVE CommittedLog = [d \in Days |-> <<>>]
  BY DEF Log!Init
<1>1. <<>> \in Seq(Line) /\ Len(<<>>) = 0
  BY EmptySeq
<1>2. RowsOf(<<>>, done)[0] = <<>>
  BY <1>1, RowsOfDef
<1> QED BY <1>1, <1>2 DEF Init, CommittedLog

\* Every step adds one call's rows to the log or is invisible (FeatureArchive.append).
LEMMA LogStep == ArchiveInv /\ [Next]_vars => [Log!Next]_CommittedLog
<1> SUFFICES ASSUME ArchiveInv, [Next]_vars PROVE Log!Next \/ UNCHANGED CommittedLog
  OBVIOUS
<1>H. Header \in Line /\ TornLine \in Line /\ Header.req \notin done /\ TornLine.req \notin done
  BY DEF Header, TornLine, Line, ArchiveInv, ArchiveTypes
<1>1. ASSUME NEW t \in Threads, AppendCall(t) \/ Stat(t) \/ Acquire(t) \/ Open(t)
      PROVE  UNCHANGED CommittedLog
  BY <1>1, LogUnchanged DEF AppendCall, Stat, Acquire, Open, file
<1>2. ASSUME NEW t \in Threads, WriteHeader(t) PROVE UNCHANGED CommittedLog
  <2>1. path[t] \in Days /\ done' = done /\ content' = [content EXCEPT ![path[t]] = Append(@, Header)]
    BY <1>2 DEF WriteHeader, Write, ArchiveInv, ArchiveTypes
  <2> QED BY <1>H, <2>1, LogIgnores
<1>3. ASSUME NEW t \in Threads, WriteRow(t) PROVE UNCHANGED CommittedLog
  <2> DEFINE e == [req |-> req[t], row |-> next[t]]
  <2>1. path[t] \in Days /\ done' = done /\ content' = [content EXCEPT ![path[t]] = Append(@, e)]
    BY <1>3 DEF WriteRow, Write, ArchiveInv, ArchiveTypes
  <2>2. e \in Line /\ e.req \notin done
    BY <1>3 DEF WriteRow, ArchiveInv, ArchiveTypes, Calls, Call, Line
  <2> HIDE DEF e
  <2> QED BY <2>1, <2>2, LogIgnores
<1>4. ASSUME NEW t \in Threads, Close(t) PROVE Log!Next
  <2>1. path[t] \in Days /\ req[t] \in Requests /\ len[t] \in 1..MaxRows
    BY <1>4, ArchiveAssumption DEF Close, ArchiveInv, ArchiveTypes, Calls, Call, Requests
  <2> QED BY <1>4, <2>1, LogCommits DEF Log!Next
<1>5. ASSUME NEW t \in Threads, Tears(t), done' = done PROVE UNCHANGED CommittedLog
  <2>1. path[t] \in Days
    BY DEF ArchiveInv, ArchiveTypes
  <2>2. CASE content' = content
    BY <1>5, <2>2, LogUnchanged
  <2>3. CASE content' = [content EXCEPT ![path[t]] = Append(@, TornLine)]
    BY <1>5, <1>H, <2>1, <2>3, LogIgnores
  <2> QED BY <1>5, <2>2, <2>3, TearsAdds DEF ArchiveInv
<1>6. ASSUME NEW t \in Threads, OSError(t) PROVE UNCHANGED CommittedLog
  BY <1>5, <1>6 DEF OSError
<1>7. CASE Crash
  BY <1>5, <1>7, LogUnchanged DEF Crash, ArchiveInv, ArchiveTypes
<1>8. CASE Midnight \/ UNCHANGED vars
  BY <1>8, LogUnchanged DEF Midnight, vars, file
<1> QED
  BY <1>1, <1>2, <1>3, <1>4, <1>6, <1>7, <1>8 DEF Next, Step

\* The archive implements ArchiveLog: a call's rows become readable all at once,
\* contiguous and in order, and stay, for any threads, OSErrors, midnights and
\* restarts (FeatureArchive.append).
THEOREM AppendsAtomic == Spec => AppendsAreAtomic
BY LogInit, LogStep, ArchiveInvariant, PTL DEF Spec, AppendsAreAtomic, Log!Spec

-----------------------------------------------------------------------------
(* Headers.                                                                 *)

\* Threads that will write a header to the file of day d.
Pending(d) ==
    {t \in Threads : path[t] = d /\ write_header[t] /\ pc[t] \in {"lock", "open", "header"}}

\* Without faults, a file that exists has its header or is about to get it.
HeaderProgress ==
    /\ \A d \in Days \ exists : content[d] = <<>>
    /\ \A t \in Threads :
          /\ pc[t] \in {"lock", "open"} /\ path[t] \notin exists => write_header[t]
          /\ pc[t] = "header" => write_header[t] /\ path[t] \in exists
          /\ pc[t] \in {"rows", "close"} => content[path[t]] # <<>>
    /\ \A d \in exists : content[d] = <<>> => \E t \in Threads : pc[t] = "header" /\ path[t] = d

\* Once the file exists nobody new becomes pending, so that headers written and
\* pending together never exceed the number of threads.
HeaderCount ==
    \A d \in Days : /\ IsFiniteSet(Headers(d))
                    /\ Cardinality(Headers(d)) + Cardinality(Pending(d)) <= Cardinality(Threads)

HeaderInv == errors + crashes = 0 => HeaderProgress /\ HeaderFirst /\ HeaderCount

\* Pending threads are finitely many.
LEMMA PendingFinite ==
    ASSUME NEW d
    PROVE  IsFiniteSet(Pending(d)) /\ Cardinality(Pending(d)) \in Nat /\ Cardinality(Pending(d)) <= Cardinality(Threads)
BY ArchiveAssumption, FS_Subset, FS_CardinalityType DEF Pending

\* Before the first call there is neither file nor header.
LEMMA HeaderInit == Init => HeaderInv
<1> SUFFICES ASSUME Init PROVE HeaderInv
  OBVIOUS
<1>1. HeaderProgress /\ HeaderFirst
  BY DEF Init, HeaderProgress, HeaderFirst
<1>2. \A d \in Days : Headers(d) = {} /\ Pending(d) = {}
  BY DEF Init, Headers, Pending
<1>3. HeaderCount
  BY <1>2, ArchiveAssumption, FS_EmptySet, FS_CardinalityType DEF HeaderCount
<1> QED BY <1>1, <1>3 DEF HeaderInv

\* Every step without a fault keeps the header invariant (archive.py:51-60).
LEMMA HeaderStep == ArchiveInv /\ HeaderInv /\ [Next]_vars => HeaderInv'
<1> SUFFICES ASSUME ArchiveInv, HeaderInv, [Next]_vars, (errors + crashes = 0)'
             PROVE  HeaderProgress' /\ HeaderFirst' /\ HeaderCount'
  BY DEF HeaderInv
<1> USE ArchiveAssumption
<1>0. UNCHANGED <<errors, crashes>> /\ errors + crashes = 0
  <2>1. errors \in Nat /\ crashes \in Nat
    BY DEF ArchiveInv, ArchiveTypes
  <2>2. ASSUME NEW t \in Threads, AppendCall(t) \/ Step(t) PROVE errors' >= errors /\ crashes' = crashes /\ errors' \in Nat
    BY <2>1, <2>2
       DEF AppendCall, Step, Stat, Acquire, Open, WriteHeader, WriteRow, Close,
           OSError, counts
  <2>3. CASE Midnight \/ Crash \/ UNCHANGED vars
    BY <2>1, <2>3 DEF Midnight, Crash, vars, counts
  <2> QED BY <2>1, <2>2, <2>3 DEF Next
<1>P. HeaderProgress /\ HeaderFirst /\ HeaderCount
  BY <1>0 DEF HeaderInv
<1>T. /\ \A t \in Threads : path[t] \in Days
      /\ \A d \in Days : content[d] \in Seq(Line) /\ Len(content[d]) \in Nat
      /\ Cardinality(Threads) \in Nat
  BY LineTypes, FS_CardinalityType DEF ArchiveInv, ArchiveTypes
\* While no line is written, nobody new is about to write a header.
<1>C. ASSUME content' = content, \A d \in Days : Pending(d)' \subseteq Pending(d)
      PROVE  HeaderFirst' /\ HeaderCount'
  <2>1. HeaderFirst'
    BY <1>P, <1>C DEF HeaderFirst
  <2>2. ASSUME NEW d \in Days
        PROVE  /\ IsFiniteSet(Headers(d)')
               /\ Cardinality(Headers(d)') + Cardinality(Pending(d)') <= Cardinality(Threads)
    <3>1. Headers(d)' = Headers(d)
      BY <1>C DEF Headers
    <3>2. Cardinality(Pending(d)') <= Cardinality(Pending(d)) /\ Cardinality(Pending(d)') \in Nat /\ Cardinality(Pending(d)) \in Nat
      BY <1>C, PendingFinite, FS_Subset, FS_CardinalityType
    <3>3. IsFiniteSet(Headers(d)) /\ Cardinality(Headers(d)) + Cardinality(Pending(d)) <= Cardinality(Threads)
      BY <1>P DEF HeaderCount
    <3>4. Cardinality(Headers(d)) \in Nat
      BY <3>3, FS_CardinalityType
    <3> HIDE DEF Headers, Pending
    <3> QED BY <1>T, <3>1, <3>2, <3>3, <3>4
  <2> QED BY <2>1, <2>2 DEF HeaderCount
<1>1. ASSUME NEW t \in Threads, AppendCall(t) PROVE HeaderProgress' /\ HeaderFirst' /\ HeaderCount'
  <2>1. /\ pc[t] = "idle" /\ pc' = [pc EXCEPT ![t] = "stat"] /\ path' = [path EXCEPT ![t] = today]
        /\ UNCHANGED <<exists, content, write_header>>
    BY <1>1 DEF AppendCall, Goto, file
  <2>2. \A d \in Days : Pending(d)' \subseteq Pending(d)
    BY <2>1 DEF Pending, ArchiveInv, ArchiveTypes
  <2>3. HeaderProgress'
    BY <1>P, <2>1 DEF HeaderProgress, ArchiveInv, ArchiveTypes
  <2> QED BY <1>C, <2>1, <2>2, <2>3
<1>2. ASSUME NEW t \in Threads, Stat(t) PROVE HeaderProgress' /\ HeaderFirst' /\ HeaderCount'
  <2>1. /\ pc[t] = "stat" /\ pc' = [pc EXCEPT ![t] = "lock"]
        /\ write_header' = [write_header EXCEPT ![t] = path[t] \notin exists]
        /\ UNCHANGED <<exists, content, path>>
    BY <1>2 DEF Stat, Goto, file
  <2>2. HeaderProgress'
    BY <1>P, <2>1 DEF HeaderProgress, ArchiveInv, ArchiveTypes
  <2>3. HeaderFirst'
    BY <1>P, <2>1 DEF HeaderFirst
  <2>4. ASSUME NEW d \in Days
        PROVE  /\ IsFiniteSet(Headers(d)')
               /\ Cardinality(Headers(d)') + Cardinality(Pending(d)') <= Cardinality(Threads)
    <3>1. Headers(d)' = Headers(d) /\ IsFiniteSet(Headers(d))
      BY <1>P, <2>1 DEF Headers, HeaderCount
    <3>2. CASE d \notin exists
      <4>1. Headers(d) = {}
        BY <1>P, <3>2 DEF HeaderProgress, Headers
      <4>2. Pending(d)' \subseteq Threads
        BY <2>1 DEF Pending
      <4>3. Cardinality(Pending(d)') <= Cardinality(Threads) /\ Cardinality(Pending(d)') \in Nat
        BY <4>2, FS_Subset, FS_CardinalityType
      <4>4. Cardinality(Headers(d)') = 0
        BY <3>1, <4>1, FS_EmptySet
      <4> QED BY <1>T, <3>1, <4>3, <4>4
    <3>3. CASE d \in exists
      <4>1. Pending(d)' \subseteq Pending(d)
        BY <2>1, <3>3 DEF Pending, ArchiveInv, ArchiveTypes
      <4>2. Cardinality(Pending(d)') <= Cardinality(Pending(d)) /\ Cardinality(Pending(d)') \in Nat /\ Cardinality(Pending(d)) \in Nat
        BY <4>1, PendingFinite, FS_Subset, FS_CardinalityType
      <4>3. Cardinality(Headers(d)) + Cardinality(Pending(d)) <= Cardinality(Threads) /\ Cardinality(Headers(d)) \in Nat
        BY <1>P, FS_CardinalityType DEF HeaderCount
      <4> HIDE DEF Headers, Pending
      <4> QED BY <1>T, <3>1, <4>2, <4>3
    <3> QED BY <3>2, <3>3
  <2> QED BY <2>2, <2>3, <2>4 DEF HeaderCount
<1>3. ASSUME NEW t \in Threads, Acquire(t) PROVE HeaderProgress' /\ HeaderFirst' /\ HeaderCount'
  <2>1. /\ pc[t] = "lock" /\ pc' = [pc EXCEPT ![t] = "open"]
        /\ UNCHANGED <<exists, content, path, write_header>>
    BY <1>3 DEF Acquire, Goto, file, locals
  <2>2. \A d \in Days : Pending(d)' \subseteq Pending(d)
    BY <2>1 DEF Pending, ArchiveInv, ArchiveTypes
  <2>3. HeaderProgress'
    BY <1>P, <2>1 DEF HeaderProgress, ArchiveInv, ArchiveTypes
  <2> QED BY <1>C, <2>1, <2>2, <2>3
<1>4. ASSUME NEW t \in Threads, Open(t) PROVE HeaderProgress' /\ HeaderFirst' /\ HeaderCount'
  <2>1. /\ pc[t] = "open" /\ exists' = exists \cup {path[t]}
        /\ pc' = [pc EXCEPT ![t] = IF write_header[t] THEN "header" ELSE "rows"]
        /\ UNCHANGED <<content, path, write_header>>
    BY <1>4 DEF Open, Goto, locals
  <2>2. \A d \in Days : Pending(d)' \subseteq Pending(d)
    BY <2>1 DEF Pending, ArchiveInv, ArchiveTypes
  <2>3. lock = t /\ \A u \in Threads : u # t => pc[u] # "header"
    BY <2>1 DEF ArchiveInv, Mutex, Critical
  <2>4. CASE write_header[t]
    <3>1. pc'[t] = "header" /\ \A u \in Threads \ {t} : pc'[u] = pc[u]
      BY <2>1, <2>4 DEF ArchiveInv, ArchiveTypes
    <3>2. HeaderProgress'
      BY <1>P, <2>1, <2>3, <2>4, <3>1 DEF HeaderProgress
    <3> QED BY <1>C, <2>1, <2>2, <3>2
  <2>5. CASE ~write_header[t]
    <3>1. path[t] \in exists /\ content[path[t]] # <<>> /\ exists' = exists
      BY <1>P, <2>1, <2>3, <2>5 DEF HeaderProgress
    <3>2. pc'[t] = "rows" /\ \A u \in Threads \ {t} : pc'[u] = pc[u]
      BY <2>1, <2>5 DEF ArchiveInv, ArchiveTypes
    <3>3. HeaderProgress'
      BY <1>P, <2>1, <3>1, <3>2 DEF HeaderProgress
    <3> QED BY <1>C, <2>1, <2>2, <3>3
  <2> QED BY <2>4, <2>5
<1>5. ASSUME NEW t \in Threads, WriteHeader(t) PROVE HeaderProgress' /\ HeaderFirst' /\ HeaderCount'
  <2> DEFINE p == path[t]
  <2>1. /\ pc[t] = "header" /\ pc' = [pc EXCEPT ![t] = "rows"] /\ write_header[t]
        /\ UNCHANGED <<exists, path, write_header>>
        /\ content' = [content EXCEPT ![p] = Append(@, Header)] /\ p \in Days /\ Header \in Line
    BY <1>5, <1>P, <1>T DEF WriteHeader, Write, Goto, locals, HeaderProgress, Header, Line
  <2>2. /\ Len(content'[p]) = Len(content[p]) + 1 /\ content'[p][Len(content[p]) + 1] = Header
        /\ \A i \in 1..Len(content[p]) : content'[p][i] = content[p][i]
        /\ \A c \in Days \ {p} : content'[c] = content[c]
        /\ content'[p] # <<>> /\ content' \in [Days -> Seq(Line)]
    BY <2>1, LineAdded DEF ArchiveInv
  <2>3. lock = t /\ \A u \in Threads : pc'[u] \notin {"lock", "open", "stat", "idle", "rows"} => pc[u] # "header"
    BY <2>1 DEF ArchiveInv, ArchiveTypes, Mutex, Critical
  <2>4. HeaderProgress'
    <3>1. \A d \in Days : content[d] # <<>> => content'[d] # <<>>
      BY <2>2
    <3> QED BY <1>P, <2>1, <2>2, <3>1
       DEF HeaderProgress, ArchiveInv, ArchiveTypes, Mutex, Critical
  <2>5. HeaderFirst'
    <3>1. CASE content[p] = <<>>
      BY <1>P, <2>2, <3>1 DEF HeaderFirst
    <3>2. CASE content[p] # <<>>
      <4>1. 1 \in 1..Len(content[p])
        BY <1>T, <2>1, <3>2, EmptySeq
      <4> QED BY <1>P, <2>2, <3>2, <4>1 DEF HeaderFirst
    <3> QED BY <3>1, <3>2
  <2>6. ASSUME NEW d \in Days
        PROVE  /\ IsFiniteSet(Headers(d)')
               /\ Cardinality(Headers(d)') + Cardinality(Pending(d)') <= Cardinality(Threads)
    <3>1. /\ IsFiniteSet(Headers(d)) /\ Cardinality(Headers(d)) \in Nat
          /\ Cardinality(Headers(d)) + Cardinality(Pending(d)) <= Cardinality(Threads)
      BY <1>P, FS_CardinalityType DEF HeaderCount
    <3>2. IsFiniteSet(Pending(d)) /\ Cardinality(Pending(d)) \in Nat
      BY PendingFinite
    <3>3. CASE d # p
      <4>1. Headers(d)' = Headers(d)
        BY <2>2, <3>3 DEF Headers
      <4>2. Pending(d)' = Pending(d)
        BY <2>1, <3>3 DEF Pending, ArchiveInv, ArchiveTypes
      <4> QED BY <3>1, <4>1, <4>2
    <3>4. CASE d = p
      <4>1. Headers(d)' = Headers(d) \cup {Len(content[p]) + 1}
        <5>1. \A s \in Seq(Line) : DOMAIN s = 1..Len(s)
          BY LenProperties
        <5>2. DOMAIN content'[p] = 1..(Len(content[p]) + 1) /\ DOMAIN content[p] = 1..Len(content[p])
          BY <1>T, <2>1, <2>2, <5>1
        <5> QED BY <1>T, <2>1, <2>2, <3>4, <5>2 DEF Headers
      <4>2. Pending(d)' = Pending(d) \ {t} /\ t \in Pending(d)
        BY <2>1, <3>4 DEF Pending, ArchiveInv, ArchiveTypes
      <4>3. IsFiniteSet(Headers(d)') /\ Cardinality(Headers(d)') <= Cardinality(Headers(d)) + 1 /\ Cardinality(Headers(d)') \in Nat
        <5> DEFINE S == Headers(d)
                   x == Len(content[p]) + 1
        <5>1. Headers(d)' = S \cup {x} /\ IsFiniteSet(S) /\ Cardinality(S) \in Nat
          BY <3>1, <4>1
        <5> HIDE DEF S, x
        <5>2. IsFiniteSet(S \cup {x}) /\ Cardinality(S \cup {x}) = IF x \in S THEN Cardinality(S) ELSE Cardinality(S) + 1
          BY <5>1, FS_AddElement
        <5> QED BY <5>1, <5>2 DEF S
      <4>4. Cardinality(Pending(d)') = Cardinality(Pending(d)) - 1
        <5> DEFINE S == Pending(d)
        <5>1. Pending(d)' = S \ {t} /\ t \in S /\ IsFiniteSet(S)
          BY <3>2, <4>2
        <5> HIDE DEF S
        <5>2. Cardinality(S \ {t}) = Cardinality(S) - 1
          BY <5>1, FS_RemoveElement
        <5> QED BY <5>1, <5>2 DEF S
      <4> HIDE DEF Headers, Pending
      <4> QED BY <1>T, <3>1, <3>2, <4>3, <4>4
    <3> QED BY <3>3, <3>4
  <2> QED BY <2>4, <2>5, <2>6 DEF HeaderCount
<1>6. ASSUME NEW t \in Threads, WriteRow(t) PROVE HeaderProgress' /\ HeaderFirst' /\ HeaderCount'
  <2> DEFINE p == path[t]
             e == [req |-> req[t], row |-> next[t]]
  <2>1. /\ pc[t] = "rows" /\ pc' = [pc EXCEPT ![t] = IF next[t] = len[t] THEN "close" ELSE "rows"]
        /\ UNCHANGED <<exists, path, write_header>>
        /\ content' = [content EXCEPT ![p] = Append(@, e)] /\ p \in Days /\ e \in Line /\ e # Header
    BY <1>6, <1>T
       DEF WriteRow, Write, Goto, Header, Line, ArchiveInv, ArchiveTypes, Calls,
           Call
  <2> HIDE DEF e
  <2>2. /\ Len(content'[p]) = Len(content[p]) + 1 /\ content'[p][Len(content[p]) + 1] = e
        /\ \A i \in 1..Len(content[p]) : content'[p][i] = content[p][i]
        /\ \A c \in Days \ {p} : content'[c] = content[c]
        /\ content'[p] # <<>> /\ content' \in [Days -> Seq(Line)]
    BY <2>1, LineAdded DEF ArchiveInv
  <2>3. content[p] # <<>>
    BY <1>P, <2>1 DEF HeaderProgress
  <2>4. HeaderProgress'
    <3>1. \A d \in Days : content[d] # <<>> <=> content'[d] # <<>>
      BY <2>2, <2>3
    <3>2. \A u \in Threads : /\ pc'[u] = "header" <=> pc[u] = "header"
                             /\ pc'[u] \in {"lock", "open"} <=> pc[u] \in {"lock", "open"}
                             /\ pc'[u] \in {"rows", "close"} <=> pc[u] \in {"rows", "close"}
      BY <2>1 DEF ArchiveInv, ArchiveTypes
    <3> QED BY <1>P, <1>T, <2>1, <3>1, <3>2 DEF HeaderProgress
  <2>5. HeaderFirst'
    <3>1. 1 \in 1..Len(content[p])
      BY <1>T, <2>1, <2>3, EmptySeq
    <3> QED BY <1>P, <2>2, <2>3, <3>1 DEF HeaderFirst
  <2>6. ASSUME NEW d \in Days PROVE Headers(d)' = Headers(d) /\ Pending(d)' = Pending(d)
    <3>1. Pending(d)' = Pending(d)
      BY <2>1 DEF Pending, ArchiveInv, ArchiveTypes
    <3>2. CASE d # p
      BY <2>2, <3>1, <3>2 DEF Headers
    <3>3. CASE d = p
      <4>1. \A s \in Seq(Line) : DOMAIN s = 1..Len(s)
        BY LenProperties
      <4>2. DOMAIN content'[p] = 1..(Len(content[p]) + 1) /\ DOMAIN content[p] = 1..Len(content[p])
        BY <1>T, <2>1, <2>2, <4>1
      <4>3. Headers(d)' = Headers(d)
        BY <1>T, <2>1, <2>2, <3>3, <4>2 DEF Headers
      <4> QED BY <3>1, <4>3
    <3> QED BY <3>2, <3>3
  <2> QED BY <1>P, <2>4, <2>5, <2>6 DEF HeaderCount
<1>7. ASSUME NEW t \in Threads, Close(t) PROVE HeaderProgress' /\ HeaderFirst' /\ HeaderCount'
  <2>1. /\ pc[t] = "close" /\ pc' = [pc EXCEPT ![t] = "idle"]
        /\ UNCHANGED <<exists, content, path, write_header>>
    BY <1>7 DEF Close, Goto, file, locals
  <2>2. \A d \in Days : Pending(d)' \subseteq Pending(d)
    BY <2>1 DEF Pending, ArchiveInv, ArchiveTypes
  <2>3. HeaderProgress'
    BY <1>P, <2>1 DEF HeaderProgress, ArchiveInv, ArchiveTypes
  <2> QED BY <1>C, <2>1, <2>2, <2>3
<1>8. ASSUME NEW t \in Threads PROVE ~OSError(t)
  BY <1>0 DEF OSError, ArchiveInv, ArchiveTypes
<1>9. ~Crash
  BY <1>0 DEF Crash, ArchiveInv, ArchiveTypes
<1>10. CASE Midnight \/ UNCHANGED vars
  <2>1. UNCHANGED <<exists, content, pc, path, write_header>>
    BY <1>10 DEF Midnight, vars, file, locals
  <2>2. \A d \in Days : Pending(d)' \subseteq Pending(d)
    BY <2>1 DEF Pending
  <2>3. HeaderProgress'
    BY <1>P, <2>1 DEF HeaderProgress
  <2> QED BY <1>C, <2>1, <2>2, <2>3
<1> QED
  BY <1>1, <1>2, <1>3, <1>4, <1>5, <1>6, <1>7, <1>8, <1>9, <1>10 DEF Next, Step

\* Without I/O errors and restarts, every file starts with a header and has at
\* most one per thread, however the threads race on path.exists() (archive.py:52).
THEOREM HeadersTheorem == Spec => []HeadersUnlessFault
<1>1. Spec => []HeaderInv
  BY HeaderInit, HeaderStep, ArchiveInvariant, PTL DEF Spec
<1>2. HeaderInv => HeadersUnlessFault
  <2> SUFFICES ASSUME HeaderInv, errors + crashes = 0
               PROVE  HeaderFirst /\ \A d \in Days : Cardinality(Headers(d)) <= Cardinality(Threads)
    BY DEF HeadersUnlessFault
  <2>0. HeaderFirst
    BY DEF HeaderInv
  <2> SUFFICES ASSUME NEW d \in Days PROVE Cardinality(Headers(d)) <= Cardinality(Threads)
    BY <2>0
  <2>1. /\ IsFiniteSet(Headers(d))
        /\ Cardinality(Headers(d)) + Cardinality(Pending(d)) <= Cardinality(Threads)
    BY DEF HeaderInv, HeaderCount
  <2>2. Cardinality(Headers(d)) \in Nat /\ Cardinality(Pending(d)) \in Nat /\ Cardinality(Threads) \in Nat
    BY <2>1, ArchiveAssumption, PendingFinite, FS_CardinalityType
  <2> HIDE DEF Headers, Pending
  <2> QED BY <2>1, <2>2
<1> QED BY <1>1, <1>2, PTL
=============================================================================
