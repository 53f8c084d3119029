---------------------------- MODULE BlockIO_proofs ----------------------------
(***************************************************************************)
(* Proofs about BlockIO, for any CPUs and sectors, any capacity of the two  *)
(* tables and any number of requests and windows: no completion             *)
(* dereferences a null pointer, a completion is attributed exactly unless   *)
(* its sector was shared while it was in flight, and latencies are drained  *)
(* at most one window after their completions.                              *)
(*                                                                         *)
(* The argument is about requests that were alone on their sector.  Nobody  *)
(* else writes or deletes the two entries of such a request while a program *)
(* or a device deals with it, so that they are its own (or, when a table    *)
(* was full, absent) until its own completion has read them - whatever      *)
(* earlier requests of the sector left in the tables.                       *)
(***************************************************************************)
EXTENDS BlockIO, SequenceTheorems, TLAPS

\* The conjuncts of DiskTypeOK, by the part of the state they are about.
RequestTypes ==
    /\ issued \in 0..MaxRequests /\ sector \in [1..issued -> Sectors]
    /\ flying \subseteq 1..issued /\ mixed \subseteq 1..issued
    /\ dropped \subseteq 1..issued /\ missed \subseteq 1..issued

TableTypes == disk_start \in [Sectors -> 0..issued] /\ disk_cg \in [Sectors -> 0..issued]

ProgramTypes ==
    /\ handler \in [CPUs -> {"idle", "start", "cg", "lookup",
                             "delta", "lat", "io", "del_start", "del_cg"}]
    /\ rq \in [CPUs -> 0..issued]
    /\ tsp \in [CPUs -> 0..issued] /\ cgp \in [CPUs -> 0..issued]

WindowTypes ==
    /\ latWindow \in [CPUs -> 0..(MaxWindows + 1)]
    /\ ioWindow \in [CPUs -> 0..(MaxWindows + 1)]
    /\ latDrained \in 0..MaxWindows /\ ioDrained \in 0..MaxWindows

NoNullDeref == \A c \in CPUs :
    /\ handler[c] # "idle" => rq[c] # 0
    /\ handler[c] \in Found => tsp[c] # 0 /\ cgp[c] # 0

DiskTypes ==
    RequestTypes /\ TableTypes /\ ProgramTypes /\ WindowTypes /\ NoNullDeref

\* A program's locals are new when it starts, and ioWindow is set last.
DiskIdle == \A c \in CPUs :
    /\ handler[c] = "idle" =>
          rq[c] = 0 /\ tsp[c] = 0 /\ cgp[c] = 0 /\ latWindow[c] = 0
    /\ handler[c] \notin {"del_start", "del_cg"} => ioWindow[c] = 0

\* A request is at the device or in one program.
DiskOwner == \A c \in CPUs : rq[c] # 0 =>
    /\ rq[c] \notin flying
    /\ \A d \in CPUs : rq[d] = rq[c] => d = c

\* Two live requests of a sector are on record as mixed.
DiskAlone == \A q, r \in Live : q # r /\ sector[q] = sector[r] => q \in mixed

\* The entry is r's own, or missing because the table was full.
EntryOf(table, r) ==
    table[sector[r]] = r \/ (table[sector[r]] = 0 /\ r \in dropped)

\* Both entries of a request at the device are its own, unless it is mixed.
DiskFlying == \A r \in flying \ mixed : EntryOf(disk_start, r) /\ EntryOf(disk_cg, r)

\* What the program on CPU c may rely on when its request is alone.
Within(c) ==
    /\ handler[c] \in {"cg", "lookup"} => EntryOf(disk_start, rq[c])
    /\ handler[c] = "lookup" =>
          EntryOf(disk_cg, rq[c]) /\ tsp[c] = disk_start[sector[rq[c]]]
    /\ handler[c] \in Found => tsp[c] = rq[c] /\ cgp[c] = rq[c]
    /\ handler[c] = "delta" => disk_start[sector[rq[c]]] = rq[c]
    /\ handler[c] \in {"delta", "lat"} => disk_cg[sector[rq[c]]] = rq[c]

DiskProgram == \A c \in CPUs : rq[c] # 0 /\ rq[c] \notin mixed => Within(c)

\* The second conjunct of ExactAttribution.
DiskMissed == missed \subseteq mixed \cup dropped

\* c_diskio is drained right after c_disklat.
DiskWindows ==
    /\ ioDrained <= latDrained /\ latDrained <= ioDrained + 1
    /\ \A c \in CPUs : latWindow[c] <= latDrained + 1
    /\ LatencyNotLate

DiskInv ==
    /\ DiskTypes /\ DiskIdle /\ DiskOwner /\ DiskAlone /\ DiskFlying
    /\ DiskProgram /\ DiskMissed /\ DiskWindows

-----------------------------------------------------------------------------

\* Recording a new request's sector keeps those of the others (tp_block_issue).
LEMMA AppendSector ==
    ASSUME NEW n \in Nat, NEW S, NEW f \in [1..n -> S], NEW s \in S
    PROVE  /\ Append(f, s) \in [1..(n + 1) -> S]
           /\ \A i \in 1..n : Append(f, s)[i] = f[i]
           /\ Append(f, s)[n + 1] = s
<1>1. f \in Seq(S)
  OBVIOUS
<1>2. Len(f) = n
  OBVIOUS
<1>3. /\ Append(f, s) \in Seq(S) /\ Len(Append(f, s)) = n + 1
      /\ \A i \in 1..n : Append(f, s)[i] = f[i]
      /\ Append(f, s)[n + 1] = s
  BY <1>1, <1>2, AppendProperties
<1>4. Append(f, s) \in [1..Len(Append(f, s)) -> S]
  BY <1>3, LenProperties
<1> QED BY <1>3, <1>4

\* The parts of the type invariant make it up.
LEMMA DiskTypesSplit == DiskTypes => DiskTypeOK
<1>1. {"idle", "start", "cg", "lookup", "delta", "lat", "io", "del_start", "del_cg"}
        = {"idle", "start", "cg", "lookup"} \cup Found
  BY DEF Found
<1> QED
  BY <1>1 DEF DiskTypes, DiskTypeOK, RequestTypes, TableTypes, ProgramTypes,
              WindowTypes, NoNullDeref

\* What a program relies on holds after any step that leaves its locals and the
\* two entries of its sector alone.
LEMMA OthersWithin ==
    ASSUME NEW d \in CPUs, Within(d), sector' = sector, dropped \subseteq dropped',
           rq'[d] = rq[d], handler'[d] = handler[d], tsp'[d] = tsp[d], cgp'[d] = cgp[d],
           disk_start'[sector[rq[d]]] = disk_start[sector[rq[d]]],
           disk_cg'[sector[rq[d]]] = disk_cg[sector[rq[d]]]
    PROVE  Within(d)'
BY DEF Within, EntryOf

\* The tables start empty (collector.bpf.c map definitions).
LEMMA DiskInitInv == DiskInit => DiskInv
<1> SUFFICES ASSUME DiskInit PROVE DiskInv
  OBVIOUS
<1> USE BlockAssumption DEF DiskInit
<1>1. DiskTypes
  <2>1. RequestTypes
    BY EmptySeq DEF RequestTypes
  <2>2. TableTypes /\ ProgramTypes /\ WindowTypes /\ NoNullDeref
    BY DEF TableTypes, ProgramTypes, WindowTypes, NoNullDeref, Found
  <2> QED BY <2>1, <2>2 DEF DiskTypes
<1>2. DiskIdle /\ DiskOwner /\ DiskFlying /\ DiskProgram /\ DiskMissed
  BY DEF DiskIdle, DiskOwner, DiskFlying, DiskProgram, DiskMissed
<1>3. DiskAlone
  BY DEF DiskAlone, Live
<1>4. DiskWindows
  BY DEF DiskWindows, LatencyNotLate
<1> QED BY <1>1, <1>2, <1>3, <1>4 DEF DiskInv

\* Every step of tp_block_issue, tp_block_complete and drain keeps the invariant.
LEMMA DiskStep == DiskInv /\ [DiskNext]_diskVars => DiskInv'
<1> SUFFICES ASSUME DiskInv, [DiskNext]_diskVars PROVE DiskInv'
  OBVIOUS
<1> USE BlockAssumption DEF DiskInv, DiskTypes
<1>1. ASSUME NEW c \in CPUs, NEW s \in Sectors, Issue(c, s) PROVE DiskInv'
  <2> DEFINE r == issued + 1
  <2>1. /\ sector' \in [1..r -> Sectors] /\ sector'[r] = s
        /\ \A q \in 1..issued : sector'[q] = sector[q]
    <3>1. issued \in Nat /\ sector \in [1..issued -> Sectors] /\ sector' = Append(sector, s)
      BY <1>1 DEF Issue, RequestTypes
    <3> QED BY <3>1, AppendSector
  <2>2. r \notin Live /\ Live \subseteq 1..issued /\ Live' = Live \cup {r}
    <3>1. Live \subseteq 1..issued
      <4>1. \A d \in CPUs : rq[d] \in 0..issued
        BY DEF ProgramTypes
      <4>2. \A x \in 0..issued : x # 0 => x \in 1..issued
        BY DEF RequestTypes
      <4> QED BY <4>1, <4>2 DEF Live, RequestTypes
    <3>2. r \notin 1..issued /\ r # 0 /\ rq[c] = 0
      BY <1>1 DEF Issue, RequestTypes, DiskIdle
    <3>3. \A x : x \in Live' <=> x \in Live \cup {r}
      BY <1>1, <3>2 DEF Issue, Live, ProgramTypes
    <3> QED BY <3>1, <3>2, <3>3
  <2>3. DiskTypes'
    <3>1. RequestTypes'
      <4>1. issued' = r /\ issued' \in 0..MaxRequests /\ \A q \in 1..issued : q \in 1..r
        BY <1>1 DEF Issue, RequestTypes
      <4>2. mixed' \subseteq Live \cup mixed \cup {r}
        BY <1>1 DEF Issue
      <4>3. mixed' \subseteq 1..issued'
        BY <2>2, <4>1, <4>2 DEF RequestTypes
      <4>4. UNCHANGED <<flying, dropped, missed>> /\ sector' \in [1..issued' -> Sectors]
        BY <1>1, <2>1, <4>1 DEF Issue
      <4> QED BY <4>1, <4>3, <4>4 DEF RequestTypes
    <3>2. TableTypes'
      <4>1. issued' = issued + 1 /\ UNCHANGED <<disk_start, disk_cg>> /\ issued \in Nat
        BY <1>1 DEF Issue, tables, RequestTypes
      <4> QED BY <4>1 DEF TableTypes
    <3>3. ProgramTypes'
      BY <1>1, <2>1, <2>2
         DEF Issue, Continue, tables, windows, drained, ProgramTypes, RequestTypes
    <3>4. WindowTypes'
      BY <1>1, <2>1, <2>2 DEF Issue, Continue, tables, windows, drained, WindowTypes
    <3>5. NoNullDeref'
      BY <1>1, <2>1, <2>2
         DEF Issue, Continue, tables, windows, drained, NoNullDeref, RequestTypes,
             ProgramTypes, Found
    <3> QED BY <3>1, <3>2, <3>3, <3>4, <3>5
  <2>4. DiskIdle' /\ DiskOwner' /\ DiskMissed'
    BY <1>1
       DEF Issue, RequestTypes, TableTypes, ProgramTypes, NoNullDeref, DiskIdle,
           DiskOwner, DiskMissed, Continue, windows, WindowTypes
  <2>5. DiskAlone'
    <3> SUFFICES ASSUME NEW p \in Live', NEW q \in Live', p # q, sector'[p] = sector'[q]
                 PROVE p \in mixed'
      BY DEF DiskAlone
    <3> DEFINE others == {x \in Live : sector[x] = s}
    <3>1. /\ mixed \subseteq mixed'
          /\ \A x \in others : x \in mixed' /\ r \in mixed'
      BY <1>1 DEF Issue
    <3>2. CASE p \in Live /\ q \in Live
      BY <2>1, <2>2, <3>1, <3>2 DEF DiskAlone
    <3>3. CASE p = r /\ q \in Live
      BY <2>1, <2>2, <3>1, <3>3
    <3>4. CASE q = r /\ p \in Live
      BY <2>1, <2>2, <3>1, <3>4
    <3> QED BY <2>2, <3>2, <3>3, <3>4
  <2>9. mixed \subseteq mixed'
    BY <1>1 DEF Issue
  <2>6. DiskFlying'
    BY <1>1, <2>1
       DEF Issue, RequestTypes, TableTypes, ProgramTypes, NoNullDeref, DiskFlying,
           EntryOf, tables
  <2>7. DiskProgram'
    <3> SUFFICES ASSUME NEW d \in CPUs, rq'[d] # 0, rq'[d] \notin mixed' PROVE Within(d)'
      BY DEF DiskProgram
    <3>1. CASE d = c
      BY <3>1, <1>1, <2>1
         DEF Issue, RequestTypes, TableTypes, ProgramTypes, NoNullDeref,
             DiskProgram, Within, EntryOf, tables, Continue, Found
    <3>2. CASE d # c
      <4>1. /\ rq'[d] = rq[d] /\ handler'[d] = handler[d] /\ tsp'[d] = tsp[d] /\ cgp'[d] = cgp[d]
            /\ sector'[rq[d]] = sector[rq[d]] /\ UNCHANGED <<tables, dropped>>
        <5>1. /\ rq' = [rq EXCEPT ![c] = r] /\ handler' = [handler EXCEPT ![c] = "start"]
              /\ UNCHANGED <<tsp, cgp, tables, dropped>>
          BY <1>1 DEF Issue, Continue
        <5>2. rq'[d] = rq[d] /\ handler'[d] = handler[d]
          BY <5>1, <3>2 DEF ProgramTypes
        <5>3. rq[d] \in 1..issued
          BY <5>2 DEF ProgramTypes, RequestTypes
        <5> QED BY <5>1, <5>2, <5>3, <2>1
      <4> QED BY <4>1, <2>9 DEF DiskProgram, Within, EntryOf, tables
    <3> QED BY <3>1, <3>2
  <2>8. DiskWindows'
    BY <1>1 DEF Issue, DiskWindows, LatencyNotLate, windows, drained
  <2> QED BY <2>3, <2>4, <2>5, <2>6, <2>7, <2>8
<1>2. ASSUME NEW c \in CPUs, UpdateStart(c) PROVE DiskInv'
  <2>1. rq[c] \in Live /\ rq[c] \in 1..issued /\ Live' = Live
    BY <1>2
       DEF UpdateStart, RequestTypes, TableTypes, ProgramTypes, NoNullDeref, Live,
           Found
  <2>2. \A q \in Live \ mixed : q # rq[c] => sector[q] # sector[rq[c]]
    BY <2>1 DEF DiskAlone
  <2>3. DiskTypes'
    <3>1. RequestTypes'
      BY <1>2, <2>1 DEF UpdateStart, Continue, windows, drained, RequestTypes
    <3>2. TableTypes'
      <4>1. disk_start' = disk_start \/ disk_start' = [disk_start EXCEPT ![sector[rq[c]]] = rq[c]]
        BY <1>2 DEF UpdateStart
      <4>2. UNCHANGED <<issued, disk_cg>>
        BY <1>2 DEF UpdateStart
      <4> QED BY <2>1, <4>1, <4>2 DEF TableTypes, RequestTypes
    <3>3. ProgramTypes'
      BY <1>2, <2>1 DEF UpdateStart, Continue, windows, drained, ProgramTypes, RequestTypes
    <3>4. WindowTypes'
      BY <1>2, <2>1 DEF UpdateStart, Continue, windows, drained, WindowTypes
    <3>5. NoNullDeref'
      BY <1>2, <2>1
         DEF UpdateStart, Continue, windows, drained, NoNullDeref, RequestTypes,
             ProgramTypes, Found
    <3> QED BY <3>1, <3>2, <3>3, <3>4, <3>5
  <2>4. DiskIdle' /\ DiskOwner' /\ DiskMissed'
    BY <1>2
       DEF UpdateStart, RequestTypes, TableTypes, ProgramTypes, NoNullDeref,
           DiskIdle, DiskOwner, DiskMissed, Continue, windows, WindowTypes
  <2>5. DiskAlone'
    BY <1>2, <2>1 DEF UpdateStart, DiskAlone
  <2>6. DiskFlying'
    <3>1. \A q \in flying \ mixed : q \in Live /\ q # rq[c] /\ q \in 1..issued
      <4>1. rq[c] \notin flying /\ flying \subseteq 1..issued
        BY <2>1 DEF DiskOwner, RequestTypes
      <4>2. flying \subseteq Live
        BY <4>1 DEF Live
      <4> QED BY <4>1, <4>2
    <3>2. \A q \in flying \ mixed : disk_start'[sector[q]] = disk_start[sector[q]]
      BY <1>2, <2>1, <2>2, <3>1 DEF UpdateStart, RequestTypes, TableTypes
    <3> QED BY <1>2, <3>2 DEF UpdateStart, DiskFlying, EntryOf
  <2>7. DiskProgram'
    <3> SUFFICES ASSUME NEW d \in CPUs, rq'[d] # 0, rq'[d] \notin mixed' PROVE Within(d)'
      BY DEF DiskProgram
    <3>1. CASE d = c
      BY <3>1, <1>2, <2>1, <2>2
         DEF UpdateStart, RequestTypes, TableTypes, ProgramTypes, NoNullDeref,
             DiskProgram, Within, EntryOf, Continue, Found, Live, DiskOwner,
             CanUpdate
    <3>2. CASE d # c
      <4>1. /\ rq'[d] = rq[d] /\ handler'[d] = handler[d] /\ tsp'[d] = tsp[d] /\ cgp'[d] = cgp[d]
            /\ sector' = sector /\ mixed' = mixed /\ dropped \subseteq dropped'
        BY <1>2, <3>2 DEF UpdateStart, Continue, Exit, ProgramTypes
      <4>2. Within(d)
        BY <4>1 DEF DiskProgram
      <4>3. /\ disk_start'[sector[rq[d]]] = disk_start[sector[rq[d]]]
            /\ disk_cg'[sector[rq[d]]] = disk_cg[sector[rq[d]]]
        <5>1. rq[d] \in Live \ mixed /\ rq[d] # rq[c] /\ rq[d] \in 1..issued
          BY <2>1, <3>2, <4>1 DEF Live, DiskOwner, ProgramTypes, RequestTypes
        <5>2. sector[rq[d]] # sector[rq[c]] /\ sector[rq[d]] \in Sectors
          BY <2>2, <5>1 DEF RequestTypes
        <5> QED BY <1>2, <5>2 DEF UpdateStart, TableTypes
      <4> QED BY <4>1, <4>2, <4>3, OthersWithin
    <3> QED BY <3>1, <3>2
  <2>8. DiskWindows'
    BY <1>2 DEF UpdateStart, DiskWindows, LatencyNotLate, windows, drained
  <2> QED BY <2>3, <2>4, <2>5, <2>6, <2>7, <2>8
<1>3. ASSUME NEW c \in CPUs, UpdateCg(c) PROVE DiskInv'
  <2>1. rq[c] \in Live /\ rq[c] \in 1..issued /\ Live' = Live
    BY <1>3
       DEF UpdateCg, RequestTypes, TableTypes, ProgramTypes, NoNullDeref, Live,
           Found, Exit
  <2>2. \A q \in Live \ mixed : q # rq[c] => sector[q] # sector[rq[c]]
    BY <2>1 DEF DiskAlone
  <2>3. DiskTypes'
    <3>1. RequestTypes'
      BY <1>3, <2>1 DEF UpdateCg, Continue, drained, Exit, RequestTypes
    <3>2. TableTypes'
      BY <1>3, <2>1 DEF UpdateCg, Continue, drained, Exit, TableTypes, RequestTypes
    <3>3. ProgramTypes'
      BY <1>3, <2>1 DEF UpdateCg, Continue, drained, Exit, ProgramTypes, RequestTypes
    <3>4. WindowTypes'
      BY <1>3, <2>1 DEF UpdateCg, Continue, drained, Exit, WindowTypes
    <3>5. NoNullDeref'
      BY <1>3, <2>1
         DEF UpdateCg, Continue, drained, Exit, NoNullDeref, RequestTypes,
             ProgramTypes, Found
    <3> QED BY <3>1, <3>2, <3>3, <3>4, <3>5
  <2>4. DiskIdle' /\ DiskMissed'
    BY <1>3 DEF UpdateCg, ProgramTypes, WindowTypes, DiskIdle, DiskMissed, Continue, Exit
  <2>9. DiskOwner'
    BY <1>3, <2>1 DEF UpdateCg, ProgramTypes, DiskOwner, Exit
  <2>5. DiskAlone'
    BY <1>3, <2>1 DEF UpdateCg, DiskAlone
  <2>6. DiskFlying'
    BY <1>3, <2>1, <2>2
       DEF UpdateCg, RequestTypes, TableTypes, ProgramTypes, NoNullDeref,
           DiskFlying, EntryOf, Live, DiskProgram, Within, CanUpdate
  <2>7. DiskProgram'
    <3> SUFFICES ASSUME NEW d \in CPUs, rq'[d] # 0, rq'[d] \notin mixed' PROVE Within(d)'
      BY DEF DiskProgram
    <3>1. CASE d = c
      BY <3>1, <1>3, <2>1, <2>2
         DEF UpdateCg, RequestTypes, TableTypes, ProgramTypes, NoNullDeref,
             DiskProgram, Within, EntryOf, Continue, Found, Live, DiskOwner, Exit
    <3>2. CASE d # c
      <4>1. /\ rq'[d] = rq[d] /\ handler'[d] = handler[d] /\ tsp'[d] = tsp[d] /\ cgp'[d] = cgp[d]
            /\ sector' = sector /\ mixed' = mixed /\ dropped \subseteq dropped'
        BY <1>3, <3>2 DEF UpdateCg, Continue, Exit, ProgramTypes
      <4>2. Within(d)
        BY <4>1 DEF DiskProgram
      <4>3. /\ disk_start'[sector[rq[d]]] = disk_start[sector[rq[d]]]
            /\ disk_cg'[sector[rq[d]]] = disk_cg[sector[rq[d]]]
        <5>1. rq[d] \in Live \ mixed /\ rq[d] # rq[c] /\ rq[d] \in 1..issued
          BY <2>1, <3>2, <4>1 DEF Live, DiskOwner, ProgramTypes, RequestTypes
        <5>2. sector[rq[d]] # sector[rq[c]] /\ sector[rq[d]] \in Sectors
          BY <2>2, <5>1 DEF RequestTypes
        <5> QED BY <1>3, <5>2 DEF UpdateCg, TableTypes
      <4> QED BY <4>1, <4>2, <4>3, OthersWithin
    <3> QED BY <3>1, <3>2
  <2>8. DiskWindows'
    BY <1>3 DEF UpdateCg, DiskWindows, LatencyNotLate, drained, Exit, WindowTypes
  <2> QED BY <2>3, <2>4, <2>5, <2>6, <2>7, <2>8, <2>9
<1>4. ASSUME NEW c \in CPUs, NEW r \in flying, LookupStart(c, r) PROVE DiskInv'
  <2>1. r \in Live /\ r \in 1..issued /\ Live' = Live
    BY <1>4
       DEF LookupStart, RequestTypes, TableTypes, ProgramTypes, NoNullDeref, Live,
           DiskIdle
  <2>3. DiskTypes'
    <3>1. RequestTypes'
      BY <1>4, <2>1 DEF LookupStart, Continue, tables, windows, drained, RequestTypes
    <3>2. TableTypes'
      BY <1>4, <2>1
         DEF LookupStart, Continue, tables, windows, drained, TableTypes,
             RequestTypes
    <3>3. ProgramTypes'
      BY <1>4, <2>1 DEF LookupStart, Continue, ProgramTypes, RequestTypes, TableTypes
    <3>4. WindowTypes'
      BY <1>4, <2>1 DEF LookupStart, Continue, tables, windows, drained, WindowTypes
    <3>5. NoNullDeref'
      BY <1>4, <2>1
         DEF LookupStart, Continue, tables, windows, drained, NoNullDeref,
             RequestTypes, ProgramTypes, Found
    <3> QED BY <3>1, <3>2, <3>3, <3>4, <3>5
  <2>4. DiskIdle' /\ DiskOwner' /\ DiskMissed'
    BY <1>4, <2>1
       DEF LookupStart, RequestTypes, TableTypes, ProgramTypes, NoNullDeref,
           DiskIdle, DiskOwner, DiskMissed, Continue, windows, WindowTypes
  <2>5. DiskAlone'
    BY <1>4, <2>1 DEF LookupStart, DiskAlone
  <2>6. DiskFlying'
    BY <1>4 DEF LookupStart, DiskFlying, EntryOf, tables
  <2>7. DiskProgram'
    <3> SUFFICES ASSUME NEW d \in CPUs, rq'[d] # 0, rq'[d] \notin mixed' PROVE Within(d)'
      BY DEF DiskProgram
    <3>1. CASE d = c
      BY <3>1, <1>4, <2>1
         DEF LookupStart, RequestTypes, TableTypes, ProgramTypes, NoNullDeref,
             DiskProgram, Within, EntryOf, Continue, Found, DiskFlying, tables
    <3>2. CASE d # c
      BY <3>2, <1>4, <2>1
         DEF LookupStart, RequestTypes, TableTypes, ProgramTypes, NoNullDeref,
             DiskProgram, Within, EntryOf, Continue, Found, DiskFlying, tables
    <3> QED BY <3>1, <3>2
  <2>8. DiskWindows'
    BY <1>4 DEF LookupStart, DiskWindows, LatencyNotLate, windows, drained
  <2> QED BY <2>3, <2>4, <2>5, <2>6, <2>7, <2>8
<1>5. ASSUME NEW c \in CPUs, LookupCg(c) PROVE DiskInv'
  <2>1. rq[c] \in Live /\ rq[c] \in 1..issued /\ Live' \subseteq Live
    BY <1>5
       DEF LookupCg, RequestTypes, TableTypes, ProgramTypes, NoNullDeref, Live,
           Found, Exit
  <2>3. DiskTypes'
    <3>1. RequestTypes'
      BY <1>5, <2>1 DEF LookupCg, Continue, drained, Exit, tables, windows, RequestTypes
    <3>2. TableTypes'
      BY <1>5, <2>1
         DEF LookupCg, Continue, drained, Exit, tables, windows, TableTypes,
             RequestTypes
    <3>3. ProgramTypes'
      <4>1. disk_cg[sector[rq[c]]] \in 0..issued /\ issued' = issued
        BY <1>5, <2>1 DEF LookupCg, RequestTypes, TableTypes
      <4> QED BY <1>5, <4>1 DEF LookupCg, Continue, Exit, ProgramTypes, RequestTypes
    <3>4. WindowTypes'
      BY <1>5, <2>1 DEF LookupCg, Continue, drained, Exit, tables, windows, WindowTypes
    <3>5. NoNullDeref'
      BY <1>5, <2>1
         DEF LookupCg, Continue, drained, Exit, tables, windows, NoNullDeref,
             RequestTypes, ProgramTypes, Found
    <3> QED BY <3>1, <3>2, <3>3, <3>4, <3>5
  <2>4. DiskIdle'
    BY <1>5 DEF LookupCg, ProgramTypes, WindowTypes, DiskIdle, Continue, Exit, windows
  <2>9. DiskOwner'
    BY <1>5, <2>1 DEF LookupCg, ProgramTypes, DiskOwner, Exit
  <2>5. DiskMissed'
    BY <1>5, <2>1 DEF LookupCg, DiskMissed, DiskProgram, Within, EntryOf
  <2>6. DiskAlone' /\ DiskFlying'
    BY <1>5, <2>1 DEF LookupCg, DiskAlone, DiskFlying, EntryOf, tables
  <2>7. DiskProgram'
    <3> SUFFICES ASSUME NEW d \in CPUs, rq'[d] # 0, rq'[d] \notin mixed' PROVE Within(d)'
      BY DEF DiskProgram
    <3>1. CASE d = c
      BY <3>1, <1>5, <2>1
         DEF LookupCg, RequestTypes, TableTypes, ProgramTypes, NoNullDeref,
             DiskProgram, Within, EntryOf, Continue, Found, Exit, tables
    <3>2. CASE d # c
      <4>1. /\ rq'[d] = rq[d] /\ handler'[d] = handler[d] /\ tsp'[d] = tsp[d] /\ cgp'[d] = cgp[d]
            /\ sector' = sector /\ mixed' = mixed /\ dropped \subseteq dropped'
        BY <1>5, <3>2 DEF LookupCg, Continue, Exit, ProgramTypes
      <4>2. Within(d)
        BY <4>1 DEF DiskProgram
      <4>3. disk_start' = disk_start /\ disk_cg' = disk_cg
        BY <1>5 DEF LookupCg, tables
      <4> QED BY <4>1, <4>2, <4>3, OthersWithin
    <3> QED BY <3>1, <3>2
  <2>8. DiskWindows'
    BY <1>5 DEF LookupCg, DiskWindows, LatencyNotLate, drained, Exit, WindowTypes, windows
  <2> QED BY <2>3, <2>4, <2>5, <2>6, <2>7, <2>8, <2>9
<1>6. ASSUME NEW c \in CPUs, ReadStart(c) PROVE DiskInv'
  <2>1. rq[c] \in Live /\ rq[c] \in 1..issued /\ Live' = Live
    BY <1>6
       DEF ReadStart, RequestTypes, TableTypes, ProgramTypes, NoNullDeref, Live,
           Found, requests
  <2>2. PICK q \in Deref(disk_start, sector[rq[c]], tsp[c]) : tsp' = [tsp EXCEPT ![c] = q]
    BY <1>6 DEF ReadStart
  <2>3. q \in 1..issued
    BY <1>6, <2>1, <2>2
       DEF ReadStart, Deref, RequestTypes, TableTypes, ProgramTypes, NoNullDeref,
           Found
  <2>4. DiskTypes'
    <3>1. RequestTypes'
      BY <1>6, <2>1, <2>2, <2>3
         DEF ReadStart, Continue, requests, tables, windows, drained, RequestTypes
    <3>2. TableTypes'
      BY <1>6, <2>1, <2>2, <2>3
         DEF ReadStart, Continue, requests, tables, windows, drained, TableTypes,
             RequestTypes
    <3>3. ProgramTypes'
      BY <1>6, <2>1, <2>2, <2>3
         DEF ReadStart, Continue, requests, tables, windows, drained, ProgramTypes,
             RequestTypes
    <3>4. WindowTypes'
      BY <1>6, <2>1, <2>2, <2>3
         DEF ReadStart, Continue, requests, tables, windows, drained, WindowTypes
    <3>5. NoNullDeref'
      BY <1>6, <2>1, <2>2, <2>3
         DEF ReadStart, Continue, requests, tables, windows, drained, NoNullDeref,
             RequestTypes, ProgramTypes, Found
    <3> QED BY <3>1, <3>2, <3>3, <3>4, <3>5
  <2>5. DiskIdle' /\ DiskOwner' /\ DiskMissed'
    BY <1>6, <2>2
       DEF ReadStart, RequestTypes, TableTypes, ProgramTypes, NoNullDeref, DiskIdle,
           DiskOwner, DiskMissed, Continue, requests, windows, WindowTypes
  <2>6. DiskAlone' /\ DiskFlying'
    BY <1>6, <2>1 DEF ReadStart, DiskAlone, DiskFlying, EntryOf, tables, requests
  <2>7. DiskProgram'
    <3> SUFFICES ASSUME NEW d \in CPUs, rq'[d] # 0, rq'[d] \notin mixed' PROVE Within(d)'
      BY DEF DiskProgram
    <3>1. CASE d = c
      BY <3>1, <1>6, <2>1, <2>2
         DEF ReadStart, RequestTypes, TableTypes, ProgramTypes, NoNullDeref,
             DiskProgram, Within, EntryOf, Continue, Found, Deref, tables, requests
    <3>2. CASE d # c
      BY <3>2, <1>6, <2>1, <2>2
         DEF ReadStart, RequestTypes, TableTypes, ProgramTypes, NoNullDeref,
             DiskProgram, Within, EntryOf, Continue, Found, Deref, tables, requests
    <3> QED BY <3>1, <3>2
  <2>8. DiskWindows'
    BY <1>6 DEF ReadStart, DiskWindows, LatencyNotLate, windows, drained
  <2> QED BY <2>4, <2>5, <2>6, <2>7, <2>8
<1>7. ASSUME NEW c \in CPUs, CountLatency(c) PROVE DiskInv'
  <2>1. rq[c] \in Live /\ rq[c] \in 1..issued /\ Live' = Live
    BY <1>7
       DEF CountLatency, RequestTypes, TableTypes, ProgramTypes, NoNullDeref, Live,
           Found, requests
  <2>2. PICK q \in Deref(disk_cg, sector[rq[c]], cgp[c]) : cgp' = [cgp EXCEPT ![c] = q]
    BY <1>7 DEF CountLatency
  <2>3. q \in 1..issued
    BY <1>7, <2>1, <2>2
       DEF CountLatency, Deref, RequestTypes, TableTypes, ProgramTypes, NoNullDeref,
           Found
  <2>4. DiskTypes'
    <3>1. RequestTypes'
      BY <1>7, <2>1, <2>2, <2>3
         DEF CountLatency, Continue, requests, tables, drained, RequestTypes
    <3>2. TableTypes'
      BY <1>7, <2>1, <2>2, <2>3
         DEF CountLatency, Continue, requests, tables, drained, TableTypes,
             RequestTypes
    <3>3. ProgramTypes'
      BY <1>7, <2>1, <2>2, <2>3
         DEF CountLatency, Continue, requests, tables, drained, ProgramTypes,
             RequestTypes
    <3>4. WindowTypes'
      BY <1>7, <2>1, <2>2, <2>3
         DEF CountLatency, Continue, requests, tables, drained, WindowTypes
    <3>5. NoNullDeref'
      BY <1>7, <2>1, <2>2, <2>3
         DEF CountLatency, Continue, requests, tables, drained, NoNullDeref,
             RequestTypes, ProgramTypes, Found
    <3> QED BY <3>1, <3>2, <3>3, <3>4, <3>5
  <2>5. DiskIdle' /\ DiskOwner' /\ DiskMissed'
    BY <1>7, <2>2
       DEF CountLatency, RequestTypes, TableTypes, ProgramTypes, NoNullDeref,
           DiskIdle, DiskOwner, DiskMissed, Continue, requests, WindowTypes
  <2>6. DiskAlone' /\ DiskFlying'
    BY <1>7, <2>1 DEF CountLatency, DiskAlone, DiskFlying, EntryOf, tables, requests
  <2>7. DiskProgram'
    <3> SUFFICES ASSUME NEW d \in CPUs, rq'[d] # 0, rq'[d] \notin mixed' PROVE Within(d)'
      BY DEF DiskProgram
    <3>1. CASE d = c
      BY <3>1, <1>7, <2>1, <2>2
         DEF CountLatency, RequestTypes, TableTypes, ProgramTypes, NoNullDeref,
             DiskProgram, Within, EntryOf, Continue, Found, Deref, tables, requests
    <3>2. CASE d # c
      BY <3>2, <1>7, <2>1, <2>2
         DEF CountLatency, RequestTypes, TableTypes, ProgramTypes, NoNullDeref,
             DiskProgram, Within, EntryOf, Continue, Found, Deref, tables, requests
    <3> QED BY <3>1, <3>2
  <2>8. DiskWindows'
    <3>1. /\ UNCHANGED <<ioWindow, latDrained, ioDrained>>
          /\ latDrained \in Nat /\ ioDrained \in Nat /\ latDrained <= ioDrained + 1
      BY <1>7 DEF CountLatency, drained, WindowTypes, DiskWindows
    <3>2. \A d \in CPUs : latWindow'[d] = (IF d = c THEN latDrained + 1 ELSE latWindow[d])
      BY <1>7 DEF CountLatency, WindowTypes
    <3>3. ioWindow[c] = 0
      BY <1>7 DEF CountLatency, DiskIdle
    <3> QED BY <3>1, <3>2, <3>3 DEF DiskWindows, LatencyNotLate
  <2> QED BY <2>4, <2>5, <2>6, <2>7, <2>8
<1>8. ASSUME NEW c \in CPUs, CountIo(c) PROVE DiskInv'
  <2>1. rq[c] \in Live /\ rq[c] \in 1..issued /\ Live' = Live
    BY <1>8
       DEF CountIo, RequestTypes, TableTypes, ProgramTypes, NoNullDeref, Live,
           Found, requests
  <2>4. DiskTypes'
    <3>1. RequestTypes'
      BY <1>8, <2>1 DEF CountIo, Continue, requests, tables, drained, RequestTypes
    <3>2. TableTypes'
      BY <1>8, <2>1
         DEF CountIo, Continue, requests, tables, drained, TableTypes, RequestTypes
    <3>3. ProgramTypes'
      BY <1>8, <2>1
         DEF CountIo, Continue, requests, tables, drained, ProgramTypes,
             RequestTypes
    <3>4. WindowTypes'
      BY <1>8, <2>1 DEF CountIo, Continue, requests, tables, drained, WindowTypes
    <3>5. NoNullDeref'
      BY <1>8, <2>1
         DEF CountIo, Continue, requests, tables, drained, NoNullDeref,
             RequestTypes, ProgramTypes, Found
    <3> QED BY <3>1, <3>2, <3>3, <3>4, <3>5
  <2>5. DiskIdle' /\ DiskOwner' /\ DiskMissed'
    BY <1>8
       DEF CountIo, RequestTypes, TableTypes, ProgramTypes, NoNullDeref, DiskIdle,
           DiskOwner, DiskMissed, Continue, requests, WindowTypes
  <2>6. DiskAlone' /\ DiskFlying'
    BY <1>8, <2>1 DEF CountIo, DiskAlone, DiskFlying, EntryOf, tables, requests
  <2>7. DiskProgram'
    <3> SUFFICES ASSUME NEW d \in CPUs, rq'[d] # 0, rq'[d] \notin mixed' PROVE Within(d)'
      BY DEF DiskProgram
    <3>1. CASE d = c
      BY <3>1, <1>8, <2>1
         DEF CountIo, RequestTypes, TableTypes, ProgramTypes, NoNullDeref,
             DiskProgram, Within, EntryOf, Continue, Found, tables, requests
    <3>2. CASE d # c
      BY <3>2, <1>8, <2>1
         DEF CountIo, RequestTypes, TableTypes, ProgramTypes, NoNullDeref,
             DiskProgram, Within, EntryOf, Continue, Found, tables, requests
    <3> QED BY <3>1, <3>2
  <2>8. DiskWindows'
    BY <1>8 DEF CountIo, DiskWindows, LatencyNotLate, drained, WindowTypes
  <2> QED BY <2>4, <2>5, <2>6, <2>7, <2>8
<1>9. ASSUME NEW c \in CPUs, DeleteStart(c) PROVE DiskInv'
  <2>1. rq[c] \in Live /\ rq[c] \in 1..issued /\ Live' = Live
    BY <1>9
       DEF DeleteStart, RequestTypes, TableTypes, ProgramTypes, NoNullDeref, Live,
           Found, requests
  <2>2. \A q \in Live \ mixed : q # rq[c] => sector[q] # sector[rq[c]]
    BY <2>1 DEF DiskAlone
  <2>4. DiskTypes'
    <3>1. RequestTypes'
      BY <1>9, <2>1 DEF DeleteStart, Continue, requests, windows, drained, RequestTypes
    <3>2. TableTypes'
      BY <1>9, <2>1
         DEF DeleteStart, Continue, requests, windows, drained, TableTypes,
             RequestTypes
    <3>3. ProgramTypes'
      BY <1>9, <2>1
         DEF DeleteStart, Continue, requests, windows, drained, ProgramTypes,
             RequestTypes
    <3>4. WindowTypes'
      BY <1>9, <2>1 DEF DeleteStart, Continue, requests, windows, drained, WindowTypes
    <3>5. NoNullDeref'
      BY <1>9, <2>1
         DEF DeleteStart, Continue, requests, windows, drained, NoNullDeref,
             RequestTypes, ProgramTypes, Found
    <3> QED BY <3>1, <3>2, <3>3, <3>4, <3>5
  <2>5. DiskIdle' /\ DiskOwner' /\ DiskMissed'
    BY <1>9
       DEF DeleteStart, RequestTypes, TableTypes, ProgramTypes, NoNullDeref,
           DiskIdle, DiskOwner, DiskMissed, Continue, requests, windows, WindowTypes
  <2>6. DiskAlone'
    BY <1>9, <2>1 DEF DeleteStart, DiskAlone, requests
  <2>7. DiskFlying'
    BY <1>9, <2>1, <2>2
       DEF DeleteStart, RequestTypes, TableTypes, ProgramTypes, NoNullDeref,
           DiskFlying, EntryOf, Live, DiskOwner, requests
  <2>8. DiskProgram'
    <3> SUFFICES ASSUME NEW d \in CPUs, rq'[d] # 0, rq'[d] \notin mixed' PROVE Within(d)'
      BY DEF DiskProgram
    <3>1. CASE d = c
      BY <3>1, <1>9, <2>1, <2>2
         DEF DeleteStart, RequestTypes, TableTypes, ProgramTypes, NoNullDeref,
             DiskProgram, Within, EntryOf, Continue, Found, Live, DiskOwner,
             requests
    <3>2. CASE d # c
      <4>1. /\ rq'[d] = rq[d] /\ handler'[d] = handler[d] /\ tsp'[d] = tsp[d] /\ cgp'[d] = cgp[d]
            /\ sector' = sector /\ mixed' = mixed /\ dropped \subseteq dropped'
        BY <1>9, <3>2 DEF DeleteStart, Continue, ProgramTypes, requests
      <4>2. Within(d)
        BY <4>1 DEF DiskProgram
      <4>3. /\ disk_start'[sector[rq[d]]] = disk_start[sector[rq[d]]]
            /\ disk_cg'[sector[rq[d]]] = disk_cg[sector[rq[d]]]
        <5>1. rq[d] \in Live \ mixed /\ rq[d] # rq[c] /\ rq[d] \in 1..issued
          BY <2>1, <3>2, <4>1 DEF Live, DiskOwner, ProgramTypes, RequestTypes
        <5>2. sector[rq[d]] # sector[rq[c]] /\ sector[rq[d]] \in Sectors
          BY <2>2, <5>1 DEF RequestTypes
        <5> QED BY <1>9, <5>2 DEF DeleteStart, TableTypes
      <4> QED BY <4>1, <4>2, <4>3, OthersWithin
    <3> QED BY <3>1, <3>2
  <2>9. DiskWindows'
    BY <1>9 DEF DeleteStart, DiskWindows, LatencyNotLate, windows, drained
  <2> QED BY <2>4, <2>5, <2>6, <2>7, <2>8, <2>9
<1>10. ASSUME NEW c \in CPUs, DeleteCg(c) PROVE DiskInv'
  <2>1. rq[c] \in Live /\ rq[c] \in 1..issued /\ Live' \subseteq Live
    BY <1>10
       DEF DeleteCg, RequestTypes, TableTypes, ProgramTypes, NoNullDeref, Live,
           Found, requests, Exit
  <2>2. \A q \in Live \ mixed : q # rq[c] => sector[q] # sector[rq[c]]
    BY <2>1 DEF DiskAlone
  <2>4. DiskTypes'
    <3>1. RequestTypes'
      BY <1>10, <2>1 DEF DeleteCg, Continue, requests, drained, Exit, RequestTypes
    <3>2. TableTypes'
      BY <1>10, <2>1
         DEF DeleteCg, Continue, requests, drained, Exit, TableTypes, RequestTypes
    <3>3. ProgramTypes'
      BY <1>10, <2>1
         DEF DeleteCg, Continue, requests, drained, Exit, ProgramTypes, RequestTypes
    <3>4. WindowTypes'
      BY <1>10, <2>1 DEF DeleteCg, Continue, requests, drained, Exit, WindowTypes
    <3>5. NoNullDeref'
      BY <1>10, <2>1
         DEF DeleteCg, Continue, requests, drained, Exit, NoNullDeref, RequestTypes,
             ProgramTypes, Found
    <3> QED BY <3>1, <3>2, <3>3, <3>4, <3>5
  <2>5. DiskIdle' /\ DiskMissed'
    BY <1>10
       DEF DeleteCg, ProgramTypes, WindowTypes, DiskIdle, DiskMissed, Continue,
           requests, Exit
  <2>10. DiskOwner'
    BY <1>10, <2>1 DEF DeleteCg, ProgramTypes, DiskOwner, requests, Exit
  <2>6. DiskAlone'
    BY <1>10, <2>1 DEF DeleteCg, DiskAlone, requests
  <2>7. DiskFlying'
    BY <1>10, <2>1, <2>2
       DEF DeleteCg, RequestTypes, TableTypes, ProgramTypes, NoNullDeref,
           DiskFlying, EntryOf, Live, DiskOwner, requests
  <2>8. DiskProgram'
    <3> SUFFICES ASSUME NEW d \in CPUs, rq'[d] # 0, rq'[d] \notin mixed' PROVE Within(d)'
      BY DEF DiskProgram
    <3>1. CASE d = c
      BY <3>1, <1>10, <2>1, <2>2
         DEF DeleteCg, RequestTypes, TableTypes, ProgramTypes, NoNullDeref,
             DiskProgram, Within, EntryOf, Continue, Found, Live, DiskOwner,
             requests, Exit
    <3>2. CASE d # c
      BY <3>2, <1>10, <2>1, <2>2
         DEF DeleteCg, RequestTypes, TableTypes, ProgramTypes, NoNullDeref,
             DiskProgram, Within, EntryOf, Continue, Found, Live, DiskOwner,
             requests, Exit
    <3> QED BY <3>1, <3>2
  <2>9. DiskWindows'
    BY <1>10 DEF DeleteCg, DiskWindows, LatencyNotLate, drained, Exit, WindowTypes
  <2> QED BY <2>4, <2>5, <2>6, <2>7, <2>8, <2>9, <2>10
<1>11. CASE DrainLatency \/ DrainIo \/ UNCHANGED diskVars
  <2>1. UNCHANGED <<requests, tables, program>>
    BY <1>11 DEF DrainLatency, DrainIo, diskVars
  <2>2. DiskTypes'
    <3>1. RequestTypes'
      BY <1>11, <2>1
         DEF DrainLatency, DrainIo, requests, tables, program, diskVars, drained,
             RequestTypes
    <3>2. TableTypes'
      BY <1>11, <2>1
         DEF DrainLatency, DrainIo, requests, tables, program, diskVars, drained,
             TableTypes, RequestTypes
    <3>3. ProgramTypes'
      BY <1>11, <2>1
         DEF DrainLatency, DrainIo, requests, tables, program, diskVars, drained,
             ProgramTypes, RequestTypes
    <3>4. WindowTypes'
      BY <1>11, <2>1
         DEF DrainLatency, DrainIo, requests, tables, program, diskVars, drained,
             WindowTypes
    <3>5. NoNullDeref'
      BY <1>11, <2>1
         DEF DrainLatency, DrainIo, requests, tables, program, diskVars, drained,
             NoNullDeref, RequestTypes, ProgramTypes, Found
    <3> QED BY <3>1, <3>2, <3>3, <3>4, <3>5
  <2>3. DiskIdle' /\ DiskOwner' /\ DiskAlone' /\ DiskFlying' /\ DiskProgram' /\ DiskMissed'
    BY <2>1
       DEF requests, tables, program, DiskIdle, DiskOwner, DiskAlone, Live,
           DiskFlying, EntryOf, DiskProgram, Within, DiskMissed, WindowTypes
  <2>4. DiskWindows'
    BY <1>11, <2>1
       DEF DrainLatency, DrainIo, DiskWindows, LatencyNotLate, program, diskVars,
           drained, WindowTypes
  <2> QED BY <2>2, <2>3, <2>4
<1> QED
  BY <1>1, <1>2, <1>3, <1>4, <1>5, <1>6, <1>7, <1>8, <1>9, <1>10, <1>11 DEF DiskNext

-----------------------------------------------------------------------------

\* The invariant holds of every behaviour (disk_start and disk_cg of
\* collector.bpf.c).
LEMMA DiskInvariant == DiskSpec => []DiskInv
BY DiskInitInv, DiskStep, PTL DEF DiskSpec

\* Types, and no null pointer is dereferenced: a completion that goes on has found
\* both of its entries (tp_block_complete).
THEOREM DiskTypesCorrect == DiskSpec => []DiskTypeOK
<1>1. DiskInv => DiskTypeOK
  BY DiskTypesSplit DEF DiskInv
<1> QED BY <1>1, DiskInvariant, PTL

\* On any number of CPUs, a completion is credited with the latency from its own
\* start to the cgroup that issued it, unless its sector was shared in flight; it
\* goes uncredited only if a table was full (tp_block_issue, tp_block_complete).
THEOREM LatencyAttributedExactly == DiskSpec => []ExactAttribution
<1>1. DiskInv => ExactAttribution
  BY
     DEF DiskInv, DiskTypes, RequestTypes, TableTypes, ProgramTypes, NoNullDeref,
         DiskIdle, DiskProgram, Within, DiskMissed, ExactAttribution, Found
<1> QED BY <1>1, DiskInvariant, PTL

\* A completion is counted at most one window before its latency (the order of the
\* two INCRs of tp_block_complete, and of the two drains of main.go).
THEOREM LatencyAtMostOneWindowLate == DiskSpec => []LatencyNotLate
<1>1. DiskInv => LatencyNotLate
  BY DEF DiskInv, DiskWindows
<1> QED BY <1>1, DiskInvariant, PTL
=============================================================================
