--------------------------- MODULE Counters_proofs ---------------------------
(***************************************************************************)
(* Proofs about CounterMap and its history in CounterRaces, for every set   *)
(* of CPUs, cgroups and elements and any number of events, and about        *)
(* KernelProbes, for any CPUs, byte counts, windows and word size.          *)
(***************************************************************************)
EXTENDS CounterRaces, KernelProbes, FiniteSetTheorems, TLAPS

\* bpf_map_lookup_elem finds the element of a key that is present.
LEMMA SlotOfKey ==
    ASSUME NEW k \in Present
    PROVE  SlotOf(k) \in Slots /\ key[SlotOf(k)] = k
  <1>1. \E s \in Slots : key[s] = k
    BY DEF Present
  <1> QED BY <1>1 DEF SlotOf

-----------------------------------------------------------------------------
(* Types.  TypeOK is not inductive: that INCR counts an event that happened,*)
(* in a cgroup, has to be carried along.                                    *)

Busy(c) == cpu[c] # "idle"

Counting ==
    \A c \in CPUs : Busy(c) => /\ event[c] \in 1..events
                               /\ owner[event[c]] \in Cgroups

Typed == TypeOK /\ Counting

\* Typed is inductive; the steps of drainMap leave the probes alone.
LEMMA TypedInvariant == Spec => []Typed
  <1>1. Init => Typed
    BY CounterAssumption DEF Init, Typed, TypeOK, Counting, Busy, Events
  <1>2. Typed /\ [Next]_vars => Typed'
    <2> SUFFICES ASSUME Typed, [Next]_vars PROVE Typed'
      OBVIOUS
    <2>0. Present \subseteq Cgroups
      BY DEF Typed, TypeOK, Present
    <2>1. ASSUME NEW c \in CPUs, NEW k \in Cgroups, Lookup(c, k) PROVE Typed'
      <3>1. events + 1 \in Events /\ events' = events + 1 /\ events' \in 0..MaxEvents
        BY <2>1, CounterAssumption DEF Lookup, Typed, TypeOK, Events
      <3>2. k \in Present => SlotOf(k) \in Slots
        BY SlotOfKey
      <3>3. TypeOK'
        BY <2>1, <3>1, <3>2 DEF Lookup, Typed, TypeOK, Events, kernel, user
      <3>4. Counting'
        <4> SUFFICES ASSUME NEW d \in CPUs, Busy(d)'
                     PROVE  event'[d] \in 1..events' /\ owner'[event'[d]] \in Cgroups
          BY DEF Counting
        <4>1. CASE d = c
          BY <2>1, <3>1, <4>1 DEF Lookup, Typed, TypeOK, Events
        <4>2. CASE d # c
          <5>1. Busy(d) /\ event'[d] = event[d]
            BY <2>1, <4>2 DEF Lookup, Typed, TypeOK, Busy
          <5>2. event[d] \in 1..events /\ owner[event[d]] \in Cgroups
            BY <5>1 DEF Typed, Counting
          <5>3. event[d] \in 1..events' /\ event[d] # events + 1
            BY <3>1, <5>2 DEF Typed, TypeOK
          <5>4. event[d] \in Events /\ owner'[event[d]] = owner[event[d]]
            BY <2>1, <3>1, <5>2, <5>3, CounterAssumption
            DEF Lookup, Typed, TypeOK, Events
          <5> QED BY <5>1, <5>2, <5>3, <5>4
        <4> QED BY <4>1, <4>2
      <3> QED BY <3>3, <3>4 DEF Typed
    <2>2. ASSUME NEW c \in CPUs, FetchAndAdd(c) PROVE Typed'
      <3>1. ptr[c] \in Slots /\ event[c] \in Events
        BY <2>2, CounterAssumption
        DEF FetchAndAdd, Typed, TypeOK, Counting, Busy, Events
      <3>2. TypeOK'
        BY <2>2, <3>1 DEF FetchAndAdd, Return, Typed, TypeOK, user
      <3>3. Counting'
        BY <2>2 DEF FetchAndAdd, Return, Typed, TypeOK, Counting, Busy
      <3> QED BY <3>2, <3>3 DEF Typed
    <2>3. ASSUME NEW c \in CPUs, UpdateNoExist(c) PROVE Typed'
      <3>1. event[c] \in Events /\ owner[event[c]] \in Cgroups
        BY <2>3, CounterAssumption
        DEF UpdateNoExist, Typed, TypeOK, Counting, Busy, Events
      <3>2. TypeOK'
        BY <2>3, <3>1 DEF UpdateNoExist, Return, Typed, TypeOK, kernel, user
      <3>3. Counting'
        BY <2>3 DEF UpdateNoExist, Return, Typed, TypeOK, Counting, Busy
      <3> QED BY <3>2, <3>3 DEF Typed
    <2>4. CASE BeginDrain
      BY <2>0, <2>4 DEF BeginDrain, Typed, TypeOK, Counting, Busy, kernel, probes
    <2>5. ASSUME NEW k \in Cgroups, ReadEntry(k) PROVE Typed'
      <3>1. value[SlotOf(k)] \in SUBSET Events
        BY <2>5, SlotOfKey DEF ReadEntry, Typed, TypeOK
      <3> QED BY <2>5, <3>1
              DEF ReadEntry, Typed, TypeOK, Counting, Busy, kernel, probes
    <2>6. CASE EndIteration
      BY <2>6 DEF EndIteration, Typed, TypeOK, Counting, Busy, kernel, probes
    <2>7. ASSUME NEW k \in Cgroups, DeleteEntry(k) PROVE Typed'
      BY <2>7 DEF DeleteEntry, Typed, TypeOK, Counting, Busy, probes
    <2>8. CASE Report
      BY <2>8 DEF Report, Typed, TypeOK, Counting, Busy, kernel, probes
    <2>9. CASE UNCHANGED vars
      BY <2>9 DEF vars, kernel, probes, user, Typed, TypeOK, Counting, Busy
    <2> QED BY <2>1, <2>2, <2>3, <2>4, <2>5, <2>6, <2>7, <2>8, <2>9 DEF Next
  <1> QED BY <1>1, <1>2, PTL DEF Spec

\* Types of the maps, of the running INCRs and of drainMap's locals; in
\* particular __sync_fetch_and_add only runs on a pointer that is not null.
THEOREM TypeCorrect == Spec => []TypeOK
  <1>1. Typed => TypeOK
    BY DEF Typed
  <1> QED BY <1>1, TypedInvariant, PTL

-----------------------------------------------------------------------------
(* NoDoubleCount.  The invariant speaks of elements instead of cgroups, and *)
(* adds that an event still on its way is counted nowhere.                  *)

\* Element s counts for a window that is still to come.
Pending(s) == key[s] \in Cgroups \ keys

\* A cgroup has one element at most.
KeysUnique == \A s, t \in Slots : key[s] # NoCg /\ key[s] = key[t] => s = t

\* Only events that happened are counted.
Past ==
    /\ \A s \in Slots : value[s] \subseteq 1..events
    /\ \A k \in Cgroups : res[k] \subseteq 1..events /\ reported[k] \subseteq 1..events

Uncounted(e) ==
    /\ \A s \in Slots : e \notin value[s]
    /\ \A k \in Cgroups : e \notin res[k] /\ e \notin reported[k]

\* The event of a running INCR is counted nowhere yet, not even in the stale
\* bytes of a deleted element, and no two INCRs carry the same event.
InFlight ==
    /\ \A c \in CPUs : Busy(c) => Uncounted(event[c])
    /\ \A c, d \in CPUs : c # d /\ Busy(c) /\ Busy(d) => event[c] # event[d]

\* What is read, what is reported and what is pending do not overlap.
Disjoint ==
    /\ \A s, t \in Slots : s # t /\ Pending(s) /\ Pending(t)
                             => value[s] \cap value[t] = {}
    /\ \A s \in Slots, k \in Cgroups :
          Pending(s) => value[s] \cap res[k] = {} /\ value[s] \cap reported[k] = {}
    /\ \A k, l \in Cgroups :
          /\ reported[k] \cap res[l] = {}
          /\ k # l => reported[k] \cap reported[l] = {} /\ res[k] \cap res[l] = {}

\* A key is deleted only after it was read, and before the next drain.
Draining == keys \subseteq seen /\ (drain = "idle" => keys = {})

Ledger == KeysUnique /\ Past /\ InFlight /\ Disjoint /\ Draining

\* The invariant in terms of elements implies the property of the cgroups.
LEMMA LedgerImplies == Typed /\ Ledger => NoDoubleCount
  <1> SUFFICES ASSUME Typed, Ledger, NEW k \in Cgroups, NEW l \in Cgroups
               PROVE  /\ reported[k] \cap res[l] = {}
                      /\ reported[k] \cap InMap(l) = {} /\ res[k] \cap InMap(l) = {}
                      /\ k # l => /\ reported[k] \cap reported[l] = {}
                                  /\ res[k] \cap res[l] = {}
                                  /\ InMap(k) \cap InMap(l) = {}
    BY DEF NoDoubleCount
  <1>1. ASSUME NEW j \in Cgroups, NEW e \in InMap(j)
        PROVE  \E s \in Slots : Pending(s) /\ key[s] = j /\ e \in value[s]
    BY DEF InMap, Pending
  <1>2. reported[k] \cap InMap(l) = {} /\ res[k] \cap InMap(l) = {}
    BY <1>1 DEF Ledger, Disjoint
  <1>3. k # l => InMap(k) \cap InMap(l) = {}
    BY <1>1 DEF Ledger, Disjoint
  <1> QED BY <1>2, <1>3 DEF Ledger, Disjoint

\* A probe fires: the event is new, so it is counted nowhere.
LEMMA LedgerLookup ==
    ASSUME Typed, Ledger, NEW c \in CPUs, NEW k \in Cgroups, Lookup(c, k)
    PROVE  Ledger'
  <1>1. events' = events + 1 /\ events \in Nat
    BY DEF Lookup, Typed, TypeOK
  <1>2. Uncounted(events + 1)
    BY <1>1 DEF Ledger, Past, Uncounted
  <1>3. KeysUnique' /\ Disjoint' /\ Draining'
    BY DEF Lookup, Ledger, KeysUnique, Disjoint, Draining, Pending, kernel, user
  <1>4. Past'
    BY <1>1 DEF Lookup, Ledger, Past, kernel, user
  <1>5. InFlight'
    <2>1. ASSUME NEW d \in CPUs, d # c, Busy(d)'
          PROVE  Busy(d) /\ event'[d] = event[d] /\ event[d] # events + 1
      BY <2>1, <1>1 DEF Lookup, Typed, TypeOK, Busy, Counting
    <2>2. event'[c] = events + 1
      BY DEF Lookup, Typed, TypeOK
    <2> QED BY <1>2, <2>1, <2>2
            DEF Lookup, Ledger, InFlight, Uncounted, kernel, user
  <1> QED BY <1>3, <1>4, <1>5 DEF Ledger

\* __sync_fetch_and_add puts the event into one element, live or not.
LEMMA LedgerFetchAndAdd ==
    ASSUME Typed, Ledger, NEW c \in CPUs, FetchAndAdd(c)
    PROVE  Ledger'
  <1>1. /\ ptr[c] \in Slots /\ Busy(c) /\ event[c] \in 1..events
        /\ Uncounted(event[c])
    BY DEF FetchAndAdd, Typed, TypeOK, Counting, Busy, Ledger, InFlight
  <1>2. /\ value' = [value EXCEPT ![ptr[c]] = @ \cup {event[c]}]
        /\ value \in [Slots -> SUBSET Events]
        /\ UNCHANGED <<events, owner, event, key, drain, start, res, keys, seen, reported>>
    BY DEF FetchAndAdd, Return, user, Typed, TypeOK
  <1>3. \A s \in Slots : value'[s] = IF s = ptr[c] THEN value[s] \cup {event[c]}
                                     ELSE value[s]
    BY <1>1, <1>2
  <1>4. KeysUnique' /\ Draining'
    BY <1>2 DEF Ledger, KeysUnique, Draining
  <1>5. Past'
    BY <1>1, <1>2, <1>3 DEF Ledger, Past
  <1>6. InFlight'
    <2>1. \A d \in CPUs : Busy(d)' => d # c /\ Busy(d)
      BY DEF FetchAndAdd, Return, Typed, TypeOK, Busy
    <2> QED BY <1>1, <1>2, <1>3, <2>1 DEF Ledger, InFlight, Uncounted
  <1>7. Disjoint'
    <2>1. \A s \in Slots : Pending(s)' <=> Pending(s)
      BY <1>2 DEF Pending
    <2> QED BY <1>1, <1>2, <1>3, <2>1 DEF Ledger, Disjoint, Uncounted
  <1> QED BY <1>4, <1>5, <1>6, <1>7 DEF Ledger

\* bpf_map_update_elem takes a free element and overwrites its stale bytes.
LEMMA LedgerUpdateNoExist ==
    ASSUME Typed, Ledger, NEW c \in CPUs, UpdateNoExist(c)
    PROVE  Ledger'
  <1> DEFINE k == owner[event[c]]
  <1>1. Busy(c) /\ event[c] \in 1..events /\ Uncounted(event[c]) /\ k \in Cgroups
    BY DEF UpdateNoExist, Typed, TypeOK, Counting, Busy, Ledger, InFlight
  <1>2. /\ UNCHANGED <<events, owner, event, drain, start, res, keys, seen, reported>>
        /\ \A d \in CPUs : Busy(d)' => d # c /\ Busy(d)
    BY DEF UpdateNoExist, Return, user, Typed, TypeOK, Busy
  <1>3. CASE UNCHANGED kernel
    BY <1>1, <1>2, <1>3 DEF kernel, Ledger, KeysUnique, Past, InFlight, Uncounted,
                             Disjoint, Pending, Draining
  <1>4. ASSUME NEW s \in Slots, k \notin Present, key[s] = NoCg,
               key' = [key EXCEPT ![s] = k],
               value' = [value EXCEPT ![s] = {event[c]}]
        PROVE  Ledger'
    <2>1. \A t \in Slots : /\ key'[t] = IF t = s THEN k ELSE key[t]
                           /\ value'[t] = IF t = s THEN {event[c]} ELSE value[t]
      BY <1>4 DEF Typed, TypeOK
    <2>2. \A t \in Slots : key[t] # k
      BY <1>1, <1>4, CounterAssumption DEF Present
    <2>3. KeysUnique' /\ Draining'
      BY <1>2, <2>1, <2>2 DEF Ledger, KeysUnique, Draining
    <2>4. Past'
      BY <1>1, <1>2, <2>1 DEF Ledger, Past
    <2>5. InFlight'
      BY <1>1, <1>2, <2>1 DEF Ledger, InFlight, Uncounted
    <2>6. Disjoint'
      <3>1. \A t \in Slots : t # s => (Pending(t)' <=> Pending(t))
        BY <1>2, <2>1 DEF Pending
      <3> QED BY <1>1, <1>2, <2>1, <3>1 DEF Ledger, Disjoint, Uncounted
    <2> QED BY <2>3, <2>4, <2>5, <2>6 DEF Ledger
  <1> QED BY <1>3, <1>4 DEF UpdateNoExist

\* drainMap reads an entry: what was pending is now read.
LEMMA LedgerReadEntry ==
    ASSUME Typed, Ledger, NEW k \in Cgroups, ReadEntry(k)
    PROVE  Ledger'
  <1> DEFINE s == SlotOf(k)
  <1>1. s \in Slots /\ key[s] = k
    BY SlotOfKey DEF ReadEntry
  <1>2. /\ UNCHANGED <<events, owner, key, value, cpu, event, ptr, drain, start, reported>>
        /\ keys' = keys \cup {k} /\ seen' = seen \cup {k} /\ drain # "idle"
        /\ k \notin keys
        /\ \A l \in Cgroups : res'[l] = IF l = k THEN value[s] ELSE res[l]
    BY DEF ReadEntry, kernel, probes, Typed, TypeOK, Ledger, Draining
  <1> HIDE DEF s
  <1>3. Pending(s)
    BY <1>1, <1>2 DEF Pending
  <1>4. \A t \in Slots : Pending(t)' => Pending(t) /\ t # s
    BY <1>1, <1>2 DEF Pending
  <1>5. KeysUnique' /\ Draining'
    BY <1>2 DEF Ledger, KeysUnique, Draining
  <1>6. Past'
    BY <1>1, <1>2 DEF Ledger, Past
  <1>7. InFlight'
    BY <1>1, <1>2 DEF Ledger, InFlight, Uncounted, Busy
  <1>8. Disjoint'
    BY <1>1, <1>2, <1>3, <1>4 DEF Ledger, Disjoint
  <1> QED BY <1>5, <1>6, <1>7, <1>8 DEF Ledger

\* The remaining steps of drainMap delete elements or move what was read.
LEMMA LedgerDrain ==
    ASSUME Typed, Ledger,
           \/ BeginDrain \/ EndIteration \/ Report
           \/ \E k \in Cgroups : DeleteEntry(k)
    PROVE  Ledger'
  <1>1. CASE BeginDrain
    BY <1>1 DEF BeginDrain, kernel, probes, Ledger, KeysUnique, Past, InFlight,
                Uncounted, Busy, Disjoint, Pending, Draining
  <1>2. CASE EndIteration
    BY <1>2 DEF EndIteration, kernel, probes, Ledger, KeysUnique, Past, InFlight,
                Uncounted, Busy, Disjoint, Pending, Draining
  <1>3. CASE Report
    <2>1. /\ UNCHANGED <<events, owner, key, value, cpu, event, ptr, keys, seen>>
          /\ \A k \in Cgroups : /\ reported'[k] = reported[k] \cup res[k]
                                /\ res'[k] = {}
          /\ keys = {}
      BY <1>3 DEF Report, kernel, probes
    <2>2. KeysUnique' /\ Draining'
      BY <2>1 DEF Ledger, KeysUnique, Draining
    <2>3. Past'
      BY <2>1 DEF Ledger, Past
    <2>4. InFlight'
      BY <2>1 DEF Ledger, InFlight, Uncounted, Busy
    <2>5. Disjoint'
      <3>1. \A s \in Slots : Pending(s)' <=> Pending(s)
        BY <2>1 DEF Pending
      <3> QED BY <2>1, <3>1 DEF Ledger, Disjoint
    <2> QED BY <2>2, <2>3, <2>4, <2>5 DEF Ledger
  <1>4. ASSUME NEW k \in Cgroups, DeleteEntry(k) PROVE Ledger'
    <2>1. /\ UNCHANGED <<events, owner, value, cpu, event, ptr, drain, start, res,
                         seen, reported>>
          /\ keys' = keys \ {k} /\ drain # "idle"
          /\ \A s \in Slots : key'[s] = IF key[s] = k THEN NoCg ELSE key[s]
      BY <1>4 DEF DeleteEntry, probes
    <2>2. \A s \in Slots : Pending(s)' => Pending(s)
      BY <2>1, CounterAssumption DEF Pending
    <2>3. KeysUnique' /\ Draining'
      BY <2>1 DEF Ledger, KeysUnique, Draining
    <2>4. Past' /\ InFlight'
      BY <2>1 DEF Ledger, Past, InFlight, Uncounted, Busy
    <2>5. Disjoint'
      BY <2>1, <2>2 DEF Ledger, Disjoint
    <2> QED BY <2>3, <2>4, <2>5 DEF Ledger
  <1> QED BY <1>1, <1>2, <1>3, <1>4

\* The ledger is kept by every step.
LEMMA LedgerInvariant == Spec => []Ledger
  <1>1. Init => Ledger
    BY CounterAssumption DEF Init, Ledger, KeysUnique, Past, InFlight, Uncounted,
                             Busy, Disjoint, Pending, Draining
  <1>2. Typed /\ Ledger /\ [Next]_vars => Ledger'
    <2> SUFFICES ASSUME Typed, Ledger, [Next]_vars PROVE Ledger'
      OBVIOUS
    <2>1. CASE UNCHANGED vars
      BY <2>1 DEF vars, kernel, probes, user, Ledger, KeysUnique, Past, InFlight,
                  Uncounted, Busy, Disjoint, Pending, Draining
    <2>2. CASE Next
      BY <2>2, LedgerLookup, LedgerFetchAndAdd, LedgerUpdateNoExist,
         LedgerReadEntry, LedgerDrain DEF Next
    <2> QED BY <2>1, <2>2
  <1> QED BY <1>1, <1>2, TypedInvariant, PTL DEF Spec

\* No event is counted twice, for any number of CPUs and cgroups and whatever
\* elements are deleted and reused while a probe holds a pointer to them.
THEOREM CountedOnce == Spec => []NoDoubleCount
BY LedgerInvariant, LedgerImplies, TypedInvariant, PTL

-----------------------------------------------------------------------------
(* The counter implements its windows (WindowCounter).  The step of an INCR *)
(* that changes an element is the moment its event is counted, provided no  *)
(* drain has read the element; the events a drain has read stay in the open *)
(* window until it returns them.                                            *)

\* What drainMap has read and not deleted is in the map, and its snapshot has
\* nothing of a key it has not read.
Reading ==
    /\ keys \subseteq Present
    /\ drain = "idle" => \A k \in Cgroups : res[k] = {}
    /\ \A k \in Cgroups \ seen : res[k] = {}

\* Reading is an invariant: keys leave the map by the hand of drainMap only.
LEMMA ReadingInvariant == Spec => []Reading
  <1>1. Init => Reading
    BY DEF Init, Reading
  <1>2. Typed /\ Ledger /\ Reading /\ [Next]_vars => Reading'
    <2> SUFFICES ASSUME Typed, Ledger, Reading, [Next]_vars PROVE Reading'
      OBVIOUS
    <2>1. ASSUME NEW c \in CPUs, NEW k \in Cgroups, Lookup(c, k) PROVE Reading'
      BY <2>1 DEF Lookup, kernel, user, Reading, Present
    <2>2. ASSUME NEW c \in CPUs, FetchAndAdd(c) PROVE Reading'
      BY <2>2 DEF FetchAndAdd, Return, user, Reading, Present
    <2>3. ASSUME NEW c \in CPUs, UpdateNoExist(c) PROVE Reading'
      <3>1. UNCHANGED user
        BY <2>3 DEF UpdateNoExist, Return
      <3>2. \A s \in Slots : key[s] # NoCg => key'[s] = key[s]
        BY <2>3 DEF UpdateNoExist, kernel, Typed, TypeOK
      <3>3. Present \subseteq Present'
        BY <3>2 DEF Present
      <3> QED BY <3>1, <3>3 DEF user, Reading
    <2>4. CASE BeginDrain
      BY <2>4 DEF BeginDrain, kernel, Reading
    <2>5. CASE EndIteration
      BY <2>5 DEF EndIteration, kernel, Reading, Present
    <2>6. CASE Report
      BY <2>6 DEF Report, kernel, Reading
    <2>7. ASSUME NEW k \in Cgroups, ReadEntry(k) PROVE Reading'
      BY <2>7 DEF ReadEntry, kernel, Reading, Present, Typed, TypeOK
    <2>8. ASSUME NEW k \in Cgroups, DeleteEntry(k) PROVE Reading'
      <3>1. /\ keys' = keys \ {k} /\ drain = "delete"
            /\ UNCHANGED <<drain, seen, res>>
            /\ key' = [s \in Slots |-> IF key[s] = k THEN NoCg ELSE key[s]]
        BY <2>8 DEF DeleteEntry
      <3>2. Present \ {k} \subseteq Present'
        BY <3>1 DEF Present
      <3> QED BY <3>1, <3>2 DEF Reading
    <2>9. CASE UNCHANGED vars
      BY <2>9 DEF vars, kernel, user, Reading, Present
    <2> QED BY <2>1, <2>2, <2>3, <2>4, <2>5, <2>6, <2>7, <2>8, <2>9 DEF Next
  <1> QED BY <1>1, <1>2, TypedInvariant, LedgerInvariant, PTL DEF Spec

\* An event is in the map when an element of a key that no drain has read
\* counts it.
LEMMA InMapMembers ==
    ASSUME NEW k \in Cgroups, NEW e
    PROVE  e \in InMap(k) <=>
              k \notin keys /\ \E s \in Slots : key[s] = k /\ e \in value[s]
BY DEF InMap

Open == [k \in Cgroups |-> res[k] \cup InMap(k)]

\* The event of a running INCR is in no window.
LEMMA InFlightUncounted ==
    ASSUME Typed, Ledger, NEW c \in CPUs, Busy(c), NEW l \in Cgroups
    PROVE  event[c] \in Events /\ event[c] \notin Open[l] \cup reported[l]
  <1>1. Uncounted(event[c]) /\ event[c] \in 1..events
    BY DEF Ledger, InFlight, Typed, Counting
  <1>2. event[c] \notin InMap(l)
    BY <1>1, InMapMembers DEF Uncounted
  <1> QED BY <1>1, <1>2, CounterAssumption DEF Uncounted, Open, Typed, TypeOK, Events

\* A step that leaves the snapshot and the elements in the map alone.
LEMMA OpenKept ==
    ASSUME UNCHANGED res, \A k \in Cgroups : \A e : e \in InMap(k)' <=> e \in InMap(k)
    PROVE  UNCHANGED Open
  <1>1. \A k \in Cgroups : InMap(k)' = InMap(k)
    OBVIOUS
  <1> QED BY <1>1 DEF Open

\* A step that adds the event of c to what is in the map for k counts it.
LEMMA CountsOne ==
    ASSUME Typed, Ledger, NEW c \in CPUs, Busy(c), NEW e, e = event[c],
           NEW k \in Cgroups, UNCHANGED <<res, reported>>,
           \A l \in Cgroups : \A x :
              x \in InMap(l)' <=> x \in InMap(l) \/ (l = k /\ x = e)
    PROVE  Windows!Count(e, k)
  <1>1. \A l \in Cgroups : e \notin Open[l] \cup reported[l]
    BY InFlightUncounted
  <1>2. \A l \in Cgroups : InMap(l)' = IF l = k THEN InMap(l) \cup {e} ELSE InMap(l)
    OBVIOUS
  <1>3. Open' = [Open EXCEPT ![k] = @ \cup {e}]
    BY <1>2 DEF Open
  <1> QED BY <1>1, <1>3 DEF Windows!Count, Open

\* __sync_fetch_and_add counts its event, or hits an element that a drain has
\* read or deleted.
LEMMA AddCounts ==
    ASSUME Typed, Ledger, NEW c \in CPUs, FetchAndAdd(c), NEW e, e = event[c],
           NEW k, k = key[ptr[c]]
    PROVE  /\ k \in Cgroups \ keys => Windows!Count(e, k)
           /\ k \notin Cgroups \ keys => UNCHANGED <<Open, reported>>
  <1>1. Busy(c) /\ ptr[c] \in Slots /\ UNCHANGED <<key, keys, res, reported>>
    BY DEF FetchAndAdd, Return, user, Busy, Typed, TypeOK
  <1>2. \A s \in Slots : value'[s] = IF s = ptr[c] THEN value[s] \cup {e} ELSE value[s]
    BY <1>1 DEF FetchAndAdd, Typed, TypeOK
  <1>3. ASSUME NEW l \in Cgroups, NEW x
        PROVE  x \in InMap(l)' <=> x \in InMap(l) \/ (l \notin keys /\ l = k /\ x = e)
    <2>1. x \in InMap(l)' <=> l \notin keys /\ \E s \in Slots : key[s] = l /\ x \in value'[s]
      BY <1>1 DEF InMap
    <2>2. (\E s \in Slots : key[s] = l /\ x \in value'[s])
             <=> (\E s \in Slots : key[s] = l /\ x \in value[s]) \/ (l = k /\ x = e)
      BY <1>1, <1>2
    <2> QED BY <2>1, <2>2, InMapMembers
  <1>4. ASSUME k \in Cgroups \ keys PROVE Windows!Count(e, k)
    BY <1>1, <1>3, <1>4, CountsOne
  <1>5. ASSUME k \notin Cgroups \ keys PROVE UNCHANGED <<Open, reported>>
    BY <1>1, <1>3, <1>5, OpenKept
  <1> QED BY <1>4, <1>5

\* bpf_map_update_elem counts its event, or fails.
LEMMA InsertCounts ==
    ASSUME Typed, Ledger, Reading, NEW c \in CPUs, UpdateNoExist(c),
           NEW e, e = event[c], NEW k \in Cgroups, k = owner[e]
    PROVE  /\ ~Refused(c) => Windows!Count(e, k)
           /\ Refused(c) => UNCHANGED <<Open, reported>>
  <1>1. Busy(c) /\ UNCHANGED <<keys, res, reported>>
    BY DEF UpdateNoExist, Return, user, Busy
  <1>2. ASSUME Refused(c) PROVE UNCHANGED <<Open, reported>>
    <2>1. UNCHANGED <<key, value>>
      BY <1>2 DEF Refused, UpdateNoExist, kernel
    <2> QED BY <1>1, <2>1 DEF Open, InMap
  <1>3. ASSUME ~Refused(c) PROVE Windows!Count(e, k)
    <2>1. PICK s \in Slots : /\ key[s] = NoCg /\ k \notin Present
                             /\ key' = [key EXCEPT ![s] = k]
                             /\ value' = [value EXCEPT ![s] = {e}]
      BY <1>3 DEF Refused, UpdateNoExist
    <2>2. \A t \in Slots : /\ key'[t] = IF t = s THEN k ELSE key[t]
                           /\ value'[t] = IF t = s THEN {e} ELSE value[t]
      BY <2>1 DEF Typed, TypeOK
    <2>3. k \notin keys
      BY <2>1 DEF Reading
    <2>4. ASSUME NEW l \in Cgroups, NEW x
          PROVE  x \in InMap(l)' <=> x \in InMap(l) \/ (l = k /\ x = e)
      <3>1. x \in InMap(l)' <=>
               l \notin keys /\ \E t \in Slots : key'[t] = l /\ x \in value'[t]
        BY <1>1 DEF InMap
      <3>2. (\E t \in Slots : key'[t] = l /\ x \in value'[t])
               <=> (\E t \in Slots : key[t] = l /\ x \in value[t]) \/ (l = k /\ x = e)
        BY <2>1, <2>2, CounterAssumption
      <3> QED BY <2>3, <3>1, <3>2, InMapMembers
    <2> QED BY <1>1, <2>4, CountsOne
  <1> QED BY <1>2, <1>3

\* it.Next: what was in the map for the key is now in the snapshot.
LEMMA ReadKeepsOpen ==
    ASSUME Typed, Ledger, Reading, NEW k \in Cgroups, ReadEntry(k)
    PROVE  UNCHANGED <<Open, reported>>
  <1> DEFINE s == SlotOf(k)
  <1>1. s \in Slots /\ key[s] = k
    BY SlotOfKey DEF ReadEntry
  <1>2. /\ UNCHANGED <<key, value, reported>> /\ keys' = keys \cup {k}
        /\ res[k] = {} /\ k \notin keys
        /\ \A l \in Cgroups : res'[l] = IF l = k THEN value[s] ELSE res[l]
    BY DEF ReadEntry, kernel, Reading, Typed, TypeOK, Ledger, Draining
  <1> HIDE DEF s
  <1>3. \A t \in Slots : key[t] = k <=> t = s
    BY <1>1, <1>2, CounterAssumption DEF Ledger, KeysUnique
  <1>4. InMap(k) = value[s] /\ InMap(k)' = {}
    BY <1>1, <1>2, <1>3 DEF InMap
  <1>5. \A l \in Cgroups \ {k} : InMap(l)' = InMap(l)
    BY <1>2 DEF InMap
  <1> QED BY <1>2, <1>4, <1>5 DEF Open

\* m.Delete: the element was read, so nothing that was to be reported goes.
LEMMA DeleteKeepsOpen ==
    ASSUME Typed, NEW k \in Cgroups, DeleteEntry(k)
    PROVE  UNCHANGED <<Open, reported>>
  <1>1. /\ UNCHANGED <<value, res, reported>> /\ k \in keys /\ keys' = keys \ {k}
        /\ \A s \in Slots : key'[s] = IF key[s] = k THEN NoCg ELSE key[s]
    BY DEF DeleteEntry
  <1>2. \A l \in Cgroups : \A e :
            e \in InMap(l)' <=>
               l \notin keys' /\ \E s \in Slots : key'[s] = l /\ e \in value[s]
    BY <1>1 DEF InMap
  <1>3. \A l \in Cgroups : \A e : e \in InMap(l)' <=> e \in InMap(l)
    BY <1>1, <1>2, InMapMembers, CounterAssumption
  <1> QED BY <1>1, <1>3, OpenKept

\* The snapshot is returned: the window is reported, what is in the map stays.
LEMMA ReportReports ==
    ASSUME Typed, Ledger, Report
    PROVE  Windows!ReportWindow
  <1>1. /\ UNCHANGED <<key, value, keys>>
        /\ reported' = [k \in Cgroups |-> reported[k] \cup res[k]]
        /\ res' = [k \in Cgroups |-> {}]
    BY DEF Report, kernel
  <1>2. \A k \in Cgroups : InMap(k)' = InMap(k)
    BY <1>1 DEF InMap
  <1>3. \A k \in Cgroups : /\ reported[k] \cap InMap(k) = {}
                           /\ res[k] \cap InMap(k) = {}
    BY LedgerImplies DEF NoDoubleCount
  <1>4. reported' \in [Cgroups -> SUBSET Events]
    BY <1>1 DEF Typed, TypeOK
  <1>5. Open' = [k \in Cgroups |-> Open[k] \ reported'[k]]
    BY <1>1, <1>2, <1>3 DEF Open
  <1> QED BY <1>1, <1>4, <1>5 DEF Windows!ReportWindow, Open

\* Every step of the map and of drainMap is a step of the windows or none.
LEMMA WindowsStep ==
    ASSUME Typed, Ledger, Reading, [Next]_vars
    PROVE  [Windows!Next]_(Windows!counts)
  <1>1. UNCHANGED <<Open, reported>> => UNCHANGED Windows!counts
    BY DEF Open, Windows!counts
  <1>2. ASSUME NEW c \in CPUs, Busy(c), NEW e, e = event[c], NEW k \in Cgroups,
               Windows!Count(e, k)
        PROVE  Windows!Next
    BY <1>2, InFlightUncounted DEF Windows!Next
  <1>3. ASSUME NEW c \in CPUs, NEW k \in Cgroups, Lookup(c, k)
        PROVE  UNCHANGED <<Open, reported>>
    BY <1>3 DEF Lookup, kernel, user, Open, InMap
  <1>4. ASSUME NEW c \in CPUs, FetchAndAdd(c)
        PROVE  Windows!Next \/ UNCHANGED <<Open, reported>>
    <2>1. Busy(c)
      BY <1>4 DEF FetchAndAdd, Busy
    <2>2. PICK e, k : e = event[c] /\ k = key[ptr[c]]
      OBVIOUS
    <2> QED BY <1>2, <1>4, <2>1, <2>2, AddCounts
  <1>5. ASSUME NEW c \in CPUs, UpdateNoExist(c)
        PROVE  Windows!Next \/ UNCHANGED <<Open, reported>>
    <2>1. Busy(c) /\ owner[event[c]] \in Cgroups
      BY <1>5 DEF UpdateNoExist, Busy, Typed, Counting
    <2>2. PICK e : e = event[c]
      OBVIOUS
    <2>3. PICK k \in Cgroups : k = owner[e]
      BY <2>1, <2>2
    <2> QED BY <1>2, <1>5, <2>1, <2>2, <2>3, InsertCounts
  <1>6. ASSUME BeginDrain PROVE UNCHANGED <<Open, reported>>
    <2>1. UNCHANGED <<key, value, reported, keys>> /\ \A k \in Cgroups : res'[k] = res[k]
      BY <1>6 DEF BeginDrain, kernel, Reading, Ledger, Draining
    <2> QED BY <2>1 DEF Open, InMap
  <1>7. ASSUME EndIteration PROVE UNCHANGED <<Open, reported>>
    BY <1>7 DEF EndIteration, kernel, Open, InMap
  <1>8. ASSUME Report PROVE Windows!Next
    BY <1>8, ReportReports DEF Windows!Next
  <1>9. ASSUME UNCHANGED vars PROVE UNCHANGED <<Open, reported>>
    BY <1>9 DEF vars, kernel, user, Open, InMap
  <1> QED BY <1>1, <1>3, <1>4, <1>5, <1>6, <1>7, <1>8, <1>9,
             ReadKeepsOpen, DeleteKeepsOpen DEF Next

\* CounterMap implements WindowCounter: for any CPUs, cgroups, elements and
\* events, no step of an INCR or of drainMap takes a counted event back, moves
\* it to another cgroup or counts it again.
THEOREM ImplementsWindows == Spec => CountsIntoWindows
  <1>1. Init => Windows!Init
    BY DEF Init, Windows!Init, InMap
  <1>2. Typed /\ Ledger /\ Reading /\ [Next]_vars => [Windows!Next]_(Windows!counts)
    BY WindowsStep
  <1> QED BY <1>1, <1>2, TypedInvariant, LedgerInvariant, ReadingInvariant, PTL
          DEF Spec, CountsIntoWindows, Windows!Spec

-----------------------------------------------------------------------------
(* Which events are lost (CounterRaces).                                    *)

\* What a cgroup is credited with it keeps: the open windows only lose what
\* is reported.
LEMMA CreditedGrows ==
    ASSUME Typed, Ledger, Reading, [Next]_vars, NEW k \in Cgroups
    PROVE  Credited(k) \subseteq Credited(k)'
  <1>1. Credited(k) = reported[k] \cup Open[k] /\ Credited(k)' = reported'[k] \cup Open'[k]
    BY DEF Credited, Open
  <1>2. CASE UNCHANGED Windows!counts
    BY <1>1, <1>2 DEF Windows!counts, Open
  <1>3. CASE Windows!ReportWindow
    BY <1>1, <1>3 DEF Windows!ReportWindow, Open
  <1>4. ASSUME NEW e \in Events, NEW l \in Cgroups, Windows!Count(e, l)
        PROVE  Credited(k) \subseteq Credited(k)'
    <2>1. Open' = [Open EXCEPT ![l] = @ \cup {e}] /\ reported' = reported
      BY <1>4 DEF Windows!Count, Open
    <2>2. Open[k] \subseteq Open'[k]
      BY <2>1 DEF Open
    <2> QED BY <1>1, <2>1, <2>2
  <1> QED BY <1>2, <1>3, <1>4, WindowsStep DEF Windows!Next

\* An INCR that ends without a race credits its event to its own cgroup.
LEMMA EndCredits ==
    ASSUME Typed, Ledger, Reading, [Next]_vars,
           NEW c \in CPUs, Busy(c), ~Busy(c)', ~Races(c),
           NEW e, e = event[c], NEW k \in Cgroups, k = owner[e]
    PROVE  e \in Credited(k)'
  <1>2. ASSUME Windows!Count(e, k) PROVE e \in Credited(k)'
    <2>1. Open'[k] = Open[k] \cup {e}
      BY <1>2 DEF Windows!Count, Open
    <2> QED BY <2>1 DEF Credited, Open
  <1>3. CASE FetchAndAdd(c)
    <2>1. key[ptr[c]] = k /\ k \notin keys
      BY <1>3 DEF FetchAndAdd, Races, Stale
    <2> QED BY <1>2, <1>3, <2>1, AddCounts
  <1>4. CASE UpdateNoExist(c)
    <2>1. ~Refused(c)
      BY <1>4 DEF UpdateNoExist, Races
    <2> QED BY <1>2, <1>4, <2>1, InsertCounts
  <1>5. FetchAndAdd(c) \/ UpdateNoExist(c)
    <2>1. ASSUME NEW d \in CPUs, NEW l \in Cgroups, Lookup(d, l) PROVE FALSE
      BY <2>1 DEF Lookup, Busy, Typed, TypeOK
    <2>2. ASSUME NEW d \in CPUs, FetchAndAdd(d) \/ UpdateNoExist(d) PROVE d = c
      BY <2>2 DEF FetchAndAdd, UpdateNoExist, Return, Busy, Typed, TypeOK
    <2>3. ASSUME UNCHANGED probes PROVE FALSE
      BY <2>3 DEF probes, Busy
    <2> QED BY <2>1, <2>2, <2>3
            DEF Next, BeginDrain, EndIteration, Report, ReadEntry, DeleteEntry, vars
  <1> QED BY <1>3, <1>4, <1>5

\* Events keep their number and their cgroup, and a running INCR its event.
LEMMA EventsKept ==
    ASSUME Typed, [Next]_vars
    PROVE  /\ \A e \in 1..events : e \in 1..events' /\ owner'[e] = owner[e]
           /\ \A e \in 1..events' : e \in 1..events \/ \E c \in CPUs : Busy(c)' /\ event'[c] = e
           /\ \A c \in CPUs : Busy(c) /\ Busy(c)' => event'[c] = event[c]
  <1>0. events \in Nat /\ events \in 0..MaxEvents
    BY DEF Typed, TypeOK
  <1>1. ASSUME NEW c \in CPUs, NEW k \in Cgroups, Lookup(c, k)
        PROVE  /\ events' = events + 1 /\ owner' = [owner EXCEPT ![events + 1] = k]
               /\ Busy(c)' /\ event'[c] = events + 1 /\ ~Busy(c)
               /\ \A d \in CPUs \ {c} : event'[d] = event[d]
    BY <1>1 DEF Lookup, Busy, Typed, TypeOK
  <1>2. ASSUME NEW c \in CPUs, FetchAndAdd(c) \/ UpdateNoExist(c)
        PROVE  UNCHANGED <<events, owner, event>>
    BY <1>2 DEF FetchAndAdd, UpdateNoExist, Return
  <1>3. CASE \E c \in CPUs, k \in Cgroups : Lookup(c, k)
    <2>1. PICK c \in CPUs, k \in Cgroups : Lookup(c, k)
      BY <1>3
    <2>2. \A e \in 1..events : e \in 1..events' /\ e # events + 1
      BY <1>0, <1>1, <2>1
    <2>3. \A e \in 1..events' : e \in 1..events \/ e = events + 1
      BY <1>0, <1>1, <2>1
    <2>4. \A e \in 1..events : owner'[e] = owner[e]
      BY <1>0, <1>1, <2>1, <2>2, CounterAssumption DEF Typed, TypeOK, Events
    <2> QED BY <1>1, <2>1, <2>2, <2>3, <2>4
  <1>4. CASE UNCHANGED <<events, owner, event>>
    BY <1>4
  <1>5. (\E c \in CPUs, k \in Cgroups : Lookup(c, k)) \/ UNCHANGED <<events, owner, event>>
    BY <1>2 DEF Next, BeginDrain, EndIteration, Report, ReadEntry, DeleteEntry,
                probes, vars
  <1> QED BY <1>3, <1>4, <1>5

\* Every event that happened did so in a cgroup.
Owned == \A e \in 1..events : owner[e] \in Cgroups

LEMMA OwnedInvariant == Spec => []Owned
  <1>1. Init => Owned
    BY DEF Init, Owned
  <1>2. Owned /\ Typed /\ [Next]_vars /\ Typed' => Owned'
    BY EventsKept DEF Owned, Typed, Counting
  <1> QED BY <1>1, <1>2, TypedInvariant, PTL DEF Spec

\* Read-then-delete loses an event only if its INCR raced with a drain or with
\* another INCR, or found the map full: for any CPUs, cgroups and elements,
\* every other event is credited to its own cgroup for good.
THEOREM RacesTheorem == RaceSpec => []LostOnlyInRace
  <1>1. RaceSpec => Spec
    <2>1. RaceInit => Init
      BY DEF RaceInit
    <2>2. [RaceNext]_raceVars => [Next]_vars
      BY DEF RaceNext, raceVars
    <2> QED BY <2>1, <2>2, PTL DEF RaceSpec, Spec
  <1>2. RaceInit => LostOnlyInRace
    BY DEF RaceInit, Init, LostOnlyInRace
  <1>3. ASSUME Typed, Ledger, Reading, Owned, LostOnlyInRace, [RaceNext]_raceVars
        PROVE  LostOnlyInRace'
    <2>1. [Next]_vars /\ raced \subseteq raced'
      BY <1>3 DEF RaceNext, raceVars
    <2>2. ASSUME NEW c \in CPUs, Busy(c), ~Busy(c)', Races(c)
          PROVE  event[c] \in raced'
      BY <1>3, <2>2 DEF RaceNext, raceVars, vars, probes, Busy
    <2> SUFFICES ASSUME NEW e \in 1..events'
                 PROVE  \/ e \in raced' \/ e \in Credited(owner[e])'
                        \/ \E c \in CPUs : Busy(c)' /\ event'[c] = e
      BY DEF LostOnlyInRace, Busy
    <2>3. CASE e \notin 1..events
      BY <1>3, <2>1, <2>3, EventsKept
    <2>4. CASE e \in 1..events
      <3>0. PICK k \in Cgroups : k = owner[e] /\ k = owner'[e]
        BY <1>3, <2>1, <2>4, EventsKept DEF Owned
      <3>1. CASE e \in raced
        BY <2>1, <3>1
      <3>2. CASE e \in Credited(owner[e])
        <4>1. e \in Credited(k)'
          BY <1>3, <2>1, <3>0, <3>2, CreditedGrows
        <4> QED BY <3>0, <4>1 DEF Credited, InMap
      <3>3. ASSUME NEW c \in CPUs, Busy(c), event[c] = e
            PROVE  \/ e \in raced' \/ e \in Credited(k)'
                   \/ \E d \in CPUs : Busy(d)' /\ event'[d] = e
        BY <1>3, <2>1, <2>2, <3>0, <3>3, EndCredits, EventsKept
      <3>4. Credited(k)' \subseteq Credited(owner[e])'
        BY <3>0 DEF Credited, InMap
      <3> QED BY <1>3, <2>4, <3>1, <3>2, <3>3, <3>4 DEF LostOnlyInRace, Busy
    <2> QED BY <2>3, <2>4
  <1> QED BY <1>1, <1>2, <1>3, TypedInvariant, LedgerInvariant, ReadingInvariant,
             OwnedInvariant, PTL DEF RaceSpec

-----------------------------------------------------------------------------
(* All counters and the drain (KernelProbes).                               *)

Counted == Features \ {"cpu_utilization"}

\* drain has put nothing into the maps of per that it has not come to.
PerAhead ==
    \A i \in (drainAt + 1)..Len(drainOrder), k \in Cgroups : per[drainOrder[i].feat][k] = 0

ProbeTypes ==
    /\ running \in [Cores -> Cgroups]
    /\ clock \in Nat
    /\ DOMAIN cpu_last \subseteq Cores /\ \A c \in DOMAIN cpu_last : cpu_last[c] \in Nat
    /\ counter \in [Maps -> [Cgroups -> 0..(Wrap - 1)]]
    /\ drainAt \in 0..Len(drainOrder)
    /\ per \in [Features -> [Cgroups -> Nat]]
    /\ emitted \in [Features -> [Cgroups -> Nat]]
    /\ happened \in [Features -> [Cgroups -> Nat]]

\* A counter is exact as long as less than Wrap was counted in all.
Exact(f, k) == happened[f][k] < Wrap => Accounted(f, k) = happened[f][k]

ProbeInv == ProbeTypes /\ PerAhead /\ \A f \in Counted, k \in Cgroups : Exact(f, k)

\* Every feature has its own map.
LEMMA DrainTable ==
    /\ Len(drainOrder) = 13 /\ DOMAIN drainOrder = 1..13
    /\ \A i \in 1..13, j \in 1..13 :
          /\ drainOrder[i].feat = drainOrder[j].feat => i = j
          /\ drainOrder[i].map = drainOrder[j].map => i = j
<1>1. Len(drainOrder) = 13 /\ DOMAIN drainOrder = 1..13
  BY DEF drainOrder
<1>2. ASSUME NEW i \in 1..13, NEW j \in 1..13
      PROVE  /\ drainOrder[i].feat = drainOrder[j].feat => i = j
             /\ drainOrder[i].map = drainOrder[j].map => i = j
  BY <1>2 DEF drainOrder
<1> QED BY <1>1, <1>2

\* The feature of an entry of the drain table is read from the map of that entry.
LEMMA MapOfFeature ==
    ASSUME NEW i \in 1..13
    PROVE  /\ drainOrder[i].feat \in Features /\ drainOrder[i].map \in Maps
           /\ mapOf[drainOrder[i].feat] = drainOrder[i].map
<1>1. drainOrder[i].feat \in Features /\ drainOrder[i].map \in Maps
  BY DrainTable DEF Features, Maps
<1> DEFINE j == CHOOSE x \in DOMAIN drainOrder : drainOrder[x].feat = drainOrder[i].feat
<1>2. j \in 1..13 /\ drainOrder[j].feat = drainOrder[i].feat
  BY DrainTable
<1>3. j = i
  <2> HIDE DEF j
  <2> QED BY <1>2, DrainTable
<1>4. mapOf[drainOrder[i].feat] = drainOrder[j].map
  BY <1>1 DEF mapOf
<1> QED BY <1>1, <1>3, <1>4

\* Every feature has one map, and no two features share one.
LEMMA MapOfOne ==
    /\ mapOf \in [Features -> Maps]
    /\ \A f \in Features, g \in Features : mapOf[f] = mapOf[g] => f = g
    /\ \A f \in Features : \E i \in 1..13 : f = drainOrder[i].feat
<1>1. \A f \in Features : \E i \in 1..13 : f = drainOrder[i].feat
  BY DrainTable DEF Features
<1>2. mapOf = [f \in Features |-> mapOf[f]]
  BY DEF mapOf
<1>3. \A f \in Features : mapOf[f] \in Maps
  BY <1>1, MapOfFeature
<1>4. \A f \in Features, g \in Features : mapOf[f] = mapOf[g] => f = g
  <2> SUFFICES ASSUME NEW f \in Features, NEW g \in Features, mapOf[f] = mapOf[g] PROVE f = g
    OBVIOUS
  <2>1. PICK i \in 1..13, j \in 1..13 : f = drainOrder[i].feat /\ g = drainOrder[j].feat
    BY <1>1
  <2>2. drainOrder[i].map = drainOrder[j].map
    BY <2>1, MapOfFeature
  <2>3. i = j
    BY <2>2, DrainTable
  <2> QED BY <2>1, <2>3
<1> QED BY <1>1, <1>2, <1>3, <1>4

\* The maps that the programs add to are those drain reads for their feature.
LEMMA MapsOfPrograms ==
    /\ mapOf["syscall_read_rate"] = "c_read" /\ mapOf["syscall_write_rate"] = "c_write"
    /\ mapOf["syscall_open_rate"] = "c_open" /\ mapOf["tcp_connect_rate"] = "c_tcpconn"
    /\ mapOf["tcp_retransmit_rate"] = "c_tcpretx" /\ mapOf["network_rx_bytes"] = "c_netrx"
    /\ mapOf["network_tx_bytes"] = "c_nettx" /\ mapOf["disk_read_bytes"] = "c_diskr"
    /\ mapOf["disk_write_bytes"] = "c_diskw" /\ mapOf["process_exec_count"] = "c_exec"
    /\ mapOf["process_fork_count"] = "c_fork" /\ mapOf["context_switch_count"] = "c_ctxsw"
    /\ mapOf["cpu_utilization"] = "c_cpu"
    /\ {"syscall_read_rate", "syscall_write_rate", "syscall_open_rate", "tcp_connect_rate",
        "tcp_retransmit_rate", "network_rx_bytes", "network_tx_bytes", "disk_read_bytes",
        "disk_write_bytes", "process_exec_count", "process_fork_count",
        "context_switch_count"} \subseteq Counted
    /\ "cpu_utilization" \in Features
<1>1. \A i \in 1..13 : mapOf[drainOrder[i].feat] = drainOrder[i].map /\ drainOrder[i].feat \in Features
  BY MapOfFeature
<1> QED BY <1>1 DEF drainOrder, Counted

\* A program adds to the map from which its own feature is drained.
LEMMA ProgramsCount ==
    ASSUME NEW prog \in DOMAIN counting
    PROVE  Occurrence(prog) \in Counted /\ counting[prog] = mapOf[Occurrence(prog)]
BY MapsOfPrograms DEF counting, Occurrence

\* Arithmetic of u64.
LEMMA ModType ==
    ASSUME NEW w \in Nat \ {0}, NEW a \in Int
    PROVE  a % w \in 0..(w - 1)
OBVIOUS

\* A value below the width is left as it is.
LEMMA ModSmall ==
    ASSUME NEW w \in Nat \ {0}, NEW a \in 0..(w - 1)
    PROVE  a % w = a
OBVIOUS

\* One INCR of delta, and n more that happened, keep the types.
LEMMA AddTypes ==
    ASSUME ProbesAssumption, NEW C \in [Maps -> [Cgroups -> 0..(Wrap - 1)]],
           NEW m \in Maps, NEW k \in Cgroups, NEW n \in Int
    PROVE  /\ [C EXCEPT ![m][k] = (@ + n) % Wrap] \in [Maps -> [Cgroups -> 0..(Wrap - 1)]]
           /\ C[m][k] \in 0..(Wrap - 1)
<1>1. C[m] \in [Cgroups -> 0..(Wrap - 1)] /\ C[m][k] \in 0..(Wrap - 1) /\ Wrap \in Nat \ {0}
  BY DEF ProbesAssumption
<1>2. (C[m][k] + n) % Wrap \in 0..(Wrap - 1)
  <2>1. C[m][k] + n \in Int
    BY <1>1
  <2> QED BY <1>1, <2>1, ModType
<1> QED BY <1>1, <1>2

\* An event that a program counts keeps the types.
LEMMA HitTypes ==
    ASSUME ProbeTypes, NEW c \in Cores, NEW feat \in Counted, NEW n \in Nat,
           Hit(c, mapOf[feat], n, feat, n)
    PROVE  ProbeTypes'
<1>1. feat \in Features /\ mapOf[feat] \in Maps /\ running[c] \in Cgroups
  BY MapOfOne DEF Counted, ProbeTypes
<1>2. counter' \in [Maps -> [Cgroups -> 0..(Wrap - 1)]]
  <2>1. counter' = [counter EXCEPT ![mapOf[feat]][running[c]] = (@ + n) % Wrap]
    BY DEF Hit, INCR
  <2>2. counter \in [Maps -> [Cgroups -> 0..(Wrap - 1)]] /\ n \in Int
    BY DEF ProbeTypes
  <2> QED BY <1>1, <2>1, <2>2, ProbesAssumption, AddTypes
<1>3. happened' \in [Features -> [Cgroups -> Nat]]
  <2>1. happened[feat][running[c]] + n \in Nat
    BY <1>1 DEF ProbeTypes
  <2> QED BY <1>1, <2>1 DEF Hit, ProbeTypes
<1> QED BY <1>2, <1>3 DEF Hit, ProbeTypes, world, window

\* It is counted exactly once, for its own feature and cgroup, as long as no
\* counter wraps.
LEMMA HitExact ==
    ASSUME ProbeInv, NEW c \in Cores, NEW feat \in Counted, NEW n \in Nat,
           Hit(c, mapOf[feat], n, feat, n), NEW f \in Counted, NEW k \in Cgroups
    PROVE  Exact(f, k)'
<1>1. /\ feat \in Features /\ f \in Features /\ mapOf[feat] \in Maps /\ mapOf[f] \in Maps
      /\ running[c] \in Cgroups /\ Wrap \in Nat \ {0}
      /\ mapOf[feat] = mapOf[f] => feat = f
  BY MapOfOne, ProbesAssumption DEF Counted, ProbeInv, ProbeTypes, ProbesAssumption
<1>2. /\ emitted[f][k] \in Nat /\ per[f][k] \in Nat /\ happened[f][k] \in Nat
      /\ counter[mapOf[f]][k] \in 0..(Wrap - 1) /\ Exact(f, k)
  BY <1>1 DEF ProbeInv, ProbeTypes
<1>3. emitted' = emitted /\ per' = per
  BY DEF Hit, window
<1>4. CASE f = feat /\ k = running[c]
  <2>1. /\ counter'[mapOf[f]][k] = (counter[mapOf[f]][k] + n) % Wrap
        /\ happened'[f][k] = happened[f][k] + n
    BY <1>1, <1>4 DEF Hit, INCR, ProbeInv, ProbeTypes
  <2>2. happened'[f][k] < Wrap => counter'[mapOf[f]][k] = counter[mapOf[f]][k] + n
    <3> SUFFICES ASSUME happened'[f][k] < Wrap
                 PROVE  counter'[mapOf[f]][k] = counter[mapOf[f]][k] + n
      OBVIOUS
    <3>1. counter[mapOf[f]][k] + n \in 0..(Wrap - 1)
      BY <1>1, <1>2, <2>1 DEF Exact, Accounted
    <3> QED BY <1>1, <2>1, <3>1, ModSmall
  <2>3. Exact(f, k)' <=> (happened'[f][k] < Wrap =>
                            emitted[f][k] + per[f][k] + counter'[mapOf[f]][k] = happened'[f][k])
    BY <1>3 DEF Exact, Accounted
  <2>4. happened[f][k] < Wrap =>
            emitted[f][k] + per[f][k] + counter[mapOf[f]][k] = happened[f][k]
    BY <1>2 DEF Exact, Accounted
  <2> QED BY <1>1, <1>2, <2>1, <2>2, <2>3, <2>4
<1>5. CASE ~(f = feat /\ k = running[c])
  <2>1. counter'[mapOf[f]][k] = counter[mapOf[f]][k] /\ happened'[f][k] = happened[f][k]
    BY <1>1, <1>5 DEF Hit, INCR, ProbeInv, ProbeTypes
  <2> QED BY <1>2, <1>3, <2>1 DEF Exact, Accounted
<1> QED BY <1>4, <1>5

\* So it keeps the invariant of the counters.
LEMMA HitKeeps ==
    ASSUME ProbeInv, NEW c \in Cores, NEW feat \in Counted, NEW n \in Nat,
           Hit(c, mapOf[feat], n, feat, n)
    PROVE  ProbeInv'
<1>1. ProbeTypes'
  BY HitTypes DEF ProbeInv
<1>2. PerAhead'
  BY DEF Hit, window, ProbeInv, PerAhead
<1>3. \A f \in Counted, k \in Cgroups : Exact(f, k)'
  BY HitExact
<1> QED BY <1>1, <1>2, <1>3 DEF ProbeInv


\* tp_switch adds one to the switches of the cgroup that leaves, and its slice.
LEMMA SwitchKeeps ==
    ASSUME ProbeInv, NEW c \in Cores, NEW g \in Cgroups, tp_switch(c, g)
    PROVE  ProbeInv'
<1> DEFINE cg == running[c]
           slice == IF c \in Tracked THEN clock - cpu_last[c] ELSE 0
           one == [counter EXCEPT !["c_ctxsw"][cg] = (@ + 1) % Wrap]
<1>1. /\ cg \in Cgroups /\ slice \in Int /\ Wrap \in Nat \ {0}
      /\ mapOf["context_switch_count"] = "c_ctxsw" /\ mapOf["cpu_utilization"] = "c_cpu"
      /\ "context_switch_count" \in Counted /\ "cpu_utilization" \in Features
      /\ "c_ctxsw" \in Maps /\ "c_cpu" \in Maps
  <2>1. cg \in Cgroups /\ slice \in Int /\ Wrap \in Nat \ {0}
    BY ProbesAssumption DEF ProbeInv, ProbeTypes, Tracked, ProbesAssumption
  <2> QED BY <2>1, MapsOfPrograms, MapOfOne DEF Counted
<1>2. counter' = [one EXCEPT !["c_cpu"][cg] = (@ + slice) % Wrap]
  BY <1>1 DEF tp_switch, ProbeInv, ProbeTypes
<1>3. /\ counter \in [Maps -> [Cgroups -> 0..(Wrap - 1)]] /\ one \in [Maps -> [Cgroups -> 0..(Wrap - 1)]]
  <2>1. counter \in [Maps -> [Cgroups -> 0..(Wrap - 1)]] /\ cg \in Cgroups
    BY <1>1 DEF ProbeInv, ProbeTypes
  <2>2. one = [counter EXCEPT !["c_ctxsw"][cg] = (@ + 1) % Wrap]
    OBVIOUS
  <2> HIDE DEF one, slice, cg
  <2> QED BY <1>1, <2>1, <2>2, AddTypes, ProbesAssumption
<1>4. counter' \in [Maps -> [Cgroups -> 0..(Wrap - 1)]]
  <2> HIDE DEF one, slice, cg
  <2> QED BY <1>1, <1>2, <1>3, AddTypes, ProbesAssumption
<1>5. ProbeTypes'
  <2>1. running' \in [Cores -> Cgroups]
    BY DEF tp_switch, ProbeInv, ProbeTypes
  <2>2. DOMAIN cpu_last' \subseteq Cores /\ \A x \in DOMAIN cpu_last' : cpu_last'[x] \in Nat
    BY DEF tp_switch, UpdateLast, Tracked, ProbeInv, ProbeTypes
  <2>3. happened' \in [Features -> [Cgroups -> Nat]]
    <3>1. /\ "context_switch_count" \in Features
          /\ happened \in [Features -> [Cgroups -> Nat]]
      BY <1>1 DEF ProbeInv, ProbeTypes, Counted
    <3>2. happened' = [happened EXCEPT !["context_switch_count"][cg] = @ + 1]
      BY DEF tp_switch
    <3> HIDE DEF cg, one, slice
    <3>3. happened["context_switch_count"][cg] + 1 \in Nat
      BY <1>1, <3>1
    <3> QED BY <1>1, <3>1, <3>2, <3>3
  <2> QED BY <1>4, <2>1, <2>2, <2>3 DEF tp_switch, ProbeInv, ProbeTypes, window
<1>6. PerAhead'
  BY DEF tp_switch, window, ProbeInv, PerAhead
<1>7. ASSUME NEW f \in Counted, NEW k \in Cgroups PROVE Exact(f, k)'
  <2>1. /\ f \in Features /\ mapOf[f] \in Maps /\ mapOf[f] # "c_cpu"
        /\ mapOf[f] = "c_ctxsw" => f = "context_switch_count"
    BY <1>1, MapOfOne DEF Counted
  <2>2. /\ emitted[f][k] \in Nat /\ per[f][k] \in Nat /\ happened[f][k] \in Nat
        /\ counter[mapOf[f]][k] \in 0..(Wrap - 1) /\ Exact(f, k)
    BY <2>1 DEF ProbeInv, ProbeTypes
  <2>3. emitted' = emitted /\ per' = per
    BY DEF tp_switch, window
  <2>4. counter'[mapOf[f]][k] = one[mapOf[f]][k]
    <3> HIDE DEF one
    <3> QED BY <1>2, <1>3, <2>1
  <2>5. Exact(f, k)' <=> (happened'[f][k] < Wrap =>
                              emitted[f][k] + per[f][k] + counter'[mapOf[f]][k] = happened'[f][k])
    BY <2>3 DEF Exact, Accounted
  <2>6. happened[f][k] < Wrap =>
              emitted[f][k] + per[f][k] + counter[mapOf[f]][k] = happened[f][k]
    BY <2>2 DEF Exact, Accounted
  <2>7. CASE f = "context_switch_count" /\ k = cg
    <3>1. /\ one[mapOf[f]][k] = (counter[mapOf[f]][k] + 1) % Wrap
          /\ happened'[f][k] = happened[f][k] + 1
      <4>1. /\ one = [counter EXCEPT !["c_ctxsw"][cg] = (@ + 1) % Wrap]
            /\ happened' = [happened EXCEPT !["context_switch_count"][cg] = @ + 1]
            /\ happened \in [Features -> [Cgroups -> Nat]]
        BY DEF tp_switch, ProbeInv, ProbeTypes
      <4> HIDE DEF one, cg, slice
      <4> QED BY <1>1, <1>3, <2>1, <2>7, <4>1
    <3>2. happened'[f][k] < Wrap => one[mapOf[f]][k] = counter[mapOf[f]][k] + 1
      <4> SUFFICES ASSUME happened'[f][k] < Wrap
                   PROVE  one[mapOf[f]][k] = counter[mapOf[f]][k] + 1
        OBVIOUS
      <4>1. counter[mapOf[f]][k] + 1 \in 0..(Wrap - 1)
        BY <1>1, <2>2, <2>6, <3>1
      <4> QED BY <1>1, <3>1, <4>1, ModSmall
    <3> HIDE DEF one
    <3> QED BY <1>1, <2>2, <2>4, <2>5, <2>6, <3>1, <3>2
  <2>8. CASE ~(f = "context_switch_count" /\ k = cg)
    <3>1. one[mapOf[f]][k] = counter[mapOf[f]][k]
      <4>1. one = [counter EXCEPT !["c_ctxsw"][cg] = (@ + 1) % Wrap]
        OBVIOUS
      <4>2. ~(mapOf[f] = "c_ctxsw" /\ k = cg)
        BY <2>1, <2>8
      <4> HIDE DEF one, cg, slice
      <4> QED BY <1>1, <1>3, <2>1, <4>1, <4>2
    <3>2. happened'[f][k] = happened[f][k]
      <4>1. /\ happened' = [happened EXCEPT !["context_switch_count"][cg] = @ + 1]
            /\ happened \in [Features -> [Cgroups -> Nat]]
        BY DEF tp_switch, ProbeInv, ProbeTypes
      <4> HIDE DEF one, cg, slice
      <4> QED BY <1>1, <2>1, <2>8, <4>1
    <3> HIDE DEF one
    <3> QED BY <2>4, <2>5, <2>6, <3>1, <3>2
  <2> QED BY <2>7, <2>8
<1> QED BY <1>5, <1>6, <1>7 DEF ProbeInv

\* drain moves the map it empties into its feature's part of per.
LEMMA DrainMoves ==
    ASSUME ProbeInv, DrainNext, NEW f \in Features, NEW k \in Cgroups
    PROVE  Accounted(f, k)' = Accounted(f, k)
<1> DEFINE feat == drainOrder[drainAt + 1].feat
           map == drainOrder[drainAt + 1].map
<1>1. /\ drainAt + 1 \in 1..13 /\ Len(drainOrder) = 13
      /\ feat \in Features /\ map \in Maps /\ mapOf[feat] = map
  <2>1. drainAt + 1 \in 1..13 /\ Len(drainOrder) = 13
    BY DrainTable DEF DrainNext, ProbeInv, ProbeTypes
  <2> QED BY <2>1, MapOfFeature
<1>2. /\ per' = [per EXCEPT ![feat] = counter[map]]
      /\ counter' = [counter EXCEPT ![map] = [g \in Cgroups |-> 0]]
      /\ emitted' = emitted
  BY DEF DrainNext
<1>3. drainAt + 1 \in (drainAt + 1)..13
  BY <1>1 DEF ProbeInv, ProbeTypes
<1>4. per[feat][k] = 0
  BY <1>1, <1>3 DEF PerAhead, ProbeInv
<1> HIDE DEF feat, map
<1>5. mapOf[f] \in Maps /\ (mapOf[f] = map => f = feat)
  BY <1>1, MapOfOne
<1>6. emitted[f][k] \in Nat /\ per[f][k] \in Nat /\ counter[mapOf[f]][k] \in Nat
  BY <1>5 DEF ProbeInv, ProbeTypes
<1>7. CASE f = feat
  <2>1. per'[f][k] = counter[mapOf[f]][k] /\ counter'[mapOf[f]][k] = 0
    BY <1>1, <1>2, <1>5, <1>7 DEF ProbeInv, ProbeTypes
  <2> QED BY <1>2, <1>4, <1>6, <1>7, <2>1 DEF Accounted
<1>8. CASE f # feat
  <2>1. per'[f][k] = per[f][k] /\ counter'[mapOf[f]][k] = counter[mapOf[f]][k]
    BY <1>1, <1>2, <1>5, <1>8 DEF ProbeInv, ProbeTypes
  <2> QED BY <1>2, <2>1 DEF Accounted
<1> QED BY <1>7, <1>8

\* The rest of per and the maps that are still to come stay as they were.
LEMMA DrainKeeps ==
    ASSUME ProbeInv, DrainNext
    PROVE  ProbeInv'
<1> DEFINE at == drainAt + 1
           feat == drainOrder[at].feat
           map == drainOrder[at].map
<1>1. /\ at \in 1..13 /\ drainAt' = at /\ Len(drainOrder) = 13
      /\ feat \in Features /\ map \in Maps
  <2>1. at \in 1..13 /\ drainAt' = at /\ Len(drainOrder) = 13
    BY DrainTable DEF DrainNext, ProbeInv, ProbeTypes
  <2> HIDE DEF at
  <2> QED BY <2>1, MapOfFeature
<1>2. /\ per' = [per EXCEPT ![feat] = counter[map]]
      /\ counter' = [counter EXCEPT ![map] = [k \in Cgroups |-> 0]]
      /\ emitted' = emitted /\ happened' = happened
  BY DEF DrainNext, history
<1> HIDE DEF feat, map
<1>3. ProbeTypes'
  <2>1. counter[map] \in [Cgroups -> Nat] /\ 0 \in 0..(Wrap - 1)
    BY <1>1, ProbesAssumption DEF ProbeInv, ProbeTypes, ProbesAssumption
  <2>2. per' \in [Features -> [Cgroups -> Nat]]
    BY <1>1, <1>2, <2>1 DEF ProbeInv, ProbeTypes
  <2>3. counter' \in [Maps -> [Cgroups -> 0..(Wrap - 1)]]
    BY <1>1, <1>2, <2>1 DEF ProbeInv, ProbeTypes
  <2> QED BY <1>1, <1>2, <2>2, <2>3 DEF DrainNext, ProbeInv, ProbeTypes, world
<1>4. PerAhead'
  <2> SUFFICES ASSUME NEW i \in (at + 1)..13, NEW k \in Cgroups
               PROVE  per'[drainOrder[i].feat][k] = 0
    BY <1>1 DEF PerAhead
  <2>1. i \in at..13 /\ i \in 1..13 /\ drainOrder[i].feat # feat /\ per[drainOrder[i].feat][k] = 0
    BY <1>1, DrainTable DEF feat, PerAhead, ProbeInv
  <2> QED BY <1>2, <2>1, MapOfFeature DEF ProbeInv, ProbeTypes
<1>5. \A f \in Counted, k \in Cgroups : Exact(f, k)'
  BY <1>2, DrainMoves DEF ProbeInv, Exact, Counted
<1> QED BY <1>3, <1>4, <1>5 DEF ProbeInv

\* Emit moves per to the windows that were written.
LEMMA EmitMoves ==
    ASSUME ProbeInv, EmitWindow, NEW f \in Features, NEW k \in Cgroups
    PROVE  Accounted(f, k)' = Accounted(f, k)
<1>1. per'[f][k] = 0 /\ emitted'[f][k] = emitted[f][k] + per[f][k] /\ counter' = counter
  BY DEF EmitWindow, Zero, kernelMaps
<1>2. emitted[f][k] \in Nat /\ per[f][k] \in Nat /\ counter[mapOf[f]][k] \in Nat
  BY MapOfOne DEF ProbeInv, ProbeTypes
<1> QED BY <1>1, <1>2 DEF Accounted

\* The next window starts with an empty per.
LEMMA EmitKeeps ==
    ASSUME ProbeInv, EmitWindow
    PROVE  ProbeInv'
<1>1. /\ per' = [f \in Features |-> [k \in Cgroups |-> 0]] /\ drainAt' = 0 /\ 0 \in 0..Len(drainOrder)
      /\ emitted' = [f \in Features |-> [k \in Cgroups |-> emitted[f][k] + per[f][k]]]
      /\ counter' = counter /\ happened' = happened
  BY DrainTable DEF EmitWindow, Zero, kernelMaps, history
<1>2. ProbeTypes'
  <2>1. per' \in [Features -> [Cgroups -> Nat]]
    BY <1>1
  <2>2. emitted' \in [Features -> [Cgroups -> Nat]]
    BY <1>1 DEF ProbeInv, ProbeTypes
  <2> QED BY <1>1, <2>1, <2>2 DEF EmitWindow, ProbeInv, ProbeTypes, world, kernelMaps
<1>3. PerAhead'
  <2> SUFFICES ASSUME NEW i \in 1..13, NEW k \in Cgroups
               PROVE  per'[drainOrder[i].feat][k] = 0
    BY <1>1, DrainTable DEF PerAhead
  <2> QED BY <1>1, MapOfFeature
<1>4. \A f \in Counted, k \in Cgroups : Exact(f, k)'
  BY <1>1, EmitMoves DEF ProbeInv, Exact, Counted
<1> QED BY <1>2, <1>3, <1>4 DEF ProbeInv

\* Time alone changes no count.
LEMMA TickKeeps ==
    ASSUME ProbeInv, Tick \/ UNCHANGED probeVars
    PROVE  ProbeInv'
<1>1. /\ clock' \in Nat /\ running' = running /\ cpu_last' = cpu_last /\ counter' = counter
      /\ drainAt' = drainAt /\ per' = per /\ emitted' = emitted /\ happened' = happened
  BY DEF Tick, probeVars, world, kernelMaps, window, history, ProbeInv, ProbeTypes
<1> QED BY <1>1 DEF ProbeInv, ProbeTypes, PerAhead, Exact, Accounted

\* Every other step of the counting programs is a Hit of a feature's own map.
LEMMA StepIsHit ==
    ASSUME ProbesNext
    PROVE  \/ \E c \in Cores, feat \in Counted, n \in Nat : Hit(c, mapOf[feat], n, feat, n)
           \/ \E c \in Cores, g \in Cgroups : tp_switch(c, g)
           \/ Tick \/ DrainNext \/ EmitWindow
<1> DEFINE AHit == \E c \in Cores, feat \in Counted, n \in Nat : Hit(c, mapOf[feat], n, feat, n)
<1>1. ASSUME NEW c \in Cores, NEW prog \in DOMAIN counting, Count(c, prog) PROVE AHit
  <2>1. Occurrence(prog) \in Counted /\ counting[prog] = mapOf[Occurrence(prog)]
    BY ProgramsCount
  <2>2. Hit(c, mapOf[Occurrence(prog)], 1, Occurrence(prog), 1)
    BY <1>1, <2>1 DEF Count
  <2> QED BY <2>1, <2>2
<1>2. ASSUME NEW c \in Cores, NEW n \in Sizes, k_tcp_sendmsg(c, n) \/ k_tcp_cleanup_rbuf(c, n)
      PROVE AHit
  <2>1. n \in Nat
    BY <1>2, ProbesAssumption DEF ProbesAssumption, k_tcp_sendmsg, k_tcp_cleanup_rbuf
  <2>2. \/ Hit(c, mapOf["network_tx_bytes"], n, "network_tx_bytes", n)
        \/ Hit(c, mapOf["network_rx_bytes"], n, "network_rx_bytes", n)
    BY <1>2, MapsOfPrograms DEF k_tcp_sendmsg, k_tcp_cleanup_rbuf
  <2> QED BY <2>1, <2>2, MapsOfPrograms
<1>3. ASSUME NEW c \in Cores, NEW n \in Sizes, NEW rw \in {"R", "W"}, tp_block_issue(c, n, rw)
      PROVE AHit
  <2>1. n \in Nat
    BY <1>3, ProbesAssumption DEF ProbesAssumption, tp_block_issue
  <2>2. \/ Hit(c, mapOf["disk_write_bytes"], n, "disk_write_bytes", n)
        \/ Hit(c, mapOf["disk_read_bytes"], n, "disk_read_bytes", n)
    BY <1>3, MapsOfPrograms DEF tp_block_issue
  <2> QED BY <2>1, <2>2, MapsOfPrograms
<1> HIDE DEF AHit
<1>4. AHit \/ (\E c \in Cores, g \in Cgroups : tp_switch(c, g)) \/ Tick \/ DrainNext \/ EmitWindow
  BY <1>1, <1>2, <1>3 DEF ProbesNext
<1> QED BY <1>4 DEF AHit

\* The invariant of the counts.
LEMMA ProbeInvInit == ProbesInit => ProbeInv
<1> SUFFICES ASSUME ProbesInit PROVE ProbeInv
  OBVIOUS
<1>1. 0 \in 0..(Wrap - 1) /\ 0 \in 0..Len(drainOrder)
  BY ProbesAssumption, DrainTable DEF ProbesAssumption
<1>2. ProbeTypes
  BY <1>1 DEF ProbesInit, Zero, ProbeTypes
<1>3. PerAhead
  BY DrainTable, MapOfFeature DEF ProbesInit, Zero, PerAhead
<1>4. \A f \in Counted, k \in Cgroups : Exact(f, k)
  BY MapOfOne DEF ProbesInit, Zero, Exact, Accounted, Counted
<1> QED BY <1>2, <1>3, <1>4 DEF ProbeInv

\* Its steps.
LEMMA ProbeInvStep == ProbeInv /\ [ProbesNext]_probeVars => ProbeInv'
BY StepIsHit, HitKeeps, SwitchKeeps, DrainKeeps, EmitKeeps, TickKeeps

-----------------------------------------------------------------------------
\* Time on the Cores.

\* Two finite sets that share nothing.
LEMMA DisjointUnion ==
    ASSUME NEW P, NEW Q, IsFiniteSet(P), IsFiniteSet(Q), P \cap Q = {}
    PROVE  /\ IsFiniteSet(P \cup Q)
           /\ Cardinality(P \cup Q) = Cardinality(P) + Cardinality(Q)
<1>1. /\ IsFiniteSet(P \cup Q)
      /\ Cardinality(P \cup Q) = Cardinality(P) + Cardinality(Q) - Cardinality(P \cap Q)
  BY FS_Union
<1>2. Cardinality(P \cap Q) = 0
  BY FS_EmptySet
<1>3. Cardinality(P) \in Nat /\ Cardinality(Q) \in Nat
  BY FS_CardinalityType
<1> QED BY <1>1, <1>2, <1>3

\* One nanosecond of each CPU of R.
LEMMA OneMoment ==
    ASSUME NEW R, NEW t, IsFiniteSet(R)
    PROVE  /\ IsFiniteSet({<<c, t>> : c \in R})
           /\ Cardinality({<<c, t>> : c \in R}) = Cardinality(R)
<1> DEFINE T == {<<c, t>> : c \in R}
           f == [c \in R |-> <<c, t>>]
<1>1. f \in [R -> T] /\ (\A x, y \in R : f[x] = f[y] => x = y) /\ (\A y \in T : \E x \in R : f[x] = y)
  OBVIOUS
<1>2. ExistsBijection(R, T)
  <2> HIDE DEF f, T
  <2>1. f \in Injection(R, T) /\ f \in Surjection(R, T)
    BY <1>1 DEF Injection, Surjection, IsInjective
  <2> QED BY <2>1 DEF ExistsBijection, Bijection
<1> QED BY <1>2, FS_Bijection

\* A slice of CPU c, from after a to b.
SliceOf(c, a, b) == {<<c, t>> : t \in (a + 1)..b}

\* It is as long as it takes.
LEMMA OneSlice ==
    ASSUME NEW c, NEW a \in Nat, NEW b \in Nat, a <= b
    PROVE  IsFiniteSet(SliceOf(c, a, b)) /\ Cardinality(SliceOf(c, a, b)) = b - a
<1> DEFINE R == (a + 1)..b
           T == {<<c, t>> : t \in R}
           f == [t \in R |-> <<c, t>>]
<1>1. f \in [R -> T] /\ (\A x, y \in R : f[x] = f[y] => x = y) /\ (\A y \in T : \E x \in R : f[x] = y)
  <2> HIDE DEF R
  <2> QED OBVIOUS
<1>2. ExistsBijection(R, T)
  <2> HIDE DEF f, T, R
  <2>1. f \in Injection(R, T) /\ f \in Surjection(R, T)
    BY <1>1 DEF Injection, Surjection, IsInjective
  <2> QED BY <2>1 DEF ExistsBijection, Bijection
<1>3. IsFiniteSet(R) /\ Cardinality(R) = b - a
  <2>1. /\ IsFiniteSet((a + 1)..b)
        /\ Cardinality((a + 1)..b) = IF a + 1 > b THEN 0 ELSE b - (a + 1) + 1
    BY FS_Interval
  <2> QED BY <2>1
<1> QED BY <1>2, <1>3, FS_Bijection DEF SliceOf

\* Time of a cgroup is exact as long as it got less than Wrap in all.
Balanced(k) == onCpu[k] < Wrap => Accounted("cpu_utilization", k) + OpenSlices(k) = onCpu[k]

CpuTypes ==
    /\ IsFiniteSet(Tracked) /\ onCpu \in [Cgroups -> Nat]
    /\ \A c \in Tracked : cpu_last[c] <= clock

CpuInv == ProbeInv /\ CpuTypes /\ \A k \in Cgroups : Balanced(k)

\* Open slices are finitely many nanoseconds.
LEMMA OpenFinite ==
    ASSUME ProbeTypes, CpuTypes, NEW k
    PROVE  /\ IsFiniteSet(OpenTime(k)) /\ OpenSlices(k) \in Nat
           /\ IsFiniteSet({c \in Tracked : running[c] = k})
           /\ Cardinality({c \in Tracked : running[c] = k}) \in Nat
<1>1. IsFiniteSet(1..clock)
  BY FS_Interval DEF ProbeTypes
<1>2. IsFiniteSet(Tracked \X (1..clock))
  BY <1>1, FS_Product DEF CpuTypes
<1>3. OpenTime(k) \in SUBSET (Tracked \X (1..clock))
  BY DEF OpenTime
<1>4. IsFiniteSet(OpenTime(k))
  BY <1>2, <1>3, FS_Subset
<1>5. IsFiniteSet({c \in Tracked : running[c] = k})
  BY FS_Subset DEF CpuTypes
<1>6. OpenSlices(k) \in Nat
  BY <1>4, FS_CardinalityType DEF OpenSlices
<1>7. Cardinality({c \in Tracked : running[c] = k}) \in Nat
  BY <1>5, FS_CardinalityType
<1> QED BY <1>4, <1>5, <1>6, <1>7

\* A nanosecond passes: it is added to the open slice of every tracked CPU.
LEMMA TickBalanced ==
    ASSUME CpuInv, Tick, NEW k \in Cgroups
    PROVE  Balanced(k)'
<1> DEFINE R == {c \in Tracked : running[c] = k}
           N == {<<c, clock + 1>> : c \in R}
<1>1. /\ clock' = clock + 1 /\ clock \in Nat /\ running' = running /\ cpu_last' = cpu_last
      /\ emitted' = emitted /\ per' = per /\ counter' = counter
      /\ onCpu' = [g \in Cgroups |-> onCpu[g] + Cardinality({c \in Tracked : running[c] = g})]
  BY DEF Tick, kernelMaps, window, CpuInv, ProbeInv, ProbeTypes
<1>2. Tracked' = Tracked /\ \A c \in Tracked : cpu_last[c] \in Nat /\ cpu_last[c] <= clock
  BY <1>1 DEF Tracked, CpuInv, CpuTypes, ProbeInv, ProbeTypes
<1>3. \A g \in Cgroups : /\ Cardinality({c \in Tracked : running[c] = g}) \in Nat /\ onCpu[g] \in Nat
  BY OpenFinite DEF CpuInv, CpuTypes, ProbeInv
<1>4. /\ IsFiniteSet(R) /\ IsFiniteSet(OpenTime(k)) /\ OpenSlices(k) \in Nat
  BY OpenFinite DEF CpuInv, ProbeInv
<1>5. IsFiniteSet(N) /\ Cardinality(N) = Cardinality(R)
  <2> HIDE DEF R
  <2> QED BY <1>4, OneMoment
<1>6. OpenTime(k)' = OpenTime(k) \cup N
  <2>1. ASSUME NEW x \in OpenTime(k)' PROVE x \in OpenTime(k) \cup N
    <3>1. /\ x \in Tracked \X (1..(clock + 1)) /\ running[x[1]] = k /\ x[2] > cpu_last[x[1]]
      BY <1>1, <1>2, <2>1 DEF OpenTime
    <3>2. CASE x[2] = clock + 1
      <4>1. x = <<x[1], clock + 1>> /\ x[1] \in R
        BY <3>1, <3>2
      <4> QED BY <4>1
    <3>3. CASE x[2] # clock + 1
      <4>1. x \in Tracked \X (1..clock)
        BY <1>1, <3>1, <3>3
      <4> QED BY <3>1, <4>1 DEF OpenTime
    <3> QED BY <3>2, <3>3
  <2>2. ASSUME NEW x \in OpenTime(k) PROVE x \in OpenTime(k)'
    <3>1. x \in Tracked \X (1..clock) /\ running[x[1]] = k /\ x[2] > cpu_last[x[1]]
      BY <2>2 DEF OpenTime
    <3>2. x \in Tracked \X (1..(clock + 1))
      BY <1>1, <3>1
    <3> QED BY <1>1, <1>2, <3>1, <3>2 DEF OpenTime
  <2>3. ASSUME NEW c \in R PROVE <<c, clock + 1>> \in OpenTime(k)'
    <3>1. c \in Tracked /\ running[c] = k /\ clock + 1 > cpu_last[c] /\ clock + 1 \in 1..(clock + 1)
      BY <1>1, <1>2
    <3> QED BY <1>1, <1>2, <3>1 DEF OpenTime
  <2> QED BY <2>1, <2>2, <2>3
<1>7. OpenTime(k) \cap N = {}
  BY <1>1 DEF OpenTime
<1>8. OpenSlices(k)' = OpenSlices(k) + Cardinality(R)
  <2> HIDE DEF N, R
  <2>1. Cardinality(OpenTime(k) \cup N) = Cardinality(OpenTime(k)) + Cardinality(N)
    BY <1>4, <1>5, <1>7, DisjointUnion
  <2> QED BY <1>5, <1>6, <2>1 DEF OpenSlices
<1>9. Balanced(k)'
  <2>1. Accounted("cpu_utilization", k)' = Accounted("cpu_utilization", k)
    BY <1>1 DEF Accounted
  <2>2. Accounted("cpu_utilization", k) \in Int
    BY MapsOfPrograms, MapOfOne DEF Accounted, CpuInv, ProbeInv, ProbeTypes
  <2>3. onCpu'[k] = onCpu[k] + Cardinality(R) /\ Cardinality(R) \in Nat /\ onCpu[k] \in Nat
    BY <1>1, <1>3
  <2>4. Balanced(k) /\ Wrap \in Nat
    BY ProbesAssumption DEF CpuInv, ProbesAssumption
  <2> HIDE DEF R
  <2> QED BY <1>4, <1>8, <2>1, <2>2, <2>3, <2>4 DEF Balanced
<1> QED BY <1>9

\* What a switch of CPU c does to the open slices: those of c end.
LEMMA SwitchEnds ==
    ASSUME CpuInv, NEW c \in Cores, NEW g \in Cgroups, tp_switch(c, g), NEW k \in Cgroups
    PROVE  OpenTime(k)' = {x \in OpenTime(k) : x[1] # c}
<1>1. /\ clock' = clock /\ clock \in Nat /\ cpu_last' = UpdateLast(c)
      /\ \A d \in Cores : d # c => running'[d] = running[d]
      /\ \A d \in Tracked : d \in Cores /\ cpu_last[d] \in Nat /\ cpu_last[d] <= clock
  BY DEF tp_switch, Tracked, CpuInv, CpuTypes, ProbeInv, ProbeTypes
<1>2. /\ Tracked' = Tracked \/ Tracked' = Tracked \cup {c}
      /\ c \in Tracked' => cpu_last'[c] = clock
      /\ \A d \in Tracked' : d # c => d \in Tracked /\ cpu_last'[d] = cpu_last[d]
  BY <1>1 DEF UpdateLast, Tracked
<1>3. ASSUME NEW x \in OpenTime(k)' PROVE x \in OpenTime(k) /\ x[1] # c
  <2>1. x \in Tracked' \X (1..clock) /\ running'[x[1]] = k /\ x[2] > cpu_last'[x[1]]
    BY <1>1, <1>3 DEF OpenTime
  <2>2. x[1] # c
    BY <1>1, <1>2, <2>1
  <2>3. x[1] \in Tracked /\ cpu_last'[x[1]] = cpu_last[x[1]]
    BY <1>2, <2>1, <2>2
  <2>4. running'[x[1]] = running[x[1]]
    BY <1>1, <2>2, <2>3
  <2>5. x \in Tracked \X (1..clock)
    BY <2>1, <2>3
  <2> QED BY <2>1, <2>2, <2>3, <2>4, <2>5 DEF OpenTime
<1>4. ASSUME NEW x \in OpenTime(k), x[1] # c PROVE x \in OpenTime(k)'
  <2>1. x \in Tracked \X (1..clock) /\ running[x[1]] = k /\ x[2] > cpu_last[x[1]]
    BY DEF OpenTime
  <2>2. x[1] \in Tracked /\ x[1] \in Tracked'
    BY <1>2, <2>1
  <2>3. cpu_last'[x[1]] = cpu_last[x[1]] /\ running'[x[1]] = running[x[1]]
    BY <1>1, <1>2, <1>4, <2>2
  <2>4. x \in Tracked' \X (1..clock)
    BY <2>1, <2>2
  <2> QED BY <1>1, <2>1, <2>3, <2>4 DEF OpenTime
<1> QED BY <1>3, <1>4

\* The slice that ends goes to the counter of the cgroup that leaves.
LEMMA SwitchBalanced ==
    ASSUME CpuInv, NEW c \in Cores, NEW g \in Cgroups, tp_switch(c, g), NEW k \in Cgroups
    PROVE  Balanced(k)'
<1> DEFINE S == {x \in OpenTime(k) : x[1] = c}
           slice == IF c \in Tracked THEN clock - cpu_last[c] ELSE 0
           earned == IF k = running[c] THEN slice ELSE 0
<1>1. /\ OpenTime(k)' = {x \in OpenTime(k) : x[1] # c}
      /\ IsFiniteSet(OpenTime(k)) /\ OpenSlices(k) \in Nat
  BY SwitchEnds, OpenFinite DEF CpuInv, ProbeInv
<1>2. /\ clock \in Nat /\ running[c] \in Cgroups
      /\ \A d \in Tracked : cpu_last[d] \in Nat /\ cpu_last[d] <= clock
      /\ slice \in Nat /\ earned \in Nat
  BY DEF Tracked, CpuInv, CpuTypes, ProbeInv, ProbeTypes
<1>3. IsFiniteSet(S) /\ Cardinality(S) = earned
  <2>1. CASE c \in Tracked /\ k = running[c]
    <3> DEFINE a == cpu_last[c]
               E == SliceOf(c, a, clock)
    <3>1. a \in Nat /\ a <= clock /\ earned = clock - a
      BY <1>2, <2>1
    <3>2. S = E
      <4>1. ASSUME NEW x \in S PROVE x \in E
        <5>1. x \in Tracked \X (1..clock) /\ x[1] = c /\ x[2] > a
          BY <4>1 DEF OpenTime
        <5>2. x = <<c, x[2]>> /\ x[2] \in (a + 1)..clock
          BY <3>1, <5>1
        <5> QED BY <5>2 DEF SliceOf
      <4>2. ASSUME NEW t \in (a + 1)..clock PROVE <<c, t>> \in S
        <5>1. t \in 1..clock /\ t > a
          BY <1>2, <3>1
        <5>2. <<c, t>> \in Tracked \X (1..clock)
          BY <2>1, <5>1
        <5> QED BY <2>1, <5>1, <5>2 DEF OpenTime
      <4> QED BY <4>1, <4>2 DEF SliceOf
    <3>3. IsFiniteSet(E) /\ Cardinality(E) = clock - a
      <4> HIDE DEF a
      <4>1. c \in Cores /\ a \in Nat /\ clock \in Nat /\ a <= clock
        BY <1>2, <3>1
      <4> QED BY <4>1, OneSlice
    <3> QED BY <3>1, <3>2, <3>3
  <2>2. CASE ~(c \in Tracked /\ k = running[c])
    <3>1. S = {} /\ earned = 0
      BY <2>2 DEF OpenTime
    <3> QED BY <3>1, FS_EmptySet
  <2> QED BY <2>1, <2>2
<1>4. OpenSlices(k) = OpenSlices(k)' + earned /\ OpenSlices(k)' \in Nat
  <2> DEFINE K == {x \in OpenTime(k) : x[1] # c}
  <2>1. OpenTime(k) = K \cup S /\ K \cap S = {} /\ K \in SUBSET OpenTime(k)
    OBVIOUS
  <2>2. IsFiniteSet(K) /\ Cardinality(K) \in Nat
    <3> HIDE DEF K
    <3>1. IsFiniteSet(K)
      BY <1>1, <2>1, FS_Subset
    <3> QED BY <3>1, FS_CardinalityType
  <2> HIDE DEF K, S, earned
  <2>3. Cardinality(K \cup S) = Cardinality(K) + Cardinality(S)
    BY <1>3, <2>1, <2>2, DisjointUnion
  <2>4. OpenTime(k)' = K
    BY <1>1 DEF K
  <2> QED BY <1>3, <2>1, <2>2, <2>3, <2>4 DEF OpenSlices
<1>5. /\ emitted' = emitted /\ per' = per /\ onCpu' = onCpu
      /\ counter'["c_cpu"][k] = IF k = running[c] THEN (counter["c_cpu"][k] + slice) % Wrap
                                                  ELSE counter["c_cpu"][k]
  <2>1. "c_cpu" \in Maps /\ "c_ctxsw" \in Maps
    BY MapsOfPrograms, MapOfOne DEF Counted
  <2>2. counter' = [counter EXCEPT !["c_ctxsw"][running[c]] = (@ + 1) % Wrap,
                                   !["c_cpu"][running[c]] = (@ + slice) % Wrap]
    BY DEF tp_switch
  <2> HIDE DEF slice
  <2> QED BY <1>2, <2>1, <2>2 DEF tp_switch, window, CpuInv, ProbeInv, ProbeTypes
<1>6. /\ mapOf["cpu_utilization"] = "c_cpu" /\ Wrap \in Nat \ {0}
      /\ emitted["cpu_utilization"][k] \in Nat /\ per["cpu_utilization"][k] \in Nat
      /\ counter["c_cpu"][k] \in 0..(Wrap - 1) /\ onCpu[k] \in Nat
  <2>1. "c_cpu" \in Maps /\ "cpu_utilization" \in Features /\ mapOf["cpu_utilization"] = "c_cpu"
    BY MapsOfPrograms, MapOfOne
  <2> QED BY <2>1, ProbesAssumption DEF ProbesAssumption, CpuInv, CpuTypes, ProbeInv, ProbeTypes
<1>7. onCpu[k] < Wrap => counter'["c_cpu"][k] = counter["c_cpu"][k] + earned
  <2> SUFFICES ASSUME onCpu[k] < Wrap PROVE counter'["c_cpu"][k] = counter["c_cpu"][k] + earned
    OBVIOUS
  <2>1. emitted["cpu_utilization"][k] + per["cpu_utilization"][k] + counter["c_cpu"][k]
            + OpenSlices(k) = onCpu[k]
    BY <1>6 DEF CpuInv, Balanced, Accounted
  <2>2. CASE k = running[c]
    <3> HIDE DEF slice
    <3>1. counter["c_cpu"][k] + slice \in 0..(Wrap - 1)
      BY <1>2, <1>4, <1>6, <2>1, <2>2
    <3> QED BY <1>5, <1>6, <2>2, <3>1, ModSmall
  <2>3. CASE k # running[c]
    BY <1>5, <1>6, <2>3
  <2> QED BY <2>2, <2>3
<1>8. Balanced(k)' <=> (onCpu[k] < Wrap =>
            emitted["cpu_utilization"][k] + per["cpu_utilization"][k] + counter'["c_cpu"][k]
              + OpenSlices(k)' = onCpu[k])
  BY <1>5, <1>6 DEF Balanced, Accounted
<1>9. onCpu[k] < Wrap =>
            emitted["cpu_utilization"][k] + per["cpu_utilization"][k] + counter["c_cpu"][k]
              + OpenSlices(k) = onCpu[k]
  BY <1>6 DEF CpuInv, Balanced, Accounted
<1> HIDE DEF earned
<1> QED BY <1>1, <1>2, <1>4, <1>6, <1>7, <1>8, <1>9

\* The other steps leave the slices alone.
LEMMA OthersBalanced ==
    ASSUME CpuInv, NEW k \in Cgroups,
           \/ \E c \in Cores, feat \in Counted, n \in Nat : Hit(c, mapOf[feat], n, feat, n)
           \/ DrainNext \/ EmitWindow \/ UNCHANGED probeVars
    PROVE  Balanced(k)'
<1>1. running' = running /\ clock' = clock /\ cpu_last' = cpu_last /\ onCpu' = onCpu
  BY DEF Hit, DrainNext, EmitWindow, probeVars, world, kernelMaps, history
<1>2. OpenSlices(k)' = OpenSlices(k)
  BY <1>1 DEF OpenSlices, OpenTime, Tracked
<1>3. "cpu_utilization" \in Features /\ "cpu_utilization" \notin Counted
      /\ mapOf["cpu_utilization"] = "c_cpu" /\ "c_cpu" \in Maps
  BY MapsOfPrograms, MapOfOne DEF Counted
<1>4. Accounted("cpu_utilization", k)' = Accounted("cpu_utilization", k)
  <2>1. ASSUME NEW c \in Cores, NEW feat \in Counted, NEW n \in Nat, Hit(c, mapOf[feat], n, feat, n)
        PROVE  Accounted("cpu_utilization", k)' = Accounted("cpu_utilization", k)
    <3>1. mapOf[feat] \in Maps /\ mapOf[feat] # "c_cpu"
      BY <1>3, MapOfOne DEF Counted
    <3>2. counter'["c_cpu"][k] = counter["c_cpu"][k] /\ emitted' = emitted /\ per' = per
      BY <1>3, <2>1, <3>1 DEF Hit, INCR, window, CpuInv, ProbeInv, ProbeTypes
    <3> QED BY <1>3, <3>2 DEF Accounted
  <2>2. CASE DrainNext \/ EmitWindow
    BY <1>3, <2>2, DrainMoves, EmitMoves DEF CpuInv
  <2>3. CASE UNCHANGED probeVars
    BY <2>3 DEF probeVars, window, kernelMaps, Accounted
  <2> QED BY <2>1, <2>2, <2>3
<1> QED BY <1>1, <1>2, <1>4 DEF CpuInv, Balanced

\* cpu_last stays finite and never ahead of the clock.
LEMMA CpuTypesKept ==
    ASSUME CpuInv, [ProbesNext]_probeVars
    PROVE  CpuTypes'
<1>1. /\ IsFiniteSet(Tracked) /\ onCpu \in [Cgroups -> Nat] /\ clock \in Nat
      /\ \A c \in Tracked : cpu_last[c] \in Nat /\ cpu_last[c] <= clock
  BY DEF CpuInv, CpuTypes, ProbeInv, ProbeTypes, Tracked
<1>2. CASE Tick
  <2>1. \A k \in Cgroups : Cardinality({c \in Tracked : running[c] = k}) \in Nat
    BY OpenFinite DEF CpuInv, ProbeInv
  <2>2. Tracked' = Tracked /\ cpu_last' = cpu_last /\ clock' = clock + 1
    BY <1>2 DEF Tick, kernelMaps, Tracked
  <2>3. onCpu' \in [Cgroups -> Nat]
    BY <1>1, <1>2, <2>1 DEF Tick
  <2> QED BY <1>1, <2>2, <2>3 DEF CpuTypes
<1>3. ASSUME NEW c \in Cores, NEW g \in Cgroups, tp_switch(c, g) PROVE CpuTypes'
  <2>1. /\ Tracked' = Tracked \/ Tracked' = Tracked \cup {c}
        /\ \A d \in Tracked' : cpu_last'[d] = clock \/ (d \in Tracked /\ cpu_last'[d] = cpu_last[d])
        /\ clock' = clock /\ onCpu' = onCpu
    BY <1>3 DEF tp_switch, UpdateLast, Tracked
  <2>2. IsFiniteSet(Tracked')
    BY <1>1, <2>1, FS_AddElement
  <2>3. \A d \in Tracked' : cpu_last'[d] <= clock'
    BY <1>1, <2>1
  <2> QED BY <1>1, <2>1, <2>2, <2>3 DEF CpuTypes
<1>4. CASE UNCHANGED <<clock, cpu_last, onCpu>>
  BY <1>1, <1>4 DEF CpuTypes, Tracked
<1> QED
  BY <1>2, <1>3, <1>4, StepIsHit
  DEF Hit, DrainNext, EmitWindow, probeVars, world, kernelMaps, history

\* Counts and times stay exact in every step.
LEMMA CpuInvariant == ProbesSpec => []CpuInv
<1>1. ProbesInit => CpuInv
  <2> SUFFICES ASSUME ProbesInit PROVE CpuInv
    OBVIOUS
  <2>1. ProbeInv
    BY ProbeInvInit
  <2>2. Tracked = {} /\ onCpu = [k \in Cgroups |-> 0]
    BY DEF ProbesInit, Tracked
  <2>3. CpuTypes
    BY <2>2, FS_EmptySet DEF CpuTypes
  <2>4. ASSUME NEW k \in Cgroups PROVE Balanced(k)
    <3>1. OpenTime(k) = {}
      BY <2>2 DEF OpenTime
    <3>2. OpenSlices(k) = 0
      BY <3>1, FS_EmptySet DEF OpenSlices
    <3>3. Accounted("cpu_utilization", k) = 0
      BY MapsOfPrograms, MapOfOne DEF ProbesInit, Zero, Accounted
    <3> QED BY <2>2, <3>2, <3>3 DEF Balanced
  <2> QED BY <2>1, <2>3, <2>4 DEF CpuInv
<1>2. CpuInv /\ [ProbesNext]_probeVars => CpuInv'
  <2> SUFFICES ASSUME CpuInv, [ProbesNext]_probeVars PROVE CpuInv'
    OBVIOUS
  <2>1. \A k \in Cgroups : Balanced(k)'
    BY StepIsHit, OthersBalanced, TickBalanced, SwitchBalanced
  <2> QED BY <2>1, ProbeInvStep, CpuTypesKept DEF CpuInv
<1> QED BY <1>1, <1>2, PTL DEF ProbesSpec

-----------------------------------------------------------------------------
(* The theorems.                                                            *)

\* No cgroup was counted, or ran for, 2^64 of anything since the collector started.
NoWrap == \A f \in Counted, k \in Cgroups : happened[f][k] < Wrap
NoTimeWrap == \A k \in Cgroups : onCpu[k] < Wrap

\* Until a count reaches 2^64 in all, every count and byte that the kernel told a
\* program is in exactly one window of its own feature and cgroup (INCR, drain).
THEOREM CountsTheorem == ProbesSpec => [](NoWrap => CountsAddUp)
<1>1. CpuInv => (NoWrap => CountsAddUp)
  BY DEF CpuInv, ProbeInv, NoWrap, Exact, CountsAddUp, Counted
<1> QED BY <1>1, CpuInvariant, PTL

\* Until a cgroup has run for 2^64 ns, its time on the CPUs of cpu_last is what
\* the windows credit it with, except the slices that are still open (tp_switch).
THEOREM OnCpuTheorem == ProbesSpec => [](NoTimeWrap => OnCpuAccounted)
<1>1. CpuInv => (NoTimeWrap => OnCpuAccounted)
  BY DEF CpuInv, NoTimeWrap, Balanced, OnCpuAccounted
<1> QED BY <1>1, CpuInvariant, PTL
==============================================================================
