-------------------------------- MODULE Mapper --------------------------------
(***************************************************************************)
(* collector-go/mapper.go: Resolve turns the cgroup ids (inodes) of a       *)
(* window into pod identities, through tables that maybeRefresh rebuilds    *)
(* from the cgroup file system and from the API server's pod list, and a    *)
(* cache of what Resolve answered.  Pods come and go meanwhile, and inodes  *)
(* are reused.  collector/k8s_mapper.py has the same tables.                *)
(*                                                                         *)
(* An identity is the pod's uid with two flags: the pod's name was known,   *)
(* the container's name was known; otherwise they are prefixes of the ids.  *)
(***************************************************************************)
EXTENDS Naturals, Functions

CONSTANTS
    Inodes, Uids,
    SystemInodes,       \* inodes of cgroups outside the pods
    MaxFaults,          \* bound: failing lists and incomplete scans
    NoCgroup, System    \* what a free inode, and one of SystemInodes, stands for

ASSUME MapperAssumption ==
    /\ SystemInodes \subseteq Inodes /\ MaxFaults \in Nat
    /\ NoCgroup # System /\ {NoCgroup, System} \cap Uids = {}

VARIABLES
    cgroups,       \* per inode: its pod, System or NoCgroup
    created,       \* pods that were created
    apiPods,       \* pods the API server lists
    inoToPath,     \* Mapper.inoToPath, a path being its owner
    uidToPod,      \* Mapper.uidToPod: the uids with a name
    cidToCName,    \* Mapper.cidToCName: the uids whose container has a name
    cache,         \* Mapper.cache
    expired,       \* time.Since(lastScan) >= refresh
    todo,          \* build: inodes of the window not resolved yet
    step, cgID,    \* where Resolve is, and its argument
    faults,
    owned,         \* history: per inode, its owners since the last scan
    answer         \* per inode: what Resolve answered last

cluster   == <<cgroups, created, apiPods>>
lookups   == <<inoToPath, uidToPod, cidToCName, cache>>
resolving == <<todo, step, cgID>>
mapperVars == <<cluster, lookups, expired, resolving, faults, owned, answer>>

Identity(uid, pod, cname) == [uid |-> uid, pod |-> pod, cname |-> cname]
unknown == Identity(NoCgroup, FALSE, FALSE)

MapperInit ==
    /\ cgroups = [i \in Inodes |-> IF i \in SystemInodes THEN System ELSE NoCgroup]
    /\ created = {} /\ apiPods = {}
    /\ inoToPath = <<>> /\ uidToPod = {} /\ cidToCName = {} /\ cache = <<>>
    /\ expired = TRUE /\ faults = 0
    /\ todo = {} /\ step = "idle" /\ cgID = NoCgroup
    /\ owned = [i \in Inodes |-> {}] /\ answer = [i \in Inodes |-> unknown]

-----------------------------------------------------------------------------
(* The node and the API server.                                             *)

PodCreated(u) ==
    /\ u \in Uids \ created
    /\ created' = created \cup {u} /\ apiPods' = apiPods \cup {u}
    /\ UNCHANGED <<cgroups, lookups, expired, resolving, faults, owned, answer>>

\* The pod object goes, before or after its cgroup.
PodDeleted(u) ==
    /\ u \in apiPods
    /\ apiPods' = apiPods \ {u}
    /\ UNCHANGED <<cgroups, created, lookups, expired, resolving, faults, owned, answer>>

\* The pod's cgroup gets a free inode; each pod has one.
CgroupCreated(u, i) ==
    /\ u \in apiPods /\ cgroups[i] = NoCgroup /\ \A j \in Inodes : cgroups[j] # u
    /\ cgroups' = [cgroups EXCEPT ![i] = u]
    /\ owned' = [owned EXCEPT ![i] = @ \cup {u}]
    /\ UNCHANGED <<created, apiPods, lookups, expired, resolving, faults, answer>>

CgroupRemoved(i) ==
    /\ cgroups[i] \in Uids
    /\ cgroups' = [cgroups EXCEPT ![i] = NoCgroup]
    /\ UNCHANGED <<created, apiPods, lookups, expired, resolving, faults, owned, answer>>

Expire ==
    /\ ~expired /\ expired' = TRUE
    /\ UNCHANGED <<cluster, lookups, resolving, faults, owned, answer>>

-----------------------------------------------------------------------------
(* Emit's build loop and Resolve.                                           *)

\* The next window: build resolves every cgroup of it.
StartWindow ==
    /\ todo = {} /\ step = "idle"
    /\ todo' = Inodes
    /\ UNCHANGED <<cluster, lookups, expired, step, cgID, faults, owned, answer>>

\* Resolve(i): maybeRefresh returns early while the tables are young and there
\* are any.
Resolve(i) ==
    /\ step = "idle" /\ i \in todo
    /\ cgID' = i /\ todo' = todo \ {i}
    /\ step' = IF ~expired /\ DOMAIN inoToPath # {} THEN "lookup" ELSE "scan"
    /\ UNCHANGED <<cluster, lookups, expired, faults, owned, answer>>

\* scanCgroups: the directories it could stat, all of them unless one fails.
scanCgroups ==
    /\ step = "scan"
    /\ LET all == {i \in Inodes : cgroups[i] # NoCgroup}
       IN  \E S \in SUBSET all :
              /\ S # all => faults < MaxFaults
              /\ faults' = IF S = all THEN faults ELSE faults + 1
              /\ inoToPath' = Restrict(cgroups, S)
    /\ owned' = [i \in Inodes |-> {cgroups[i]} \ {NoCgroup}]
    /\ step' = "list"
    /\ UNCHANGED <<cluster, uidToPod, cidToCName, cache, expired, todo, cgID, answer>>

\* Variant: the cache survives a refresh.
refreshPodsKeepsCache ==
    /\ step = "list"
    /\ uidToPod' = apiPods /\ cidToCName' = apiPods
    /\ expired' = FALSE /\ step' = "lookup"
    /\ UNCHANGED <<cluster, inoToPath, cache, todo, cgID, faults, owned, answer>>

\* Variant: a list that fails also leaves the old cache.
refreshPodsEarlyReturn ==
    /\ step = "list"
    /\ \/ uidToPod' = apiPods /\ cidToCName' = apiPods /\ cache' = <<>> /\ UNCHANGED faults
       \/ /\ faults < MaxFaults /\ faults' = faults + 1
          /\ UNCHANGED <<uidToPod, cidToCName, cache>>
    /\ expired' = FALSE /\ step' = "lookup"
    /\ UNCHANGED <<cluster, inoToPath, todo, cgID, owned, answer>>

\* refreshPods and the end of maybeRefresh.  A list that fails leaves the old
\* tables; one that succeeds may still lack the status of a container.  The
\* cache is dropped either way, and the tables count as young.
refreshPods ==
    /\ step = "list"
    /\ \/ \E C \in SUBSET apiPods :
             /\ C # apiPods => faults < MaxFaults
             /\ faults' = IF C = apiPods THEN faults ELSE faults + 1
             /\ uidToPod' = apiPods /\ cidToCName' = C
       \/ /\ faults < MaxFaults /\ faults' = faults + 1
          /\ UNCHANGED <<uidToPod, cidToCName>>
    /\ cache' = <<>> /\ expired' = FALSE /\ step' = "lookup"
    /\ UNCHANGED <<cluster, inoToPath, todo, cgID, owned, answer>>

\* What the tables say of inode i.
Identify(i) ==
    IF i \notin DOMAIN inoToPath THEN unknown
    ELSE LET u == inoToPath[i]
         IN  IF u = System THEN Identity(System, TRUE, TRUE)
             ELSE Identity(u, u \in uidToPod, u \in cidToCName)

\* The rest of Resolve: from the cache, or from the tables and then cached.
LookupIdentity ==
    /\ step = "lookup"
    /\ LET id == IF cgID \in DOMAIN cache THEN cache[cgID] ELSE Identify(cgID)
       IN  /\ cache' = [i \in DOMAIN cache \cup {cgID} |-> IF i = cgID THEN id ELSE cache[i]]
           /\ answer' = [answer EXCEPT ![cgID] = id]
    /\ step' = "idle" /\ cgID' = NoCgroup
    /\ UNCHANGED <<cluster, inoToPath, uidToPod, cidToCName, expired, todo, faults, owned>>

Collector == StartWindow \/ (\E i \in Inodes : Resolve(i)) \/ scanCgroups \/ refreshPods
             \/ LookupIdentity

MapperNext ==
    \/ Collector \/ Expire
    \/ \E u \in Uids :
          PodCreated(u) \/ PodDeleted(u) \/ \E i \in Inodes : CgroupCreated(u, i)
    \/ \E i \in Inodes : CgroupRemoved(i)

\* The collector's loop goes on and time passes.
MapperFairness == WF_mapperVars(Collector) /\ WF_mapperVars(Expire)

MapperSpec == MapperInit /\ [][MapperNext]_mapperVars /\ MapperFairness

-----------------------------------------------------------------------------
(* Properties.                                                              *)

\* A window is never attributed to a pod that lost the cgroup before the last
\* scan: outside a refresh every cached identity is that of an owner the inode
\* has had since, or unknown, whatever lists failed (Resolve, maybeRefresh).
CacheFresh ==
    step \in {"idle", "lookup"} =>
        \A i \in DOMAIN cache :
            cache[i] # unknown => cache[i].uid \in owned[i]

\* Misattribution heals: once inode i stays with a pod that stays listed, and
\* lists and scans stop failing, every later window of i carries that pod's
\* name and its container's, though unknown and wrong answers are cached
\* (Resolve: refresh after 30 s).
AttributionHeals ==
    \A i \in Inodes, u \in Uids :
        <>[](cgroups[i] = u /\ u \in apiPods) =>
            <>[](answer[i] = Identity(u, TRUE, TRUE))

=============================================================================
