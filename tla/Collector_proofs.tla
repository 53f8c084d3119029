--------------------------- MODULE Collector_proofs ---------------------------
\* Proofs about the mapper's cache and about what the collector writes and posts.
EXTENDS Mapper, CollectorOutput, SequenceTheorems, TLAPS

MapperTypes ==
    /\ step \in {"idle", "scan", "list", "lookup"}
    /\ cgroups \in [Inodes -> Uids \cup {System, NoCgroup}]
    /\ owned \in [Inodes -> SUBSET (Uids \cup {System})]
    /\ todo \subseteq Inodes
    /\ step # "idle" => cgID \in Inodes
    /\ DOMAIN inoToPath \subseteq Inodes /\ DOMAIN cache \subseteq Inodes

\* Every path of the scan's table is an owner the inode has had since that scan.
TablesOwned == \A i \in DOMAIN inoToPath : inoToPath[i] \in owned[i]

\* So is every cached identity, until a scan begins the next period.
CacheOwned ==
    step # "list" => \A i \in DOMAIN cache : cache[i] # unknown => cache[i].uid \in owned[i]

MapperInv == MapperTypes /\ TablesOwned /\ CacheOwned

\* The inductive invariant holds: one step per action of the cluster and the mapper.
LEMMA MapperInvariant == MapperSpec => []MapperInv
<1>1. MapperInit => MapperInv
  <2> SUFFICES ASSUME MapperInit PROVE MapperInv
    OBVIOUS
  <2>1. MapperTypes
    BY MapperAssumption DEF MapperInit, MapperTypes
  <2> QED BY <2>1 DEF MapperInit, MapperInv, TablesOwned, CacheOwned
<1>2. MapperInv /\ [MapperNext]_mapperVars => MapperInv'
  <2> SUFFICES ASSUME MapperInv, [MapperNext]_mapperVars PROVE MapperInv'
    OBVIOUS
  <2> USE DEF MapperInv, MapperTypes, TablesOwned, CacheOwned
  <2>1. ASSUME NEW u \in Uids, PodCreated(u) \/ PodDeleted(u) PROVE MapperInv'
    BY <2>1 DEF PodCreated, PodDeleted, lookups, resolving
  <2>2. ASSUME NEW u \in Uids, NEW i \in Inodes, CgroupCreated(u, i) PROVE MapperInv'
    BY <2>2 DEF CgroupCreated, lookups, resolving
  <2>3. ASSUME NEW i \in Inodes, CgroupRemoved(i) PROVE MapperInv'
    BY <2>3 DEF CgroupRemoved, lookups, resolving
  <2>4. CASE Expire
    BY <2>4 DEF Expire, cluster, lookups, resolving
  <2>5. CASE StartWindow
    BY <2>5 DEF StartWindow, cluster, lookups
  <2>6. ASSUME NEW i \in Inodes, Resolve(i) PROVE MapperInv'
    BY <2>6 DEF Resolve, cluster, lookups
  <2>7. CASE scanCgroups
    <3>1. PICK S \in SUBSET {i \in Inodes : cgroups[i] # NoCgroup} : inoToPath' = [i \in S |-> cgroups[i]]
      BY <2>7 DEF scanCgroups, Restrict
    <3>2. owned' = [i \in Inodes |-> {cgroups[i]} \ {NoCgroup}] /\ step' = "list"
          /\ UNCHANGED <<cluster, uidToPod, cidToCName, cache, expired, todo, cgID, answer>> /\ step = "scan"
      BY <2>7 DEF scanCgroups
    <3> QED BY <3>1, <3>2 DEF cluster
  <2>8. CASE refreshPods
    <3>1. DOMAIN cache' = {}
      BY <2>8 DEF refreshPods
    <3> QED BY <2>8, <3>1 DEF refreshPods, cluster
  <2>9. CASE LookupIdentity
    <3> DEFINE id == IF cgID \in DOMAIN cache THEN cache[cgID] ELSE Identify(cgID)
    <3>1. cgID \in Inodes /\ step = "lookup" /\ step' = "idle" /\ owned' = owned
          /\ cache' = [i \in DOMAIN cache \cup {cgID} |-> IF i = cgID THEN id ELSE cache[i]]
          /\ UNCHANGED <<cluster, inoToPath, todo>>
      BY <2>9 DEF LookupIdentity
    <3>2. id # unknown => id.uid \in owned[cgID]
      <4>1. CASE cgID \in DOMAIN cache
        BY <3>1, <4>1
      <4>2. CASE cgID \notin DOMAIN cache
        BY <3>1, <4>2 DEF Identify, Identity, unknown
      <4> QED BY <4>1, <4>2
    <3> HIDE DEF id
    <3> QED BY <3>1, <3>2 DEF cluster
  <2>10. CASE UNCHANGED mapperVars
    BY <2>10 DEF mapperVars, cluster, lookups, resolving
  <2> QED BY <2>1, <2>2, <2>3, <2>4, <2>5, <2>6, <2>7, <2>8, <2>9, <2>10 DEF MapperNext, Collector
<1> QED BY <1>1, <1>2, PTL DEF MapperSpec

\* A cached identity is one the inode has had since the last scan, for any pods, any
\* reuse of inodes and any order of scan, listing and lookups (Lookup, refreshPods).
THEOREM CacheTheorem == MapperSpec => []CacheFresh
<1>1. MapperInv => CacheFresh
  BY DEF MapperInv, CacheOwned, CacheFresh
<1> QED BY <1>1, MapperInvariant, PTL

-----------------------------------------------------------------------------

CsvLine == Nat \X Nat

\* The file ends in a torn line.
Tears(file) == file # <<>> /\ file[Len(file)] = Torn

\* How many of its lines the next write leaves as they are.
Kept(file) == IF Tears(file) THEN Len(file) - 1 ELSE Len(file)

\* The three marks are lines, differ, and carry the number of no window.
LEMMA Marks ==
    /\ Header \in CsvLine /\ Torn \in CsvLine /\ Bad \in CsvLine
    /\ Header # Torn /\ Header # Bad /\ Torn # Bad
    /\ Header[1] = 0 /\ Torn[1] = 0 /\ Bad[1] = 0
BY DEF Header, Torn, Bad, CsvLine

\* One line appended: a torn last line is completed, every earlier line stays.
LEMMA AppendLineShape ==
    ASSUME NEW file \in Seq(CsvLine), NEW line \in CsvLine
    PROVE  LET out == AppendLine(file, line) IN
           /\ out \in Seq(CsvLine) /\ Len(out) = Kept(file) + 1 /\ Kept(file) \in Nat
           /\ \A i \in 1..Kept(file) : out[i] = file[i]
           /\ out[Kept(file) + 1] = IF Tears(file) THEN IF line = Torn THEN Torn ELSE Bad ELSE line
<1> DEFINE new == IF line = Torn THEN Torn ELSE Bad
<1>1. Len(file) \in Nat
  BY LenProperties
<1>2. CASE Tears(file)
  <2>1. Len(file) - 1 \in Nat /\ Kept(file) = Len(file) - 1
    BY <1>1, <1>2, EmptySeq DEF Tears, Kept
  <2>2. \A i \in 1..(Len(file) - 1) : file[i] \in CsvLine
    BY <1>1, ElementOfSeq
  <2>3. /\ Front(file) \in Seq(CsvLine) /\ Len(Front(file)) = Len(file) - 1
        /\ \A i \in 1..(Len(file) - 1) : Front(file)[i] = file[i]
    <3> DEFINE n == Len(file) - 1
    <3>1. n \in Nat /\ Front(file) = SubSeq(file, 1, n) /\ \A i \in 1..n : file[i] \in CsvLine
      BY <2>1, <2>2 DEF Front
    <3> HIDE DEF n
    <3>2. /\ SubSeq(file, 1, n) \in Seq(CsvLine) /\ Len(SubSeq(file, 1, n)) = n
          /\ \A i \in 1..n : SubSeq(file, 1, n)[i] = file[i]
      BY <3>1, SubSeqProperties
    <3> QED BY <3>1, <3>2 DEF n
  <2>4. AppendLine(file, line) = Append(Front(file), new)
    BY <1>2 DEF AppendLine, Tears, Last
  <2>5. new \in CsvLine
    BY Marks
  <2> HIDE DEF new
  <2>6. /\ Append(Front(file), new) \in Seq(CsvLine)
        /\ Len(Append(Front(file), new)) = Len(file)
        /\ \A i \in 1..(Len(file) - 1) : Append(Front(file), new)[i] = file[i]
        /\ Append(Front(file), new)[Len(file)] = new
    BY <1>1, <2>1, <2>3, <2>5, AppendProperties
  <2> QED BY <1>1, <1>2, <2>1, <2>4, <2>6 DEF new
<1>3. CASE ~Tears(file)
  <2>1. AppendLine(file, line) = Append(file, line) /\ Kept(file) = Len(file)
    BY <1>3 DEF AppendLine, Tears, Last, Kept
  <2> QED BY <1>1, <1>3, <2>1, AppendProperties
<1> QED BY <1>2, <1>3

\* Several lines appended: only the first of them can meet a torn line.
LEMMA AppendLinesShape ==
    ASSUME NEW file \in Seq(CsvLine), NEW lines \in Seq(CsvLine), lines # <<>>
    PROVE  LET out == AppendLines(file, lines) IN
           /\ out \in Seq(CsvLine) /\ Len(out) = Kept(file) + Len(lines)
           /\ Kept(file) \in Nat /\ Kept(file) <= Len(file) /\ Len(file) \in Nat
           /\ Len(lines) \in Nat \ {0}
           /\ \A i \in 1..Kept(file) : out[i] = file[i]
           /\ \A j \in 2..Len(lines) : out[Kept(file) + j] = lines[j]
           /\ out[Kept(file) + 1] =
                IF Tears(file) THEN IF lines[1] = Torn THEN Torn ELSE Bad ELSE lines[1]
<1> DEFINE one == AppendLine(file, Head(lines))
           k == Kept(file)
<1>1. /\ Head(lines) = lines[1] /\ Head(lines) \in CsvLine /\ Tail(lines) \in Seq(CsvLine)
      /\ Len(Tail(lines)) = Len(lines) - 1 /\ Len(lines) \in Nat \ {0} /\ Len(file) \in Nat
      /\ \A j \in 1..(Len(lines) - 1) : Tail(lines)[j] = lines[j + 1]
  BY HeadTailProperties, LenProperties, EmptySeq
<1>2. /\ one \in Seq(CsvLine) /\ Len(one) = k + 1 /\ k \in Nat
      /\ \A i \in 1..k : one[i] = file[i]
      /\ one[k + 1] = IF Tears(file) THEN IF lines[1] = Torn THEN Torn ELSE Bad ELSE lines[1]
  <2> DEFINE line == Head(lines)
  <2>1. line \in CsvLine /\ lines[1] = line
    BY <1>1
  <2> HIDE DEF line
  <2>2. LET out == AppendLine(file, line) IN
           /\ out \in Seq(CsvLine) /\ Len(out) = Kept(file) + 1 /\ Kept(file) \in Nat
           /\ \A i \in 1..Kept(file) : out[i] = file[i]
           /\ out[Kept(file) + 1] = IF Tears(file) THEN IF line = Torn THEN Torn ELSE Bad ELSE line
    BY <2>1, AppendLineShape, Zenon
  <2> QED BY <2>1, <2>2 DEF line
<1>3. k <= Len(file)
  BY <1>1 DEF Kept
<1>4. AppendLines(file, lines) = one \o Tail(lines)
  BY DEF AppendLines
<1> HIDE DEF one, k
<1>5. /\ one \o Tail(lines) \in Seq(CsvLine)
      /\ Len(one \o Tail(lines)) = (k + 1) + (Len(lines) - 1)
      /\ \A i \in 1..(k + 1 + (Len(lines) - 1)) :
            (one \o Tail(lines))[i] = IF i <= k + 1 THEN one[i] ELSE Tail(lines)[i - (k + 1)]
  <2> DEFINE rest == Tail(lines)
  <2>1. one \in Seq(CsvLine) /\ rest \in Seq(CsvLine) /\ Len(one) = k + 1 /\ Len(rest) = Len(lines) - 1
    BY <1>1, <1>2
  <2> HIDE DEF rest
  <2>2. /\ one \o rest \in Seq(CsvLine)
        /\ Len(one \o rest) = Len(one) + Len(rest)
        /\ \A i \in 1..(Len(one) + Len(rest)) :
              (one \o rest)[i] = IF i <= Len(one) THEN one[i] ELSE rest[i - Len(one)]
    BY <2>1, ConcatProperties
  <2> QED BY <2>1, <2>2 DEF rest
<1>6. \A j \in 2..Len(lines) : (one \o Tail(lines))[k + j] = lines[j]
  <2> SUFFICES ASSUME NEW j \in 2..Len(lines) PROVE (one \o Tail(lines))[k + j] = lines[j]
    OBVIOUS
  <2>1. /\ k + j \in 1..(k + 1 + (Len(lines) - 1)) /\ ~(k + j <= k + 1)
        /\ (k + j) - (k + 1) = j - 1 /\ j - 1 \in 1..(Len(lines) - 1) /\ (j - 1) + 1 = j
    BY <1>1, <1>2
  <2> QED BY <1>1, <1>5, <2>1
<1>7. \A i \in 1..(k + 1) : (one \o Tail(lines))[i] = one[i]
  BY <1>1, <1>2, <1>5
<1>8. k + 1 \in 1..(k + 1) /\ \A i \in 1..k : i \in 1..(k + 1)
  BY <1>2
<1>9. Len(one \o Tail(lines)) = k + Len(lines)
  BY <1>1, <1>2, <1>5
<1> QED BY <1>1, <1>2, <1>3, <1>4, <1>5, <1>6, <1>7, <1>8, <1>9 DEF k

\* Number of lines before the rows of a window.
HeaderLines == IF header THEN 1 ELSE 0

\* What a whole write of the window consists of.
LEMMA CsvLinesShape ==
    ASSUME win \in Nat, header \in BOOLEAN
    PROVE  /\ csvLines \in Seq(CsvLine) /\ Len(csvLines) = HeaderLines + Rows /\ HeaderLines \in Nat /\ Rows \in Nat \ {0}
           /\ header => csvLines[1] = Header
           /\ \A r \in 1..Rows : csvLines[HeaderLines + r] = <<win, r>>
<1>1. Rows \in Nat \ {0}
  BY OutputAssumption DEF OutputAssumption
<1>2. /\ rows(win) \in Seq(CsvLine) /\ Len(rows(win)) = Rows
      /\ \A r \in 1..Rows : rows(win)[r] = <<win, r>>
  BY <1>1 DEF rows, CsvLine
<1>3. CASE header
  <2>1. <<Header>> \in Seq(CsvLine) /\ Len(<<Header>>) = 1 /\ <<Header>>[1] = Header
    BY Marks
  <2>2. csvLines = <<Header>> \o rows(win) /\ HeaderLines = 1
    BY <1>3 DEF csvLines, HeaderLines
  <2>3. /\ <<Header>> \o rows(win) \in Seq(CsvLine)
        /\ Len(<<Header>> \o rows(win)) = 1 + Rows
        /\ \A i \in 1..(1 + Rows) :
              (<<Header>> \o rows(win))[i] = IF i <= 1 THEN <<Header>>[i] ELSE rows(win)[i - 1]
    BY <1>2, <2>1, ConcatProperties
  <2>4. \A r \in 1..Rows : 1 + r \in 1..(1 + Rows) /\ ~(1 + r <= 1) /\ (1 + r) - 1 = r
    BY <1>1
  <2>5. 1 \in 1..(1 + Rows)
    BY <1>1
  <2> QED BY <1>1, <1>2, <2>1, <2>2, <2>3, <2>4, <2>5
<1>4. CASE ~header
  <2>1. csvLines = <<>> \o rows(win) /\ HeaderLines = 0
    BY <1>4 DEF csvLines, HeaderLines
  <2>2. <<>> \o rows(win) = rows(win)
    BY <1>2, ConcatEmptySeq
  <2> QED BY <1>1, <1>2, <1>4, <2>1, <2>2
<1> QED BY <1>3, <1>4

\* A write that may be cut short: some of the lines, then perhaps a torn one.
PartOf(part, lines) ==
    /\ part \in Seq(CsvLine) /\ Len(part) <= Len(lines)
    /\ \A j \in 1..Len(part) : part[j] = lines[j] \/ part[j] = Torn

\* A whole write is a part of itself.
LEMMA WholeIsPart ==
    ASSUME NEW lines \in Seq(CsvLine)
    PROVE  PartOf(lines, lines)
BY LenProperties DEF PartOf

\* So is a write that was cut short.
LEMMA CutIsPart ==
    ASSUME NEW lines \in Seq(CsvLine), NEW part \in CutShort(lines)
    PROVE  PartOf(part, lines)
<1>0. Len(lines) \in Nat
  BY LenProperties
<1>1. PICK n \in 0..(Len(lines) - 1) : \/ part = SubSeq(lines, 1, n)
                                       \/ part = Append(SubSeq(lines, 1, n), Torn)
  BY DEF CutShort
<1> DEFINE s == SubSeq(lines, 1, n)
<1>2. \A i \in 1..n : lines[i] \in CsvLine
  BY <1>0, ElementOfSeq
<1>3. s \in Seq(CsvLine) /\ Len(s) = n /\ \A i \in 1..n : s[i] = lines[i]
  BY <1>0, <1>2, SubSeqProperties
<1> HIDE DEF s
<1>4. /\ Append(s, Torn) \in Seq(CsvLine) /\ Len(Append(s, Torn)) = n + 1
      /\ \A i \in 1..n : Append(s, Torn)[i] = s[i]
      /\ Append(s, Torn)[n + 1] = Torn
  BY <1>3, Marks, AppendProperties
<1>5. CASE part = s
  BY <1>0, <1>3, <1>5 DEF PartOf
<1>6. CASE part = Append(s, Torn)
  <2>1. \A j \in 1..(n + 1) : j \in 1..n \/ j = n + 1
    BY <1>0
  <2> QED BY <1>0, <1>3, <1>4, <1>6, <2>1 DEF PartOf
<1> QED BY <1>1, <1>5, <1>6 DEF s

-----------------------------------------------------------------------------

OutTypes ==
    /\ emitting \in {"idle", "csv", "flush", "jsonl", "push", "wait"}
    /\ win \in Nat /\ header \in BOOLEAN /\ csvExists \in BOOLEAN
    /\ csv \in Seq(CsvLine)
    /\ wire \subseteq Nat /\ scored \in Seq(Nat)

\* Where the rows of the window that is emitted can be.
CsvNumbers ==
    /\ ~csvExists => csv = <<>> /\ emitting # "flush"
    /\ emitting = "flush" /\ header => csv = <<>>
    /\ emitting # "idle" => win # 0
    /\ \A n \in 1..Len(csv) : csv[n][1] <= win
    /\ emitting \in {"csv", "flush"} => \A n \in 1..Len(csv) : csv[n][1] < win

\* The lines that a write of a part of the window adds.
LEMMA WriteAdds ==
    ASSUME OutTypes, CsvNumbers, emitting = "flush",
           NEW part, PartOf(part, csvLines), csv' = AppendLines(csv, part)
    PROVE  /\ csv' \in Seq(CsvLine) /\ Len(csv') \in Nat
           /\ \E k \in 0..Len(csv) :
                 /\ k <= Len(csv') /\ \A n \in 1..k : csv'[n] = csv[n]
                 /\ \A n \in (k + 1)..Len(csv') :
                       \/ csv'[n] \in {Torn, Bad}
                       \/ csv'[n] = Header /\ n = 1
                       \/ csv'[n] = <<win, n - k - HeaderLines>> /\ n - k - HeaderLines \in Nat \ {0}
<1>1. /\ csv \in Seq(CsvLine) /\ part \in Seq(CsvLine) /\ Len(csv) \in Nat
      /\ win \in Nat /\ header \in BOOLEAN /\ (header => csv = <<>>)
  BY LenProperties DEF OutTypes, CsvNumbers, PartOf
<1>2. CASE part = <<>>
  <2>1. csv' = csv
    BY <1>2 DEF AppendLines
  <2>2. Len(csv) \in 0..Len(csv) /\ \A n \in (Len(csv) + 1)..Len(csv) : FALSE
    BY <1>1
  <2>3. /\ Len(csv) <= Len(csv') /\ \A n \in 1..Len(csv) : csv'[n] = csv[n]
        /\ \A n \in (Len(csv) + 1)..Len(csv') : FALSE
    BY <1>1, <2>1, <2>2
  <2> QED BY <1>1, <2>1, <2>2, <2>3
<1>3. CASE part # <<>>
  <2> DEFINE k == Kept(csv)
  <2>1. /\ csv' \in Seq(CsvLine) /\ Len(csv') = k + Len(part)
        /\ k \in Nat /\ k <= Len(csv) /\ Len(part) \in Nat \ {0}
        /\ \A i \in 1..k : csv'[i] = csv[i]
        /\ \A j \in 2..Len(part) : csv'[k + j] = part[j]
        /\ csv'[k + 1] = IF Tears(csv) THEN IF part[1] = Torn THEN Torn ELSE Bad ELSE part[1]
    <3> DEFINE out == AppendLines(csv, part)
    <3>1. /\ out \in Seq(CsvLine) /\ Len(out) = k + Len(part)
          /\ k \in Nat /\ k <= Len(csv) /\ Len(part) \in Nat \ {0}
          /\ \A i \in 1..k : out[i] = csv[i]
          /\ \A j \in 2..Len(part) : out[k + j] = part[j]
          /\ out[k + 1] = IF Tears(csv) THEN IF part[1] = Torn THEN Torn ELSE Bad ELSE part[1]
      BY <1>1, <1>3, AppendLinesShape, Zenon
    <3>2. csv' = out
      OBVIOUS
    <3> HIDE DEF out, k
    <3> QED BY <3>1, <3>2
  <2>2. /\ Len(csvLines) = HeaderLines + Rows /\ HeaderLines \in Nat /\ Rows \in Nat \ {0}
        /\ header => csvLines[1] = Header
        /\ \A r \in 1..Rows : csvLines[HeaderLines + r] = <<win, r>>
    BY <1>1, CsvLinesShape
  <2>3. /\ Len(part) <= HeaderLines + Rows
        /\ \A j \in 1..Len(part) : part[j] = csvLines[j] \/ part[j] = Torn
    BY <2>2 DEF PartOf
  <2>4. header => k = 0
    BY <1>1, <2>1, EmptySeq
  <2>5. HeaderLines = IF header THEN 1 ELSE 0
    BY DEF HeaderLines
  <2> HIDE DEF k
  <2>6. ASSUME NEW n \in (k + 1)..Len(csv')
        PROVE  \/ csv'[n] \in {Torn, Bad}
               \/ csv'[n] = Header /\ n = 1
               \/ csv'[n] = <<win, n - k - HeaderLines>> /\ n - k - HeaderLines \in Nat \ {0}
    <3> DEFINE j == n - k
    <3>1. j \in 1..Len(part) /\ n = k + j /\ n - k - HeaderLines = j - HeaderLines
      BY <2>1, <2>2, <2>6
    <3> HIDE DEF j
    <3>2. csv'[n] \in {Torn, Bad} \/ csv'[n] = csvLines[j]
      <4>1. CASE j = 1
        BY <2>1, <2>3, <3>1, <4>1
      <4>2. CASE j # 1
        <5>1. j \in 2..Len(part)
          BY <2>1, <3>1, <4>2
        <5> QED BY <2>1, <2>3, <3>1, <5>1
      <4> QED BY <4>1, <4>2
    <3>3. CASE header /\ j = 1
      BY <1>1, <2>2, <2>4, <3>1, <3>2, <3>3
    <3>4. CASE ~(header /\ j = 1)
      <4>1. j - HeaderLines \in 1..Rows /\ HeaderLines + (j - HeaderLines) = j
        BY <1>1, <2>1, <2>2, <2>3, <2>5, <3>1, <3>4
      <4>2. csvLines[j] = <<win, j - HeaderLines>>
        BY <2>2, <4>1
      <4> QED BY <3>1, <3>2, <4>1, <4>2
    <3> QED BY <3>3, <3>4
  <2>7. k \in 0..Len(csv) /\ k <= Len(csv') /\ Len(csv') \in Nat
    BY <1>1, <2>1
  <2> QED BY <2>1, <2>6, <2>7
<1> QED BY <1>2, <1>3

\* They come after all that is there.
LEMMA WriteInOrder ==
    ASSUME OutTypes, CsvNumbers, CsvInOrder, emitting = "flush",
           NEW part, PartOf(part, csvLines), csv' = AppendLines(csv, part)
    PROVE  /\ csv' \in Seq(CsvLine) /\ CsvInOrder'
           /\ \A n \in 1..Len(csv') : csv'[n][1] <= win
<1>1. csv' \in Seq(CsvLine) /\ Len(csv') \in Nat
  BY WriteAdds
<1>2. PICK k \in 0..Len(csv) :
                 /\ k <= Len(csv') /\ \A n \in 1..k : csv'[n] = csv[n]
                 /\ \A n \in (k + 1)..Len(csv') :
                       \/ csv'[n] \in {Torn, Bad}
                       \/ csv'[n] = Header /\ n = 1
                       \/ csv'[n] = <<win, n - k - HeaderLines>> /\ n - k - HeaderLines \in Nat \ {0}
  BY WriteAdds
<1>3. /\ win \in Nat /\ win # 0 /\ Len(csv) \in Nat /\ HeaderLines \in Nat
      /\ \A n \in 1..Len(csv) : csv[n] \in CsvLine /\ csv[n][1] \in Nat /\ csv[n][1] < win
  <2>1. Len(csv) \in Nat /\ \A n \in 1..Len(csv) : csv[n] \in CsvLine
    BY LenProperties, ElementOfSeq DEF OutTypes
  <2> QED BY <2>1 DEF OutTypes, CsvNumbers, CsvLine, HeaderLines
<1>4. \A n \in 1..Len(csv') : n \in 1..k \/ n \in (k + 1)..Len(csv')
  BY <1>1, <1>3
<1>5. \A n \in 1..Len(csv') : csv'[n][1] <= win
  <2> SUFFICES ASSUME NEW n \in 1..Len(csv') PROVE csv'[n][1] <= win
    OBVIOUS
  <2>1. CASE n \in 1..k
    BY <1>2, <1>3, <2>1
  <2>2. CASE n \in (k + 1)..Len(csv')
    BY <1>2, <1>3, <2>2, Marks
  <2> QED BY <1>4, <2>1, <2>2
<1>6. ASSUME NEW m \in 1..Len(csv'), NEW n \in 1..Len(csv')
      PROVE  /\ csv'[n] = Header => n = 1
             /\ m < n /\ csv'[m][1] # 0 /\ csv'[n][1] # 0 =>
                  csv'[m][1] < csv'[n][1] \/ (csv'[m][1] = csv'[n][1] /\ csv'[m][2] < csv'[n][2])
  <2>1. CASE n \in 1..k
    <3>1. csv'[n] = csv[n] /\ n \in 1..Len(csv) /\ (m < n => m \in 1..k /\ m \in 1..Len(csv))
      BY <1>1, <1>2, <1>3, <2>1
    <3>2. csv[n] = Header => n = 1
      BY <3>1 DEF CsvInOrder
    <3>3. CASE m < n
      <4>1. csv'[m] = csv[m] /\ m \in 1..Len(csv)
        BY <1>2, <3>1, <3>3
      <4> QED BY <3>1, <3>2, <4>1 DEF CsvInOrder
    <3> QED BY <3>1, <3>2, <3>3
  <2>2. CASE n \in (k + 1)..Len(csv')
    <3>1. csv'[n] = Header => n = 1
      BY <1>2, <1>3, <2>2, Marks DEF Header
    <3>2. ASSUME m < n, csv'[m][1] # 0, csv'[n][1] # 0
          PROVE  csv'[m][1] < csv'[n][1] \/ (csv'[m][1] = csv'[n][1] /\ csv'[m][2] < csv'[n][2])
      <4>1. csv'[n] = <<win, n - k - HeaderLines>> /\ n - k - HeaderLines \in Nat \ {0}
        BY <1>2, <2>2, <3>2, Marks
      <4>2. CASE m \in 1..k
        BY <1>2, <1>3, <4>1, <4>2
      <4>3. CASE m \in (k + 1)..Len(csv')
        <5>1. csv'[m] = <<win, m - k - HeaderLines>> /\ m - k - HeaderLines \in Nat \ {0}
          BY <1>2, <3>2, <4>3, Marks
        <5>2. m - k - HeaderLines < n - k - HeaderLines
          BY <1>1, <1>3, <3>2
        <5> QED BY <4>1, <5>1, <5>2
      <4> QED BY <1>4, <4>2, <4>3
    <3> QED BY <3>1, <3>2
  <2> QED BY <1>4, <2>1, <2>2
<1> QED BY <1>1, <1>5, <1>6 DEF CsvInOrder

-----------------------------------------------------------------------------

\* A row of a window, or the mark that the first one was glued to a torn line.
OnDisk(w) == \A r \in 1..Rows : <<w, r>> \in Range(csv) \/ (r = 1 /\ Bad \in Range(csv))

\* A window is handed to the detector once, and written before.
Handed(w) ==
    \/ w \in wire \/ w \in Range(scored)
    \/ emitting \in {"jsonl", "push", "wait"} /\ w = win

OnePush ==
    /\ \A w \in wire : w <= win
    /\ \A i \in DOMAIN scored : scored[i] <= win /\ scored[i] \notin wire
    /\ emitting \in {"csv", "flush", "jsonl", "push"} =>
          win \notin wire /\ \A i \in DOMAIN scored : scored[i] # win

HandedOnDisk == \A w \in Nat : Handed(w) /\ w \notin failed => w # 0 /\ OnDisk(w)

OutInv == OutTypes /\ CsvNumbers /\ CsvInOrder /\ OnePush /\ ScoredOnce /\ HandedOnDisk

\* A row or a Bad mark in the file is never lost: only torn lines change.
LEMMA WriteKeepsRows ==
    ASSUME OutTypes, NEW part \in Seq(CsvLine), csv' = AppendLines(csv, part),
           NEW x \in Range(csv), x # Torn
    PROVE  x \in Range(csv')
<1>1. csv \in Seq(CsvLine) /\ Len(csv) \in Nat /\ DOMAIN csv = 1..Len(csv)
  BY LenProperties DEF OutTypes
<1>2. CASE part = <<>>
  BY <1>2 DEF AppendLines
<1>3. CASE part # <<>>
  <2>1. /\ csv' \in Seq(CsvLine) /\ Len(csv') = Kept(csv) + Len(part)
        /\ Kept(csv) \in Nat /\ Kept(csv) <= Len(csv) /\ Len(part) \in Nat \ {0}
        /\ \A i \in 1..Kept(csv) : csv'[i] = csv[i]
    <3> DEFINE out == AppendLines(csv, part)
    <3>1. /\ out \in Seq(CsvLine) /\ Len(out) = Kept(csv) + Len(part)
          /\ Kept(csv) \in Nat /\ Kept(csv) <= Len(csv) /\ Len(part) \in Nat \ {0}
          /\ \A i \in 1..Kept(csv) : out[i] = csv[i]
      BY <1>1, <1>3, AppendLinesShape, Zenon
    <3>2. csv' = out
      OBVIOUS
    <3> HIDE DEF out
    <3> QED BY <3>1, <3>2
  <2>2. PICK i \in 1..Len(csv) : x = csv[i]
    BY <1>1 DEF Range
  <2>3. i \in 1..Kept(csv)
    BY <1>1, <2>2 DEF Kept, Tears
  <2>4. i \in 1..Len(csv') /\ DOMAIN csv' = 1..Len(csv')
    BY <2>1, <2>3, LenProperties
  <2> QED BY <2>1, <2>2, <2>3, <2>4 DEF Range
<1> QED BY <1>2, <1>3

\* So a window on disk stays there.
LEMMA OnDiskStays ==
    ASSUME OutTypes, NEW part \in Seq(CsvLine), csv' = AppendLines(csv, part),
           NEW w \in Nat, w # 0, OnDisk(w)
    PROVE  OnDisk(w)'
<1>1. \A r \in 1..Rows : <<w, r>> # Torn
  BY DEF Torn
<1>2. \A r \in 1..Rows : <<w, r>> \in Range(csv') \/ (r = 1 /\ Bad \in Range(csv'))
  BY <1>1, WriteKeepsRows, Marks DEF OnDisk
<1> QED BY <1>2 DEF OnDisk

\* A whole write has the window on disk.
LEMMA WholeOnDisk ==
    ASSUME OutTypes, win # 0, csv' = AppendLines(csv, csvLines)
    PROVE  \A r \in 1..Rows : <<win, r>> \in Range(csv') \/ (r = 1 /\ Bad \in Range(csv'))
<1>1. /\ csvLines \in Seq(CsvLine) /\ Len(csvLines) = HeaderLines + Rows /\ HeaderLines \in Nat /\ Rows \in Nat \ {0}
      /\ \A r \in 1..Rows : csvLines[HeaderLines + r] = <<win, r>>
  BY CsvLinesShape DEF OutTypes
<1>2. csvLines # <<>>
  BY <1>1, EmptySeq
<1> DEFINE k == Kept(csv)
<1>3. /\ csv' \in Seq(CsvLine) /\ Len(csv') = k + (HeaderLines + Rows)
      /\ k \in Nat
      /\ \A j \in 2..(HeaderLines + Rows) : csv'[k + j] = csvLines[j]
      /\ csv'[k + 1] = IF Tears(csv) THEN IF csvLines[1] = Torn THEN Torn ELSE Bad ELSE csvLines[1]
  <2> DEFINE lines == csvLines
  <2>1. csv \in Seq(CsvLine) /\ lines \in Seq(CsvLine) /\ lines # <<>> /\ csv' = AppendLines(csv, lines)
    BY <1>1, <1>2 DEF OutTypes
  <2> HIDE DEF lines
  <2>2. LET out == AppendLines(csv, lines) IN
        /\ out \in Seq(CsvLine) /\ Len(out) = Kept(csv) + Len(lines) /\ Kept(csv) \in Nat
        /\ \A j \in 2..Len(lines) : out[Kept(csv) + j] = lines[j]
        /\ out[Kept(csv) + 1] =
              IF Tears(csv) THEN IF lines[1] = Torn THEN Torn ELSE Bad ELSE lines[1]
    BY <2>1, AppendLinesShape
  <2>3. /\ csv' \in Seq(CsvLine) /\ Len(csv') = k + Len(lines) /\ k \in Nat
        /\ \A j \in 2..Len(lines) : csv'[k + j] = lines[j]
        /\ csv'[k + 1] = IF Tears(csv) THEN IF lines[1] = Torn THEN Torn ELSE Bad ELSE lines[1]
    BY <2>1, <2>2
  <2> HIDE DEF k
  <2> QED BY <1>1, <2>3 DEF lines
<1> HIDE DEF k
<1>4. DOMAIN csv' = 1..(k + (HeaderLines + Rows))
  BY <1>3, LenProperties
<1> SUFFICES ASSUME NEW r \in 1..Rows
             PROVE  <<win, r>> \in Range(csv') \/ (r = 1 /\ Bad \in Range(csv'))
  OBVIOUS
<1>5. CASE HeaderLines + r = 1
  <2>1. HeaderLines = 0 /\ r = 1 /\ k + 1 \in DOMAIN csv' /\ csvLines[1] = <<win, r>> /\ <<win, r>> # Torn
    BY <1>1, <1>3, <1>4, <1>5 DEF Torn
  <2>2. csv'[k + 1] \in Range(csv')
    BY <2>1 DEF Range
  <2> QED BY <1>3, <2>1, <2>2
<1>6. CASE HeaderLines + r # 1
  <2>1. HeaderLines + r \in 2..(HeaderLines + Rows) /\ k + (HeaderLines + r) \in DOMAIN csv'
    BY <1>1, <1>3, <1>4, <1>6
  <2>2. csv'[k + (HeaderLines + r)] = <<win, r>>
    BY <1>1, <1>3, <2>1
  <2> QED BY <2>1, <2>2 DEF Range
<1> QED BY <1>5, <1>6

\* What every step does to the csv file.
LEMMA CsvStep ==
    ASSUME OutTypes, [OutputNext]_outputVars
    PROVE  \/ csv' = csv
           \/ /\ emitting = "flush" /\ win' = win /\ emitting' \in {"idle", "jsonl"}
              /\ UNCHANGED <<csvExists, net>>
              /\ \E part \in {csvLines} \cup CutShort(csvLines) :
                    /\ csv' = AppendLines(csv, part) /\ PartOf(part, csvLines)
                    /\ emitting' = "idle" \/ win \in failed' \/ part = csvLines
<1>1. csvLines \in Seq(CsvLine)
  BY CsvLinesShape DEF OutTypes
<1>2. \A part \in {csvLines} \cup CutShort(csvLines) : PartOf(part, csvLines)
  BY <1>1, WholeIsPart, CutIsPart
<1>3. CASE Flush
  BY <1>2, <1>3 DEF Flush
<1>4. CASE Kill
  BY <1>2, <1>4 DEF Kill
<1>5. CASE ~Flush /\ ~Kill
  BY <1>5
  DEF OutputNext, outputVars, Window, Drained, EmitStep, OpenCsv, WriteJsonl, Push, Response,
      Timeout, ScoreBatch, Refuse, files
<1> QED BY <1>3, <1>4, <1>5

\* Types and places of the lines.
LEMMA OutTypesStep ==
    ASSUME OutInv, [OutputNext]_outputVars
    PROVE  OutTypes'
<1>1. csv' \in Seq(CsvLine)
  <2>1. CASE csv' = csv
    BY <2>1 DEF OutInv, OutTypes
  <2>2. CASE csv' # csv
    BY <2>2, CsvStep, WriteInOrder DEF OutInv
  <2> QED BY <2>1, <2>2
<1>2. emitting' \in {"idle", "csv", "flush", "jsonl", "push", "wait"} /\ win' \in Nat
  BY DEF OutInv, OutTypes, OutputNext, outputVars, Window, Drained, EmitStep, OpenCsv, Flush, WriteJsonl,
         Push, Response, Timeout, ScoreBatch, Refuse, Kill, files
<1>5. csvExists' \in BOOLEAN
  BY DEF OutInv, OutTypes, OutputNext, outputVars, Window, Drained, EmitStep, OpenCsv, Flush, WriteJsonl,
         Push, Response, Timeout, ScoreBatch, Refuse, Kill, files
<1>6. header' \in BOOLEAN
  BY DEF OutInv, OutTypes, OutputNext, outputVars, Window, Drained, EmitStep, OpenCsv, Flush, WriteJsonl,
         Push, Response, Timeout, ScoreBatch, Refuse, Kill, files
<1>3. wire' \subseteq Nat
  BY DEF OutInv, OutTypes, OutputNext, outputVars, Window, Drained, EmitStep, OpenCsv, Flush, WriteJsonl,
         Push, Response, Timeout, ScoreBatch, Refuse, Kill, net
<1>4. scored' \in Seq(Nat)
  <2>1. ASSUME NEW w \in wire, ScoreBatch(w) PROVE scored' \in Seq(Nat)
    BY <2>1, AppendProperties DEF OutInv, OutTypes, ScoreBatch
  <2>2. CASE scored' = scored
    BY <2>2 DEF OutInv, OutTypes
  <2>3. (\E w \in wire : ScoreBatch(w)) \/ scored' = scored
    BY DEF OutputNext, outputVars, Window, Drained, EmitStep, OpenCsv, Flush, WriteJsonl,
           Push, Response, Timeout, Refuse, Kill, net
  <2> QED BY <2>1, <2>2, <2>3
<1> QED BY <1>1, <1>2, <1>3, <1>4, <1>5, <1>6 DEF OutTypes

\* The file in order, with the numbers of the windows.
LEMMA CsvNumbersStep ==
    ASSUME OutInv, [OutputNext]_outputVars
    PROVE  CsvNumbers' /\ CsvInOrder'
<1>0. /\ win \in Nat /\ csvExists \in BOOLEAN /\ header \in BOOLEAN /\ Len(csv) \in Nat
      /\ \A n \in 1..Len(csv) : csv[n][1] \in Nat
      /\ emitting \in {"idle", "csv", "flush", "jsonl", "push", "wait"}
  BY LenProperties, ElementOfSeq DEF OutInv, OutTypes, CsvLine
<1>1. CASE csv' = csv
  <2>1. CsvInOrder'
    BY <1>1 DEF OutInv, CsvInOrder
  <2>2. ASSUME NEW full \in BOOLEAN, Drained(full) PROVE CsvNumbers'
    BY <1>0, <1>1, <2>2 DEF OutInv, CsvNumbers, Drained, files
  <2>3. CASE OpenCsv
    <3>1. win' = win /\ emitting = "csv" /\ emitting' \in {"flush", "jsonl"}
      BY <2>3 DEF OpenCsv
    <3>2. emitting' = "flush" => csvExists'
      BY <2>3 DEF OpenCsv
    <3>3. emitting' = "flush" /\ header' => csv = <<>>
      BY <1>0, <2>3 DEF OpenCsv, OutInv, CsvNumbers
    <3>4. ~csvExists' => csv = <<>>
      BY <1>0, <2>3 DEF OpenCsv, OutInv, CsvNumbers
    <3>5. ~csvExists' => csv' = <<>> /\ emitting' # "flush"
      BY <1>1, <3>2, <3>4
    <3>6. /\ \A n \in 1..Len(csv') : csv'[n][1] <= win'
          /\ emitting' \in {"csv", "flush"} => \A n \in 1..Len(csv') : csv'[n][1] < win'
          /\ emitting' # "idle" => win' # 0
      BY <1>1, <3>1 DEF OutInv, CsvNumbers
    <3> QED BY <1>1, <2>1, <3>3, <3>5, <3>6 DEF CsvNumbers
  <2>4. CASE /\ win' = win /\ csvExists' = csvExists
             /\ \/ emitting' \notin {"csv", "flush"} /\ (emitting' # "idle" => emitting # "idle")
                \/ emitting' = emitting /\ header' = header
    <3>1. ~csvExists' => csv = <<>> /\ emitting' # "flush"
      BY <1>0, <2>4 DEF OutInv, CsvNumbers
    <3>2. emitting' = "flush" /\ header' => csv = <<>>
      BY <2>4 DEF OutInv, CsvNumbers
    <3>3. emitting' # "idle" => win' # 0
      BY <2>4 DEF OutInv, CsvNumbers
    <3>4. emitting' \in {"csv", "flush"} => emitting \in {"csv", "flush"}
      BY <2>4
    <3>5. /\ \A n \in 1..Len(csv') : csv'[n][1] <= win'
          /\ emitting' \in {"csv", "flush"} => \A n \in 1..Len(csv') : csv'[n][1] < win'
      BY <1>1, <2>4, <3>4 DEF OutInv, CsvNumbers
    <3> QED BY <1>1, <2>1, <3>1, <3>2, <3>3, <3>5 DEF CsvNumbers
  <2>5. \/ \E full \in BOOLEAN : Drained(full)
        \/ OpenCsv
        \/ /\ win' = win /\ csvExists' = csvExists
           /\ \/ emitting' \notin {"csv", "flush"} /\ (emitting' # "idle" => emitting # "idle")
              \/ emitting' = emitting /\ header' = header
    BY DEF OutputNext, outputVars, Window, EmitStep, Flush, WriteJsonl,
           Push, Response, Timeout, ScoreBatch, Refuse, Kill, files
  <2> QED BY <2>1, <2>2, <2>3, <2>4, <2>5
<1>2. CASE csv' # csv
  <2>1. PICK part : /\ csv' = AppendLines(csv, part) /\ PartOf(part, csvLines)
                    /\ emitting = "flush" /\ win' = win /\ emitting' \in {"idle", "jsonl"}
                    /\ csvExists' = csvExists
    BY <1>2, CsvStep DEF OutInv
  <2>2. CsvInOrder' /\ \A n \in 1..Len(csv') : csv'[n][1] <= win
    BY <2>1, WriteInOrder DEF OutInv
  <2>3. csvExists'
    BY <1>2, <2>1 DEF OutInv, CsvNumbers
  <2> QED BY <2>1, <2>2 DEF OutInv, CsvNumbers
<1> QED BY <1>1, <1>2

\* A window is posted once, and nobody has it before.
LEMMA OnePushStep ==
    ASSUME OutInv, [OutputNext]_outputVars
    PROVE  OnePush' /\ ScoredOnce'
<1>0. /\ win \in Nat /\ wire \subseteq Nat /\ scored \in Seq(Nat) /\ Len(scored) \in Nat
      /\ DOMAIN scored = 1..Len(scored) /\ \A i \in DOMAIN scored : scored[i] \in Nat
      /\ emitting \in {"idle", "csv", "flush", "jsonl", "push", "wait"}
  BY LenProperties, ElementOfSeq DEF OutInv, OutTypes
<1>1. ASSUME NEW full \in BOOLEAN, Drained(full) PROVE OnePush' /\ ScoredOnce'
  BY <1>0, <1>1 DEF OutInv, OnePush, ScoredOnce, IsInjective, Drained, net
<1>2. CASE Push
  <2>1. /\ wire' \subseteq wire \cup {win} /\ scored' = scored /\ win' = win
        /\ emitting' \in {"idle", "wait"}
    BY <1>2 DEF Push
  <2>2. /\ \A w \in wire : w <= win
        /\ \A i \in DOMAIN scored : scored[i] <= win /\ scored[i] \notin wire /\ scored[i] # win
    BY <1>2 DEF Push, OutInv, OnePush
  <2>3. OnePush'
    BY <1>0, <2>1, <2>2 DEF OnePush
  <2>4. ScoredOnce'
    BY <2>1 DEF OutInv, ScoredOnce, IsInjective
  <2> QED BY <2>3, <2>4
<1>3. ASSUME NEW w \in wire, ScoreBatch(w) PROVE OnePush' /\ ScoredOnce'
  <2> DEFINE n == Len(scored)
  <2>1. /\ w \in Nat /\ w <= win /\ \A i \in 1..n : scored[i] # w
        /\ emitting \in {"csv", "flush", "jsonl", "push"} => w # win
    BY <1>0 DEF OutInv, OnePush
  <2>2. /\ wire' = wire \ {w} /\ scored' = Append(scored, w)
        /\ win' = win /\ emitting' = emitting
    BY <1>3 DEF ScoreBatch
  <2>3. /\ DOMAIN scored' = 1..(n + 1) /\ scored'[n + 1] = w
        /\ \A i \in 1..n : scored'[i] = scored[i]
    <3>1. scored' \in Seq(Nat) /\ Len(scored') = n + 1
      BY <1>0, <2>1, <2>2, AppendProperties
    <3> QED BY <1>0, <2>1, <2>2, <3>1, AppendProperties, LenProperties
  <2> HIDE DEF n
  <2>4. \A i \in 1..(n + 1) : i \in 1..n \/ i = n + 1
    BY <1>0 DEF n
  <2>5. \A i \in 1..n : scored[i] \in Nat /\ scored[i] <= win /\ scored[i] \notin wire
    BY <1>0 DEF OutInv, OnePush, n
  <2>6. emitting \in {"csv", "flush", "jsonl", "push"} =>
            win \notin wire /\ \A i \in 1..n : scored[i] # win
    BY <1>0 DEF OutInv, OnePush, n
  <2>7. OnePush'
    <3>1. \A v \in wire' : v <= win
      BY <2>2 DEF OutInv, OnePush
    <3>2. \A i \in 1..(n + 1) : scored'[i] <= win /\ scored'[i] \notin wire'
      BY <2>1, <2>2, <2>3, <2>4, <2>5
    <3>3. emitting \in {"csv", "flush", "jsonl", "push"} =>
              win \notin wire' /\ \A i \in 1..(n + 1) : scored'[i] # win
      BY <2>1, <2>2, <2>3, <2>4, <2>6
    <3> QED BY <2>2, <2>3, <3>1, <3>2, <3>3 DEF OnePush
  <2>8. \A i \in 1..n, j \in 1..n : scored[i] = scored[j] => i = j
    BY <1>0 DEF OutInv, ScoredOnce, IsInjective, n
  <2>9. ScoredOnce'
    BY <2>1, <2>3, <2>4, <2>8 DEF ScoredOnce, IsInjective, n
  <2> QED BY <2>7, <2>9
<1>4. ASSUME wire' \subseteq wire, scored' = scored, win' = win,
             emitting' \in {"csv", "flush", "jsonl", "push"} =>
                emitting \in {"csv", "flush", "jsonl", "push"}
      PROVE  OnePush' /\ ScoredOnce'
  BY <1>4 DEF OutInv, OnePush, ScoredOnce, IsInjective
<1>5. CASE OpenCsv \/ Flush \/ WriteJsonl \/ Response \/ Timeout \/ Kill
  BY <1>4, <1>5 DEF OpenCsv, Flush, WriteJsonl, Response, Timeout, Kill, net
<1>6. ASSUME NEW w \in wire, Refuse(w) PROVE OnePush' /\ ScoredOnce'
  BY <1>4, <1>6 DEF Refuse
<1>7. CASE UNCHANGED outputVars
  BY <1>4, <1>7 DEF outputVars, net
<1> QED BY <1>1, <1>2, <1>3, <1>5, <1>6, <1>7 DEF OutputNext, Window, EmitStep

\* What has left the collector is on disk.
LEMMA HandedStep ==
    ASSUME OutInv, [OutputNext]_outputVars
    PROVE  HandedOnDisk'
<1>0. /\ win \in Nat /\ wire \subseteq Nat /\ scored \in Seq(Nat)
  BY DEF OutInv, OutTypes
<1>1. failed \subseteq failed'
  BY DEF OutputNext, outputVars, Window, Drained, EmitStep, OpenCsv, Flush, WriteJsonl, Push,
         Response, Timeout, ScoreBatch, Refuse, Kill, faulty
<1>2. ASSUME NEW w \in Nat, w # 0, OnDisk(w) PROVE OnDisk(w)'
  <2>1. CASE csv' = csv
    BY <1>2, <2>1 DEF OnDisk
  <2>2. CASE csv' # csv
    <3>1. PICK part : csv' = AppendLines(csv, part) /\ PartOf(part, csvLines)
      BY <2>2, CsvStep DEF OutInv
    <3> QED BY <1>2, <3>1, OnDiskStays DEF OutInv, PartOf
  <2> QED BY <2>1, <2>2
<1>3. ASSUME NEW w \in Nat, w \notin failed', Handed(w)' PROVE Handed(w) \/ (w # 0 /\ OnDisk(w)')
  <2>1. CASE Flush
    <3>1. \/ w \in wire \/ w \in Range(scored) \/ w = win
      BY <1>3, <2>1 DEF Flush, Handed, net
    <3>2. CASE w = win
      <4>1. win # 0 /\ csv' = AppendLines(csv, csvLines) 
        BY <1>3, <2>1, <3>2 DEF Flush, OutInv, CsvNumbers
      <4>2. OnDisk(w)'
        BY <3>2, <4>1, WholeOnDisk DEF OnDisk, OutInv
      <4> QED BY <3>2, <4>1, <4>2
    <3> QED BY <3>1, <3>2 DEF Handed
  <2>2. CASE OpenCsv
    BY <1>3, <2>2 DEF OpenCsv, Handed, net
  <2>3. ASSUME NEW v \in wire, ScoreBatch(v) PROVE Handed(w)
    <3>1. Range(scored') = Range(scored) \cup {v}
      <4>1. /\ Len(scored) \in Nat /\ v \in Nat /\ scored' = Append(scored, v)
            /\ DOMAIN scored = 1..Len(scored)
        BY <1>0, <2>3, LenProperties DEF ScoreBatch
      <4>2. /\ DOMAIN scored' = 1..(Len(scored) + 1) /\ scored'[Len(scored) + 1] = v
            /\ \A i \in 1..Len(scored) : scored'[i] = scored[i]
        <5>1. scored' \in Seq(Nat) /\ Len(scored') = Len(scored) + 1
          BY <1>0, <4>1, AppendProperties
        <5> QED BY <1>0, <4>1, <5>1, AppendProperties, LenProperties
      <4>3. \A i \in 1..(Len(scored) + 1) : i \in 1..Len(scored) \/ i = Len(scored) + 1
        BY <4>1
      <4> QED BY <4>1, <4>2, <4>3 DEF Range
    <3> QED BY <1>3, <2>3, <3>1 DEF ScoreBatch, Handed
  <2>4. CASE WriteJsonl \/ Push \/ Response \/ Timeout \/ Kill \/ Window \/ (\E v \in wire : Refuse(v))
    BY <1>3, <2>4
    DEF WriteJsonl, Push, Response, Timeout, Kill, Window, Drained, Refuse, Handed, net
  <2>5. CASE UNCHANGED outputVars
    BY <1>3, <2>5 DEF outputVars, net, Handed
  <2> QED BY <2>1, <2>2, <2>3, <2>4, <2>5 DEF OutputNext, EmitStep
<1>4. \A w \in Nat : Handed(w) /\ w \notin failed => w # 0 /\ OnDisk(w)
  BY DEF OutInv, HandedOnDisk
<1> QED BY <1>1, <1>2, <1>3, <1>4 DEF HandedOnDisk

\* The inductive invariant holds.
LEMMA OutInvariant == OutputSpec => []OutInv
<1>1. OutputInit => OutInv
  <2> SUFFICES ASSUME OutputInit PROVE OutInv
    OBVIOUS
  <2>1. <<>> \in Seq(CsvLine) /\ <<>> \in Seq(Nat) /\ Len(<<>>) = 0 /\ DOMAIN <<>> = {}
    BY EmptySeq
  <2>2. csv = <<>> /\ scored = <<>> /\ wire = {} /\ emitting = "idle" /\ win = 0 /\ header = FALSE
        /\ csvExists = FALSE
    BY DEF OutputInit
  <2>3. OutTypes
    BY <2>1, <2>2 DEF OutTypes
  <2>4. CsvNumbers /\ CsvInOrder
    BY <2>1, <2>2 DEF CsvNumbers, CsvInOrder
  <2>5. OnePush /\ ScoredOnce
    BY <2>1, <2>2 DEF OnePush, ScoredOnce, IsInjective
  <2>6. HandedOnDisk
    BY <2>1, <2>2 DEF HandedOnDisk, Handed, Range
  <2> QED BY <2>3, <2>4, <2>5, <2>6 DEF OutInv
<1>2. OutInv /\ [OutputNext]_outputVars => OutInv'
  BY OutTypesStep, CsvNumbersStep, OnePushStep, HandedStep DEF OutInv
<1> QED BY <1>1, <1>2, PTL DEF OutputSpec

\* The detector scores a window at most once, however late it answers, and however
\* often the collector gives up or is restarted (push, client.Timeout).
THEOREM ScoredOnceTheorem == OutputSpec => []ScoredOnce
<1>1. OutInv => ScoredOnce
  BY DEF OutInv
<1> QED BY <1>1, OutInvariant, PTL

\* A window that was scored is in features.csv, for any failing and torn writes
\* and restarts, unless its own write failed (Emit, writeCSV).
THEOREM OnDiskTheorem == OutputSpec => []ScoredIsOnDisk
<1>1. OutInv => ScoredIsOnDisk
  <2> SUFFICES ASSUME OutInv, NEW w \in Range(scored) \ failed, NEW r \in 1..Rows
               PROVE  <<w, r>> \in Range(csv) \/ (r = 1 /\ Bad \in Range(csv))
    BY DEF ScoredIsOnDisk
  <2>1. w \in Nat
    BY ElementOfSeq, LenProperties DEF OutInv, OutTypes, Range
  <2> QED BY <2>1 DEF OutInv, HandedOnDisk, Handed, OnDisk
<1> QED BY <1>1, OutInvariant, PTL

\* features.csv holds the windows in order, none twice and one header at its top,
\* for any failing and torn writes and restarts (writeCSV).
THEOREM CsvTheorem == OutputSpec => []CsvInOrder
<1>1. OutInv => CsvInOrder
  BY DEF OutInv
<1> QED BY <1>1, OutInvariant, PTL
=============================================================================
