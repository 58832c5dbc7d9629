---------------------------- MODULE SegmentsProofs ----------------------------
(***************************************************************************)
(* The segmented log (Segments): no roll, move, crash or sweep of blobs    *)
(* takes an event from the segments the manifest names, nor a blob from an *)
(* event, for any number of events, blobs and crashes, as long as no write *)
(* of a manifest fails.                                                    *)
(***************************************************************************)
EXTENDS Segments, FiniteSetTheorems, WellFoundedInduction, TLAPS

\* What Clock, File and the id of Active are of a log l, of the files h and c of the two tiers
\* and of a manifest m.
ClockOf(l) == IF l = <<>> THEN 0 ELSE l[Len(l)]
FileOf(s, h, c) == IF s.tier = "Hot" THEN IF h[s.id] # {} THEN h[s.id] ELSE c[s.id]
                   ELSE IF c[s.id] # {} THEN c[s.id] ELSE h[s.id]
ActiveId(m) == m[Len(m)].id

\* The log, the files, the blobs and the manifests have their types.
FilesType == [Names -> SUBSET (1 .. MaxEvents)]
LogType(l, h) ==
    /\ l \in Seq(0 .. MaxEvents) /\ Len(l) <= MaxEvents /\ ClockOf(l) \in 0 .. Len(l)
    /\ \A n \in Names : h[n] \subseteq 1 .. Len(l)
    /\ \A p \in 1 .. Len(l) : l[p] <= ClockOf(l)
Typed ==
    /\ TypeOK
    /\ LogType(log, hot) /\ Len(refs) = Len(log) /\ put \subseteq stored

\* The last segment of a manifest is the only one that grows: it is hot and is the one with
\* the greatest id, which no event in it precedes; nothing is in cold storage under its id,
\* and nothing anywhere under a greater one.
ActiveIsLast(m, l, h, c) ==
    /\ Len(m) > 0 /\ m[Len(m)].tier = "Hot" /\ ActiveId(m) <= ClockOf(l)
    /\ \A i \in 1 .. Len(m) - 1 : m[i].id < ActiveId(m)
    /\ \A n \in Names : (n >= ActiveId(m) => c[n] = {}) /\ (n > ActiveId(m) => h[n] = {})
    /\ \A p \in h[ActiveId(m)] : ActiveId(m) <= l[p]

\* Of a segment recorded as cold nothing is hot.
ColdIsMoved(m, h) == \A i \in DOMAIN m : m[i].tier = "Cold" => h[m[i].id] = {}

\* Every event is in a segment of the manifest; the segments hold consecutive stretches of the
\* log, the i-th the events after ends[i - 1] up to ends[i].
Holds(m, l, h, c) == \A p \in 1 .. Len(l) : \E i \in DOMAIN m : p \in FileOf(m[i], h, c)
Tiles(m, l, h, c, ends) ==
    /\ ends[0] = 0 /\ ends[Len(m)] = Len(l)
    /\ \A i \in DOMAIN m : /\ ends[i - 1] <= ends[i]
                          /\ FileOf(m[i], h, c) = ends[i - 1] + 1 .. ends[i]
Consecutive(m, l, h, c) == \E ends \in [0 .. Len(m) -> Nat] : Tiles(m, l, h, c, ends)

\* The segments are in the order of their first ticks.
FirstsGrow(m, l, h) ==
    /\ \A i, j \in DOMAIN m : i < j => m[i].first < m[j].first
    /\ m[Len(m)].first <= ClockOf(l)
    /\ \A p \in h[ActiveId(m)] : m[Len(m)].first <= l[p]

Whole(m, l, h, c) ==
    ActiveIsLast(m, l, h, c) /\ ColdIsMoved(m, h) /\ Holds(m, l, h, c) /\ Consecutive(m, l, h, c)

\* Two manifests name the same segments at the same tiers.
SameNames(m, o) ==
    DOMAIN m = DOMAIN o /\ \A i \in DOMAIN m : m[i].id = o[i].id /\ m[i].tier = o[i].tier

\* A process that opens the log now would find all of it, and one that has it open does.
ManifestIsWhole ==
    /\ Whole(OnOpen, log, hot, cold)
    /\ FirstsGrow(OnOpen, log, hot)
    /\ isOpen => SameNames(mem, OnOpen) /\ FirstsGrow(mem, log, hot)

\* A segment that is being moved is sealed, and its bytes are in one of the tiers.
IsSealed(m, id) == \E i \in 1 .. Len(m) - 1 : m[i].id = id
MoveIsSafe ==
    moving # NotMoving =>
        /\ isOpen /\ IsSealed(mem, moving.id) /\ moving.step # "none"
        /\ moving.step \in {"begun", "copied"} => hot[moving.id] # {}
        /\ moving.step = "copied" => cold[moving.id] = hot[moving.id]
        /\ moving.step = "moved" => hot[moving.id] = {}

IInv == Typed /\ ManifestIsWhole /\ MoveIsSafe /\ LoggedBlobsAreStored
-----------------------------------------------------------------------------
\* Manifests.

\* Segments with the same files are consecutive if the others are.
LEMMA SameFilesAreConsecutive ==
    ASSUME NEW m, NEW o, NEW l, NEW h, NEW c, NEW g, NEW d, Consecutive(o, l, h, c),
           Len(m) = Len(o), DOMAIN m = DOMAIN o,
           \A i \in DOMAIN m : FileOf(m[i], g, d) = FileOf(o[i], h, c)
    PROVE  Consecutive(m, l, g, d)
<1>1. PICK ends \in [0 .. Len(o) -> Nat] : Tiles(o, l, h, c, ends)
  BY DEF Consecutive
<1>2. Tiles(m, l, g, d, ends)
  BY <1>1 DEF Tiles
<1> QED
  BY <1>1, <1>2 DEF Consecutive

\* Whether the log is whole depends on the names and the tiers of a manifest only.
LEMMA SameIsWhole ==
    ASSUME NEW m \in Seq(Entries), NEW o \in Seq(Entries), NEW l, NEW h, NEW c,
           SameNames(m, o), Whole(o, l, h, c)
    PROVE  Whole(m, l, h, c)
<1>1. Len(m) = Len(o) /\ DOMAIN m = DOMAIN o /\ DOMAIN m = 1 .. Len(m) /\ Len(m) \in Nat
  BY DEF SameNames
<1>2. \A i \in DOMAIN m : m[i].id = o[i].id /\ m[i].tier = o[i].tier
  BY DEF SameNames
<1>3. Len(o) > 0 /\ Len(o) \in DOMAIN m
  BY <1>1 DEF Whole, ActiveIsLast
<1>4. ActiveId(m) = ActiveId(o) /\ m[Len(m)].tier = o[Len(o)].tier
  BY <1>1, <1>2, <1>3 DEF ActiveId
<1>5. \A i \in DOMAIN m : FileOf(m[i], h, c) = FileOf(o[i], h, c)
  BY <1>2 DEF FileOf
<1>6. ActiveIsLast(m, l, h, c)
  <2>1. \A i \in 1 .. Len(m) - 1 : m[i].id < ActiveId(m)
    <3>1. \A i \in 1 .. Len(m) - 1 : i \in DOMAIN m /\ m[i].id = o[i].id
      BY <1>1, <1>2
    <3> QED
      BY <1>1, <1>4, <3>1 DEF Whole, ActiveIsLast
  <2> QED
    BY <1>1, <1>3, <1>4, <2>1 DEF Whole, ActiveIsLast
<1>7. ColdIsMoved(m, h)
  BY <1>1, <1>2 DEF Whole, ColdIsMoved
<1>8. Holds(m, l, h, c)
  BY <1>1, <1>5 DEF Whole, Holds
<1>9. Consecutive(m, l, h, c)
  BY <1>1, <1>5, SameFilesAreConsecutive DEF Whole
<1> QED
  BY <1>6, <1>7, <1>8, <1>9 DEF Whole

\* The parts of an entry.
LEMMA EntryIs ==
    ASSUME NEW m \in Seq(Entries), Len(m) > 0
    PROVE  /\ \A i \in DOMAIN m : m[i] \in Entries /\ m[i].id \in Names /\ m[i].tier \in Tiers
           /\ Len(m) \in DOMAIN m /\ ActiveId(m) \in Names
           /\ DOMAIN m = 1 .. Len(m) /\ Len(m) \in Nat
<1>1. Len(m) \in Nat /\ DOMAIN m = 1 .. Len(m)
  OBVIOUS
<1>2. \A i \in DOMAIN m : m[i] \in Entries
  OBVIOUS
<1>3. \A i \in DOMAIN m : m[i].id \in Names /\ m[i].tier \in Tiers
  BY <1>2 DEF Entries
<1> QED
  BY <1>1, <1>2, <1>3 DEF ActiveId

-----------------------------------------------------------------------------
\* What the steps do to a log that is whole.

\* An event is appended to the file of the last segment, not before the last event.
LEMMA AppendIsWhole ==
    ASSUME NEW m \in Seq(Entries), NEW l, NEW h \in FilesType, NEW c \in FilesType,
           LogType(l, h), Whole(m, l, h, c), Len(l) < MaxEvents,
           NEW t \in {ClockOf(l), ClockOf(l) + 1}, NEW g,
           g = [h EXCEPT ![ActiveId(m)] = @ \cup {Len(l) + 1}]
    PROVE  g \in FilesType /\ LogType(Append(l, t), g) /\ Whole(m, Append(l, t), g, c)
<1> DEFINE a == ActiveId(m)
           k == Append(l, t)
           n == Len(l)
<1>1. /\ l \in Seq(0 .. MaxEvents) /\ n \in Nat /\ n < MaxEvents /\ ClockOf(l) \in 0 .. n
      /\ MaxEvents \in Nat
  BY SegmentsAssumption DEF LogType
<1>2. t \in 0 .. n + 1 /\ t \in 0 .. MaxEvents /\ ClockOf(l) <= t
  BY <1>1
<1>3. /\ k \in Seq(0 .. MaxEvents) /\ Len(k) = n + 1 /\ k[n + 1] = t
      /\ \A p \in 1 .. n : k[p] = l[p]
  BY <1>1, <1>2
<1>4. ClockOf(k) = t
  <2> HIDE DEF k
  <2>1. k # <<>>
    BY <1>1, <1>3
  <2> QED
    BY <1>3, <2>1 DEF ClockOf
<1>5. /\ ActiveIsLast(m, l, h, c) /\ ColdIsMoved(m, h) /\ Holds(m, l, h, c)
      /\ Consecutive(m, l, h, c)
  BY DEF Whole
<1>6. /\ a \in Names /\ Len(m) \in DOMAIN m /\ DOMAIN m = 1 .. Len(m) /\ Len(m) \in Nat
      /\ \A i \in DOMAIN m : m[i].id \in Names /\ m[i].tier \in Tiers
  <2>1. Len(m) > 0
    BY <1>5 DEF ActiveIsLast
  <2> QED
    BY <2>1, EntryIs
<1> HIDE DEF k
<1>7. /\ g[a] = h[a] \cup {n + 1} /\ \A x \in Names : x # a => g[x] = h[x]
      /\ \A x \in Names : h[x] \subseteq 1 .. n
  BY <1>6 DEF FilesType, LogType
<1>8. g \in FilesType
  <2>1. n + 1 \in 1 .. MaxEvents
    BY <1>1
  <2> QED
    BY <1>6, <2>1 DEF FilesType
<1> HIDE DEF n
<1>9. \A x \in Names : g[x] \subseteq 1 .. n + 1
  <2>1. \A x \in Names : h[x] \subseteq 1 .. n + 1
    BY <1>1, <1>7
  <2>2. n + 1 \in 1 .. n + 1
    BY <1>1
  <2> QED
    BY <1>7, <2>1, <2>2
<1>10. LogType(k, g)
  <2>1. \A p \in 1 .. n + 1 : k[p] <= t
    <3> SUFFICES ASSUME NEW p \in 1 .. n + 1 PROVE k[p] <= t
      OBVIOUS
    <3>1. CASE p = n + 1
      BY <1>2, <1>3, <3>1
    <3>2. CASE p # n + 1
      <4>1. p \in 1 .. n /\ k[p] \in 0 .. MaxEvents
        BY <1>1, <1>3, <3>2
      <4>2. k[p] <= ClockOf(l)
        BY <1>3, <4>1 DEF LogType, n
      <4> QED
        BY <1>1, <1>2, <4>1, <4>2
    <3> QED
      BY <3>1, <3>2
  <2> QED
    BY <1>1, <1>2, <1>3, <1>4, <1>9, <2>1 DEF LogType
<1>11. a \in Int /\ a <= ClockOf(l)
  BY <1>5, <1>6 DEF ActiveIsLast, Names
<1>12. ActiveIsLast(m, k, g, c)
  <2>1. a <= ClockOf(k)
    BY <1>1, <1>2, <1>4, <1>11
  <2>2. \A x \in Names : x > a => g[x] = {}
    <3>1. \A x \in Names : x > a => x # a /\ h[x] = {}
      BY <1>5, <1>11 DEF ActiveIsLast, Names
    <3> QED
      BY <1>7, <3>1
  <2>3. \A p \in g[a] : a <= k[p]
    <3>1. \A p \in h[a] : a <= l[p] /\ p \in 1 .. n
      BY <1>5, <1>6, <1>7 DEF ActiveIsLast
    <3>2. \A p \in h[a] : a <= k[p]
      BY <1>3, <3>1
    <3>3. a <= k[n + 1]
      BY <1>3, <1>4, <2>1
    <3> QED
      BY <1>7, <3>2, <3>3
  <2> QED
    BY <1>5, <2>1, <2>2, <2>3 DEF ActiveIsLast
<1>13. \A i \in DOMAIN m : m[i].id = a => i = Len(m)
  <2>1. \A i \in 1 .. Len(m) - 1 : m[i].id < a
    BY <1>5 DEF ActiveIsLast
  <2>2. \A i \in DOMAIN m : i # Len(m) => i \in 1 .. Len(m) - 1
    BY <1>6
  <2> QED
    BY <1>11, <2>1, <2>2
<1>14. ColdIsMoved(m, g)
  <2>1. m[Len(m)].tier # "Cold"
    BY <1>5 DEF ActiveIsLast
  <2>2. \A i \in DOMAIN m : m[i].tier = "Cold" => m[i].id # a
    BY <1>13, <2>1
  <2> QED
    BY <1>5, <1>6, <1>7, <2>2 DEF ColdIsMoved
<1>15. Holds(m, k, g, c)
  <2>1. m[Len(m)].tier = "Hot" /\ m[Len(m)].id = a /\ c[a] = {}
    BY <1>5, <1>6, <1>11 DEF ActiveIsLast, ActiveId
  <2>2. FileOf(m[Len(m)], g, c) = g[a] /\ FileOf(m[Len(m)], h, c) = h[a]
    BY <1>7, <2>1 DEF FileOf
  <2>3. \A i \in DOMAIN m : i # Len(m) => FileOf(m[i], g, c) = FileOf(m[i], h, c)
    BY <1>6, <1>7, <1>13 DEF FileOf
  <2>4. \A i \in DOMAIN m : FileOf(m[i], h, c) \subseteq FileOf(m[i], g, c)
    BY <1>7, <2>2, <2>3
  <2>5. ASSUME NEW p \in 1 .. n + 1 PROVE \E i \in DOMAIN m : p \in FileOf(m[i], g, c)
    <3>1. CASE p = n + 1
      BY <1>6, <1>7, <2>2, <3>1
    <3>2. CASE p # n + 1
      <4>1. p \in 1 .. n
        BY <1>1, <3>2
      <4> QED
        BY <1>5, <2>4, <4>1 DEF Holds, n
    <3> QED
      BY <3>1, <3>2
  <2> QED
    BY <1>3, <2>5 DEF Holds
<1>16. Consecutive(m, k, g, c)
  <2> DEFINE N == Len(m)
  <2>1. PICK ends \in [0 .. N -> Nat] : Tiles(m, l, h, c, ends)
    BY <1>5 DEF Consecutive
  <2>2. N \in Nat /\ N > 0 /\ N - 1 \in 0 .. N /\ DOMAIN m = 1 .. N
    BY <1>5, <1>6 DEF ActiveIsLast
  <2>3. /\ m[N].tier = "Hot" /\ m[N].id = a /\ c[a] = {}
    BY <1>5, <1>6, <1>11 DEF ActiveIsLast, ActiveId
  <2>4. FileOf(m[N], g, c) = g[a] /\ FileOf(m[N], h, c) = h[a]
    BY <1>7, <2>3 DEF FileOf
  <2>5. \A i \in DOMAIN m : i # N => FileOf(m[i], g, c) = FileOf(m[i], h, c)
    BY <1>6, <1>7, <1>13 DEF FileOf
  <2> DEFINE to == [ends EXCEPT ![N] = n + 1]
  <2> HIDE DEF N
  <2>6. /\ to \in [0 .. N -> Nat] /\ to[N] = n + 1
        /\ \A i \in 0 .. N : i # N => to[i] = ends[i]
    BY <1>1, <2>1, <2>2
  <2>7. ends[0] = 0 /\ ends[N] = n
    BY <2>1 DEF Tiles, N, n
  <2>8. to[0] = 0
    BY <2>2, <2>6, <2>7
  <2> HIDE DEF to
  <2>9. ASSUME NEW i \in 1 .. N
        PROVE  to[i - 1] <= to[i] /\ FileOf(m[i], g, c) = to[i - 1] + 1 .. to[i]
    <3>1. ends[i - 1] <= ends[i] /\ FileOf(m[i], h, c) = ends[i - 1] + 1 .. ends[i]
      BY <2>1, <2>2 DEF Tiles
    <3>2. i - 1 \in 0 .. N /\ i - 1 # N /\ to[i - 1] = ends[i - 1] /\ ends[i - 1] \in Nat
      BY <2>1, <2>2, <2>6
    <3>3. CASE i = N
      <4>1. to[i] = n + 1 /\ ends[i] = n
        BY <2>6, <2>7, <3>3
      <4>2. g[a] = (ends[i - 1] + 1 .. n) \cup {n + 1}
        BY <1>7, <2>4, <3>1, <3>3, <4>1
      <4>3. (ends[i - 1] + 1 .. n) \cup {n + 1} = ends[i - 1] + 1 .. n + 1
        BY <1>1, <3>1, <3>2, <4>1
      <4>4. to[i - 1] <= to[i]
        BY <1>1, <3>1, <3>2, <4>1
      <4> QED
        BY <2>4, <3>2, <3>3, <4>1, <4>2, <4>3, <4>4
    <3>4. CASE i # N
      <4>1. i \in 0 .. N /\ i \in DOMAIN m
        BY <2>2
      <4>2. to[i] = ends[i] /\ FileOf(m[i], g, c) = FileOf(m[i], h, c)
        BY <2>5, <2>6, <3>4, <4>1
      <4> QED
        BY <3>1, <3>2, <4>2
    <3> QED
      BY <3>3, <3>4
  <2>10. Tiles(m, k, g, c, to)
    BY <1>3, <2>2, <2>6, <2>8, <2>9 DEF Tiles, N
  <2> QED
    BY <2>6, <2>10 DEF Consecutive, N
<1> QED
  BY <1>8, <1>10, <1>12, <1>14, <1>15, <1>16 DEF Whole, k

\* The last segment is sealed and the next one opened, past the start of the last.
LEMMA RollIsWhole ==
    ASSUME NEW m \in Seq(Entries), NEW l, NEW h \in FilesType, NEW c \in FilesType,
           Whole(m, l, h, c), LogType(l, h),
           NEW at \in Names, ActiveId(m) < at, at <= ClockOf(l),
           NEW k \in Seq(Entries), Len(k) = Len(m) + 1, ActiveId(k) = at,
           k[Len(k)].tier = "Hot",
           \A i \in DOMAIN m : k[i].id = m[i].id /\ k[i].tier = m[i].tier
    PROVE  Whole(k, l, h, c)
<1> DEFINE a == ActiveId(m)
           n == Len(m)
<1>1. /\ ActiveIsLast(m, l, h, c) /\ ColdIsMoved(m, h) /\ Holds(m, l, h, c)
      /\ Consecutive(m, l, h, c)
  BY DEF Whole
<1>2. /\ a \in Names /\ n \in DOMAIN m /\ DOMAIN m = 1 .. n /\ n \in Nat
      /\ \A i \in DOMAIN m : m[i].id \in Names /\ m[i].tier \in Tiers
  <2>1. Len(m) > 0
    BY <1>1 DEF ActiveIsLast
  <2> QED
    BY <2>1, EntryIs
<1>3. DOMAIN k = 1 .. n + 1
  OBVIOUS
<1>4. \A x \in Names : x >= at => x > a
  BY <1>2 DEF Names
<1>5. ActiveIsLast(k, l, h, c)
  <2>1. \A i \in 1 .. n : k[i].id < at
    <3>1. ASSUME NEW i \in 1 .. n PROVE m[i].id <= a
      <4>1. CASE i = n
        BY <1>2, <4>1 DEF ActiveId, Names
      <4>2. CASE i # n
        <5>1. i \in 1 .. n - 1 /\ i \in DOMAIN m
          <6> HIDE DEF n
          <6>1. i \in Int /\ i >= 1 /\ i <= n /\ n \in Int
            BY <1>2
          <6> QED
            BY <1>2, <4>2, <6>1
        <5>2. m[i].id < a
          BY <1>1, <5>1 DEF ActiveIsLast
        <5>3. m[i].id \in Int /\ a \in Int
          BY <1>2, <5>1 DEF Names
        <5> QED
          BY <5>2, <5>3
      <4> QED
        BY <4>1, <4>2
    <3> QED
      BY <1>2, <3>1 DEF Names
  <2>2. \A x \in Names : (x >= at => c[x] = {}) /\ (x >= at => h[x] = {})
    BY <1>1, <1>2, <1>4 DEF ActiveIsLast, Names
  <2>3. h[at] = {}
    BY <2>2 DEF Names
  <2>4. Len(k) > 0 /\ Len(k) - 1 = n
    BY <1>2
  <2>5. \A x \in Names : x > at => x >= at
    BY DEF Names
  <2> HIDE DEF n
  <2> QED
    BY <2>1, <2>2, <2>3, <2>4, <2>5 DEF ActiveIsLast
<1>6. \A i \in DOMAIN m : FileOf(k[i], h, c) = FileOf(m[i], h, c)
  BY DEF FileOf
<1>7. ColdIsMoved(k, h)
  <2>1. \A i \in DOMAIN k : i \in DOMAIN m \/ i = Len(k)
    BY <1>2, <1>3
  <2> QED
    BY <1>1, <2>1 DEF ColdIsMoved
<1>8. Holds(k, l, h, c)
  <2>1. \A i \in DOMAIN m : i \in DOMAIN k
    BY <1>2, <1>3
  <2> QED
    BY <1>1, <1>6, <2>1 DEF Holds
<1>9. Consecutive(k, l, h, c)
  <2> DEFINE N == Len(m)
             L == Len(l)
  <2>1. PICK ends \in [0 .. N -> Nat] : Tiles(m, l, h, c, ends)
    BY <1>1 DEF Consecutive
  <2>2. N \in Nat /\ N > 0 /\ DOMAIN m = 1 .. N /\ L \in Nat
    BY <1>1, <1>2 DEF ActiveIsLast, LogType
  <2>3. h[at] = {} /\ c[at] = {}
    <3>1. at > a /\ at >= a
      BY <1>2 DEF Names
    <3> QED
      BY <1>1, <3>1 DEF ActiveIsLast
  <2>4. k[N + 1].id = at /\ k[N + 1].tier = "Hot"
    BY DEF ActiveId
  <2>5. FileOf(k[N + 1], h, c) = {}
    BY <2>3, <2>4 DEF FileOf
  <2> DEFINE to == [i \in 0 .. N + 1 |-> IF i = N + 1 THEN L ELSE ends[i]]
  <2>6. Len(k) = N + 1
    OBVIOUS
  <2> HIDE DEF N, L
  <2>7. /\ to \in [0 .. N + 1 -> Nat] /\ to[N + 1] = L
        /\ \A i \in 0 .. N : to[i] = ends[i]
    BY <2>1, <2>2
  <2>8. ends[0] = 0 /\ ends[N] = L
    BY <2>1 DEF Tiles, N, L
  <2>9. to[0] = 0 /\ to[N] = L
    BY <2>2, <2>7, <2>8
  <2> HIDE DEF to
  <2>10. ASSUME NEW i \in 1 .. N + 1
         PROVE  to[i - 1] <= to[i] /\ FileOf(k[i], h, c) = to[i - 1] + 1 .. to[i]
    <3>1. CASE i = N + 1
      <4>1. to[i - 1] = L /\ to[i] = L
        BY <2>2, <2>7, <2>9, <3>1
      <4>2. L + 1 .. L = {}
        BY <2>2
      <4>3. FileOf(k[i], h, c) = L + 1 .. L
        BY <2>5, <3>1, <4>2
      <4> QED
        BY <2>2, <4>1, <4>3
    <3>2. CASE i # N + 1
      <4>1. i \in DOMAIN m /\ i \in 0 .. N /\ i - 1 \in 0 .. N
        BY <2>2, <3>2
      <4>2. ends[i - 1] <= ends[i] /\ FileOf(m[i], h, c) = ends[i - 1] + 1 .. ends[i]
        BY <2>1, <4>1 DEF Tiles
      <4> QED
        BY <1>6, <2>7, <4>1, <4>2
    <3> QED
      BY <3>1, <3>2
  <2>11. Tiles(k, l, h, c, to)
    BY <1>3, <2>6, <2>7, <2>9, <2>10 DEF Tiles, N, L
  <2> QED
    BY <2>6, <2>7, <2>11 DEF Consecutive
<1> QED
  BY <1>5, <1>7, <1>8, <1>9 DEF Whole

\* The bytes of a segment are copied to cold storage, removed from hot, or both.
Moves(id, h, c, g, d) ==
    /\ d[id] = h[id] /\ g[id] \in {h[id], {}}
    /\ \A x \in Names : x # id => g[x] = h[x] /\ d[x] = c[x]

\* When a sealed segment moves, its events stay where the manifest leads to.
LEMMA MoveIsWhole ==
    ASSUME NEW m \in Seq(Entries), NEW l, NEW h \in FilesType, NEW c \in FilesType,
           Whole(m, l, h, c), NEW id \in Names, id < ActiveId(m), h[id] # {},
           NEW g, NEW d, Moves(id, h, c, g, d)
    PROVE  Whole(m, l, g, d)
<1> DEFINE a == ActiveId(m)
<1>1. /\ d[id] = h[id] /\ g[id] \in {h[id], {}}
      /\ \A x \in Names : x # id => g[x] = h[x] /\ d[x] = c[x]
  BY DEF Moves
<1>2. /\ ActiveIsLast(m, l, h, c) /\ ColdIsMoved(m, h) /\ Holds(m, l, h, c)
      /\ Consecutive(m, l, h, c)
  BY DEF Whole
<1>3. a \in Names /\ \A i \in DOMAIN m : m[i].id \in Names /\ m[i].tier \in Tiers
  <2>1. Len(m) > 0
    BY <1>2 DEF ActiveIsLast
  <2> QED
    BY <2>1, EntryIs
<1>4. id # a /\ \A x \in Names : x >= a => x # id
  BY <1>3 DEF Names
<1>5. g[a] = h[a]
  BY <1>1, <1>3, <1>4
<1>6. ActiveIsLast(m, l, g, d)
  <2>1. \A x \in Names : x >= a => d[x] = {}
    BY <1>1, <1>2, <1>4 DEF ActiveIsLast
  <2>2. \A x \in Names : x > a => g[x] = {}
    <3>1. \A x \in Names : x > a => x >= a
      BY <1>3 DEF Names
    <3> QED
      BY <1>1, <1>2, <1>4, <3>1 DEF ActiveIsLast
  <2> QED
    BY <1>2, <1>5, <2>1, <2>2 DEF ActiveIsLast
<1>7. ColdIsMoved(m, g)
  BY <1>1, <1>2, <1>3 DEF ColdIsMoved
<1>8. \A i \in DOMAIN m : FileOf(m[i], g, d) = FileOf(m[i], h, c)
  <2> SUFFICES ASSUME NEW i \in DOMAIN m PROVE FileOf(m[i], g, d) = FileOf(m[i], h, c)
    OBVIOUS
  <2>1. CASE m[i].id = id
    <3>1. m[i].tier = "Hot"
      BY <1>2, <1>3, <2>1 DEF ColdIsMoved, Tiers
    <3> QED
      BY <1>1, <2>1, <3>1 DEF FileOf
  <2>2. CASE m[i].id # id
    BY <1>1, <1>3, <2>2 DEF FileOf
  <2> QED
    BY <2>1, <2>2
<1>9. Holds(m, l, g, d)
  BY <1>2, <1>8 DEF Holds
<1>10. Consecutive(m, l, g, d)
  BY <1>2, <1>8, SameFilesAreConsecutive
<1> QED
  BY <1>6, <1>7, <1>9, <1>10 DEF Whole

\* A sealed segment with nothing hot is recorded as cold.
LEMMA FlipIsWhole ==
    ASSUME NEW m \in Seq(Entries), NEW l, NEW h \in FilesType, NEW c \in FilesType,
           Whole(m, l, h, c), NEW id \in Names, id < ActiveId(m), h[id] = {},
           NEW k, DOMAIN k = DOMAIN m, Len(k) = Len(m),
           \A i \in DOMAIN m : k[i].id = m[i].id
                               /\ k[i].tier = IF m[i].id = id THEN "Cold" ELSE m[i].tier
    PROVE  Whole(k, l, h, c)
<1>1. /\ ActiveIsLast(m, l, h, c) /\ ColdIsMoved(m, h) /\ Holds(m, l, h, c)
      /\ Consecutive(m, l, h, c)
  BY DEF Whole
<1>2. /\ ActiveId(m) \in Names /\ \A i \in DOMAIN m : m[i].id \in Names /\ m[i].tier \in Tiers
      /\ Len(m) \in DOMAIN m /\ DOMAIN m = 1 .. Len(m) /\ Len(m) \in Nat
  <2>1. Len(m) > 0
    BY <1>1 DEF ActiveIsLast
  <2> QED
    BY <2>1, EntryIs
<1>3. id # ActiveId(m)
  BY <1>2 DEF Names
<1>4. ActiveId(k) = ActiveId(m) /\ k[Len(k)].tier = m[Len(m)].tier
  BY <1>2, <1>3 DEF ActiveId
<1>5. ActiveIsLast(k, l, h, c)
  <2>1. \A i \in 1 .. Len(m) - 1 : k[i].id = m[i].id
    BY <1>2
  <2> QED
    BY <1>1, <1>4, <2>1 DEF ActiveIsLast
<1>6. ColdIsMoved(k, h)
  BY <1>1 DEF ColdIsMoved
<1>7. \A i \in DOMAIN m : FileOf(k[i], h, c) = FileOf(m[i], h, c)
  BY <1>2 DEF FileOf, Tiers
<1>8. Holds(k, l, h, c)
  BY <1>1, <1>7 DEF Holds
<1>9. Consecutive(k, l, h, c)
  BY <1>1, <1>7, SameFilesAreConsecutive
<1> QED
  BY <1>5, <1>6, <1>8, <1>9 DEF Whole

\* An event is no earlier than the start of any segment.
LEMMA AppendGrows ==
    ASSUME NEW m \in Seq(Entries), Len(m) > 0, NEW l, NEW h \in FilesType, LogType(l, h),
           FirstsGrow(m, l, h), NEW t \in {ClockOf(l), ClockOf(l) + 1}, NEW g,
           \A x \in Names : g[x] \subseteq h[x] \cup {Len(l) + 1}
    PROVE  FirstsGrow(m, Append(l, t), g)
<1> DEFINE k == Append(l, t)
           n == Len(l)
           f == m[Len(m)].first
<1>1. l \in Seq(0 .. MaxEvents) /\ n \in Nat /\ ClockOf(l) \in 0 .. n /\ MaxEvents \in Nat
  BY SegmentsAssumption DEF LogType
<1>2. ActiveId(m) \in Names /\ f \in Nat
  <2>1. ActiveId(m) \in Names /\ m[Len(m)] \in Entries
    BY EntryIs
  <2> QED
    BY <2>1 DEF Entries
<1>3. t \in Nat /\ ClockOf(l) <= t
  BY <1>1
<1>4. k \in Seq(Nat) /\ Len(k) = n + 1 /\ k[n + 1] = t /\ \A p \in 1 .. n : k[p] = l[p]
  <2>1. l \in Seq(Nat)
    BY <1>1
  <2> QED
    BY <1>3, <2>1
<1> HIDE DEF k
<1>5. ClockOf(k) = t
  <2>1. k # <<>>
    BY <1>1, <1>4
  <2> QED
    BY <1>4, <2>1 DEF ClockOf
<1>6. f <= ClockOf(l)
  BY DEF FirstsGrow
<1> HIDE DEF f, n
<1>7. f <= t
  BY <1>1, <1>2, <1>3, <1>6
<1>8. \A p \in g[ActiveId(m)] : f <= k[p]
  <2> SUFFICES ASSUME NEW p \in g[ActiveId(m)] PROVE f <= k[p]
    OBVIOUS
  <2>1. p \in h[ActiveId(m)] \/ p = n + 1
    BY <1>2 DEF n
  <2>2. CASE p = n + 1
    BY <1>4, <1>7, <2>2
  <2>3. CASE p \in h[ActiveId(m)]
    <3>1. p \in 1 .. n /\ f <= l[p]
      BY <1>2, <2>3 DEF LogType, FirstsGrow, f, n
    <3> QED
      BY <1>4, <3>1
  <2> QED
    BY <2>1, <2>2, <2>3
<1>9. f <= ClockOf(k)
  BY <1>5, <1>7
<1> QED
  BY <1>8, <1>9 DEF FirstsGrow, f, k

\* A seal keeps the start of the segments before it, and starts the sealed one and the next
\* at its bounds.
LEMMA RollGrows ==
    ASSUME NEW m \in Seq(Entries), Len(m) > 0, NEW l, NEW h \in FilesType, LogType(l, h),
           FirstsGrow(m, l, h), NEW start \in Nat, NEW at \in Names,
           start < at, at <= ClockOf(l), \E p \in h[ActiveId(m)] : start = l[p], h[at] = {},
           NEW k \in Seq(Entries), Len(k) = Len(m) + 1, ActiveId(k) = at,
           k[Len(k)].first = at, k[Len(m)].first = start,
           \A i \in 1 .. Len(m) - 1 : k[i].first = m[i].first
    PROVE  FirstsGrow(k, l, h)
<1> DEFINE n == Len(m)
<1>1. n \in Nat /\ n > 0 /\ DOMAIN m = 1 .. n /\ n \in DOMAIN m
  OBVIOUS
<1>2. DOMAIN k = 1 .. n + 1
  OBVIOUS
<1>3. \A i \in 1 .. n : m[i].first \in Nat
  <2>1. \A i \in 1 .. n : m[i] \in Entries
    BY EntryIs
  <2> QED
    BY <2>1 DEF Entries
<1>4. m[n].first <= start
  BY DEF FirstsGrow
<1>5. \A i, j \in 1 .. n : i < j => m[i].first < m[j].first
  BY <1>1 DEF FirstsGrow
<1>6. k[n + 1].first = at /\ k[n].first = start /\ \A i \in 1 .. n - 1 : k[i].first = m[i].first
  OBVIOUS
<1>7. at \in Nat
  BY DEF Names
<1> HIDE DEF n
<1>8. ASSUME NEW i \in 1 .. n + 1, NEW j \in 1 .. n + 1, i < j
      PROVE  k[i].first < k[j].first
  <2>1. ASSUME i \in 1 .. n - 1 PROVE k[i].first < start
    <3>1. i \in 1 .. n /\ n \in 1 .. n /\ i < n
      BY <1>1, <2>1
    <3>2. m[i].first < m[n].first /\ k[i].first = m[i].first
      BY <1>5, <1>6, <2>1, <3>1
    <3> QED
      BY <1>3, <1>4, <3>1, <3>2
  <2>2. CASE j = n + 1
    <3>1. i = n \/ i \in 1 .. n - 1
      BY <1>1, <1>8, <2>2
    <3>2. CASE i = n
      BY <1>6, <2>2, <3>2
    <3>3. CASE i \in 1 .. n - 1
      <4>1. k[i].first \in Nat
        BY <1>1, <1>3, <1>6, <3>3
      <4> QED
        BY <1>6, <1>7, <2>1, <2>2, <3>3, <4>1
    <3> QED
      BY <3>1, <3>2, <3>3
  <2>3. CASE j = n
    <3>1. i \in 1 .. n - 1
      BY <1>1, <1>8, <2>3
    <3> QED
      BY <1>6, <2>1, <2>3, <3>1
  <2>4. CASE j \in 1 .. n - 1
    <3>1. i \in 1 .. n - 1 /\ i \in 1 .. n /\ j \in 1 .. n
      BY <1>1, <1>8, <2>4
    <3> QED
      BY <1>5, <1>6, <1>8, <2>4, <3>1
  <2>5. j = n + 1 \/ j = n \/ j \in 1 .. n - 1
    BY <1>1
  <2> QED
    BY <2>2, <2>3, <2>4, <2>5
<1> QED
  BY <1>2, <1>8 DEF FirstsGrow

-----------------------------------------------------------------------------
\* Bounds and manifests are typed.

\* The order of the naturals is well-founded.
LEMMA LessIsWellFounded ==
    \E R : IsWellFoundedOn(R, Nat) /\ \A j, i \in Nat : j < i => <<j, i>> \in R
<1> WITNESS OpToRel(<, Nat)
<1>1. \A j, i \in Nat : j < i => <<j, i>> \in OpToRel(<, Nat)
  BY DEF OpToRel
<1>2. IsWellFoundedOn(OpToRel(<, Nat), Nat)
  BY NatLessThanWellFounded
<1> QED
  BY Zenon, <1>1, <1>2

\* A set of naturals has a least element.
LEMMA NatMin ==
    ASSUME NEW S \in SUBSET Nat, S # {}
    PROVE  \E i \in S : \A j \in S : i <= j
<1>1. PICK R : IsWellFoundedOn(R, Nat) /\ \A j, i \in Nat : j < i => <<j, i>> \in R
  BY LessIsWellFounded
<1>2. S \subseteq Nat
  OBVIOUS
<1>3. PICK i \in S : \A j \in S : ~ (<<j, i>> \in R)
  <2>1. IsWellFoundedOn(R, Nat)
    BY <1>1
  <2>2. \E x \in S : \A y \in S : ~ (<<y, x>> \in R)
    BY ONLY <2>1, <1>2, S # {}, WFMin
  <2> QED
    BY <2>2
<1>4. \A j \in S : ~ (j < i)
  BY Zenon, <1>1, <1>2, <1>3
<1> QED
  BY <1>2, <1>4

\* A set of numbers up to a bound has a least and a greatest one.
LEMMA MinMaxAre ==
    ASSUME NEW N \in Nat, NEW T \in SUBSET (0 .. N), T # {}
    PROVE  Min(T) \in T /\ Max(T) \in T /\ \A t \in T : Min(T) <= t
<1> DEFINE D == {N - t : t \in T}
<1>1. Min(T) \in T /\ \A t \in T : Min(T) <= t
  <2>1. \E t \in T : \A u \in T : t <= u
    BY NatMin
  <2> QED
    BY <2>1 DEF Min
<1>2. Max(T) \in T
  <2>1. D \in SUBSET Nat /\ D # {}
    <3>1. \A t \in T : t \in 0 .. N
      OBVIOUS
    <3>2. \A t \in T : N - t \in Nat
      BY <3>1
    <3> QED
      BY <3>2
  <2>2. PICK e \in D : \A f \in D : e <= f
    <3> HIDE DEF D
    <3> QED
      BY <2>1, NatMin
  <2>3. PICK t \in T : e = N - t
    OBVIOUS
  <2>4. \A u \in T : t >= u
    <3> SUFFICES ASSUME NEW u \in T PROVE t >= u
      OBVIOUS
    <3>1. N - u \in D
      OBVIOUS
    <3>2. N - t <= N - u
      BY <2>2, <2>3, <3>1
    <3>3. t \in Int /\ u \in Int
      OBVIOUS
    <3> QED
      BY <3>2, <3>3
  <2> QED
    BY <2>4 DEF Max
<1> QED
  BY <1>1, <1>2

\* Bounds and Implicit of any log and files.
TicksOf(l, file) == {l[p] : p \in file}
BoundsOf(l, file) == [min |-> Min(TicksOf(l, file)), max |-> Max(TicksOf(l, file))]
ImplicitOf(l, h) ==
    LET b == IF h[Primary] = {} THEN [min |-> 0, max |-> 0] ELSE BoundsOf(l, h[Primary])
    IN  <<Entry(Primary, b.min, b.max)>>

\* The operators over the state are these of the variables, before and after a step.
LEMMA OfStateIs ==
    /\ Clock = ClockOf(log) /\ Clock' = ClockOf(log')
    /\ \A file : Bounds(file) = BoundsOf(log, file)
    /\ Implicit = ImplicitOf(log, hot) /\ Implicit' = ImplicitOf(log', hot')
    /\ \A s : File(s) = FileOf(s, hot, cold)
    /\ Active.id = ActiveId(mem)
<1>1. Clock = ClockOf(log) /\ Clock' = ClockOf(log')
  BY DEF Clock, ClockOf
<1>2. \A file : Bounds(file) = BoundsOf(log, file)
  BY DEF Bounds, BoundsOf, Ticks, TicksOf
<1>3. Implicit = ImplicitOf(log, hot)
  BY DEF Implicit, ImplicitOf, Bounds, BoundsOf, Ticks, TicksOf
<1>4. Implicit' = ImplicitOf(log', hot')
  BY DEF Implicit, ImplicitOf, Bounds, BoundsOf, Ticks, TicksOf
<1>5. \A s : File(s) = FileOf(s, hot, cold)
  BY DEF File, FileOf
<1>6. Active.id = ActiveId(mem)
  BY DEF Active, ActiveId
<1> QED
  BY <1>1, <1>2, <1>3, <1>4, <1>5, <1>6

\* The ticks of a file have bounds.
LEMMA BoundsAre ==
    ASSUME NEW l, NEW h, LogType(l, h), NEW x \in Names, h[x] # {}
    PROVE  /\ BoundsOf(l, h[x]).min \in 0 .. MaxEvents
           /\ BoundsOf(l, h[x]).max \in 0 .. MaxEvents
           /\ \E p \in h[x] : BoundsOf(l, h[x]).min = l[p]
           /\ \A p \in h[x] : BoundsOf(l, h[x]).min <= l[p]
<1> DEFINE T == TicksOf(l, h[x])
<1>1. MaxEvents \in Nat
  BY SegmentsAssumption
<1>2. T \in SUBSET (0 .. MaxEvents) /\ T # {}
  <2>1. h[x] \subseteq 1 .. Len(l) /\ l \in Seq(0 .. MaxEvents)
    BY DEF LogType
  <2>2. \A p \in 1 .. Len(l) : l[p] \in 0 .. MaxEvents
    <3> DEFINE S == 0 .. MaxEvents
    <3>1. l \in Seq(S)
      BY <2>1
    <3> HIDE DEF S
    <3>2. \A p \in 1 .. Len(l) : l[p] \in S
      BY <3>1
    <3> QED
      BY <3>2 DEF S
  <2>3. \A p \in h[x] : l[p] \in 0 .. MaxEvents
    BY <2>1, <2>2
  <2> QED
    BY <2>3 DEF TicksOf
<1>3. (\A t \in T : \E p \in h[x] : t = l[p]) /\ \A p \in h[x] : l[p] \in T
  BY DEF TicksOf
<1>4. BoundsOf(l, h[x]).min = Min(T) /\ BoundsOf(l, h[x]).max = Max(T)
  BY DEF BoundsOf
<1> HIDE DEF T
<1>5. Min(T) \in T /\ Max(T) \in T /\ \A t \in T : Min(T) <= t
  BY <1>1, <1>2, MinMaxAre
<1> QED
  BY <1>2, <1>3, <1>4, <1>5

\* A log without a manifest is one hot segment.
LEMMA ImplicitIs ==
    ASSUME NEW l, NEW h, LogType(l, h)
    PROVE  /\ ImplicitOf(l, h) \in Seq(Entries) /\ Len(ImplicitOf(l, h)) = 1
           /\ ImplicitOf(l, h)[1].id = Primary /\ ImplicitOf(l, h)[1].tier = "Hot"
<1> DEFINE b == IF h[Primary] = {} THEN [min |-> 0, max |-> 0] ELSE BoundsOf(l, h[Primary])
           e == Entry(Primary, b.min, b.max)
<1>1. MaxEvents \in Nat /\ Primary \in Names
  BY SegmentsAssumption DEF Primary, Names
<1>2. b.min \in Nat /\ b.max \in Nat
  <2>1. CASE h[Primary] = {}
    BY <2>1
  <2>2. CASE h[Primary] # {}
    <3>1. BoundsOf(l, h[Primary]).min \in 0 .. MaxEvents
          /\ BoundsOf(l, h[Primary]).max \in 0 .. MaxEvents
      BY <1>1, <2>2, BoundsAre
    <3> QED
      BY <1>1, <2>2, <3>1
  <2> QED
    BY <2>1, <2>2
<1> HIDE DEF b
<1>3. e \in Entries /\ e.id = Primary /\ e.tier = "Hot"
  BY <1>1, <1>2 DEF Entry, Entries, Tiers
<1>4. ImplicitOf(l, h) = <<e>>
  BY DEF ImplicitOf, b
<1> HIDE DEF e
<1> QED
  BY <1>3, <1>4

\* Its first tick is its first.
LEMMA ImplicitGrows ==
    ASSUME NEW l, NEW h, LogType(l, h) PROVE FirstsGrow(ImplicitOf(l, h), l, h)
<1> DEFINE b == IF h[Primary] = {} THEN [min |-> 0, max |-> 0] ELSE BoundsOf(l, h[Primary])
           m == ImplicitOf(l, h)
<1>1. Primary \in Names
  BY SegmentsAssumption DEF Primary, Names
<1>2. m \in Seq(Entries) /\ Len(m) = 1 /\ m[1].id = Primary
  BY ImplicitIs
<1>3. m[1].first = b.min
  <2>1. m = <<Entry(Primary, b.min, b.max)>>
    BY DEF ImplicitOf
  <2> HIDE DEF m, b
  <2> QED
    BY <2>1 DEF Entry
<1>4. b.min <= ClockOf(l) /\ \A p \in h[Primary] : b.min <= l[p]
  <2>1. CASE h[Primary] = {}
    BY <2>1 DEF LogType
  <2>2. CASE h[Primary] # {}
    <3> DEFINE c == BoundsOf(l, h[Primary])
    <3>1. (\E p \in h[Primary] : c.min = l[p]) /\ \A p \in h[Primary] : c.min <= l[p]
      BY <1>1, <2>2, BoundsAre
    <3> HIDE DEF c
    <3>2. c.min <= ClockOf(l)
      BY <1>1, <3>1 DEF LogType
    <3>3. b = c
      BY <2>2 DEF c
    <3> HIDE DEF b
    <3> QED
      BY <3>1, <3>2, <3>3
  <2> QED
    BY <2>1, <2>2
<1> HIDE DEF m, b
<1>5. DOMAIN m = {1} /\ ActiveId(m) = Primary
  BY <1>2 DEF ActiveId
<1>6. \A i, j \in DOMAIN m : i < j => m[i].first < m[j].first
  BY <1>5
<1>7. m[Len(m)].first = b.min
  BY <1>2, <1>3
<1>8. FirstsGrow(m, l, h)
  BY <1>4, <1>5, <1>6, <1>7 DEF FirstsGrow
<1> QED
  BY <1>8 DEF m

-----------------------------------------------------------------------------
\* What is open and what is on disk.

\* What a process that opens the log finds, before and after a step.
LEMMA OnOpenIs ==
    /\ Typed => OnOpen \in Seq(Entries)
    /\ Typed' => OnOpen' \in Seq(Entries)
    /\ Typed /\ Typed' /\ disk' = disk => SameNames(OnOpen, OnOpen')
    /\ disk # <<>> => OnOpen = disk
    /\ disk' # <<>> => OnOpen' = disk'
<1>1. Typed => LogType(log, hot) /\ disk \in Seq(Entries)
  BY DEF Typed, TypeOK
<1>2. Typed' => LogType(log', hot') /\ disk' \in Seq(Entries)
  BY DEF Typed, TypeOK, LogType, ClockOf
<1>3. OnOpen = IF disk = <<>> THEN ImplicitOf(log, hot) ELSE disk
  BY OfStateIs DEF OnOpen
<1>4. OnOpen' = IF disk' = <<>> THEN ImplicitOf(log', hot') ELSE disk'
  BY OfStateIs DEF OnOpen
<1>5. Typed => OnOpen \in Seq(Entries)
  BY <1>1, <1>3, ImplicitIs
<1>6. Typed' => OnOpen' \in Seq(Entries)
  BY <1>2, <1>4, ImplicitIs
<1>7. ASSUME Typed, Typed', disk' = disk PROVE SameNames(OnOpen, OnOpen')
  <2>1. CASE disk = <<>>
    <3> DEFINE m == ImplicitOf(log, hot)
               o == ImplicitOf(log', hot')
    <3>1. m \in Seq(Entries) /\ Len(m) = 1 /\ m[1].id = Primary /\ m[1].tier = "Hot"
      BY <1>1, <1>7, ImplicitIs
    <3>2. o \in Seq(Entries) /\ Len(o) = 1 /\ o[1].id = Primary /\ o[1].tier = "Hot"
      BY <1>2, <1>7, ImplicitIs
    <3>3. OnOpen = m /\ OnOpen' = o
      BY <1>3, <1>4, <1>7, <2>1
    <3> HIDE DEF m, o
    <3>4. DOMAIN m = {1} /\ DOMAIN o = {1}
      BY <3>1, <3>2
    <3> QED
      BY <3>1, <3>2, <3>3, <3>4 DEF SameNames
  <2>2. CASE disk # <<>>
    BY <1>3, <1>4, <1>7, <2>2 DEF SameNames
  <2> QED
    BY <2>1, <2>2
<1> QED
  BY <1>3, <1>4, <1>5, <1>6, <1>7

\* To name the same segments does not depend on an order.
LEMMA SameBack == ASSUME NEW m, NEW o, SameNames(m, o) PROVE SameNames(o, m)
BY DEF SameNames

\* It goes from one manifest to the next.
LEMMA SameOn ==
    ASSUME NEW m, NEW o, NEW k, SameNames(m, o), SameNames(o, k) PROVE SameNames(m, k)
BY DEF SameNames

\* A process that has the log open sees all of it.
LEMMA MemIsWhole ==
    ASSUME Typed, ManifestIsWhole, isOpen
    PROVE  mem \in Seq(Entries) /\ Whole(mem, log, hot, cold) /\ SameNames(mem, OnOpen)
<1>1. mem \in Seq(Entries) /\ OnOpen \in Seq(Entries)
  BY OnOpenIs DEF Typed, TypeOK
<1> QED
  BY <1>1, SameIsWhole DEF ManifestIsWhole

\* The segments are in order in the next state if they are in this one.
FirstsStay ==
    \A m \in Seq(Entries) :
        Len(m) > 0 /\ FirstsGrow(m, log, hot) => FirstsGrow(m, log', hot')

\* A step that writes no manifest and keeps the log whole for the one there is.
LEMMA FilesChange ==
    ASSUME Typed, Typed', ManifestIsWhole, disk' = disk, Whole(OnOpen, log', hot', cold'),
           isOpen' => isOpen /\ mem' = mem, FirstsStay
    PROVE  ManifestIsWhole'
<1>1. SameNames(OnOpen, OnOpen') /\ OnOpen \in Seq(Entries) /\ OnOpen' \in Seq(Entries)
  BY OnOpenIs
<1>2. Whole(OnOpen', log', hot', cold')
  BY <1>1, SameBack, SameIsWhole
<1>3. ASSUME isOpen' PROVE SameNames(mem', OnOpen')
  <2>1. SameNames(mem, OnOpen) /\ mem' = mem
    BY <1>3 DEF ManifestIsWhole
  <2> QED
    BY <1>1, <2>1, SameOn
<1>4. FirstsGrow(OnOpen', log', hot')
  <2>1. CASE disk = <<>>
    <3>1. OnOpen' = ImplicitOf(log', hot')
      BY <2>1, OfStateIs DEF OnOpen
    <3>2. LogType(log', hot')
      BY DEF Typed, LogType, ClockOf
    <3> QED
      BY <3>1, <3>2, ImplicitGrows
  <2>2. CASE disk # <<>>
    <3>1. OnOpen' = OnOpen
      BY <2>2, OnOpenIs
    <3>2. Len(OnOpen) > 0 /\ FirstsGrow(OnOpen, log, hot)
      BY DEF ManifestIsWhole, Whole, ActiveIsLast
    <3> QED
      BY <1>1, <3>1, <3>2 DEF FirstsStay
  <2> QED
    BY <2>1, <2>2
<1>5. ASSUME isOpen' PROVE FirstsGrow(mem', log', hot')
  <2>1. mem \in Seq(Entries) /\ Len(mem) > 0 /\ mem' = mem /\ FirstsGrow(mem, log, hot)
    BY <1>5, MemIsWhole DEF ManifestIsWhole, Whole, ActiveIsLast
  <2> QED
    BY <2>1 DEF FirstsStay
<1> QED
  BY <1>2, <1>3, <1>4, <1>5 DEF ManifestIsWhole

\* A step that writes a manifest for which the log is whole.
LEMMA ManifestChanges ==
    ASSUME Typed', mem' # <<>>, disk' = mem', Whole(mem', log', hot', cold'),
           FirstsGrow(mem', log', hot')
    PROVE  ManifestIsWhole'
<1>1. OnOpen' = mem'
  BY OnOpenIs
<1>2. SameNames(mem', OnOpen')
  BY <1>1 DEF SameNames
<1> QED
  BY <1>1, <1>2 DEF ManifestIsWhole

\* A sealed segment is not the one that grows.
LEMMA SealedIs ==
    ASSUME Typed, ManifestIsWhole, isOpen, NEW id, IsSealed(mem, id)
    PROVE  id \in Names /\ id < ActiveId(mem) /\ id < ActiveId(OnOpen)
<1>1. /\ mem \in Seq(Entries) /\ OnOpen \in Seq(Entries)
      /\ ActiveIsLast(mem, log, hot, cold) /\ SameNames(mem, OnOpen)
  BY MemIsWhole, OnOpenIs DEF Whole
<1>2. Len(mem) > 0 /\ Len(mem) \in DOMAIN mem /\ Len(mem) \in Nat /\ DOMAIN mem = 1 .. Len(mem)
      /\ \A i \in DOMAIN mem : mem[i].id \in Names
  BY <1>1, EntryIs DEF ActiveIsLast
<1>3. Len(mem) = Len(OnOpen) /\ ActiveId(mem) = ActiveId(OnOpen)
  <2> DEFINE o == OnOpen
  <2>1. o \in Seq(Entries) /\ DOMAIN mem = DOMAIN o
        /\ \A i \in DOMAIN mem : mem[i].id = o[i].id
    BY <1>1 DEF SameNames
  <2> HIDE DEF o
  <2>2. Len(o) \in Nat /\ DOMAIN o = 1 .. Len(o)
    BY <2>1
  <2>3. Len(mem) = Len(o)
    <3> DEFINE n == Len(mem)
               k == Len(o)
    <3>1. n \in Nat /\ k \in Nat /\ 1 .. n = 1 .. k /\ n > 0
      BY <1>2, <2>1, <2>2
    <3> HIDE DEF n, k
    <3>2. n \in 1 .. k
      BY <3>1
    <3>3. k \in 1 .. n
      BY <3>1, <3>2
    <3>4. n = k
      BY <3>1, <3>2, <3>3
    <3> QED
      BY <3>4 DEF n, k
  <2>4. mem[Len(mem)].id = o[Len(o)].id
    BY <1>2, <2>1, <2>3
  <2> QED
    BY <2>3, <2>4 DEF ActiveId, o
<1>4. PICK i \in 1 .. Len(mem) - 1 : mem[i].id = id
  BY DEF IsSealed
<1>5. i \in DOMAIN mem /\ mem[i].id < ActiveId(mem)
  BY <1>1, <1>2 DEF ActiveIsLast
<1> QED
  BY <1>2, <1>3, <1>4, <1>5

\* What the type invariant says of a state, field by field.
LEMMA TypedIs ==
    ASSUME Typed
    PROVE  /\ hot \in FilesType /\ cold \in FilesType /\ LogType(log, hot)
           /\ Len(log) \in Nat /\ MaxEvents \in Nat
           /\ moving.id \in Names /\ refs \in Seq(SUBSET Blobs) /\ DOMAIN refs = 1 .. Len(log)
<1>1. hot \in FilesType /\ cold \in FilesType /\ LogType(log, hot) /\ moving.id \in Names
      /\ refs \in Seq(SUBSET Blobs) /\ Len(refs) = Len(log)
  BY DEF Typed, TypeOK, FilesType
<1>2. Len(log) \in Nat
  BY <1>1 DEF LogType
<1> QED
  BY <1>1, <1>2, SegmentsAssumption

\* Blobs that are not touched stay where they are.
LEMMA BlobsStay ==
    ASSUME LoggedBlobsAreStored, refs' = refs, stored \subseteq stored'
    PROVE  LoggedBlobsAreStored'
BY DEF LoggedBlobsAreStored

-----------------------------------------------------------------------------
\* Every step keeps the invariant.

\* A step that changes neither the files nor the manifests.
LEMMA OthersStay ==
    ASSUME Typed, Typed', ManifestIsWhole, UNCHANGED <<log, hot, cold, disk>>,
           isOpen' => isOpen /\ mem' = mem
    PROVE  ManifestIsWhole'
<1>1. Whole(OnOpen, log', hot', cold')
  BY DEF ManifestIsWhole
<1>2. FirstsStay
  BY DEF FirstsStay
<1> QED
  BY <1>1, <1>2, FilesChange

\* Opening reads the manifest.
LEMMA OpenStays == ASSUME IInv, Open PROVE IInv'
<1>1. Typed /\ ManifestIsWhole /\ MoveIsSafe /\ LoggedBlobsAreStored
  BY DEF IInv
<1>2. /\ ~ isOpen /\ isOpen' = TRUE /\ mem' = OnOpen
      /\ UNCHANGED <<log, hot, cold, disk, moving, crashes, refs, stored, put>>
  BY DEF Open, blobVars
<1>3. OnOpen' = OnOpen /\ OnOpen \in Seq(Entries)
  BY <1>1, <1>2, OnOpenIs DEF OnOpen, Implicit, Bounds, Ticks
<1>4. Typed'
  BY <1>1, <1>2, <1>3 DEF Typed, TypeOK, LogType, ClockOf
<1>5. ManifestIsWhole'
  <2>1. SameNames(mem', OnOpen')
    BY <1>2, <1>3 DEF SameNames
  <2>2. Whole(OnOpen', log', hot', cold') /\ FirstsGrow(OnOpen', log', hot')
    BY <1>1, <1>2, <1>3 DEF ManifestIsWhole
  <2>3. FirstsGrow(mem', log', hot')
    BY <1>2, <1>3, <2>2
  <2> QED
    BY <2>1, <2>2, <2>3 DEF ManifestIsWhole
<1>6. MoveIsSafe'
  BY <1>1, <1>2 DEF MoveIsSafe, NotMoving
<1>7. LoggedBlobsAreStored'
  BY <1>1, <1>2, BlobsStay
<1> QED
  BY <1>4, <1>5, <1>6, <1>7 DEF IInv

\* A blob is put before the event that names it.
LEMMA PutStays == ASSUME IInv, PutBlob PROVE IInv'
<1>1. Typed /\ ManifestIsWhole /\ MoveIsSafe /\ LoggedBlobsAreStored
  BY DEF IInv
<1>2. PICK b \in Blobs : stored' = stored \cup {b} /\ put' = put \cup {b}
  BY DEF PutBlob
<1>3. UNCHANGED <<log, hot, cold, disk, mem, isOpen, moving, crashes, refs>>
  BY DEF PutBlob
<1>4. Typed'
  BY <1>1, <1>2, <1>3 DEF Typed, TypeOK, LogType, ClockOf
<1>5. ManifestIsWhole'
  BY <1>1, <1>3, <1>4, OthersStay
<1>6. MoveIsSafe'
  BY <1>1, <1>3 DEF MoveIsSafe, NotMoving, IsSealed
<1>7. LoggedBlobsAreStored'
  BY <1>1, <1>2, <1>3, BlobsStay
<1> QED
  BY <1>4, <1>5, <1>6, <1>7 DEF IInv

\* A sweep of the blobs finds every event in a segment it reads.
LEMMA SweepStays == ASSUME IInv, SweepBlobs PROVE IInv'
<1>1. Typed /\ ManifestIsWhole /\ MoveIsSafe /\ LoggedBlobsAreStored
  BY DEF IInv
<1>2. /\ isOpen /\ put = {} /\ stored' = stored \cap ReachableBlobs
      /\ UNCHANGED <<log, hot, cold, disk, mem, isOpen, moving, crashes, refs, put>>
  BY DEF SweepBlobs, Idle
<1>3. Typed'
  BY <1>1, <1>2 DEF Typed, TypeOK, LogType, ClockOf
<1>4. ManifestIsWhole'
  BY <1>1, <1>2, <1>3, OthersStay
<1>5. MoveIsSafe'
  BY <1>1, <1>2 DEF MoveIsSafe, NotMoving, IsSealed
<1>6. LoggedBlobsAreStored'
  <2> SUFFICES ASSUME NEW p \in DOMAIN refs PROVE refs[p] \subseteq stored'
    BY <1>2 DEF LoggedBlobsAreStored
  <2>1. refs[p] \subseteq stored
    BY <1>1 DEF LoggedBlobsAreStored
  <2>2. p \in 1 .. Len(log)
    BY <1>1, TypedIs
  <2>3. Holds(mem, log, hot, cold)
    BY <1>1, <1>2, MemIsWhole DEF Whole
  <2>4. PICK i \in DOMAIN mem : p \in FileOf(mem[i], hot, cold)
    BY <2>2, <2>3 DEF Holds
  <2>5. p \in File(mem[i])
    BY <2>4, OfStateIs
  <2>6. refs[p] \subseteq ReachableBlobs
    BY <2>5 DEF ReachableBlobs
  <2> QED
    BY <1>2, <2>1, <2>6
<1> QED
  BY <1>3, <1>4, <1>5, <1>6 DEF IInv

\* A crash takes what is in memory.
LEMMA CrashStays == ASSUME IInv, Crash PROVE IInv'
<1>1. Typed /\ ManifestIsWhole /\ LoggedBlobsAreStored
  BY DEF IInv
<1>2. /\ isOpen' = FALSE /\ mem' = <<>> /\ moving' = NotMoving
      /\ crashes < MaxCrash /\ crashes' = crashes + 1 /\ put' = {}
      /\ UNCHANGED <<log, hot, cold, disk, refs, stored>>
  BY DEF Crash
<1>3. Typed'
  <2>1. crashes' \in 0 .. MaxCrash
    BY <1>1, <1>2, SegmentsAssumption DEF Typed, TypeOK
  <2>2. moving' \in [id : Names, step : {"none", "begun", "copied", "moved"}]
    BY <1>2, SegmentsAssumption DEF NotMoving, Primary, Names
  <2>3. mem' \in Seq(Entries)
    BY <1>2
  <2>4. isOpen' \in BOOLEAN
    BY <1>2
  <2> QED
    BY <1>1, <1>2, <2>1, <2>2, <2>3, <2>4 DEF Typed, TypeOK, LogType, ClockOf
<1>4. ManifestIsWhole'
  BY <1>1, <1>2, <1>3, OthersStay
<1>5. MoveIsSafe'
  BY <1>2 DEF MoveIsSafe, NotMoving
<1>6. LoggedBlobsAreStored'
  BY <1>1, <1>2, BlobsStay
<1> QED
  BY <1>3, <1>4, <1>5, <1>6 DEF IInv

\* An event goes to the file of the last segment, with its blobs put before.
LEMMA AppendStays == ASSUME IInv, AppendEvent PROVE IInv'
<1>1. Typed /\ ManifestIsWhole /\ LoggedBlobsAreStored
  BY DEF IInv
<1>2. PICK t \in {Clock, Clock + 1} : log' = Append(log, t)
  BY DEF AppendEvent
<1>3. /\ isOpen /\ moving = NotMoving /\ Len(log) < MaxEvents
      /\ hot' = [hot EXCEPT ![Active.id] = @ \cup {Len(log) + 1}]
      /\ refs' = Append(refs, put) /\ put' = {}
      /\ UNCHANGED <<cold, disk, mem, isOpen, moving, crashes, stored>>
  BY DEF AppendEvent, Idle
<1>4. mem \in Seq(Entries) /\ Whole(mem, log, hot, cold) /\ SameNames(mem, OnOpen)
  BY <1>1, <1>3, MemIsWhole
<1>5. /\ hot \in FilesType /\ cold \in FilesType /\ LogType(log, hot)
      /\ Len(log) \in Nat /\ refs \in Seq(SUBSET Blobs) /\ DOMAIN refs = 1 .. Len(log)
  BY <1>1, TypedIs
<1>6. /\ t \in {ClockOf(log), ClockOf(log) + 1}
      /\ hot' = [hot EXCEPT ![ActiveId(mem)] = @ \cup {Len(log) + 1}]
  BY <1>2, <1>3, OfStateIs
<1>7. hot' \in FilesType /\ LogType(log', hot') /\ Whole(mem, log', hot', cold)
  <2>1. \A g : g = [hot EXCEPT ![ActiveId(mem)] = @ \cup {Len(log) + 1}] =>
                 /\ g \in FilesType /\ LogType(Append(log, t), g)
                 /\ Whole(mem, Append(log, t), g, cold)
    BY <1>3, <1>4, <1>5, <1>6, AppendIsWhole
  <2> QED
    BY <1>2, <1>6, <2>1
<1>8. put \in SUBSET Blobs /\ Len(refs) = Len(log)
  BY <1>1 DEF Typed, TypeOK
<1>9. /\ refs' \in Seq(SUBSET Blobs) /\ Len(refs') = Len(log) + 1
      /\ refs'[Len(log) + 1] = put /\ \A p \in 1 .. Len(log) : refs'[p] = refs[p]
  BY <1>3, <1>5, <1>8
<1>10. log' \in Seq(Nat) /\ Len(log') = Len(log) + 1
  <2>1. log \in Seq(Nat) /\ Clock \in Nat
    BY <1>1, <1>5, OfStateIs DEF Typed, TypeOK, LogType
  <2>2. t \in Nat
    BY <1>2, <2>1
  <2> QED
    BY <1>2, <2>1, <2>2
<1>11. Typed'
  <2>1. put' \subseteq Blobs /\ put' \subseteq stored'
    BY <1>3
  <2>2. TypeOK'
    BY <1>1, <1>3, <1>7, <1>9, <1>10, <2>1 DEF Typed, TypeOK, FilesType
  <2> QED
    BY <1>7, <1>9, <1>10, <2>1, <2>2 DEF Typed, LogType, ClockOf
<1>12. ManifestIsWhole'
  <2>1. OnOpen \in Seq(Entries)
    BY <1>1, OnOpenIs
  <2>2. Whole(OnOpen, log', hot', cold)
    BY <1>4, <1>7, <2>1, SameBack, SameIsWhole
  <2>3. Whole(OnOpen, log', hot', cold')
    BY <1>3, <2>2
  <2>4. FirstsStay
    <3> SUFFICES ASSUME NEW m \in Seq(Entries), Len(m) > 0, FirstsGrow(m, log, hot)
                 PROVE  FirstsGrow(m, log', hot')
      BY DEF FirstsStay
    <3> DEFINE g == hot'
    <3>1. \A x \in Names : g[x] \subseteq hot[x] \cup {Len(log) + 1}
      BY <1>5, <1>6 DEF FilesType
    <3> HIDE DEF g
    <3>2. FirstsGrow(m, Append(log, t), g)
      BY <1>5, <1>6, <3>1, AppendGrows
    <3> QED
      BY <1>2, <3>2 DEF g
  <2> QED
    BY <1>1, <1>3, <1>11, <2>3, <2>4, FilesChange
<1>13. MoveIsSafe'
  BY <1>3 DEF MoveIsSafe, NotMoving
<1>14. LoggedBlobsAreStored'
  <2> SUFFICES ASSUME NEW p \in DOMAIN refs' PROVE refs'[p] \subseteq stored
    BY <1>3 DEF LoggedBlobsAreStored
  <2>1. p \in 1 .. Len(log) + 1
    BY <1>9
  <2>2. CASE p = Len(log) + 1
    BY <1>1, <1>9, <2>2 DEF Typed
  <2>3. CASE p # Len(log) + 1
    <3>1. p \in 1 .. Len(log) /\ p \in DOMAIN refs
      BY <1>5, <2>1, <2>3
    <3> QED
      BY <1>1, <1>9, <3>1 DEF LoggedBlobsAreStored
  <2> QED
    BY <2>2, <2>3
<1> QED
  BY <1>11, <1>12, <1>13, <1>14 DEF IInv

\* The bytes of a sealed segment are moved, whole.
LEMMA BytesMove ==
    ASSUME IInv, moving.step \in {"begun", "copied"},
           cold' = [cold EXCEPT ![moving.id] = hot[moving.id]],
           hot' = hot \/ hot' = [hot EXCEPT ![moving.id] = {}],
           UNCHANGED <<log, disk, mem, isOpen, crashes, refs, stored, put>>,
           moving' \in [id : {moving.id}, step : {"copied", "moved"}],
           moving'.step = "copied" => hot' = hot,
           moving'.step = "moved" => hot'[moving.id] = {}
    PROVE  IInv'
<1>1. Typed /\ ManifestIsWhole /\ MoveIsSafe /\ LoggedBlobsAreStored
  BY DEF IInv
<1> DEFINE id == moving.id
<1>2. moving # NotMoving
  BY DEF NotMoving
<1>3. isOpen /\ IsSealed(mem, id) /\ hot[id] # {}
  BY <1>1, <1>2 DEF MoveIsSafe
<1>4. id \in Names /\ id < ActiveId(OnOpen)
  BY <1>1, <1>3, SealedIs
<1>5. /\ hot \in FilesType /\ cold \in FilesType /\ LogType(log, hot)
  BY <1>1, TypedIs
<1>6. OnOpen \in Seq(Entries) /\ Whole(OnOpen, log, hot, cold)
  BY <1>1, OnOpenIs DEF ManifestIsWhole
<1> HIDE DEF id
<1>7. /\ cold'[id] = hot[id] /\ hot'[id] \in {hot[id], {}}
      /\ \A x \in Names : x # id => hot'[x] = hot[x] /\ cold'[x] = cold[x]
  BY <1>4, <1>5 DEF FilesType, id
<1>8. Whole(OnOpen, log, hot', cold')
  <2>1. Moves(id, hot, cold, hot', cold')
    BY <1>7 DEF Moves
  <2> DEFINE m == OnOpen
             g == hot'
             d == cold'
  <2>2. m \in Seq(Entries) /\ Whole(m, log, hot, cold) /\ id < ActiveId(m)
        /\ Moves(id, hot, cold, g, d)
    BY <1>4, <1>6, <2>1
  <2> HIDE DEF m, g, d
  <2>3. Whole(m, log, g, d)
    BY <1>3, <1>4, <1>5, <2>2, MoveIsWhole
  <2> QED
    BY <2>3 DEF m, g, d
<1>9. hot' \in FilesType /\ cold' \in FilesType
  BY <1>4, <1>5 DEF FilesType, id
<1>10. \A x \in Names : hot'[x] \subseteq hot[x]
  BY <1>4, <1>7
<1>11. Typed'
  <2>1. LogType(log', hot')
    BY <1>5, <1>10 DEF LogType
  <2>2. moving' \in [id : Names, step : {"none", "begun", "copied", "moved"}]
    BY <1>4 DEF id
  <2>3. TypeOK'
    BY <1>1, <1>9, <2>2 DEF Typed, TypeOK, FilesType
  <2> QED
    BY <1>1, <2>1, <2>3 DEF Typed, LogType, ClockOf
<1>12. ManifestIsWhole'
  <2>1. FirstsStay
    <3> SUFFICES ASSUME NEW m \in Seq(Entries), Len(m) > 0, FirstsGrow(m, log, hot)
                 PROVE  FirstsGrow(m, log', hot')
      BY DEF FirstsStay
    <3>1. ActiveId(m) \in Names
      BY EntryIs
    <3> QED
      BY <1>10, <3>1 DEF FirstsGrow
  <2> QED
    BY <1>1, <1>8, <1>11, <2>1, FilesChange
<1>13. MoveIsSafe'
  <2>1. moving'.id = id /\ moving'.step \in {"copied", "moved"}
    BY DEF id
  <2>2. moving'.step = "copied" => hot'[id] # {} /\ cold'[id] = hot'[id]
    BY <1>3, <1>7
  <2>3. moving'.step = "moved" => hot'[id] = {}
    BY DEF id
  <2>4. IsSealed(mem', id) /\ isOpen'
    BY <1>3
  <2> QED
    BY <2>1, <2>2, <2>3, <2>4 DEF MoveIsSafe
<1>14. LoggedBlobsAreStored'
  BY <1>1, BlobsStay
<1> QED
  BY <1>11, <1>12, <1>13, <1>14 DEF IInv

\* A sealed segment whose bytes are hot may be moved.
LEMMA BeginStays == ASSUME IInv, BeginMove PROVE IInv'
<1>1. Typed /\ ManifestIsWhole /\ LoggedBlobsAreStored
  BY DEF IInv
<1>2. PICK floor \in 0 .. Clock : \E i \in ColdStorable(mem, floor) :
         /\ hot[mem[i].id] # {}
         /\ moving' = [id |-> mem[i].id, step |-> "begun"]
  BY DEF BeginMove
<1>3. PICK i \in ColdStorable(mem, floor) :
         /\ hot[mem[i].id] # {}
         /\ moving' = [id |-> mem[i].id, step |-> "begun"]
  BY <1>2
<1>4. isOpen /\ UNCHANGED <<log, hot, cold, disk, mem, isOpen, crashes, refs, stored, put>>
  BY DEF BeginMove, Idle, blobVars
<1>5. i \in 1 .. Len(mem) - 1
  BY DEF ColdStorable
<1>6. IsSealed(mem, mem[i].id)
  BY <1>5 DEF IsSealed
<1>7. mem[i].id \in Names
  BY <1>1, <1>4, <1>6, SealedIs
<1>8. Typed'
  <2>1. moving' \in [id : Names, step : {"none", "begun", "copied", "moved"}]
    BY <1>3, <1>7
  <2> QED
    BY <1>1, <1>4, <2>1 DEF Typed, TypeOK, LogType, ClockOf
<1>9. ManifestIsWhole'
  BY <1>1, <1>4, <1>8, OthersStay
<1>10. MoveIsSafe'
  BY <1>3, <1>4, <1>6 DEF MoveIsSafe, IsSealed
<1>11. LoggedBlobsAreStored'
  BY <1>1, <1>4, BlobsStay
<1> QED
  BY <1>8, <1>9, <1>10, <1>11 DEF IInv

\* The file of a sealed segment is renamed, copied or removed.
LEMMA MovingStays == ASSUME IInv, Rename \/ Copy \/ RemoveSource PROVE IInv'
<1>1. /\ moving.id \in Names /\ hot \in FilesType /\ cold \in FilesType
      /\ moving \in [id : Names, step : {"none", "begun", "copied", "moved"}]
  BY TypedIs DEF IInv, Typed, TypeOK
<1>2. hot = [hot EXCEPT ![moving.id] = hot[moving.id]]
  BY <1>1 DEF FilesType
<1>3. CASE Rename
  <2>1. /\ moving.step = "begun" /\ cold' = [cold EXCEPT ![moving.id] = hot[moving.id]]
        /\ hot' = [hot EXCEPT ![moving.id] = {}]
        /\ moving' = [moving EXCEPT !.step = "moved"]
        /\ UNCHANGED <<log, disk, mem, isOpen, crashes, refs, stored, put>>
    BY <1>3 DEF Rename, blobVars
  <2>2. moving' = [id |-> moving.id, step |-> "moved"]
    BY <1>1, <2>1
  <2>3. hot'[moving.id] = {}
    BY <1>1, <2>1 DEF FilesType
  <2> QED
    BY <2>1, <2>2, <2>3, BytesMove
<1>4. CASE Copy
  <2>1. /\ moving.step = "begun" /\ cold' = [cold EXCEPT ![moving.id] = hot[moving.id]]
        /\ moving' = [moving EXCEPT !.step = "copied"]
        /\ UNCHANGED <<log, hot, disk, mem, isOpen, crashes, refs, stored, put>>
    BY <1>4 DEF Copy, blobVars
  <2>2. moving' = [id |-> moving.id, step |-> "copied"]
    BY <1>1, <2>1
  <2> QED
    BY <2>1, <2>2, BytesMove
<1>5. CASE RemoveSource
  <2>1. /\ moving.step = "copied" /\ hot' = [hot EXCEPT ![moving.id] = {}]
        /\ moving' = [moving EXCEPT !.step = "moved"]
        /\ UNCHANGED <<log, cold, disk, mem, isOpen, crashes, refs, stored, put>>
    BY <1>5 DEF RemoveSource, blobVars
  <2>2. moving' = [id |-> moving.id, step |-> "moved"]
    BY <1>1, <2>1
  <2>3. hot'[moving.id] = {}
    BY <1>1, <2>1 DEF FilesType
  <2>4. cold[moving.id] = hot[moving.id]
    BY <2>1 DEF IInv, MoveIsSafe, NotMoving
  <2>5. cold' = [cold EXCEPT ![moving.id] = hot[moving.id]]
    BY <1>1, <2>1, <2>4 DEF FilesType
  <2> QED
    BY <2>1, <2>2, <2>3, <2>5, BytesMove
<1> QED
  BY <1>3, <1>4, <1>5

\* The tier of a segment is flipped when its bytes are in cold storage.
LEMMA FlipStays == ASSUME IInv, ~ PersistFails, FlipTier PROVE IInv'
<1> DEFINE id == moving.id
           k == [i \in DOMAIN mem |->
                    IF mem[i].id = id THEN [mem[i] EXCEPT !.tier = "Cold"] ELSE mem[i]]
<1>1. Typed /\ ManifestIsWhole /\ MoveIsSafe /\ LoggedBlobsAreStored
  BY DEF IInv
<1>2. /\ moving.step = "moved" /\ mem' = k /\ disk' = k /\ moving' = NotMoving
      /\ UNCHANGED <<log, hot, cold, isOpen, crashes, refs, stored, put>>
  BY DEF FlipTier, Persist, blobVars
<1>3. isOpen /\ IsSealed(mem, id) /\ hot[id] = {}
  BY <1>1, <1>2 DEF MoveIsSafe, NotMoving
<1>4. id \in Names /\ id < ActiveId(mem)
  BY <1>1, <1>3, SealedIs
<1>5. mem \in Seq(Entries) /\ Whole(mem, log, hot, cold)
  BY <1>1, <1>3, MemIsWhole
<1>6. /\ hot \in FilesType /\ cold \in FilesType
  BY <1>1, TypedIs
<1>7. /\ \A i \in DOMAIN mem : mem[i] \in Entries
      /\ DOMAIN mem = 1 .. Len(mem) /\ Len(mem) \in Nat /\ Len(mem) > 0
  <2>1. Len(mem) > 0
    BY <1>5 DEF Whole, ActiveIsLast
  <2> QED
    BY <1>5, <2>1, EntryIs
<1> HIDE DEF id
<1>8. \A i \in DOMAIN mem :
         k[i] \in Entries /\ k[i].id = mem[i].id /\ k[i].first = mem[i].first
         /\ k[i].tier = IF mem[i].id = id THEN "Cold" ELSE mem[i].tier
  <2> SUFFICES ASSUME NEW i \in DOMAIN mem
               PROVE  k[i] \in Entries /\ k[i].id = mem[i].id /\ k[i].first = mem[i].first
                      /\ k[i].tier = IF mem[i].id = id THEN "Cold" ELSE mem[i].tier
    OBVIOUS
  <2> DEFINE e == mem[i]
  <2>1. e \in Entries
    BY <1>7
  <2>2. k[i] = IF e.id = id THEN [e EXCEPT !.tier = "Cold"] ELSE e
    OBVIOUS
  <2> HIDE DEF e, k
  <2>3. [e EXCEPT !.tier = "Cold"] \in Entries /\ [e EXCEPT !.tier = "Cold"].id = e.id
        /\ [e EXCEPT !.tier = "Cold"].first = e.first
        /\ [e EXCEPT !.tier = "Cold"].tier = "Cold"
    BY <2>1 DEF Entries, Tiers
  <2>4. k[i] \in Entries /\ k[i].id = e.id /\ k[i].first = e.first
        /\ k[i].tier = IF e.id = id THEN "Cold" ELSE e.tier
    BY <2>1, <2>2, <2>3
  <2> QED
    BY <2>4 DEF e
<1>9. DOMAIN k = DOMAIN mem /\ k \in Seq(Entries) /\ Len(k) = Len(mem)
  <2>1. k \in [1 .. Len(mem) -> Entries]
    BY <1>7, <1>8
  <2> HIDE DEF k
  <2> QED
    BY <1>7, <2>1
<1> HIDE DEF k
<1>10. Whole(k, log, hot, cold)
  BY <1>3, <1>4, <1>5, <1>6, <1>8, <1>9, FlipIsWhole
<1>11. Typed'
  <2>1. moving' \in [id : Names, step : {"none", "begun", "copied", "moved"}]
    BY <1>2, SegmentsAssumption DEF NotMoving, Primary, Names
  <2> QED
    BY <1>1, <1>2, <1>9, <2>1 DEF Typed, TypeOK, LogType, ClockOf
<1>12. ManifestIsWhole'
  <2>1. k # <<>>
    BY <1>7, <1>9
  <2>2. FirstsGrow(k, log, hot)
    <3>1. FirstsGrow(mem, log, hot)
      BY <1>1, <1>3 DEF ManifestIsWhole
    <3>2. Len(mem) \in DOMAIN mem
      BY <1>7
    <3>3. ActiveId(k) = ActiveId(mem) /\ k[Len(k)].first = mem[Len(mem)].first
      BY <1>8, <1>9, <3>2 DEF ActiveId
    <3> QED
      BY <1>8, <1>9, <3>1, <3>3 DEF FirstsGrow
  <2> QED
    BY <1>2, <1>10, <1>11, <2>1, <2>2, ManifestChanges
<1>13. MoveIsSafe'
  BY <1>2 DEF MoveIsSafe, NotMoving
<1>14. LoggedBlobsAreStored'
  BY <1>1, <1>2, BlobsStay
<1> QED
  BY <1>11, <1>12, <1>13, <1>14 DEF IInv

\* A roll seals the last segment and opens the next one past the start of it.
LEMMA RollStays == ASSUME IInv, ~ PersistFails, SealAndRoll PROVE IInv'
<1> DEFINE a == ActiveId(mem)
           n == Len(mem)
           b == BoundsOf(log, hot[a])
           s == [mem EXCEPT ![n].first = b.min, ![n].last = b.max]
<1>1. Typed /\ ManifestIsWhole /\ LoggedBlobsAreStored
  BY DEF IInv
<1>2. /\ isOpen /\ moving = NotMoving /\ hot[a] # {}
      /\ UNCHANGED <<log, hot, cold, isOpen, moving, crashes, refs, stored, put>>
  BY OfStateIs DEF SealAndRoll, Idle, blobVars
<1>3. mem \in Seq(Entries) /\ Whole(mem, log, hot, cold)
  BY <1>1, <1>2, MemIsWhole
<1>4. hot \in FilesType /\ cold \in FilesType /\ LogType(log, hot) /\ MaxEvents \in Nat
  BY <1>1, TypedIs
<1>5. ActiveIsLast(mem, log, hot, cold)
  BY <1>3 DEF Whole
<1>6. /\ \A i \in DOMAIN mem : mem[i] \in Entries
      /\ a \in Names /\ n \in DOMAIN mem /\ DOMAIN mem = 1 .. n /\ n \in Nat /\ n > 0
  <2>1. Len(mem) > 0
    BY <1>5 DEF ActiveIsLast
  <2> QED
    BY <1>3, <2>1, EntryIs
<1>7. PICK at \in b.min + 1 .. Clock : mem' = s \o <<NextSegment(at)>> /\ disk' = mem'
  <2>1. PICK at \in Bounds(hot[Active.id]).min + 1 .. Clock :
           LET c == Bounds(hot[Active.id])
           IN  Persist([mem EXCEPT ![Len(mem)].first = c.min, ![Len(mem)].last = c.max]
                          \o <<NextSegment(at)>>)
    BY DEF SealAndRoll
  <2>2. Bounds(hot[Active.id]) = b
    BY OfStateIs
  <2>3. Persist(s \o <<NextSegment(at)>>)
    BY <2>1, <2>2
  <2> HIDE DEF s, b
  <2>4. mem' = s \o <<NextSegment(at)>> /\ disk' = mem'
    BY <2>3 DEF Persist
  <2> QED
    BY <2>1, <2>2, <2>4
<1>8. /\ b.min \in 0 .. MaxEvents /\ b.max \in 0 .. MaxEvents
      /\ \E p \in hot[a] : b.min = log[p]
  BY <1>2, <1>4, <1>6, BoundsAre
<1> HIDE DEF b
<1>9. a <= b.min
  BY <1>5, <1>8 DEF ActiveIsLast
<1>10. /\ at \in Names /\ a < at /\ at <= ClockOf(log)
  <2>1. ClockOf(log) \in 0 .. MaxEvents /\ Clock = ClockOf(log) /\ Len(log) \in Nat
    BY <1>1, <1>4, TypedIs, OfStateIs DEF LogType
  <2>2. at \in Int /\ b.min + 1 <= at /\ at <= ClockOf(log) /\ b.min \in Nat /\ a \in Nat
    BY <1>6, <1>8, <2>1 DEF Names
  <2> QED
    BY <1>4, <1>9, <2>1, <2>2 DEF Names
<1>11. NextSegment(at) \in Entries /\ NextSegment(at).id = at /\ NextSegment(at).tier = "Hot"
  BY <1>10 DEF NextSegment, Entry, Entries, Tiers, Names
<1>12. /\ s \in Seq(Entries) /\ Len(s) = n /\ DOMAIN s = 1 .. n
       /\ \A i \in 1 .. n : s[i].id = mem[i].id /\ s[i].tier = mem[i].tier
       /\ s[n].first = b.min /\ \A i \in 1 .. n - 1 : s[i].first = mem[i].first
  <2> DEFINE e == [[mem[n] EXCEPT !.first = b.min] EXCEPT !.last = b.max]
  <2>1. mem[n] \in Entries /\ b.min \in Nat /\ b.max \in Nat
    BY <1>6, <1>8
  <2>2. e \in Entries /\ e.id = mem[n].id /\ e.tier = mem[n].tier /\ e.first = b.min
    BY <2>1 DEF Entries
  <2>3. s = [i \in 1 .. n |-> IF i = n THEN e ELSE mem[i]]
    BY <1>6
  <2> HIDE DEF e, s
  <2>4. \A i \in 1 .. n : s[i] \in Entries /\ s[i].id = mem[i].id /\ s[i].tier = mem[i].tier
    BY <1>6, <2>2, <2>3
  <2>5. s \in [1 .. n -> Entries]
    BY <2>3, <2>4
  <2>6. s[n].first = b.min /\ \A i \in 1 .. n - 1 : s[i].first = mem[i].first
    <3> HIDE DEF n
    <3>1. n \in 1 .. n /\ \A i \in 1 .. n - 1 : i \in 1 .. n /\ i # n
      BY <1>6
    <3> QED
      BY <2>2, <2>3, <3>1
  <2> QED
    BY <1>6, <2>4, <2>5, <2>6
<1> HIDE DEF s
<1> DEFINE k == s \o <<NextSegment(at)>>
           e == NextSegment(at)
<1>13. /\ k \in Seq(Entries) /\ Len(k) = n + 1 /\ k[n + 1] = e
       /\ \A i \in 1 .. n : k[i] = s[i]
  <2>1. e \in Entries
    BY <1>11
  <2>2. k = s \o <<e>>
    OBVIOUS
  <2> HIDE DEF e, k, n
  <2> QED
    BY <1>6, <1>12, <2>1, <2>2
<1> HIDE DEF k, e
<1>14. ActiveId(k) = at /\ k[Len(k)].tier = "Hot"
  BY <1>11, <1>13 DEF ActiveId, e
<1>15. \A i \in DOMAIN mem : k[i].id = mem[i].id /\ k[i].tier = mem[i].tier
  BY <1>6, <1>12, <1>13
<1>16. Whole(k, log, hot, cold)
  BY <1>3, <1>4, <1>10, <1>13, <1>14, <1>15, RollIsWhole
<1>17. mem' = k /\ disk' = k
  BY <1>7 DEF k
<1>18. Typed'
  BY <1>1, <1>2, <1>13, <1>17 DEF Typed, TypeOK, LogType, ClockOf
<1>19. ManifestIsWhole'
  <2>1. k # <<>>
    BY <1>6, <1>13
  <2>2. FirstsGrow(k, log, hot)
    <3>1. FirstsGrow(mem, log, hot)
      BY <1>1, <1>2 DEF ManifestIsWhole
    <3>2. b.min \in Nat /\ b.min < at
      BY <1>7, <1>8, <1>10 DEF Names
    <3>3. hot[at] = {}
      BY <1>5, <1>6, <1>10 DEF ActiveIsLast, Names
    <3>4. k[Len(k)].first = at /\ k[Len(mem)].first = b.min
      BY <1>6, <1>12, <1>13 DEF e, NextSegment, Entry
    <3>5. \A i \in 1 .. Len(mem) - 1 : k[i].first = mem[i].first
      BY <1>6, <1>12, <1>13
    <3> HIDE DEF a, n
    <3> QED
      BY <1>3, <1>4, <1>6, <1>8, <1>10, <1>13, <1>14, <3>1, <3>2, <3>3, <3>4, <3>5, RollGrows
         DEF a, n
  <2> QED
    BY <1>2, <1>16, <1>17, <1>18, <2>1, <2>2, ManifestChanges
<1>20. MoveIsSafe'
  BY <1>2 DEF MoveIsSafe, NotMoving
<1>21. LoggedBlobsAreStored'
  BY <1>1, <1>2, BlobsStay
<1> QED
  BY <1>18, <1>19, <1>20, <1>21 DEF IInv

\* A fresh log is one empty segment.
LEMMA InitStarts == ASSUME Init PROVE IInv
<1>1. /\ log = <<>> /\ hot = [x \in Names |-> {}] /\ cold = [x \in Names |-> {}]
      /\ disk = <<>> /\ mem = <<>> /\ isOpen = FALSE /\ moving = NotMoving /\ crashes = 0
      /\ refs = <<>> /\ stored = {} /\ put = {}
  BY DEF Init
<1>2. MaxEvents \in Nat /\ MaxCrash \in Nat /\ Primary \in Names
  BY SegmentsAssumption DEF Primary, Names
<1>3. TypeOK
  <2>1. log \in Seq(Nat) /\ disk \in Seq(Entries) /\ mem \in Seq(Entries)
        /\ refs \in Seq(SUBSET Blobs)
    BY <1>1
  <2>2. moving \in [id : Names, step : {"none", "begun", "copied", "moved"}]
    BY <1>1, <1>2 DEF NotMoving
  <2>3. isOpen \in BOOLEAN
    BY <1>1
  <2>4. hot \in [Names -> SUBSET (1 .. MaxEvents)] /\ cold \in [Names -> SUBSET (1 .. MaxEvents)]
    BY <1>1
  <2>5. crashes \in 0 .. MaxCrash /\ put \subseteq Blobs /\ stored \subseteq Blobs
    BY <1>1, <1>2
  <2> QED
    BY <2>1, <2>2, <2>3, <2>4, <2>5 DEF TypeOK
<1>4. ClockOf(log) = 0 /\ Len(log) = 0 /\ Len(refs) = 0
  BY <1>1 DEF ClockOf
<1>5. LogType(log, hot)
  <2>1. log \in Seq(0 .. MaxEvents)
    BY <1>1
  <2>2. \A x \in Names : hot[x] = {}
    BY <1>1
  <2> QED
    BY <1>2, <1>4, <2>1, <2>2 DEF LogType
<1>6. Typed
  BY <1>1, <1>3, <1>4, <1>5 DEF Typed
<1>7. ManifestIsWhole
  <2> DEFINE m == ImplicitOf(log, hot)
  <2>1. m \in Seq(Entries) /\ Len(m) = 1 /\ m[1].id = Primary /\ m[1].tier = "Hot"
    BY <1>5, ImplicitIs
  <2>2. OnOpen = m
    BY <1>1, OfStateIs DEF OnOpen
  <2> HIDE DEF m
  <2>3. ActiveId(m) = 0 /\ m[Len(m)].tier = "Hot"
    BY <2>1 DEF ActiveId, Primary
  <2>4. \A x \in Names : hot[x] = {} /\ cold[x] = {}
    BY <1>1
  <2>5. hot[0] = {}
    BY <1>2, <2>4 DEF Primary
  <2>6. \A i \in 1 .. Len(m) - 1 : FALSE
    BY <2>1
  <2>7. ActiveIsLast(m, log, hot, cold)
    BY <1>4, <2>1, <2>3, <2>4, <2>5, <2>6 DEF ActiveIsLast
  <2>8. DOMAIN m = {1}
    BY <2>1
  <2>9. ColdIsMoved(m, hot)
    BY <2>1, <2>8 DEF ColdIsMoved
  <2>10. Holds(m, log, hot, cold)
    BY <1>4 DEF Holds
  <2>11. Consecutive(m, log, hot, cold)
    <3> DEFINE ends == [i \in 0 .. 1 |-> 0]
    <3>1. FileOf(m[1], hot, cold) = {}
      BY <2>1, <2>4, <1>2 DEF FileOf
    <3>2. Tiles(m, log, hot, cold, ends)
      BY <1>4, <2>1, <2>8, <3>1 DEF Tiles
    <3> QED
      BY <2>1, <3>2 DEF Consecutive
  <2>12. FirstsGrow(m, log, hot)
    BY <1>5, ImplicitGrows DEF m
  <2> QED
    BY <1>1, <2>2, <2>7, <2>9, <2>10, <2>11, <2>12 DEF ManifestIsWhole, Whole
<1>8. MoveIsSafe
  BY <1>1 DEF MoveIsSafe
<1>9. LoggedBlobsAreStored
  BY <1>1 DEF LoggedBlobsAreStored
<1> QED
  BY <1>6, <1>7, <1>8, <1>9 DEF IInv

\* Every step, and a stuttering one, keeps the invariant.
LEMMA NextStays == ASSUME IInv, ~ PersistFails, [Next]_vars PROVE IInv'
<1>1. CASE UNCHANGED vars
  <2>1. /\ UNCHANGED <<log, hot, cold, disk, mem, isOpen, moving, crashes, refs, stored, put>>
        /\ Typed /\ ManifestIsWhole /\ MoveIsSafe /\ LoggedBlobsAreStored
    BY <1>1 DEF vars, blobVars, IInv
  <2>2. Typed'
    BY <2>1 DEF Typed, TypeOK, LogType, ClockOf
  <2>3. ManifestIsWhole'
    BY <2>1, <2>2, OthersStay
  <2>4. MoveIsSafe'
    BY <2>1 DEF MoveIsSafe, NotMoving, IsSealed
  <2>5. LoggedBlobsAreStored'
    BY <2>1, BlobsStay
  <2> QED
    BY <2>2, <2>3, <2>4, <2>5 DEF IInv
<1>2. CASE Next
  BY <1>2, OpenStays, PutStays, SweepStays, AppendStays, RollStays, CrashStays, BeginStays,
     MovingStays, FlipStays DEF Next
<1> QED
  BY <1>1, <1>2

\* The invariant holds of every reachable state, unless the write of a manifest may fail.
LEMMA InvariantIsKept == ASSUME ~ PersistFails PROVE Spec => []IInv
<1>1. Init => IInv
  BY InitStarts
<1>2. IInv /\ [Next]_vars => IInv'
  BY NextStays
<1> QED
  BY <1>1, <1>2, PTL DEF Spec

-----------------------------------------------------------------------------
\* What is loaded.

\* Numbers that increase and have no room to skip one are consecutive.
LEMMA IncreasingIs ==
    ASSUME NEW a \in Nat, NEW n \in Nat, NEW s \in [1 .. n -> a + 1 .. a + n],
           \A i, j \in 1 .. n : i < j => s[i] < s[j]
    PROVE  \A i \in 1 .. n : s[i] = a + i
<1> DEFINE Low == {i \in 1 .. n : s[i] < a + i}
           High == {n - i : i \in {j \in 1 .. n : a + j < s[j]}}
<1>1. \A i \in 1 .. n : s[i] \in a + 1 .. a + n /\ s[i] \in Int /\ i \in Int
  OBVIOUS
<1>2. Low = {}
  <2> SUFFICES ASSUME Low # {} PROVE FALSE
    OBVIOUS
  <2>1. Low \in SUBSET Nat
    OBVIOUS
  <2>2. PICK i \in Low : \A j \in Low : i <= j
    <3> HIDE DEF Low
    <3> QED
      BY <2>1, NatMin
  <2>3. i \in 1 .. n /\ s[i] < a + i
    OBVIOUS
  <2>4. i # 1
    BY <1>1, <2>3
  <2>5. i - 1 \in 1 .. n /\ i - 1 < i
    BY <2>3, <2>4
  <2>6. ~ (s[i - 1] < a + (i - 1))
    BY <1>1, <2>2, <2>3, <2>5
  <2>7. s[i - 1] < s[i]
    BY <2>3, <2>5
  <2>8. s[i - 1] \in Int /\ s[i] \in Int /\ i \in Int
    BY <1>1, <2>3, <2>5
  <2> QED
    BY <2>3, <2>6, <2>7, <2>8
<1>3. High = {}
  <2> SUFFICES ASSUME High # {} PROVE FALSE
    OBVIOUS
  <2>1. High \in SUBSET Nat
    OBVIOUS
  <2>2. PICK d \in High : \A e \in High : d <= e
    <3> HIDE DEF High
    <3> QED
      BY <2>1, NatMin
  <2>3. PICK i \in 1 .. n : d = n - i /\ a + i < s[i]
    OBVIOUS
  <2>4. i # n
    BY <1>1, <2>3
  <2>5. i + 1 \in 1 .. n /\ i < i + 1
    BY <2>3, <2>4
  <2>6. s[i] < s[i + 1]
    BY <2>3, <2>5
  <2>7. s[i + 1] \in Int /\ s[i] \in Int /\ i \in Int
    BY <1>1, <2>3, <2>5
  <2>8. a + (i + 1) < s[i + 1]
    BY <2>3, <2>6, <2>7
  <2>9. n - (i + 1) \in High
    BY <2>5, <2>8
  <2>10. d <= n - (i + 1)
    <3> HIDE DEF High
    <3> QED
      BY <2>2, <2>9
  <2> QED
    BY <2>3, <2>7, <2>10
<1>4. \A i \in 1 .. n : ~ (s[i] < a + i) /\ ~ (a + i < s[i])
  BY <1>2, <1>3
<1> HIDE DEF Low, High
<1> SUFFICES ASSUME NEW i \in 1 .. n PROVE s[i] = a + i
  OBVIOUS
<1>5. s[i] \in Int /\ a + i \in Int
  BY <1>1
<1>6. ~ (s[i] < a + i) /\ ~ (a + i < s[i])
  BY <1>4
<1>7. \A x, y \in Int : ~ (x < y) /\ ~ (y < x) => x = y
  OBVIOUS
<1> QED
  BY ONLY <1>5, <1>6, <1>7

\* A stretch of the log in its order.
LEMMA InOrderIs ==
    ASSUME NEW a \in Nat, NEW b \in Nat, a <= b
    PROVE  InOrder(a + 1 .. b) = [i \in 1 .. b - a |-> a + i]
<1> DEFINE n == b - a
           file == a + 1 .. b
           Is(s) == \A i, j \in DOMAIN s : i < j => s[i] < s[j]
           o == [i \in 1 .. n |-> a + i]
<1>1. n \in Nat /\ b = a + n
  OBVIOUS
<1>2. Cardinality(file) = n
  <2>1. a + 1 \in Int /\ b \in Int
    OBVIOUS
  <2>2. Cardinality(file) = IF a + 1 > b THEN 0 ELSE b - (a + 1) + 1
    BY <2>1, FS_Interval
  <2> QED
    BY <2>2
<1>3. o \in [1 .. n -> file] /\ Is(o)
  BY <1>1
<1>4. InOrder(file) = CHOOSE s \in [1 .. n -> file] : Is(s)
  BY <1>2 DEF InOrder
<1> DEFINE c == CHOOSE s \in [1 .. n -> file] : Is(s)
<1>5. c \in [1 .. n -> file] /\ Is(c)
  BY <1>3
<1> HIDE DEF c
<1>6. \A i \in 1 .. n : c[i] = a + i
  <2>1. c \in [1 .. n -> a + 1 .. a + n]
    BY <1>1, <1>5
  <2>2. \A i, j \in 1 .. n : i < j => c[i] < c[j]
    BY <1>5
  <2> HIDE DEF n
  <2> QED
    BY <1>1, <2>1, <2>2, IncreasingIs
<1>7. c = o
  BY <1>5, <1>6
<1> QED
  BY <1>4, <1>7 DEF c

\* Two stretches of the log that follow each other are one.
LEMMA StretchesJoin ==
    ASSUME NEW a \in Nat, NEW b \in Nat, a <= b
    PROVE  [i \in 1 .. a |-> i] \o [i \in 1 .. b - a |-> a + i] = [i \in 1 .. b |-> i]
<1> DEFINE s == [i \in 1 .. a |-> i]
           t == [i \in 1 .. b - a |-> a + i]
<1>1. b - a \in Nat
  OBVIOUS
<1>2. s \in Seq(Nat) /\ Len(s) = a
  OBVIOUS
<1>3. t \in Seq(Nat) /\ Len(t) = b - a
  BY <1>1
<1>4. s \o t = [i \in 1 .. Len(s) + Len(t) |->
                  IF i <= Len(s) THEN s[i] ELSE t[i - Len(s)]]
  BY <1>2, <1>3
<1>5. Len(s) + Len(t) = b
  BY <1>2, <1>3
<1>6. ASSUME NEW i \in 1 .. b
      PROVE  (IF i <= Len(s) THEN s[i] ELSE t[i - Len(s)]) = i
  <2>1. CASE i <= a
    BY <1>2, <2>1
  <2>2. CASE ~ (i <= a)
    <3>1. i - a \in 1 .. b - a
      BY <2>2
    <3>2. t[i - a] = a + (i - a)
      BY <3>1
    <3> QED
      BY <1>2, <2>2, <3>2
  <2> QED
    BY <2>1, <2>2
<1> QED
  BY <1>4, <1>5, <1>6

\* An order of the segments by their first ticks.
IsBefore(m, i, j) == \/ m[i].first < m[j].first
                     \/ m[i].first = m[j].first /\ i < j
IsOrder(m, n, o) == \A i, j \in 1 .. n : i < j => IsBefore(m, o[i], o[j])

\* The segments of a manifest whose first ticks grow are loaded in its order.
LEMMA OrderIs ==
    ASSUME NEW m, NEW n \in Nat, \A i \in 1 .. n : m[i].first \in Nat,
           \A i, j \in 1 .. n : i < j => m[i].first < m[j].first,
           NEW o \in [1 .. n -> 1 .. n], IsOrder(m, n, o)
    PROVE  \A i \in 1 .. n : o[i] = i
<1>1. ASSUME NEW i \in 1 .. n, NEW j \in 1 .. n, i < j PROVE o[i] < o[j]
  <2>0. IsBefore(m, o[i], o[j])
    BY <1>1 DEF IsOrder
  <2> DEFINE x == o[i]
             y == o[j]
  <2>1. x \in 1 .. n /\ y \in 1 .. n
    OBVIOUS
  <2>2. m[x].first < m[y].first \/ (m[x].first = m[y].first /\ x < y)
    BY <2>0 DEF IsBefore
  <2>3. m[x].first \in Nat /\ m[y].first \in Nat
    BY <2>1
  <2>4. y < x => m[y].first < m[x].first
    BY <2>1
  <2> DEFINE u == m[x].first
             v == m[y].first
  <2>5. /\ u \in Nat /\ v \in Nat /\ (u < v \/ (u = v /\ x < y))
        /\ (y < x => v < u) /\ (x = y => u = v)
    BY <2>2, <2>3, <2>4
  <2> HIDE DEF x, y, u, v
  <2>6. x < y
    BY <2>1, <2>5
  <2> QED
    BY <2>6 DEF x, y
<1>2. 0 \in Nat /\ o \in [1 .. n -> 0 + 1 .. 0 + n]
  OBVIOUS
<1>3. \A i \in 1 .. n : o[i] = 0 + i
  BY <1>1, <1>2, IncreasingIs
<1> QED
  BY <1>3

\* What is loaded of a manifest whose segments hold consecutive stretches is the log.
LEMMA LoadedIs ==
    ASSUME NEW m \in Seq(Entries), Len(m) > 0, FirstsGrow(m, log, hot),
           Consecutive(m, log, hot, cold), log \in Seq(Nat)
    PROVE  Loaded(m) = [p \in 1 .. Len(log) |-> p]
<1> DEFINE n == Len(m)
           Ordered(o) ==
               \A i, j \in 1 .. n :
                   i < j => \/ m[o[i]].first < m[o[j]].first
                            \/ m[o[i]].first = m[o[j]].first /\ o[i] < o[j]
           order == CHOOSE o \in [1 .. n -> 1 .. n] : Ordered(o)
           Is(f) == f = [k \in 0 .. n |->
                            IF k = 0 THEN <<>> ELSE f[k - 1] \o InOrder(File(m[order[k]]))]
           f == CHOOSE g : Is(g)
<1>1. n \in Nat /\ n > 0 /\ DOMAIN m = 1 .. n /\ \A i \in 1 .. n : m[i].first \in Nat
  <2>1. n \in Nat /\ n > 0 /\ DOMAIN m = 1 .. n
    OBVIOUS
  <2>2. \A i \in 1 .. n : m[i] \in Entries
    OBVIOUS
  <2> QED
    BY <2>1, <2>2 DEF Entries
<1>2. Loaded(m) = f[n]
  BY DEF Loaded
<1>3. \A i, j \in 1 .. n : i < j => m[i].first < m[j].first
  BY <1>1 DEF FirstsGrow
<1>4. order \in [1 .. n -> 1 .. n] /\ \A i \in 1 .. n : order[i] = i
  <2> DEFINE id == [i \in 1 .. n |-> i]
  <2>1. id \in [1 .. n -> 1 .. n] /\ Ordered(id)
    BY <1>3
  <2>2. order \in [1 .. n -> 1 .. n] /\ IsOrder(m, n, order)
    <3>1. order \in [1 .. n -> 1 .. n] /\ Ordered(order)
      <4> HIDE DEF id, Ordered
      <4> QED
        BY <2>1
    <3> HIDE DEF order
    <3>2. Ordered(order) => IsOrder(m, n, order)
      BY DEF IsOrder, IsBefore
    <3> QED
      BY <3>1, <3>2
  <2> HIDE DEF order, n
  <2>3. \A i \in 1 .. n : order[i] = i
    BY <1>1, <1>3, <2>2, OrderIs
  <2> QED
    BY <2>2, <2>3
<1>5. PICK ends \in [0 .. n -> Nat] : Tiles(m, log, hot, cold, ends)
  BY DEF Consecutive
<1> HIDE DEF order
<1>6. \A k \in 1 .. n :
         /\ ends[k - 1] \in Nat /\ ends[k] \in Nat /\ ends[k - 1] <= ends[k]
         /\ File(m[order[k]]) = ends[k - 1] + 1 .. ends[k]
  <2> SUFFICES ASSUME NEW k \in 1 .. n
               PROVE  /\ ends[k - 1] \in Nat /\ ends[k] \in Nat /\ ends[k - 1] <= ends[k]
                      /\ File(m[order[k]]) = ends[k - 1] + 1 .. ends[k]
    OBVIOUS
  <2>1. k - 1 \in 0 .. n /\ k \in 0 .. n /\ k \in DOMAIN m
    BY <1>1
  <2>2. ends[k - 1] <= ends[k] /\ FileOf(m[k], hot, cold) = ends[k - 1] + 1 .. ends[k]
    BY <1>5, <2>1 DEF Tiles
  <2>3. File(m[k]) = FileOf(m[k], hot, cold)
    BY OfStateIs
  <2> QED
    BY <1>4, <1>5, <2>1, <2>2, <2>3
<1> DEFINE g == [k \in 0 .. n |-> [i \in 1 .. ends[k] |-> i]]
<1>7. \A k \in 1 .. n : g[k] = g[k - 1] \o InOrder(File(m[order[k]]))
  <2> SUFFICES ASSUME NEW k \in 1 .. n
               PROVE  g[k] = g[k - 1] \o InOrder(File(m[order[k]]))
    OBVIOUS
  <2> DEFINE a == ends[k - 1]
             b == ends[k]
  <2>1. a \in Nat /\ b \in Nat /\ a <= b /\ File(m[order[k]]) = a + 1 .. b
    BY <1>6
  <2>2. k - 1 \in 0 .. n /\ k \in 0 .. n
    BY <1>1
  <2>3. g[k] = [i \in 1 .. b |-> i] /\ g[k - 1] = [i \in 1 .. a |-> i]
    BY <2>2
  <2> HIDE DEF a, b, g, n
  <2>4. InOrder(a + 1 .. b) = [i \in 1 .. b - a |-> a + i]
    BY <2>1, InOrderIs
  <2>5. [i \in 1 .. a |-> i] \o [i \in 1 .. b - a |-> a + i] = [i \in 1 .. b |-> i]
    BY <2>1, StretchesJoin
  <2> QED
    BY <2>1, <2>3, <2>4, <2>5
<1>8. g[0] = <<>>
  <2>1. ends[0] = 0 /\ 0 \in 0 .. n
    BY <1>1, <1>5 DEF Tiles
  <2>2. g[0] = [i \in 1 .. 0 |-> i]
    BY <2>1
  <2> QED
    BY <2>2
<1>9. Is(g)
  <2>1. ASSUME NEW k \in 0 .. n
        PROVE  g[k] = IF k = 0 THEN <<>> ELSE g[k - 1] \o InOrder(File(m[order[k]]))
    <3> HIDE DEF g, n
    <3>1. CASE k = 0
      BY <1>8, <3>1
    <3>2. CASE k # 0
      <4>1. k \in 1 .. n
        BY <1>1, <3>2
      <4> QED
        BY <1>7, <3>2, <4>1
    <3> QED
      BY <3>1, <3>2
  <2>2. g = [k \in 0 .. n |-> g[k]]
    OBVIOUS
  <2> HIDE DEF g
  <2>3. [k \in 0 .. n |-> g[k]]
          = [k \in 0 .. n |-> IF k = 0 THEN <<>> ELSE g[k - 1] \o InOrder(File(m[order[k]]))]
    BY <2>1
  <2> QED
    BY <2>2, <2>3
<1>10. Is(f)
  <2> HIDE DEF Is, g
  <2> QED
    BY <1>9
<1> HIDE DEF f
<1>11. \A k \in 0 .. n : f[k] = g[k]
  <2>1. /\ f[0] = <<>>
        /\ \A k \in 1 .. n : f[k] = f[k - 1] \o InOrder(File(m[order[k]]))
    <3>1. \A k \in 0 .. n :
             f[k] = IF k = 0 THEN <<>> ELSE f[k - 1] \o InOrder(File(m[order[k]]))
      BY <1>10
    <3>2. 0 \in 0 .. n /\ \A k \in 1 .. n : k \in 0 .. n /\ k # 0
      BY <1>1
    <3> QED
      BY <3>1, <3>2
  <2> DEFINE Bad == {k \in 0 .. n : f[k] # g[k]}
  <2> SUFFICES ASSUME Bad # {} PROVE FALSE
    OBVIOUS
  <2> HIDE DEF g, n
  <2>2. Bad \in SUBSET Nat
    BY <1>1
  <2>3. PICK k \in Bad : \A j \in Bad : k <= j
    <3> HIDE DEF Bad
    <3> QED
      BY <2>2, NatMin
  <2>4. k \in 0 .. n /\ f[k] # g[k]
    OBVIOUS
  <2>5. k # 0
    BY <1>8, <2>1, <2>4
  <2>6. k \in 1 .. n /\ k - 1 \in 0 .. n /\ ~ (k <= k - 1)
    BY <1>1, <2>4, <2>5
  <2>7. f[k - 1] = g[k - 1]
    BY <2>3, <2>6
  <2> QED
    BY <1>7, <2>1, <2>4, <2>6, <2>7
<1>12. n \in 0 .. n /\ ends[n] = Len(log)
  BY <1>1, <1>5 DEF Tiles
<1>13. f[n] = [i \in 1 .. Len(log) |-> i]
  BY <1>11, <1>12
<1> QED
  BY <1>2, <1>13

\* The log that is open, or else the one a process opening it would get, is what was appended.
NowLoaded == Loaded(IF isOpen THEN mem ELSE OnOpen)
NowIsLog == NowLoaded = [p \in 1 .. Len(log) |-> p]

\* No state the steps reach loads anything but the events appended, in their order.
LEMMA LogIsLoaded == IInv => NowIsLog
<1> SUFFICES ASSUME IInv PROVE NowIsLog
  OBVIOUS
<1> DEFINE m == IF isOpen THEN mem ELSE OnOpen
<1>1. ManifestIsWhole /\ log \in Seq(Nat) /\ mem \in Seq(Entries) /\ OnOpen \in Seq(Entries)
  BY OnOpenIs DEF IInv, Typed, TypeOK
<1>2. m \in Seq(Entries)
  BY <1>1
<1>3. Whole(m, log, hot, cold) /\ FirstsGrow(m, log, hot)
  <2>1. CASE isOpen
    BY <1>1, <1>2, <2>1, SameIsWhole DEF ManifestIsWhole
  <2>2. CASE ~ isOpen
    BY <1>1, <2>2 DEF ManifestIsWhole
  <2> QED
    BY <2>1, <2>2
<1> HIDE DEF m
<1>4. Loaded(m) = [p \in 1 .. Len(log) |-> p]
  BY <1>1, <1>2, <1>3, LoadedIs DEF Whole, ActiveIsLast
<1> QED
  BY <1>4 DEF NowIsLog, NowLoaded, m

\* A step appends one event to the log or leaves it as it is.
LEMMA LogGrows ==
    ASSUME [Next]_vars
    PROVE  log' = log \/ (Len(log) < MaxEvents /\ \E t : log' = Append(log, t))
<1>1. CASE AppendEvent
  BY <1>1 DEF AppendEvent
<1>2. CASE Next /\ ~ AppendEvent
  BY <1>2
     DEF Next, Open, PutBlob, SweepBlobs, SealAndRoll, Crash, BeginMove, Rename, Copy,
         RemoveSource, FlipTier
<1>3. CASE UNCHANGED vars
  BY <1>3 DEF vars
<1> QED
  BY <1>1, <1>2, <1>3

-----------------------------------------------------------------------------
\* Unless the write of a manifest fails, no event of the log refers to a blob that was
\* reclaimed, for any rolls, moves, crashes and sweeps in any order (sweep_blobs).
THEOREM BlobsAreKept == ASSUME ~ PersistFails PROVE Spec => []LoggedBlobsAreStored
<1>1. IInv => LoggedBlobsAreStored
  BY DEF IInv
<1> QED
  BY <1>1, InvariantIsKept, PTL

\* Every event is in a file of a segment that a process opening the log now would find, and
\* one that has it open finds.
EventsAreNamed ==
    \A p \in 1 .. Len(log) :
        \E i \in DOMAIN OnOpen :
            p \in File(OnOpen[i]) /\ (isOpen => i \in DOMAIN mem /\ p \in File(mem[i]))

\* Unless the write of a manifest fails, no event appended is ever lost from the segments the
\* manifest names, neither by a crash in a roll nor by one in a move, between any two of its
\* steps (SegmentedEventLog::open, load).
THEOREM EventsAreKept == ASSUME ~ PersistFails PROVE Spec => []EventsAreNamed
<1>1. ASSUME IInv PROVE EventsAreNamed
  <2>1. ManifestIsWhole
    BY <1>1 DEF IInv
  <2> SUFFICES ASSUME NEW p \in 1 .. Len(log)
               PROVE  \E i \in DOMAIN OnOpen :
                         /\ p \in File(OnOpen[i])
                         /\ isOpen => i \in DOMAIN mem /\ p \in File(mem[i])
    BY DEF EventsAreNamed
  <2>2. PICK i \in DOMAIN OnOpen : p \in FileOf(OnOpen[i], hot, cold)
    BY <2>1 DEF ManifestIsWhole, Whole, Holds
  <2>3. ASSUME isOpen
        PROVE  i \in DOMAIN mem /\ FileOf(mem[i], hot, cold) = FileOf(OnOpen[i], hot, cold)
    BY <2>1, <2>3 DEF ManifestIsWhole, SameNames, FileOf
  <2>4. p \in File(OnOpen[i]) /\ (isOpen => i \in DOMAIN mem /\ p \in File(mem[i]))
    BY <2>2, <2>3, OfStateIs
  <2> QED
    BY <2>4
<1> QED
  BY <1>1, InvariantIsKept, PTL

\* The files, the manifests, the blobs and the move in progress have their types.
THEOREM TypesAreKept == ASSUME ~ PersistFails PROVE Spec => []TypeOK
<1>1. IInv => TypeOK
  BY DEF IInv, Typed
<1> QED
  BY <1>1, InvariantIsKept, PTL

\* Unless the write of a manifest fails, the segmented log is a log: what is loaded grows by
\* the event appended, at its end, and no roll, move, crash or sweep, between any two of
\* their steps, is visible in it (EventLog, SegmentedEventLog::load).
THEOREM LogIsImplemented == ASSUME ~ PersistFails PROVE Spec => ImplementsLog
<1>1. ASSUME Init PROVE Stream!Init
  <2>1. NowIsLog
    BY <1>1, InitStarts, LogIsLoaded
  <2>2. log = <<>>
    BY <1>1 DEF Init
  <2> QED
    BY <2>1, <2>2 DEF NowIsLog, NowLoaded, Stream!Init
<1>2. ASSUME IInv, NowIsLog, NowIsLog', [Next]_vars
      PROVE  NowLoaded' = NowLoaded \/ \E e \in 1 .. MaxEvents : NowLoaded' = Append(NowLoaded, e)
  <2>1. log \in Seq(Nat) /\ Len(log) \in Nat /\ MaxEvents \in Nat
    BY <1>2, SegmentsAssumption DEF IInv, Typed, TypeOK
  <2>2. CASE log' = log
    BY <1>2, <2>2 DEF NowIsLog
  <2>3. CASE Len(log) < MaxEvents /\ \E t : log' = Append(log, t)
    <3>1. Len(log') = Len(log) + 1 /\ Len(log) + 1 \in 1 .. MaxEvents
      BY <2>1, <2>3
    <3> DEFINE s == [p \in 1 .. Len(log) |-> p]
               n == Len(log)
    <3>2. NowLoaded = s /\ NowLoaded' = [p \in 1 .. n + 1 |-> p]
      BY <1>2, <3>1 DEF NowIsLog
    <3>3. [p \in 1 .. n + 1 |-> p] = Append(s, n + 1)
      BY <2>1
    <3> QED
      BY <3>1, <3>2, <3>3
  <2> QED
    BY <1>2, <2>2, <2>3, LogGrows
<1>3. IInv /\ NowIsLog /\ NowIsLog' /\ [Next]_vars
        => [Stream!AppendEvent]_(Loaded(IF isOpen THEN mem ELSE OnOpen))
  BY <1>2 DEF NowLoaded, Stream!AppendEvent
<1>4. Spec => []IInv
  BY InvariantIsKept
<1> QED
  BY <1>1, <1>3, <1>4, LogIsLoaded, PTL DEF Spec, ImplementsLog, Stream!Spec
===============================================================================
