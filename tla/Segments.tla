------------------------------ MODULE Segments ------------------------------
(***************************************************************************)
(* The segmented event log (src/agent/world/segment.rs): one stream kept   *)
(* in tick-ordered segments.  The last segment takes the appends; a sealed *)
(* one is moved to cold storage when a retained snapshot covers it.  The   *)
(* manifest names the segments, and only it survives a crash.              *)
(*                                                                         *)
(* The large blocks of an event are blobs in a store of their own (blob.rs, *)
(* reclaim_blobs).                                                         *)
(*                                                                         *)
(* An event is its position in the stream; log gives its tick.  A file is  *)
(* the set of the events in it, and no file is the empty set.              *)
(***************************************************************************)
EXTENDS Integers, FiniteSets, Sequences, FiniteSetsExt

CONSTANTS
    MaxEvents,    \* bound on the events appended
    MaxCrash,     \* bound on the crashes
    Blobs,        \* the blobs events may refer to
    PersistFails  \* whether the write of a manifest may fail

ASSUME SegmentsAssumption ==
    /\ MaxEvents \in Nat \ {0} /\ MaxCrash \in Nat
    /\ PersistFails \in BOOLEAN

VARIABLES
    log,       \* the ticks of the events appended
    hot, cold, \* the files of the two tiers
    disk,      \* manifest.json, <<>> when there is none
    mem,       \* the manifest of the open log
    isOpen,    \* whether a process has the log open
    refs,      \* the blobs each event refers to
    stored,    \* the blobs in the store
    put,       \* the blobs put for the event being logged
    moving,    \* the segment tier_to_cold is moving, and how far it is
    crashes

blobVars == <<refs, stored, put>>
vars == <<log, hot, cold, disk, mem, isOpen, moving, crashes, blobVars>>

\* "world-events" is 0, and "seg-<t>" is t.
Primary == 0
Names == 0 .. MaxEvents
Tiers == {"Hot", "Cold"}
Entries == [id : Names, first : Nat, last : Nat, tier : Tiers]
Entry(id, first, last) == [id |-> id, first |-> first, last |-> last, tier |-> "Hot"]
NotMoving == [id |-> Primary, step |-> "none"]

Clock == IF log = <<>> THEN 0 ELSE log[Len(log)]
Ticks(file) == {log[p] : p \in file}

\* segment_bounds
Bounds(file) == [min |-> Min(Ticks(file)), max |-> Max(Ticks(file))]

\* open: the manifest, or else the single file as one implicit segment.
Implicit ==
    LET b == IF hot[Primary] = {} THEN [min |-> 0, max |-> 0] ELSE Bounds(hot[Primary])
    IN  <<Entry(Primary, b.min, b.max)>>
OnOpen == IF disk = <<>> THEN Implicit ELSE disk

Init ==
    /\ log = <<>>
    /\ hot = [n \in Names |-> {}] /\ cold = [n \in Names |-> {}]
    /\ disk = <<>> /\ mem = <<>> /\ isOpen = FALSE
    /\ moving = NotMoving /\ crashes = 0
    /\ refs = <<>> /\ stored = {} /\ put = {}

-----------------------------------------------------------------------------
\* Reading.

\* resolve_segment_path: a segment absent at its recorded tier is at the other one.
File(s) ==
    LET here == IF s.tier = "Hot" THEN hot[s.id] ELSE cold[s.id]
        there == IF s.tier = "Hot" THEN cold[s.id] ELSE hot[s.id]
    IN  IF here # {} THEN here ELSE there

\* The events of a file, in its order.
InOrder(file) ==
    CHOOSE s \in [1 .. Cardinality(file) -> file] : \A i, j \in DOMAIN s : i < j => s[i] < s[j]

\* load: the segments by their first tick, the events of each in the order of its file.
Loaded(manifest) ==
    LET n == Len(manifest)
        before(i, j) == \/ manifest[i].first < manifest[j].first
                        \/ manifest[i].first = manifest[j].first /\ i < j
        order == CHOOSE o \in [1 .. n -> 1 .. n] : \A i, j \in 1 .. n : i < j => before(o[i], o[j])
        upto[k \in 0 .. n] ==
            IF k = 0 THEN <<>> ELSE upto[k - 1] \o InOrder(File(manifest[order[k]]))
    IN  upto[n]

-----------------------------------------------------------------------------
\* Writing.

Idle == isOpen /\ moving = NotMoving
Active == mem[Len(mem)]

Open ==
    /\ ~ isOpen
    /\ isOpen' = TRUE /\ mem' = OnOpen
    /\ UNCHANGED <<log, hot, cold, disk, moving, crashes, blobVars>>

\* externalize_blocks, put: a blob is durable before the event that refers to it is logged.
PutBlob ==
    /\ Idle /\ Len(log) < MaxEvents
    /\ \E b \in Blobs : stored' = stored \cup {b} /\ put' = put \cup {b}
    /\ UNCHANGED <<log, hot, cold, disk, mem, isOpen, moving, crashes, refs>>

\* The results of one batch share a tick.
AppendEvent ==
    /\ Idle /\ Len(log) < MaxEvents
    /\ \E t \in {Clock, Clock + 1} : log' = Append(log, t)
    /\ hot' = [hot EXCEPT ![Active.id] = @ \cup {Len(log) + 1}]
    /\ refs' = Append(refs, put) /\ put' = {}
    /\ UNCHANGED <<cold, disk, mem, isOpen, moving, crashes, stored>>

\* Mutation: the new segment is not recorded on disk.
PersistNothing(manifest) == mem' = manifest /\ disk' = disk

\* persist_manifest is atomic; a failure leaves memory ahead of the disk.
Persist(manifest) ==
    /\ mem' = manifest
    /\ disk' \in {manifest} \cup (IF PersistFails THEN {disk} ELSE {})

NextSegment(at) == Entry(at, at, at)

\* seal_and_roll, at the tick of a snapshot: freeze what the open segment covers and open
\* the next one.  Nothing to seal, or no tick past its start, changes nothing.
SealAndRoll ==
    /\ Idle /\ hot[Active.id] # {}
    /\ \E at \in Bounds(hot[Active.id]).min + 1 .. Clock :
          LET b == Bounds(hot[Active.id])
          IN  Persist([mem EXCEPT ![Len(mem)].first = b.min, ![Len(mem)].last = b.max]
                        \o <<NextSegment(at)>>)
    /\ UNCHANGED <<log, hot, cold, isOpen, moving, crashes, blobVars>>

\* cold_storable: the sealed segments that end before the floor and are still hot.
ColdStorable(manifest, floor) ==
    {i \in 1 .. Len(manifest) - 1 : manifest[i].tier = "Hot" /\ manifest[i].last < floor}

\* tier_to_cold: the floor is the tick of the oldest retained snapshot.  A segment whose
\* hot file is gone cannot be moved: move_file fails.
BeginMove ==
    /\ Idle
    /\ \E floor \in 0 .. Clock : \E i \in ColdStorable(mem, floor) :
          /\ hot[mem[i].id] # {}
          /\ moving' = [id |-> mem[i].id, step |-> "begun"]
    /\ UNCHANGED <<log, hot, cold, disk, mem, isOpen, crashes, blobVars>>

\* move_file: one rename, or on another filesystem a durable copy and then the removal.
Rename ==
    /\ moving.step = "begun"
    /\ cold' = [cold EXCEPT ![moving.id] = hot[moving.id]]
    /\ hot' = [hot EXCEPT ![moving.id] = {}]
    /\ moving' = [moving EXCEPT !.step = "moved"]
    /\ UNCHANGED <<log, disk, mem, isOpen, crashes, blobVars>>

Copy ==
    /\ moving.step = "begun"
    /\ cold' = [cold EXCEPT ![moving.id] = hot[moving.id]]
    /\ moving' = [moving EXCEPT !.step = "copied"]
    /\ UNCHANGED <<log, hot, disk, mem, isOpen, crashes, blobVars>>

RemoveSource ==
    /\ moving.step = "copied"
    /\ hot' = [hot EXCEPT ![moving.id] = {}]
    /\ moving' = [moving EXCEPT !.step = "moved"]
    /\ UNCHANGED <<log, cold, disk, mem, isOpen, crashes, blobVars>>

\* The tier is flipped only after the bytes are in cold storage.
FlipTier ==
    /\ moving.step = "moved"
    /\ Persist([i \in DOMAIN mem |->
                  IF mem[i].id = moving.id THEN [mem[i] EXCEPT !.tier = "Cold"] ELSE mem[i]])
    /\ moving' = NotMoving
    /\ UNCHANGED <<log, hot, cold, isOpen, crashes, blobVars>>

Crash ==
    /\ isOpen /\ crashes < MaxCrash
    /\ isOpen' = FALSE /\ mem' = <<>> /\ moving' = NotMoving
    /\ crashes' = crashes + 1 /\ put' = {}
    /\ UNCHANGED <<log, hot, cold, disk, refs, stored>>

\* Mutation: only the segments that are hot are scanned.
RefsOfHot == UNION {refs[p] : p \in UNION {hot[n] : n \in Names}}

\* reachable_blobs, over the retained segments of either tier.
ReachableBlobs == UNION {refs[p] : p \in UNION {File(mem[i]) : i \in DOMAIN mem}}

\* reclaim_blobs: what is stored and not reachable is removed.  It runs on the thread that
\* logs, between two events: an event whose blob is put and that is not logged yet would
\* lose it.
SweepBlobs ==
    /\ Idle /\ put = {}
    /\ stored' = stored \cap ReachableBlobs
    /\ UNCHANGED <<log, hot, cold, disk, mem, isOpen, moving, crashes, refs, put>>

Next ==
    \/ Open \/ PutBlob \/ SweepBlobs \/ AppendEvent \/ SealAndRoll \/ Crash
    \/ BeginMove \/ Rename \/ Copy \/ RemoveSource \/ FlipTier

Spec == Init /\ [][Next]_vars

-----------------------------------------------------------------------------
\* Properties.

\* The files, the two manifests and the move in progress have their types.
TypeOK ==
    /\ log \in Seq(Nat)
    /\ hot \in [Names -> SUBSET (1 .. MaxEvents)] /\ cold \in [Names -> SUBSET (1 .. MaxEvents)]
    /\ disk \in Seq(Entries) /\ mem \in Seq(Entries)
    /\ refs \in Seq(SUBSET Blobs) /\ put \subseteq Blobs /\ stored \subseteq Blobs
    /\ isOpen \in BOOLEAN /\ crashes \in 0 .. MaxCrash
    /\ moving \in [id : Names, step : {"none", "begun", "copied", "moved"}]

\* No event of the log refers to a blob that was reclaimed, wherever its segment is: the
\* bytes are nowhere else (sweep_blobs).
LoggedBlobsAreStored == UNION {refs[p] : p \in DOMAIN refs} \subseteq stored

\* A crash at any step of a roll or of a move loses and duplicates nothing: what is loaded is
\* what was appended, in order (SegmentedEventLog::load).
Stream == INSTANCE AppendLog WITH
              Events <- 1 .. MaxEvents, log <- Loaded(IF isOpen THEN mem ELSE OnOpen)
ImplementsLog == Stream!Spec
=============================================================================
