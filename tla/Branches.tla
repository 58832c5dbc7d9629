------------------------------ MODULE Branches ------------------------------
(***************************************************************************)
(* Counterfactual branches of a recorded session (src/agent/world/         *)
(* branch.rs) and their garbage collection (reclaim.rs).             *)
(*                                                                         *)
(* A branch id is content-addressed: here it is the path of edits that     *)
(* leads to it from MAIN, which is the empty one.  A digest of events is   *)
(* the events.  Only the tail of a branch is on disk; its prefix is        *)
(* resolved through its parent when it is loaded.                          *)
(***************************************************************************)
EXTENDS Integers, FiniteSets, Sequences, SequencesExt

CONSTANTS
    Ids,       \* the branches forked: the edits of each, a fork tick and a kind
    Grace,     \* Caps.branch_grace, 0 is unbounded
    MaxMain,   \* bound on the length of the recorded log
    MaxFork,   \* bound on the times a branch is persisted
    MaxNow,    \* bound on the wall clock
    MaxMutate  \* bound on the descriptor lines in the index

\* A branch is forked from MAIN or from a branch.
Edits == [at : Nat, kind : {"Replace", "Extend"}]
ASSUME BranchesAssumption ==
    /\ Ids \subseteq Seq(Edits) \ {<<>>}
    /\ \A id \in Ids : \A n \in 1 .. Len(id) : SubSeq(id, 1, n) \in Ids
    /\ \A n \in {Grace, MaxMain, MaxFork, MaxNow, MaxMutate} : n \in Nat

VARIABLES
    main,     \* the recorded log
    tails,    \* tails[id]: the events in branches/<id>/world-events.jsonl
    index,    \* branches/index.jsonl, one descriptor a line
    writing,  \* persist_branch in progress: the tail left to write, the descriptor
    handles,  \* branches with a live handle
    now,      \* the wall clock
    forked    \* forked[id]: the logs fork gave for it, one for each time it was persisted

vars == <<main, tails, index, writing, handles, now, forked>>

Main == <<>>
Parent(id) == Front(id)

\* Exogenous inputs are free; a model result is derived.
Inputs == {"user", "edited", "model"}
Event(at, in) == [at |-> at, in |-> in]
IsExogenous(in) == in # "model"

NextTick(events) == IF events = <<>> THEN 0 ELSE events[Len(events)].at + 1

\* The events of some ticks, in order.
During(events, ticks) ==
    LET f[n \in 0 .. Len(events)] ==
            IF n = 0 THEN <<>>
            ELSE IF events[n].at \in ticks THEN Append(f[n - 1], events[n]) ELSE f[n - 1]
    IN  f[Len(events)]
Before(events, t) == During(events, 0 .. t - 1)
At(events, t) == During(events, {t})
After(events, t) == During(events, Nat \ 0 .. t)

NotWriting == [id |-> Main, rest |-> <<>>, desc |-> <<>>]

Init ==
    /\ main = <<>> /\ tails = [id \in Ids |-> <<>>] /\ index = <<>>
    /\ writing = NotWriting /\ handles = {} /\ now = 0
    /\ forked = [id \in Ids |-> <<>>]

-----------------------------------------------------------------------------
\* Loading.

\* load_latest_descriptors, descriptor_index: the last line of an id counts.
Described == {index[i].id : i \in DOMAIN index}
Descriptor(id) ==
    index[CHOOSE i \in DOMAIN index :
            index[i].id = id /\ \A j \in DOMAIN index : index[j].id = id => j <= i]

\* load_full: the prefix of the parent's log, if it has the recorded digest, then the tail.
\* A missing tail loads as empty.
Fails == [ok |-> FALSE, events |-> <<>>]

\* Mutation: the resolved prefix is not checked against the recorded digest.
ExtendUnchecked(parent, id) ==
    IF ~ parent.ok \/ id \notin Described THEN Fails
    ELSE [ok |-> TRUE, events |-> Before(parent.events, Descriptor(id).fork) \o tails[id]]

Extend(parent, id) ==
    LET prefix == Before(parent.events, Descriptor(id).fork)
    IN  IF ~ parent.ok \/ id \notin Described \/ prefix # Descriptor(id).digest THEN Fails
        ELSE [ok |-> TRUE, events |-> prefix \o tails[id]]

LoadAlong(id) ==
    LET f[n \in 0 .. Len(id)] == IF n = 0 THEN [ok |-> TRUE, events |-> main]
                                 ELSE Extend(f[n - 1], SubSeq(id, 1, n))
    IN  f[Len(id)]
Load(id) == LoadAlong(id)

-----------------------------------------------------------------------------
\* The live session.

\* The results of one batch share a tick.
AppendMain ==
    /\ Len(main) < MaxMain
    /\ \E in \in {"user", "model"}, batch \in BOOLEAN :
          /\ batch => main # <<>> /\ in = "model" /\ main[Len(main)].in = "model"
          /\ main' = Append(main, Event(IF batch THEN NextTick(main) - 1 ELSE NextTick(main), in))
    /\ UNCHANGED <<tails, index, writing, handles, now, forked>>

PassTime ==
    /\ now < MaxNow /\ now' = now + 1
    /\ UNCHANGED <<main, tails, index, writing, handles, forked>>

-----------------------------------------------------------------------------
\* Forking.

\* fork: only an exogenous input is replaced.
MayFork(events, t, kind) ==
    kind = "Replace" => At(events, t) # <<>> /\ IsExogenous(At(events, t)[1].in)

Edited(events, t, kind) ==
    (IF kind = "Replace" THEN <<>> ELSE At(events, t))
        \o <<Event(t, "edited")>> \o After(events, t)

\* restamp_from: one tick for each event, from the fork tick on.
Restamp(tail, t) == [i \in DOMAIN tail |-> [tail[i] EXCEPT !.at = t + i - 1]]
ForkTail(events, t, kind) == Restamp(Edited(events, t, kind), t)

\* fork, and the start of persist_branch.
Fork ==
    /\ writing = NotWriting
    /\ \E id \in Ids :
          LET parent == Load(Parent(id))
              edit == Last(id)
              tail == ForkTail(parent.events, edit.at, edit.kind)
          IN  /\ parent.ok /\ MayFork(parent.events, edit.at, edit.kind)
              /\ Len(forked[id]) < MaxFork
              /\ writing' = [id |-> id, rest |-> tail,
                             desc |-> <<[id |-> id, fork |-> edit.at,
                                         digest |-> Before(parent.events, edit.at),
                                         pin |-> FALSE, tombstone |-> FALSE, born |-> now]>>]
              /\ forked' = [forked EXCEPT ![id] =
                              Append(@, Before(parent.events, edit.at) \o tail)]
    /\ Len(index) < MaxMutate
    /\ UNCHANGED <<main, tails, index, handles, now>>

WriteTail ==
    /\ writing.rest # <<>>
    /\ tails' = [tails EXCEPT ![writing.id] = Append(@, Head(writing.rest))]
    /\ writing' = [writing EXCEPT !.rest = Tail(@)]
    /\ UNCHANGED <<main, index, handles, now, forked>>

\* The descriptor comes last: it makes the branch known.
Describe ==
    /\ writing # NotWriting /\ writing.rest = <<>>
    /\ index' = index \o writing.desc
    /\ writing' = NotWriting
    /\ UNCHANGED <<main, tails, handles, now, forked>>

Crash ==
    /\ writing # NotWriting
    /\ writing' = NotWriting /\ handles' = {}
    /\ UNCHANGED <<main, tails, index, now, forked>>

-----------------------------------------------------------------------------
\* Reclaiming.

\* mutate_descriptor: a fresh line with the flag changed.
Mutate(id, d) ==
    /\ writing = NotWriting /\ Len(index) < MaxMutate
    /\ index' = Append(index, d)
    /\ UNCHANGED <<main, tails, writing, handles, now, forked>>
Pin == \E id \in Described, pin \in BOOLEAN : Mutate(id, [Descriptor(id) EXCEPT !.pin = pin])
DropBranch == \E id \in Described : Mutate(id, [Descriptor(id) EXCEPT !.tombstone = TRUE])

Handle ==
    /\ \E id \in Described : handles' = IF id \in handles THEN handles \ {id} ELSE handles \cup {id}
    /\ UNCHANGED <<main, tails, index, writing, now, forked>>

\* collect_roots: the pinned branches and those with a handle.
Roots == {id \in Described : Descriptor(id).pin} \cup handles
\* Mutation: the parents of a root are not kept.
ReachableRoots == {id \in Described : id \in Roots}

\* reachable: the roots and all their parents.
Reachable == {id \in Described : \E r \in Roots : IsPrefix(id, r)}

IsDead(id) ==
    \/ Descriptor(id).tombstone
    \/ Grace # 0 /\ now - Descriptor(id).born >= Grace

\* reclaimable
Reclaimable == {id \in Described \ Reachable : IsDead(id)}

\* sweep: the directories of the dead branches, until one cannot be removed.
Sweep ==
    /\ writing = NotWriting
    /\ \E dead \in SUBSET Reclaimable :
          /\ dead # {}
          /\ tails' = [id \in Ids |-> IF id \in dead THEN <<>> ELSE tails[id]]
    /\ UNCHANGED <<main, index, writing, handles, now, forked>>

Next ==
    \/ AppendMain \/ PassTime
    \/ Fork \/ WriteTail \/ Describe \/ Crash
    \/ Pin \/ DropBranch \/ Handle \/ Sweep

Spec == Init /\ [][Next]_vars

-----------------------------------------------------------------------------
\* Properties.

\* The logs, the index and the branch being written have their types.
TypeOK ==
    /\ Len(main) <= MaxMain /\ Len(index) <= MaxMutate
    /\ \A i \in DOMAIN index : index[i].id \in Ids /\ index[i].born \in 0 .. MaxNow
    /\ writing # NotWriting => writing.id \in Ids
    /\ handles \subseteq Ids

\* A branch that was forked once is loaded as it was forked, or not at all: not with another
\* prefix, whatever the recorded log and the parents have become since, were they swept or
\* forked again.  One that was itself swept may still load, without its tail: as the bare
\* prefix of what was forked (load_full, prefix_digest, "a missing tail file loads as empty").
OnceForked(id) == Len(forked[id]) = 1 /\ writing.id # id
LoadNeverLies ==
    \A id \in Described : OnceForked(id) /\ Load(id).ok =>
        IF tails[id] # <<>> THEN Load(id).events = forked[id][1]
        ELSE IsPrefix(Load(id).events, forked[id][1])

\* A sweep takes nothing from a pinned or open branch: neither its tail nor that of a
\* branch its prefix is resolved through (Invariant 20).
RootsAreKept ==
    [][\A r \in Roots : \A n \in 1 .. Len(r) :
          LET id == SubSeq(r, 1, n) IN IsPrefix(tails[id], tails'[id])]_vars

=============================================================================
