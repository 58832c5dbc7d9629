------------------------------ MODULE Session ------------------------------
(***************************************************************************)
(* One recorded session: the driver that turns inputs into a log and a     *)
(* World (src/agent/world/driver.rs), its two append-only streams, its     *)
(* snapshots, and the recovery of all of it after a crash at any point.    *)
(*                                                                         *)
(* The reducer is a parameter: Reduce(w, in) is the World after one input  *)
(* and the commands of that tick in the order they were emitted.  Every    *)
(* durable write and every effect is a step of its own.                    *)
(***************************************************************************)
EXTENDS Integers, Sequences, FiniteSets

CONSTANTS
    FirstWorld,         \* genesis_world
    Reduce(_, _),       \* tick
    Outstanding(_),     \* outstanding_cmds: the cmds a World still awaits
    Returns(_),         \* regenerate_child_returns
    Answers(_, _),      \* the results the effect of a command may have in a World
    Fingerprint(_, _),  \* fingerprint_call: what the request of a command hashes to
    Driven(_),          \* drive_live has an arm that performs the command
    Rebuilt(_),         \* rebuild_compact_command: the compactions a World awaits
    Reply(_, _),        \* the assistant messages of a World's history after a position
    HistoryLen(_),      \* length of the primary entity's history
    Inputs,             \* inputs the worker submits
    SnapshotInterval,   \* Caps.snapshot_interval, 0 is never
    MaxInput,           \* bound on the inputs submitted
    MaxFault,           \* bound on the crashes and failed appends together
    Tears               \* whether a crash may cut the line that is being written

ASSUME SessionAssumption ==
    /\ SnapshotInterval \in Nat /\ MaxInput \in Nat /\ MaxFault \in Nat
    /\ Tears \in BOOLEAN

VARIABLES
    log,       \* stratum 1: the events, with their ticks
    intents,   \* stratum 2: the CommandDispatched records
    line,      \* how the log's last line ends: "whole", "open" (no newline), "broken"
    snaps,     \* the snapshots on disk
    drv,       \* the driver's memory
    trail,     \* trail[i + 1] is the World after the first i events of the log
    effects,   \* the effects performed: the command, and the life it was performed in
    told,      \* the messages sent to the host as EntryNotifications
    count      \* inputs, crashes and failed appends so far

disk == <<log, intents, line, snaps>>
vars == <<log, intents, line, snaps, drv, trail, effects, told, count>>

Event(at, in) == [at |-> at, in |-> in]
Header == [type |-> "SessionStarted"]
LastOf(s) == s[Len(s)]
MaxAt == IF log = <<>> THEN -1 ELSE LastOf(log).at

\* "restoring" folds the events after the snapshot, "reconciling" logs what the crash left
\* open, "replaying" folds that, "resuming" drives what it emitted; "lost" is a session
\* whose open failed: the worker starts another one in its place.
Modes == {"down", "restoring", "reconciling", "replaying", "resuming", "serving", "lost"}
Stages == {"none", "intended", "performed"}

\* todo: the commands of the batch left to drive, stage and result: how far the first one
\* is; logged: events appended and not folded; more: commands the folds emitted.
\* Mutation: the clock starts before the header.
DownBeforeHeader ==
    [mode |-> "down", world |-> FirstWorld, clock |-> -1, nextAt |-> 0, lastSnap |-> 0,
     tail |-> <<>>, todo |-> <<>>, stage |-> "none", result |-> {}, at |-> 0, ord |-> 0,
     logged |-> <<>>, more |-> <<>>, busy |-> FALSE, redone |-> FALSE, emitted |-> 0]
Down == [mode |-> "down", world |-> FirstWorld, clock |-> 0, nextAt |-> 0, lastSnap |-> 0,
         tail |-> <<>>, todo |-> <<>>, stage |-> "none", result |-> {}, at |-> 0, ord |-> 0,
         logged |-> <<>>, more |-> <<>>, busy |-> FALSE, redone |-> FALSE, emitted |-> 0]

Init ==
    /\ log = <<>> /\ intents = <<>> /\ line = "whole" /\ snaps = {}
    /\ drv = Down
    /\ trail = <<FirstWorld>>
    /\ effects = {} /\ told = <<>>
    /\ count = [inputs |-> 0, crashes |-> 0, fails |-> 0]

-----------------------------------------------------------------------------
\* Durable writes.

\* append_jsonl: after a line without its newline the next record shares that line.
AppendEvent(e) ==
    /\ log' = Append(log, e)
    /\ line' = IF line = "open" THEN "broken" ELSE line
    /\ trail' = Append(trail, Reduce(LastOf(trail), e.in).w)

Crosses(last, now) ==
    SnapshotInterval # 0 /\ now > last /\ now \div SnapshotInterval > last \div SnapshotInterval

\* maybe_snapshot: a write may fail, and the baseline advances all the same; a snapshot
\* already on disk for the tick is kept.
MaybeSnapshot(w, now, last) ==
    \/ UNCHANGED snaps
    \/ /\ Crosses(last, now)
       /\ \A s \in snaps : s.tick # now
       /\ snaps' = snaps \cup {[tick |-> now, world |-> w]}
Baseline(now, last) == IF Crosses(last, now) THEN now ELSE last

-----------------------------------------------------------------------------
\* submit, and drive_to_quiescence.

Driving == drv.mode \in {"serving", "resuming"}
Faults == count.crashes + count.fails
Idle == drv.mode = "serving" /\ ~ drv.busy
Drained == drv.todo = <<>> /\ drv.logged = <<>>

\* The input is durable before it is folded.
Submit ==
    /\ Idle
    /\ count.inputs < MaxInput
    /\ \E in \in Inputs :
          LET e == Event(drv.nextAt, in)
          IN  /\ AppendEvent(e)
              /\ drv' = [drv EXCEPT !.nextAt = @ + 1, !.logged = <<e>>, !.busy = TRUE]
    /\ count' = [count EXCEPT !.inputs = @ + 1]
    /\ UNCHANGED <<intents, snaps, effects, told>>

\* One event through tick; the commands it emits wait for the next batch.
Folded(d, e) ==
    LET r == Reduce(d.world, e.in)
    IN  [d EXCEPT !.world = r.w, !.clock = e.at, !.logged = Tail(@), !.more = @ \o r.out]

Fold ==
    /\ Driving /\ drv.todo = <<>> /\ drv.logged # <<>>
    /\ LET e == Head(drv.logged)
           d == Folded(drv, e)
       IN  /\ drv' = [d EXCEPT !.lastSnap = Baseline(e.at, @)]
           /\ MaybeSnapshot(d.world, e.at, drv.lastSnap)
    /\ UNCHANGED <<log, intents, line, trail, effects, told, count>>

\* settle_returned_children: one owed return, logged and then folded like any event.
SettleReturnedChild ==
    /\ Driving /\ drv.busy /\ Drained
    /\ \E in \in Returns(drv.world) :
          LET e == Event(drv.nextAt, in)
          IN  AppendEvent(e) /\ drv' = [drv EXCEPT !.nextAt = @ + 1, !.logged = <<e>>]
    /\ UNCHANGED <<intents, snaps, effects, told, count>>

\* The commands every fold since the last batch emitted, under one tick.
NextBatch ==
    /\ Driving /\ drv.busy /\ Drained
    /\ Returns(drv.world) = {} /\ drv.more # <<>>
    /\ drv' = [drv EXCEPT !.todo = drv.more, !.more = <<>>, !.at = drv.nextAt,
                          !.nextAt = @ + 1, !.ord = 0]
    /\ UNCHANGED <<disk, trail, effects, told, count>>

Current == Head(drv.todo)

\* drive_live performs nothing for the command, which keeps its ordinal.
SkipCommand ==
    /\ drv.todo # <<>> /\ ~ Driven(Current)
    /\ drv' = [drv EXCEPT !.todo = Tail(@), !.ord = @ + 1]
    /\ UNCHANGED <<disk, trail, effects, told, count>>

\* CommandDispatched, with its idempotency key, before the effect.
Intend ==
    /\ drv.todo # <<>> /\ Driven(Current) /\ drv.stage = "none"
    /\ intents' = Append(intents, [cmd |-> Current.cmd, type |-> Current.type,
                                   ent |-> Current.ent, fp |-> Fingerprint(drv.world, Current),
                                   key |-> <<drv.at, drv.ord>>])
    /\ drv' = [drv EXCEPT !.stage = "intended"]
    /\ UNCHANGED <<log, line, snaps, trail, effects, told, count>>

Perform ==
    /\ drv.stage = "intended"
    /\ effects' = effects \cup {[cmd |-> Current.cmd, type |-> Current.type,
                                 life |-> count.crashes]}
    /\ \E in \in Answers(drv.world, Current) :
          drv' = [drv EXCEPT !.stage = "performed", !.result = {in}]
    /\ UNCHANGED <<disk, trail, told, count>>

\* The result is durable before it is fed back.
Record ==
    /\ drv.stage = "performed"
    /\ \E in \in drv.result :
          LET e == Event(drv.at, in)
          IN  /\ AppendEvent(e)
              /\ drv' = [drv EXCEPT !.stage = "none", !.result = {}, !.todo = Tail(@),
                                    !.ord = @ + 1, !.logged = Append(@, e)]
    /\ UNCHANGED <<intents, snaps, effects, told, count>>

Quiet == drv.busy /\ Drained /\ drv.more = <<>> /\ Returns(drv.world) = {}

\* derive_entry_notifications, and submit returns.
SubmitReturns ==
    /\ drv.mode = "serving" /\ Quiet
    /\ told' = told \o Reply(drv.world, drv.emitted)
    /\ drv' = [drv EXCEPT !.busy = FALSE, !.emitted = HistoryLen(drv.world)]
    /\ UNCHANGED <<disk, trail, effects, count>>

\* An append fails.  drive_to_quiescence returns at once: the results logged and not yet
\* folded, and the commands not yet driven, are dropped.  run_world_driver logs the error
\* and waits for the next input; open gives up.
AppendFails ==
    /\ Faults < MaxFault
    /\ Driving /\ drv.busy
    /\ \/ drv.todo # <<>> /\ Driven(Current) /\ drv.stage # "intended"
       \/ Drained /\ Returns(drv.world) # {}
    /\ drv' = IF drv.mode = "resuming" THEN [Down EXCEPT !.mode = "lost"]
              ELSE [drv EXCEPT !.todo = <<>>, !.stage = "none", !.result = {},
                               !.logged = <<>>, !.more = <<>>, !.busy = FALSE]
    /\ count' = [count EXCEPT !.fails = @ + 1]
    /\ UNCHANGED <<disk, trail, effects, told>>

-----------------------------------------------------------------------------
\* Crash and open.

\* What is in memory is gone.  The event written last may lack its newline, and the one
\* being written may be cut in the middle.
Crash ==
    /\ drv.mode \notin {"down", "lost"}
    /\ Faults < MaxFault
    /\ drv' = Down
    /\ line' \in {line} \cup (IF Tears /\ log # <<>> /\ drv.logged # <<>> THEN {"open"} ELSE {})
                        \cup (IF Tears /\ log # <<>> /\ drv.busy THEN {"broken"} ELSE {})
    /\ count' = [count EXCEPT !.crashes = @ + 1]
    /\ UNCHANGED <<log, intents, snaps, trail, effects, told>>

\* A snapshot whose digest does not validate is as good as absent.
SnapshotSpoils ==
    /\ drv.mode = "down"
    /\ \E s \in snaps : snaps' = snaps \ {s}
    /\ UNCHANGED <<log, intents, line, drv, trail, effects, told, count>>

\* bootstrap: the header is event 0.
Bootstrap ==
    /\ drv.mode = "down" /\ log = <<>>
    /\ LET e == Event(0, Header)
       IN  /\ AppendEvent(e)
           /\ drv' = [drv EXCEPT !.mode = "serving", !.nextAt = 1,
                                 !.world = Reduce(@, Header).w]
    /\ UNCHANGED <<intents, snaps, effects, told, count>>

\* The anchor of restore: the last snapshot, or genesis, which has folded nothing.
Anchors == {s \in snaps : s.tick <= MaxAt}
Anchor == CHOOSE s \in Anchors : \A t \in Anchors : t.tick <= s.tick
\* Mutation: the events of the snapshot's own tick are folded again.
FloorTooLow == IF Anchors = {} THEN -1 ELSE Anchor.tick - 1
Floor == IF Anchors = {} THEN -1 ELSE Anchor.tick

Open ==
    /\ drv.mode = "down" /\ log # <<>>
    /\ drv' = IF line = "broken" THEN [Down EXCEPT !.mode = "lost"]
              ELSE [Down EXCEPT !.mode = "restoring",
                                !.world = IF Anchors = {} THEN FirstWorld ELSE Anchor.world,
                                !.clock = IF Anchors = {} THEN 0 ELSE Anchor.tick,
                                !.tail = SelectSeq(log, LAMBDA e : e.at > Floor)]
    /\ UNCHANGED <<disk, trail, effects, told, count>>

\* Mutation: restore keeps the commands its folds emit, and drives them again.
FoldTailDriving ==
    /\ drv.mode = "restoring" /\ drv.tail # <<>>
    /\ LET r == Reduce(drv.world, Head(drv.tail).in)
       IN  drv' = [drv EXCEPT !.world = r.w, !.more = @ \o r.out,
                              !.clock = Head(drv.tail).at, !.tail = Tail(@)]
    /\ UNCHANGED <<disk, trail, effects, told, count>>

\* fold_log: the commands are discarded.
FoldTail ==
    /\ drv.mode = "restoring" /\ drv.tail # <<>>
    /\ drv' = [drv EXCEPT !.world = Reduce(@, Head(drv.tail).in).w,
                          !.clock = Head(drv.tail).at, !.tail = Tail(@)]
    /\ UNCHANGED <<disk, trail, effects, told, count>>

Restored ==
    /\ drv.mode = "restoring" /\ drv.tail = <<>>
    /\ drv' = [drv EXCEPT !.mode = "reconciling"]
    /\ UNCHANGED <<disk, trail, effects, told, count>>

Resolved == {log[i].in.cmd : i \in {j \in DOMAIN log : "cmd" \in DOMAIN log[j].in}}

\* The intents resume settles: still awaited, without a result, of the two kinds that are
\* not dispatched again.
OpenIntents ==
    {i \in DOMAIN intents :
        /\ intents[i].cmd \in Outstanding(drv.world) /\ intents[i].cmd \notin Resolved
        /\ intents[i].type \in {"CallModel", "RunTool"}}

\* reconcile: a model call was cancelled by the crash, a tool has failed.
Reconciled(k) ==
    IF k.type = "CallModel"
    THEN [type |-> "InferenceCancelled", ent |-> k.ent, cmd |-> k.cmd, fp |-> k.fp]
    ELSE [type |-> "ToolReturned", ent |-> k.ent, cmd |-> k.cmd, err |-> TRUE]

Reconcile ==
    /\ drv.mode = "reconciling" /\ OpenIntents # {}
    /\ LET i == CHOOSE x \in OpenIntents : \A y \in OpenIntents : x <= y
           e == Event(MaxAt + 1, Reconciled(intents[i]))
       IN  AppendEvent(e) /\ drv' = [drv EXCEPT !.logged = Append(@, e)]
    /\ UNCHANGED <<intents, snaps, effects, told, count>>

\* resume_reconciliations folds them without snapshots and then drives what they emitted.
FoldReconciled ==
    /\ \/ drv.mode = "reconciling" /\ OpenIntents = {}
       \/ drv.mode = "replaying"
    /\ drv.logged # <<>>
    /\ drv' = [Folded(drv, Head(drv.logged)) EXCEPT !.mode = "replaying"]
    /\ UNCHANGED <<disk, trail, effects, told, count>>

Resume ==
    /\ \/ drv.mode = "reconciling" /\ OpenIntents = {}
       \/ drv.mode = "replaying"
    /\ drv.logged = <<>>
    /\ drv' = [drv EXCEPT !.mode = "resuming", !.busy = TRUE, !.nextAt = drv.clock + 1,
                          !.lastSnap = drv.clock]
    /\ UNCHANGED <<disk, trail, effects, told, count>>

RebuiltCmds == {Rebuilt(drv.world)[i].cmd : i \in DOMAIN Rebuilt(drv.world)}

\* Mutation: anything else is waited for.
RedispatchOrWait ==
    /\ drv.mode = "resuming" /\ Quiet /\ ~ drv.redone
    /\ Outstanding(drv.world) # {} /\ Outstanding(drv.world) \subseteq RebuiltCmds
    /\ drv' = [drv EXCEPT !.more = Rebuilt(drv.world), !.redone = TRUE]
    /\ UNCHANGED <<disk, trail, effects, told, count>>

\* A compaction cut by the crash is dispatched again; anything else still awaited makes
\* open fail, and the worker falls back to a fresh session.
Redispatch ==
    /\ drv.mode = "resuming" /\ Quiet /\ ~ drv.redone
    /\ Outstanding(drv.world) # {}
    /\ drv' = IF Outstanding(drv.world) \subseteq RebuiltCmds
              THEN [drv EXCEPT !.more = Rebuilt(drv.world), !.redone = TRUE]
              ELSE [Down EXCEPT !.mode = "lost"]
    /\ UNCHANGED <<disk, trail, effects, told, count>>

\* Mutation: the session is served with commands nobody will answer.
OpenedBlindly ==
    /\ drv.mode = "resuming" /\ Quiet
    /\ drv' = [drv EXCEPT !.mode = "serving", !.busy = FALSE, !.nextAt = drv.clock + 1,
                          !.emitted = HistoryLen(drv.world)]
    /\ UNCHANGED <<disk, trail, effects, told, count>>

Opened ==
    /\ drv.mode = "resuming" /\ Quiet
    /\ drv.redone \/ Outstanding(drv.world) = {}
    /\ drv' = [drv EXCEPT !.mode = "serving", !.busy = FALSE, !.nextAt = drv.clock + 1,
                          !.emitted = HistoryLen(drv.world)]
    /\ UNCHANGED <<disk, trail, effects, told, count>>

-----------------------------------------------------------------------------

Works == Fold \/ SettleReturnedChild \/ NextBatch \/ SkipCommand
            \/ Intend \/ Perform \/ Record \/ SubmitReturns
Opens == Bootstrap \/ Open \/ FoldTail \/ Restored \/ Reconcile \/ FoldReconciled
            \/ Resume \/ Redispatch \/ Opened

Next == Submit \/ Works \/ Opens \/ AppendFails \/ Crash \/ SnapshotSpoils

Spec == Init /\ [][Next]_vars

\* The driver is one task that runs while it has work; the supervisor restarts a worker
\* that went down.  Nothing is assumed of the inputs, and nothing of crashes and failures.
FairSpec == Spec /\ WF_vars(Works) /\ WF_vars(Opens)

-----------------------------------------------------------------------------
\* Properties.

\* The driver's memory, the streams and the counters have their types.
TypeOK ==
    /\ drv.mode \in Modes /\ drv.stage \in Stages
    /\ drv.busy \in BOOLEAN /\ drv.redone \in BOOLEAN
    /\ drv.clock \in Nat /\ drv.nextAt \in Nat /\ drv.lastSnap \in Nat
    /\ line \in {"whole", "open", "broken"}
    /\ \A i \in DOMAIN log : log[i].at \in Nat
    /\ \A i \in DOMAIN intents : intents[i].key \in Nat \X Nat
    /\ Len(trail) = Len(log) + 1
    /\ count \in [inputs : 0 .. MaxInput, crashes : 0 .. MaxFault, fails : 0 .. MaxFault]

\* A driver at rest holds the World its log determines, whatever crashed before and
\* whichever snapshot it was restored from (restore, Invariants 6 and 9).
WorldIsFoldOfLog == Idle /\ count.fails = 0 => drv.world = LastOf(trail)

\* An idempotency key names one command (IdempotencyKey, next_at).
KeysNameOneCommand ==
    \A i, j \in DOMAIN intents :
        intents[i].key = intents[j].key => intents[i].cmd = intents[j].cmd

\* No reply is sent to the host twice (history_emitted).
NoReplyTwice == \A i, j \in DOMAIN told : told[i] = told[j] => i = j

\* An effect is performed once over all the lives of the session, but for a compaction,
\* which a crash may repeat: neither a restart nor a reconciliation drives a command again,
\* reuses its key, or repeats a reply (Intent before commitment, IdAlloc).
EffectsAreOnce ==
    /\ \A e, f \in effects : e.cmd = f.cmd /\ e.type # "Compact" => e = f
    /\ KeysNameOneCommand
    /\ NoReplyTwice

\* When the driver is at rest every effect it or an earlier life performed has a result in
\* the log (reconcile): the World knows of everything that was done in its name.
EffectsAreAccountedFor ==
    Idle /\ count.fails = 0 => \A e \in effects : e.cmd \in Resolved

\* A session that went down is opened or given up (open_world_driver).
ComesBack == drv.mode = "down" ~> drv.mode \in {"serving", "lost"}

-----------------------------------------------------------------------------
\* What a comment says and the code does not do.

\* VIOLATED.  restore returns a World "byte-identical to a full replay from genesis": the
\* restored World is the fold of the events loaded.
RestoreIsFold ==
    drv.mode = "reconciling" /\ drv.logged = <<>> => drv.world = LastOf(trail)
=============================================================================
