----------------------------- MODULE Supervisor -----------------------------
(***************************************************************************)
(* The subprocess supervisor of one App (src/app/runtime/                  *)
(* local_supervisor.rs, worker_handle.rs, lifecycle.rs): the calls of the  *)
(* AppSupervisor and the idle sweeper on one side, the supervision tasks   *)
(* and their worker processes on the other, and the accept router between. *)
(*                                                                         *)
(* Every start of a worker makes a supervision task, numbered in order.  A *)
(* task has one child process at a time.  A stream is the number of the    *)
(* task whose child is at its other end, or Dead.                          *)
(***************************************************************************)
EXTENDS Integers, FiniteSets, Sequences

CONSTANTS
    Calls,      \* the concurrent calls and sweeps
    Questions,  \* the interactions the worker may raise
    OutCap,     \* OUTBOUND_CAPACITY
    MaxTask,    \* bound on the supervision tasks
    MaxOps      \* bound on the calls made and the children crashed

ASSUME SupervisorAssumption ==
    OutCap \in Nat \ {0} /\ MaxTask \in Nat \ {0} /\ MaxOps \in Nat
\* The name of an interaction is no word of the protocol and no state of a task.
ASSUME QuestionsAssumption ==
    Questions \cap {"none", "message", "user", "shutdown",
                    "spawn", "wait", "pump", "closing", "ended"} = {}

VARIABLES
    call,       \* each call: where it is, what it does, its task, the interactions it holds
    lock,       \* the call that holds runtimes across an await
    handle,     \* runtimes: the task of the App's handle, 0 when there is none
    pend,       \* the pending interactions of each handle
    out,        \* the outbound queue of each handle
    life,       \* the App's AppLifecycle record
    resume,     \* the pending interactions in resume.json
    route,      \* the task whose connection inbox is installed
    sink,       \* the task whose outbound queue the peer broker has
    task,       \* the state of each supervision task, or the interaction it waits to record
    cancelled,  \* the tasks whose token is cancelled
    slot,       \* the stream waiting in each connection inbox, 0 when there is none
    conn,       \* the stream each task pumps, Dead also once its frames cannot be read
    child,      \* the state of each task's child process
    todo,       \* the user messages each child is working on
    accepting,  \* the stream the accept router is delivering, and to which inbox
    asked,      \* interactions recorded and not answered
    raised,     \* interactions raised
    overlapped, \* whether a worker was ever started while another start or a stop was under way
    ops

callVars == <<call, lock, ops, overlapped>>
hostVars == <<handle, pend, out, life, resume, sink>>
taskVars == <<task, cancelled, slot, conn, route>>
workVars == <<child, todo, accepting>>
vars == <<callVars, hostVars, taskVars, workVars, asked, raised>>

Tasks == 1 .. MaxTask
Dead == -1
Idle == "idle"
Frames == {"user", "shutdown"} \cup Questions
Up == {"spawned", "up"}
Nobody == "nobody"
Unknown == [phase |-> "Unknown", turn |-> FALSE, blocked |-> FALSE]
NotAccepting == [stream |-> 0, to |-> 0]
AtRest == [pc |-> Idle, op |-> "none", task |-> 0, held |-> {}]

Init ==
    /\ call = [c \in Calls |-> AtRest] /\ lock = Nobody /\ ops = 0 /\ overlapped = FALSE
    /\ handle = 0 /\ pend = [g \in Tasks |-> {}] /\ out = [g \in Tasks |-> <<>>]
    /\ life = Unknown /\ resume = {} /\ sink = 0 /\ route = 0
    /\ task = [g \in Tasks |-> "none"] /\ cancelled = {} /\ slot = [g \in Tasks |-> 0]
    /\ conn = [g \in Tasks |-> 0]
    /\ child = [g \in Tasks |-> "none"] /\ todo = [g \in Tasks |-> 0]
    /\ accepting = NotAccepting
    /\ asked = {} /\ raised = {}

-----------------------------------------------------------------------------
\* The calls.

Goto(c, pc) == call' = [call EXCEPT ![c].pc = pc]
Return(c) == call' = [call EXCEPT ![c] = AtRest]
Unlocked == lock = Nobody

Starting == {"install", "clear", "insert", "record"}
Stopping == {"persist", "shutdown", "grace", "phase"}

Begins(c) ==
    /\ call[c].pc = Idle /\ ops < MaxOps
    /\ c = CHOOSE d \in Calls : call[d].pc = Idle
    /\ ops' = ops + 1

\* Another call is starting or stopping the App.
Overlaps(c) == overlapped \/ \E d \in Calls \ {c} : call[d].pc \in Starting \cup Stopping

\* ensure_active, for a message or an answer: with a handle there is nothing to do; without,
\* resume.json is read.
Ensure(c) ==
    /\ Begins(c) /\ Unlocked
    /\ \E op \in {"message"} \cup raised :
          IF handle # 0
          THEN call' = [call EXCEPT ![c].op = op, ![c].pc = "send"] /\ UNCHANGED overlapped
          ELSE /\ call' = [call EXCEPT ![c].op = op, ![c].pc = "install", ![c].held = resume]
               /\ overlapped' = Overlaps(c)
    /\ UNCHANGED <<lock, hostVars, taskVars, workVars, asked, raised>>

\* is_idle_evictable; the idle window may have passed whenever nothing else holds it back.
Evictable == life.phase = "Active" /\ ~ life.turn /\ ~ life.blocked

\* The sweeper lists the evictable Apps, and tombstones them afterwards.
Sweep(c) ==
    /\ Begins(c) /\ Evictable
    /\ Goto(c, "remove")
    /\ UNCHANGED <<lock, overlapped, hostVars, taskVars, workVars, asked, raised>>

\* start_worker: the connection inbox, the broker's sink and the supervision task.
Started == {g \in Tasks : task[g] # "none"}
Install(c) ==
    /\ call[c].pc = "install"
    /\ \E g \in Tasks \ Started :
          /\ \A h \in Tasks \ Started : g <= h
          /\ route' = g /\ sink' = g /\ task' = [task EXCEPT ![g] = "spawn"]
          /\ call' = [call EXCEPT ![c].pc = "clear", ![c].task = g]
    /\ UNCHANGED <<lock, ops, overlapped, handle, pend, out, life, resume, cancelled, slot,
                   conn, workVars, asked, raised>>

\* Mutation: the record is cleared and not applied.
ReattachNothing(c) == pend
Reattach(c) == [pend EXCEPT ![call[c].task] = call[c].held]

\* Once the worker connected, or its task ended, or CONNECT_READY_TIMEOUT passed.
Clear(c) ==
    /\ call[c].pc = "clear"
    /\ pend' = Reattach(c)
    /\ resume' = {}
    /\ Goto(c, "insert")
    /\ UNCHANGED <<lock, ops, overlapped, handle, out, life, sink, taskVars, workVars,
                   asked, raised>>

Insert(c) ==
    /\ call[c].pc = "insert" /\ Unlocked
    /\ handle' = call[c].task
    /\ Goto(c, "record")
    /\ UNCHANGED <<lock, ops, overlapped, pend, out, life, resume, sink, taskVars, workVars,
                   asked, raised>>

Record(c) ==
    /\ call[c].pc = "record"
    /\ life' = [phase |-> "Active", turn |-> FALSE, blocked |-> call[c].held # {}]
    /\ call' = [call EXCEPT ![c].pc = "send", ![c].task = 0, ![c].held = {}]
    /\ UNCHANGED <<lock, ops, overlapped, handle, pend, out, resume, sink, taskVars, workVars,
                   asked, raised>>

-----------------------------------------------------------------------------
\* send_message and respond_to_interaction, with the runtimes locked.

Frame(op) == IF op = "message" THEN "user" ELSE op

\* The frame is queued; the interaction it answers is no longer pending.
Queued(c, g) ==
    /\ out' = [out EXCEPT ![g] = Append(@, Frame(call[c].op))]
    /\ pend' = [pend EXCEPT ![g] = @ \ {call[c].op}]
    /\ asked' = asked \ {call[c].op}
    /\ Goto(c, "mark")

\* Mutation: one frame too many is queued.
RoomForOneMore(g) == Len(out[g]) <= OutCap
Room(g) == Len(out[g]) < OutCap

Receiving == {g \in Tasks : task[g] \notin {"none", "ended"}}

Send(c) ==
    /\ call[c].pc = "send" /\ Unlocked
    /\ \/ /\ handle \notin Receiving
          /\ Return(c) /\ UNCHANGED <<lock, out, pend, asked>>
       \/ /\ handle \in Receiving /\ Room(handle)
          /\ Queued(c, handle) /\ UNCHANGED lock
       \/ /\ handle \in Receiving /\ ~ Room(handle)
          /\ lock' = c
          /\ call' = [call EXCEPT ![c].pc = "full", ![c].task = handle]
          /\ UNCHANGED <<out, pend, asked>>
    /\ UNCHANGED <<ops, overlapped, handle, life, resume, sink, taskVars, workVars, raised>>

\* The queue was full: the call waits for room and keeps the runtimes locked.
SendWhenRoom(c) ==
    /\ call[c].pc = "full"
    /\ lock' = Nobody
    /\ \/ call[c].task \notin Receiving /\ Return(c) /\ UNCHANGED <<out, pend, asked>>
       \/ Room(call[c].task) /\ Queued(c, call[c].task)
    /\ UNCHANGED <<ops, overlapped, handle, life, resume, sink, taskVars, workVars, raised>>

\* mark_turn_started
Mark(c) ==
    /\ call[c].pc = "mark"
    /\ life' = [life EXCEPT !.turn = life # Unknown]
    /\ IF call[c].op \in Questions THEN Goto(c, "look") ELSE Return(c)
    /\ UNCHANGED <<lock, ops, overlapped, handle, pend, out, resume, sink, taskVars, workVars,
                   asked, raised>>

\* sync_pending_interaction: the handle is read, and the record written afterwards.
Look(c) ==
    /\ call[c].pc = "look" /\ Unlocked
    /\ call' = [call EXCEPT ![c].pc = "sync",
                            ![c].held = IF handle = 0 THEN {} ELSE pend[handle]]
    /\ UNCHANGED <<lock, ops, overlapped, hostVars, taskVars, workVars, asked, raised>>

Sync(c) ==
    /\ call[c].pc = "sync"
    /\ life' = [life EXCEPT !.blocked = call[c].held # {}]
    /\ Return(c)
    /\ UNCHANGED <<lock, ops, overlapped, handle, pend, out, resume, sink, taskVars, workVars,
                   asked, raised>>

-----------------------------------------------------------------------------
\* tombstone_app, for suspend and for the sweeper; the handle is dropped with the cancel.

TakeHandle(c) ==
    /\ Unlocked
    /\ IF handle = 0 THEN Return(c) /\ UNCHANGED overlapped
       ELSE /\ call' = [call EXCEPT ![c].pc = "persist", ![c].task = handle,
                                    ![c].held = pend[handle]]
            /\ overlapped' = Overlaps(c)
    /\ handle' = 0
    /\ UNCHANGED <<lock, pend, out, life, resume, sink, taskVars, workVars, asked, raised>>

Suspend(c) == Begins(c) /\ TakeHandle(c)
Remove(c) == call[c].pc = "remove" /\ TakeHandle(c) /\ UNCHANGED ops

Persisted(c) == pend[call[c].task]

\* The sink is unregistered, and resume.json written.
Persist(c) ==
    /\ call[c].pc = "persist"
    /\ sink' = 0 /\ resume' = Persisted(c)
    /\ call' = [call EXCEPT ![c].pc = "shutdown", ![c].held = {}]
    /\ UNCHANGED <<lock, ops, overlapped, handle, pend, out, life, taskVars, workVars,
                   asked, raised>>

\* A send failure is ignored; a full queue is waited for.
AskShutdown(c) ==
    /\ call[c].pc = "shutdown"
    /\ LET g == call[c].task
       IN  \/ g \notin Receiving /\ UNCHANGED out
           \/ g \in Receiving /\ Room(g)
              /\ out' = [out EXCEPT ![g] = Append(@, "shutdown")]
    /\ Goto(c, "grace")
    /\ UNCHANGED <<lock, ops, overlapped, handle, pend, life, resume, sink, taskVars, workVars,
                   asked, raised>>

\* Mutation: the token is not cancelled.
CancelledNot(c) == cancelled
CancelledBy(c) == cancelled \cup {call[c].task}

Cancel(c) ==
    /\ call[c].pc = "grace"
    /\ cancelled' = CancelledBy(c)
    /\ pend' = [pend EXCEPT ![call[c].task] = {}]
    /\ call' = [call EXCEPT ![c].pc = "phase", ![c].task = 0]
    /\ UNCHANGED <<lock, ops, overlapped, handle, out, life, resume, sink, task, slot, conn, route, workVars,
                   asked, raised>>

Tombstoned == IF life = Unknown THEN life ELSE [life EXCEPT !.phase = "Tombstoned", !.turn = FALSE]

SetPhase(c) ==
    /\ call[c].pc = "phase" /\ life' = Tombstoned /\ Return(c)
    /\ UNCHANGED <<lock, ops, overlapped, handle, pend, out, resume, sink, taskVars, workVars,
                   asked, raised>>

-----------------------------------------------------------------------------
\* The supervision tasks.

\* What the end of the children hs does: their streams are dead.  A child that ends before
\* its Hello was accepted is taken not to have dialed.
Kill(hs) ==
    LET dies(s) == IF s \in hs THEN Dead ELSE s
    IN  /\ child' = [h \in Tasks |-> IF h \in hs THEN "dead" ELSE child[h]]
        /\ todo' = [h \in Tasks |-> IF h \in hs THEN 0 ELSE todo[h]]
        /\ accepting' = [accepting EXCEPT !.stream = dies(@)]

Dies(f, hs) == [g \in Tasks |-> IF f[g] \in hs THEN Dead ELSE f[g]]

SpawnChild(g) ==
    /\ task[g] = "spawn" /\ g \notin cancelled
    /\ child' = [child EXCEPT ![g] = "spawned"]
    /\ task' = [task EXCEPT ![g] = "wait"]
    /\ UNCHANGED <<callVars, hostVars, cancelled, slot, conn, route, todo, accepting, asked, raised>>

\* biased: cancellation first, then the end of the child, then a connection.
Connected(g) ==
    /\ task[g] = "wait" /\ g \notin cancelled /\ child[g] # "dead" /\ slot[g] # 0
    /\ conn' = [conn EXCEPT ![g] = slot[g]] /\ slot' = [slot EXCEPT ![g] = 0]
    /\ task' = [task EXCEPT ![g] = "pump"]
    /\ UNCHANGED <<callVars, hostVars, cancelled, route, workVars, asked, raised>>

\* Nobody can queue a frame for g any more, and none is queued.
Abandoned(g) ==
    /\ out[g] = <<>> /\ handle # g /\ sink # g
    /\ \A c \in Calls : call[c].task = g => call[c].pc \notin Starting \cup Stopping

\* The worker is gone: spawn_and_pump returns, and kills the child it spawned.  The child
\* at the other end of the stream, if it is another, sees the connection close.
Down(g) ==
    \/ task[g] = "wait" /\ child[g] = "dead"
    \/ task[g] = "pump" /\ (conn[g] = Dead \/ child[g] = "dead" \/ Abandoned(g))

EndOfRun(g, next) ==
    LET hs == {h \in {g, conn[g]} \cap Tasks : child[h] \in Up}
    IN  /\ Kill(hs)
        /\ slot' = Dies(slot, hs)
        /\ conn' = [Dies(conn, hs) EXCEPT ![g] = 0]
        /\ task' = [task EXCEPT ![g] = next]

\* The backoff is the time until SpawnChild.
Restart(g) ==
    /\ g \notin cancelled /\ Down(g) /\ EndOfRun(g, "spawn")
    /\ UNCHANGED <<callVars, hostVars, cancelled, route, asked, raised>>

\* Mutation: a cancelled task returns without killing its child.
StopLeaking(g) ==
    /\ task[g] \in {"spawn", "wait", "pump"} /\ g \in cancelled
    /\ task' = [task EXCEPT ![g] = "closing"]
    /\ UNCHANGED <<callVars, hostVars, cancelled, slot, conn, route, workVars, asked, raised>>

Stop(g) ==
    /\ task[g] \in {"spawn", "wait", "pump"} /\ g \in cancelled
    /\ EndOfRun(g, "closing")
    /\ UNCHANGED <<callVars, hostVars, cancelled, route, asked, raised>>

\* Mutation: the inbox is removed whosever it is.
RouteRemoved(g) == 0

\* The inbox is removed if it is still the task's own.
RouteWithout(g) == IF route = g THEN 0 ELSE route

\* The end of the task closes its inbox, and the connection waiting in it.
Close(g) ==
    LET hs == {slot[g]} \cap Tasks
    IN  /\ task[g] = "closing"
        /\ route' = RouteWithout(g)
        /\ Kill(hs)
        /\ slot' = [Dies(slot, hs) EXCEPT ![g] = 0] /\ conn' = Dies(conn, hs)
        /\ task' = [task EXCEPT ![g] = "ended"]
        /\ out' = [out EXCEPT ![g] = <<>>]
    /\ UNCHANGED <<callVars, handle, pend, life, resume, sink, cancelled,
                   asked, raised>>

Pumping(g) == task[g] = "pump" /\ g \notin cancelled /\ conn[g] \in Tasks

\* An outbound frame is written.  The read it interrupts is dropped, and bytes of a frame
\* that the worker was sending may be lost with it: then nothing more is read from it.
PumpOut(g) ==
    /\ Pumping(g) /\ out[g] # <<>>
    /\ LET h == conn[g]
           frame == Head(out[g])
       IN  \/ /\ frame = "user"
              /\ todo' = [todo EXCEPT ![h] = @ + 1]
              /\ UNCHANGED <<child, accepting, slot, conn>>
           \/ /\ frame = "shutdown"
              /\ Kill({h}) /\ slot' = Dies(slot, {h}) /\ conn' = Dies(conn, {h})
           \/ /\ frame \in Questions
              /\ UNCHANGED <<child, todo, accepting, slot, conn>>
           \/ /\ todo[h] > 0
              /\ Kill({h} \ {g}) /\ conn' = [conn EXCEPT ![g] = Dead] /\ UNCHANGED slot
    /\ out' = [out EXCEPT ![g] = Tail(@)]
    /\ UNCHANGED <<callVars, handle, pend, life, resume, sink, task, cancelled, route,
                   asked, raised>>

-----------------------------------------------------------------------------
\* The workers and the accept router.

\* spawn_accept_router: a Hello with no inbox is dropped, and the worker exits.  A run
\* that starts on a dead connection is taken to be over before its child has dialed.
Accept ==
    /\ accepting = NotAccepting
    /\ \E h \in Tasks :
          /\ child[h] = "spawned" /\ Dead \notin {slot[h], conn[h]}
          /\ IF route = 0
             THEN child' = [child EXCEPT ![h] = "dead"] /\ UNCHANGED accepting
             ELSE child' = [child EXCEPT ![h] = "up"]
                  /\ accepting' = [stream |-> h, to |-> route]
    /\ UNCHANGED <<callVars, hostVars, taskVars, todo, asked, raised>>

\* The inbox holds one connection: the router waits until the task takes it.
Deliver ==
    /\ accepting # NotAccepting
    /\ LET g == accepting.to
       IN  \/ /\ task[g] = "ended"
              /\ child' = IF accepting.stream \in Tasks
                          THEN [child EXCEPT ![accepting.stream] = "dead"] ELSE child
              /\ UNCHANGED slot
           \/ /\ task[g] # "ended" /\ slot[g] = 0
              /\ slot' = [slot EXCEPT ![g] = accepting.stream] /\ UNCHANGED child
    /\ accepting' = NotAccepting
    /\ UNCHANGED <<callVars, hostVars, task, cancelled, conn, route, todo, asked, raised>>

ChildCrash(h) ==
    /\ child[h] \in Up /\ ops < MaxOps
    /\ ops' = ops + 1
    /\ Kill({h}) /\ slot' = Dies(slot, {h}) /\ conn' = Dies(conn, {h})
    /\ UNCHANGED <<call, lock, overlapped, hostVars, task, cancelled, route, asked, raised>>

\* The final entry of a turn: finish_turn.
Finish(g) ==
    /\ Pumping(g) /\ todo[conn[g]] > 0
    /\ todo' = [todo EXCEPT ![conn[g]] = @ - 1]
    /\ life' = [life EXCEPT !.turn = FALSE]
    /\ UNCHANGED <<callVars, handle, pend, out, resume, sink, taskVars, child, accepting,
                   asked, raised>>

\* An interaction is raised: the task waits for the runtimes to record it, and until then
\* it is deaf to its cancellation, its outbound queue and its child.
Ask(g, q) ==
    /\ Pumping(g) /\ todo[conn[g]] > 0 /\ q \notin raised
    /\ raised' = raised \cup {q}
    /\ task' = [task EXCEPT ![g] = q]
    /\ UNCHANGED <<callVars, hostVars, cancelled, slot, conn, route, workVars, asked>>

\* capture_interaction: recorded on the App's handle, if there is one.
Capture(g) ==
    /\ task[g] \in Questions /\ Unlocked
    /\ task' = [task EXCEPT ![g] = "pump"]
    /\ IF handle = 0 THEN UNCHANGED <<pend, asked, life>>
       ELSE /\ pend' = [pend EXCEPT ![handle] = @ \cup {task[g]}]
            /\ asked' = asked \cup {task[g]}
            /\ life' = [life EXCEPT !.blocked = life # Unknown]
    /\ UNCHANGED <<callVars, handle, out, resume, sink, cancelled, slot, conn, route,
                   workVars, raised>>

-----------------------------------------------------------------------------
Advance(c) ==
    \/ Install(c) \/ Clear(c) \/ Insert(c)
    \/ Record(c) \/ Send(c) \/ SendWhenRoom(c) \/ Mark(c) \/ Look(c) \/ Sync(c)
    \/ Remove(c) \/ Persist(c) \/ AskShutdown(c) \/ Cancel(c) \/ SetPhase(c)

Supervise(g) ==
    SpawnChild(g) \/ Connected(g) \/ Restart(g) \/ Stop(g) \/ Close(g) \/ Capture(g)

Next ==
    \/ \E c \in Calls : Ensure(c) \/ Suspend(c) \/ Sweep(c) \/ Advance(c)
    \/ \E g \in Tasks : Supervise(g) \/ PumpOut(g) \/ Finish(g) \/ \E q \in Questions : Ask(g, q)
    \/ Accept \/ Deliver
    \/ \E h \in Tasks : ChildCrash(h)

\* The calls, the tasks and the router are scheduled; a worker may think forever.
Fairness ==
    /\ \A c \in Calls : WF_vars(Advance(c))
    /\ \A g \in Tasks : WF_vars(Supervise(g) \/ PumpOut(g))
    /\ WF_vars(Accept \/ Deliver)

Spec == Init /\ [][Next]_vars /\ Fairness

-----------------------------------------------------------------------------
\* Properties.

\* The calls, the handles, the tasks, the streams and the records have their types.
TypeOK ==
    /\ \A c \in Calls : call[c].task \in 0 .. MaxTask /\ call[c].held \subseteq Questions
    /\ lock \in Calls \cup {Nobody} /\ {handle, sink, route} \subseteq 0 .. MaxTask
    /\ pend \in [Tasks -> SUBSET Questions] /\ resume \subseteq Questions
    /\ \A g \in Tasks : Len(out[g]) <= OutCap /\ \A i \in DOMAIN out[g] : out[g][i] \in Frames
    /\ life.phase \in {"Unknown", "Active", "Tombstoned"}
    /\ {life.turn, life.blocked} \subseteq BOOLEAN
    /\ slot \in [Tasks -> {Dead, 0} \cup Tasks] /\ conn \in [Tasks -> {Dead, 0} \cup Tasks]
    /\ child \in [Tasks -> {"none", "dead"} \cup Up]
    /\ task \in [Tasks -> {"none", "spawn", "wait", "pump", "closing", "ended"}
                       \cup Questions]
    /\ cancelled \subseteq Tasks /\ asked \subseteq raised

\* A task winding down never takes away the inbox of the task started after it, however
\* its grace period and the restore overlap: the connection of the newest worker is routed
\* to its task until that task ends (SupervisionTask::run, own_inbox).
RouteIsNewest ==
    \A g \in Started : (\A h \in Started : h <= g) /\ task[g] # "ended" => route = g

\* Unless a start overlapped another start or a stop: an interaction recorded and not yet
\* answered is on the App's handle, in resume.json, or held by the call that is between the
\* two (tombstone_app, ensure_active).
Holding == {"install", "clear", "insert", "persist"}
InteractionsAreKept ==
    overlapped \/ asked \subseteq
        resume \cup (IF handle = 0 THEN {} ELSE pend[handle])
               \cup UNION {call[c].held : c \in {d \in Calls : call[d].pc \in Holding}}

\* Unless a start overlapped another start or a stop: one supervision task at most is not
\* cancelled, so two workers never write one session; and when no call is under way, the App
\* is Active in its lifecycle record exactly when it has a handle, and then the broker has
\* the sink of that handle (AppLifecycle, PeerBroker::register).
Quiet == \A c \in Calls : call[c].pc \notin Starting \cup Stopping
RecordsAgree == (handle # 0 <=> life.phase = "Active") /\ sink = handle
OneWorker ==
    overlapped \/ (Cardinality(Receiving \ cancelled) <= 1 /\ (Quiet => RecordsAgree))

\* A stopped App's task ends and leaves no process behind, whatever state it was in, and
\* whichever child it was pumping (spawn_and_pump).
StoppedIsGone ==
    \A g \in Tasks : g \in cancelled ~> task[g] = "ended" /\ child[g] \notin Up

=============================================================================
