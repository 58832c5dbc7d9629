--------------------------- MODULE SupervisorProofs ---------------------------
(***************************************************************************)
(* The subprocess supervisor (Supervisor): the newest worker is routed to  *)
(* its task, and unless a start overlaps another start or a stop there is  *)
(* one worker and no interaction is lost, for any number of calls, workers *)
(* and interactions and any queue.                                         *)
(***************************************************************************)
EXTENDS Supervisor, FiniteSetTheorems, TLAPS

PCs == {"idle", "install", "clear", "insert", "record", "send", "full", "mark", "look", "sync",
        "remove", "persist", "shutdown", "grace", "phase"}
CallStates == [pc : PCs, op : {"none", "message"} \cup Questions, task : 0 .. MaxTask,
               held : SUBSET Questions]
TaskStates == {"none", "spawn", "wait", "pump", "closing", "ended"} \cup Questions
LifeStates == [phase : {"Unknown", "Active", "Tombstoned"}, turn : BOOLEAN, blocked : BOOLEAN]
Streams == {Dead, 0} \cup Tasks

\* A call that has something to send knows what, and one that stops a task knows which.
HasOp(s) ==
    /\ s.pc \in {"install", "clear", "insert", "record", "send", "full"} => s.op # "none"
    /\ s.pc \in {"full", "persist", "shutdown", "grace"} => s.task \in Tasks

CallTypes ==
    /\ call \in [Calls -> CallStates]
    /\ lock \in Calls \cup {Nobody} /\ overlapped \in BOOLEAN
    /\ \A c \in Calls : HasOp(call[c])

HostTypes ==
    /\ handle \in 0 .. MaxTask /\ sink \in 0 .. MaxTask
    /\ pend \in [Tasks -> SUBSET Questions] /\ resume \subseteq Questions
    /\ life \in LifeStates
    /\ asked \subseteq raised /\ raised \subseteq Questions

QueueTypes == out \in [Tasks -> Seq(Frames)] /\ \A g \in Tasks : Len(out[g]) <= OutCap

\* An interaction that a task waits to record was raised.
TaskTypes ==
    /\ task \in [Tasks -> TaskStates] /\ cancelled \subseteq Tasks /\ route \in 0 .. MaxTask
    /\ \A g \in Tasks : task[g] \in Questions => task[g] \in raised

StreamTypes ==
    /\ slot \in [Tasks -> Streams] /\ conn \in [Tasks -> Streams]
    /\ child \in [Tasks -> {"none", "dead"} \cup Up]
    /\ accepting \in [stream : Streams, to : 0 .. MaxTask]

Typed == CallTypes /\ HostTypes /\ QueueTypes /\ TaskTypes /\ StreamTypes

\* The tasks are started in order, and the newest is routed until it ends.
Routed ==
    /\ \A g \in Started, h \in Tasks : h < g => h \in Started
    /\ RouteIsNewest

Busy(c) == call[c].pc \in Starting \cup Stopping

\* What a call that starts or stops the App knows, when it is the only one: it holds the
\* handle, and what resume.json and the handle's record owe each other.
Stage(s) ==
    /\ s.pc \in {"install", "clear"} => handle = 0 /\ s.held = resume
    /\ s.pc \in {"insert", "persist"} =>
          handle = 0 /\ resume = {} /\ s.task \in Tasks /\ asked \cap s.held \subseteq pend[s.task]
    /\ s.pc \in {"clear", "insert", "record"} => s.task \in Tasks /\ sink = s.task
    /\ s.pc = "record" => handle = s.task
    /\ s.pc \in {"shutdown", "grace", "phase"} => handle = 0 /\ sink = 0

\* The one task that is not cancelled is the handle's, or that of the call that starts it or
\* stops it.
Live == Receiving \ cancelled
Holders == {"clear", "insert", "persist", "shutdown", "grace"}
Owned(s) == IF s.pc \in Holders THEN Live \subseteq {s.task} ELSE Live \subseteq {handle}

OnHandle == IF handle = 0 THEN {} ELSE pend[handle]
KeptBy(s) == asked \subseteq resume \cup OnHandle \cup (IF s.pc \in Holding THEN s.held ELSE {})

\* One call at most is starting or stopping the App, and all is as it knows.
Safe ==
    /\ \A c, d \in Calls : Busy(c) /\ Busy(d) => c = d
    /\ \A c \in Calls : Stage(call[c])
    /\ handle # 0 => resume = {}
    /\ \A c \in Calls : call[c].pc \in Holders => Live \subseteq {call[c].task}
    /\ (\A c \in Calls : call[c].pc \notin Holders) => Live \subseteq {handle}
    /\ InteractionsAreKept
    /\ Quiet => RecordsAgree

Ordered == overlapped \/ Safe

IInv == Typed /\ Routed /\ Ordered
-----------------------------------------------------------------------------
\* A step of one call.

\* Call c becomes s, and no other call moves.
Moves(c, s) ==
    /\ s \in CallStates /\ call' \in [Calls -> CallStates] /\ call'[c] = s
    /\ \A d \in Calls : d # c => call'[d] = call[d]

\* A call's fields have their types.
LEMMA CallTyped ==
    ASSUME CallTypes, NEW c \in Calls
    PROVE  /\ call[c] \in CallStates /\ call[c].pc \in PCs /\ call[c].task \in 0 .. MaxTask
           /\ call[c].op \in {"none", "message"} \cup Questions
           /\ call[c].held \subseteq Questions /\ HasOp(call[c])
BY DEF CallTypes, CallStates

\* A call that returned is a call.
LEMMA AtRestTyped == AtRest \in CallStates /\ AtRest.pc = "idle" /\ HasOp(AtRest)
BY SupervisorAssumption DEF AtRest, CallStates, PCs, Idle, HasOp

\* A call that is replaced moves.
LEMMA BecomesMoves ==
    ASSUME CallTypes, NEW c \in Calls, NEW s \in CallStates, call' = [call EXCEPT ![c] = s]
    PROVE  Moves(c, s)
BY DEF CallTypes, Moves

\* A call that goes on keeps what it holds.
LEMMA GotoMoves ==
    ASSUME CallTypes, NEW c \in Calls, NEW pc \in PCs, Goto(c, pc)
    PROVE  \E s \in CallStates : /\ Moves(c, s) /\ s.pc = pc /\ s.op = call[c].op
                                 /\ s.task = call[c].task /\ s.held = call[c].held
<1> DEFINE s == [call[c] EXCEPT !.pc = pc]
<1>1. call[c] \in CallStates
  BY CallTyped
<1>2. /\ s \in CallStates /\ s.pc = pc /\ s.op = call[c].op
      /\ s.task = call[c].task /\ s.held = call[c].held
  BY <1>1 DEF CallStates
<1>3. call' = [call EXCEPT ![c] = s]
  BY DEF Goto
<1> HIDE DEF s
<1>4. Moves(c, s)
  BY <1>2, <1>3, BecomesMoves
<1> QED
  BY <1>2, <1>4

\* A call that returns is at rest.
LEMMA ReturnMoves ==
    ASSUME CallTypes, NEW c \in Calls, Return(c)
    PROVE  Moves(c, AtRest)
BY AtRestTyped, BecomesMoves DEF Return

\* The calls keep their types.
LEMMA CallTypesStay ==
    ASSUME CallTypes, NEW c \in Calls, NEW s, Moves(c, s), HasOp(s),
           lock' \in {lock, Nobody, c}, overlapped' \in BOOLEAN
    PROVE  CallTypes'
<1>1. \A d \in Calls : HasOp(call'[d])
  BY DEF Moves, CallTypes
<1> QED
  BY <1>1 DEF CallTypes, Moves, HasOp

\* What is queued is a frame of the protocol.
LEMMA QueuedTyped ==
    ASSUME QueueTypes, NEW g \in Tasks, NEW f \in Frames, Room(g),
           out' = [out EXCEPT ![g] = Append(@, f)]
    PROVE  QueueTypes'
<1>1. out[g] \in Seq(Frames) /\ Len(out[g]) < OutCap
  BY DEF QueueTypes, Room
<1>2. Append(out[g], f) \in Seq(Frames) /\ Len(Append(out[g], f)) = Len(out[g]) + 1
  BY <1>1
<1>3. out'[g] = Append(out[g], f) /\ \A h \in Tasks : h # g => out'[h] = out[h]
  BY DEF QueueTypes
<1>4. out' \in [Tasks -> Seq(Frames)]
  BY <1>2 DEF QueueTypes
<1>5. Len(out'[g]) <= OutCap
  BY <1>1, <1>2, <1>3, SupervisorAssumption
<1> QED
  BY <1>3, <1>4, <1>5 DEF QueueTypes
-----------------------------------------------------------------------------
\* The tasks that are started, and the route.

\* A step that starts no task, and takes no route away.
LEMMA RoutedStays ==
    ASSUME Routed, route' = route,
           \A g \in Tasks : task'[g] = "none" <=> task[g] = "none",
           \A g \in Tasks : task[g] = "ended" => task'[g] = "ended"
    PROVE  Routed'
<1>1. Started' = Started
  BY DEF Started
<1> QED
  BY <1>1 DEF Routed, RouteIsNewest, Started

\* A step that revives no task adds none to those alive.
LEMMA LiveShrinks ==
    ASSUME \A g \in Tasks : task'[g] \notin {"none", "ended"} => task[g] \notin {"none", "ended"},
           cancelled \subseteq cancelled'
    PROVE  Live' \subseteq Live
BY DEF Live, Receiving
-----------------------------------------------------------------------------
\* What keeps the order of starts and stops.

\* A step of no call that starts or stops the App, which answers interactions at most.
LEMMA OthersKeep ==
    ASSUME Ordered, HostTypes, overlapped' = overlapped, UNCHANGED <<handle, sink, resume>>,
           \A d \in Calls : \/ call'[d] = call[d]
                            \/ call[d].pc \notin Starting \cup Stopping
                               /\ call'[d].pc \notin Starting \cup Stopping,
           asked' \subseteq asked, \A g \in Tasks : pend[g] \cap asked' \subseteq pend'[g],
           life'.phase = life.phase, Live' \subseteq Live
    PROVE  Ordered'
<1> SUFFICES ASSUME ~ overlapped
             PROVE  Safe'
  BY DEF Ordered
<1>1. Safe
  BY DEF Ordered
<1>2. \A d \in Calls : /\ Busy(d)' <=> Busy(d)
                       /\ Busy(d) => call'[d] = call[d]
  BY DEF Busy
<1>3. \A d \in Calls : call[d].pc \in Holders \cup Holding \/ call'[d].pc \in Holders \cup Holding
                           => Busy(d) /\ call'[d] = call[d]
  BY <1>2 DEF Busy, Holders, Holding, Starting, Stopping
<1>4. \A c, d \in Calls : Busy(c)' /\ Busy(d)' => c = d
  BY <1>1, <1>2 DEF Safe
<1>5. ASSUME NEW c \in Calls
      PROVE  Stage(call[c])'
  <2>1. CASE Busy(c)
    <3>1. Stage(call[c]) /\ call'[c] = call[c]
      BY <1>1, <1>2, <2>1 DEF Safe
    <3> HIDE DEF Busy
    <3> QED
      BY <3>1 DEF Stage
  <2>2. CASE ~ Busy(c)
    <3>1. call'[c].pc \notin Starting \cup Stopping
      BY <1>2, <2>2 DEF Busy
    <3> QED
      BY <3>1 DEF Stage, Starting, Stopping
  <2> QED
    BY <2>1, <2>2
<1>6. handle' # 0 => resume' = {}
  BY <1>1 DEF Safe
<1>7. \A c \in Calls : call'[c].pc \in Holders => Live' \subseteq {call'[c].task}
  BY <1>1, <1>3 DEF Safe
<1>8. (\A c \in Calls : call'[c].pc \notin Holders) => Live' \subseteq {handle'}
  BY <1>1, <1>3 DEF Safe
<1>9. InteractionsAreKept'
  <2>1. asked \subseteq resume \cup OnHandle \cup UNION {call[c].held : c \in {d \in Calls : call[d].pc \in Holding}}
    BY <1>1 DEF Safe, InteractionsAreKept, OnHandle
  <2>2. OnHandle \cap asked' \subseteq OnHandle'
    BY DEF OnHandle, HostTypes, Tasks
  <2>3. UNION {call[c].held : c \in {d \in Calls : call[d].pc \in Holding}}
            \subseteq UNION {call'[c].held : c \in {d \in Calls : call'[d].pc \in Holding}}
    BY <1>3
  <2> QED
    BY <2>1, <2>2, <2>3 DEF InteractionsAreKept, OnHandle
<1>10. Quiet' => RecordsAgree'
  BY <1>1, <1>2 DEF Safe, Quiet, RecordsAgree, Busy
<1> QED
  BY <1>4, <1>5, <1>6, <1>7, <1>8, <1>9, <1>10 DEF Safe

\* What is known when no call but c is starting or stopping the App.
SafeWith(s) ==
    /\ Stage(s) /\ (handle # 0 => resume = {})
    /\ Owned(s) /\ KeptBy(s)
    /\ s.pc \notin Starting \cup Stopping => RecordsAgree

\* It is known after a step.
StaysSafeWith(s) == SafeWith(s)'

\* The only call that starts or stops the App knows it all.
LEMMA AloneKnows ==
    ASSUME Safe, NEW c \in Calls, \A d \in Calls : d # c => ~ Busy(d), ~ overlapped
    PROVE  SafeWith(call[c])
<1>1. \A d \in Calls : d # c => call[d].pc \notin Holders \cup Holding
  BY DEF Busy, Holders, Holding, Starting, Stopping
<1>2. Stage(call[c]) /\ (handle # 0 => resume = {})
  BY DEF Safe
<1>3. Owned(call[c])
  BY <1>1 DEF Safe, Owned
<1>4. KeptBy(call[c])
  <2>1. asked \subseteq resume \cup OnHandle \cup UNION {call[d].held : d \in {e \in Calls : call[e].pc \in Holding}}
    BY DEF Safe, InteractionsAreKept, OnHandle
  <2> QED
    BY <1>1, <2>1 DEF KeptBy
<1>5. call[c].pc \notin Starting \cup Stopping => RecordsAgree
  BY DEF Safe, Quiet, Busy
<1> QED
  BY <1>2, <1>3, <1>4, <1>5 DEF SafeWith

\* A step of the only call that starts or stops the App.
LEMMA AloneKeeps ==
    ASSUME NEW c \in Calls, NEW s, Moves(c, s), \A d \in Calls : d # c => ~ Busy(d),
           StaysSafeWith(s)
    PROVE  Ordered'
<1> USE DEF StaysSafeWith
<1>1. \A d \in Calls : d # c => /\ call'[d].pc \notin Starting \cup Stopping
                                /\ call'[d].pc \notin Holders \cup Holding
  BY DEF Moves, Busy, Holders, Holding, Starting, Stopping
<1>2. call'[c] = s
  BY DEF Moves
<1>3. \A d, e \in Calls : Busy(d)' /\ Busy(e)' => d = e
  BY <1>1 DEF Busy
<1>4. \A d \in Calls : Stage(call[d])'
  <2>1. Stage(s)'
    BY DEF SafeWith
  <2>2. \A d \in Calls : d # c => Stage(call[d])'
    BY <1>1 DEF Stage, Starting, Stopping
  <2>3. Stage(call[c])'
    BY <1>2, <2>1 DEF Stage
  <2> QED
    BY <2>2, <2>3
<1>5. handle' # 0 => resume' = {}
  BY DEF SafeWith
<1>6. /\ \A d \in Calls : call'[d].pc \in Holders => Live' \subseteq {call'[d].task}
      /\ (\A d \in Calls : call'[d].pc \notin Holders) => Live' \subseteq {handle'}
  BY <1>1, <1>2 DEF SafeWith, Owned
<1>7. InteractionsAreKept'
  <2>1. asked' \subseteq resume' \cup OnHandle' \cup (IF s.pc \in Holding THEN s.held ELSE {})
    BY DEF SafeWith, KeptBy
  <2>2. s.pc \in Holding => s.held \subseteq UNION {call'[d].held : d \in {e \in Calls : call'[e].pc \in Holding}}
    BY <1>2
  <2> QED
    BY <2>1, <2>2 DEF InteractionsAreKept, OnHandle
<1>8. Quiet' => RecordsAgree'
  BY <1>2 DEF Quiet, SafeWith, RecordsAgree
<1> QED
  BY <1>3, <1>4, <1>5, <1>6, <1>7, <1>8 DEF Ordered, Safe

\* A call that begins to start or stop the App, or goes on with it, is the only one unless
\* that was noted.
LEMMA IsAlone ==
    ASSUME Ordered, NEW c \in Calls, ~ overlapped', overlapped \in BOOLEAN,
           (Busy(c) /\ overlapped' = overlapped) \/ overlapped' = Overlaps(c)
    PROVE  ~ overlapped /\ Safe /\ (\A d \in Calls : d # c => ~ Busy(d)) /\ SafeWith(call[c])
<1>1. ~ overlapped /\ Safe
  BY DEF Overlaps, Ordered
<1>2. \A d \in Calls : d # c => ~ Busy(d)
  BY <1>1 DEF Overlaps, Busy, Safe
<1> QED
  BY <1>1, <1>2, AloneKnows
-----------------------------------------------------------------------------
\* The calls keep the invariant.

\* ensure_active, up to the handle it finds or the start it begins; the sweeper's list.
LEMMA EnsureKeeps ==
    ASSUME Typed, Ordered, NEW c \in Calls, Ensure(c) \/ Sweep(c)
    PROVE  Typed' /\ Ordered'
<1>1. /\ CallTypes /\ HostTypes /\ QueueTypes /\ TaskTypes /\ StreamTypes /\ call[c] \in CallStates
      /\ call[c].pc = "idle" /\ overlapped \in BOOLEAN /\ overlapped' \in BOOLEAN
  BY CallTyped DEF Typed, CallTypes, Ensure, Sweep, Begins, Overlaps, Idle
<1>2. UNCHANGED <<lock, hostVars, taskVars, workVars, asked, raised>>
  BY DEF Ensure, Sweep
<1>3. HostTypes' /\ QueueTypes' /\ TaskTypes' /\ StreamTypes'
  BY <1>1, <1>2 DEF hostVars, taskVars, workVars, HostTypes, QueueTypes, TaskTypes, StreamTypes
<1>4. UNCHANGED <<handle, pend, out, life, resume, sink, task, cancelled, route, asked, raised, lock>>
  BY <1>2 DEF hostVars, taskVars
<1>5. CASE Sweep(c) \/ (Ensure(c) /\ handle # 0)
  <2>1. PICK s \in CallStates : Moves(c, s) /\ s.pc \in {"send", "remove"} /\ HasOp(s)
    <3>1. CASE Sweep(c)
      <4>1. Goto(c, "remove") /\ "remove" \in PCs
        BY <3>1 DEF Sweep, PCs
      <4>2. PICK s \in CallStates : Moves(c, s) /\ s.pc = "remove"
        BY <1>1, <4>1, GotoMoves
      <4> QED
        BY <4>2 DEF HasOp
    <3>2. CASE Ensure(c) /\ handle # 0
      <4>1. PICK op \in {"message"} \cup raised :
                call' = [call EXCEPT ![c].op = op, ![c].pc = "send"]
        BY <3>2 DEF Ensure
      <4> DEFINE s == [call[c] EXCEPT !.op = op, !.pc = "send"]
      <4>2. call' = [call EXCEPT ![c] = s]
        BY <1>1, <4>1 DEF CallTypes
      <4>3. op \in {"message"} \cup Questions /\ op # "none"
        BY <1>1, QuestionsAssumption DEF HostTypes
      <4>4. s \in CallStates /\ s.pc = "send" /\ s.op = op
        BY <1>1, <4>3 DEF CallStates, PCs
      <4> HIDE DEF s
      <4>5. Moves(c, s)
        BY <1>1, <4>2, <4>4, BecomesMoves
      <4> QED
        BY <4>3, <4>4, <4>5 DEF HasOp
    <3> QED
      BY <1>5, <3>1, <3>2
  <2>2. overlapped' = overlapped
    BY <1>5 DEF Ensure, Sweep
  <2>3. CallTypes'
    BY <1>1, <1>4, <2>1, CallTypesStay
  <2>4. Ordered'
    <3>1. \A d \in Calls : \/ call'[d] = call[d]
                           \/ call[d].pc \notin Starting \cup Stopping
                              /\ call'[d].pc \notin Starting \cup Stopping
      BY <1>1, <2>1 DEF Moves, Starting, Stopping
    <3>2. Live' = Live
      BY <1>4 DEF Live, Receiving
    <3> QED
      BY <1>1, <1>4, <2>2, <3>1, <3>2, OthersKeep
  <2> QED
    BY <1>3, <2>3, <2>4 DEF Typed
<1>6. CASE Ensure(c) /\ handle = 0
  <2>1. PICK op \in {"message"} \cup raised :
            call' = [call EXCEPT ![c].op = op, ![c].pc = "install", ![c].held = resume]
    BY <1>6 DEF Ensure
  <2>2. op \in {"message"} \cup Questions /\ op # "none" /\ resume \subseteq Questions
    BY <1>1, QuestionsAssumption DEF HostTypes
  <2>3. [call[c] EXCEPT !.op = op, !.pc = "install", !.held = resume] \in CallStates
    BY <1>1, <2>2 DEF CallStates, PCs
  <2>4. PICK s \in CallStates :
            s = [call[c] EXCEPT !.op = op, !.pc = "install", !.held = resume]
    BY <2>3
  <2>5. call' = [call EXCEPT ![c] = s]
    BY <1>1, <2>1, <2>4 DEF CallTypes
  <2>6. s.pc = "install" /\ s.op = op /\ s.held = resume
    BY <1>1, <2>4 DEF CallStates
  <2>7. Moves(c, s)
    BY <1>1, <2>5, BecomesMoves
  <2>8. CallTypes'
    BY <1>1, <1>4, <2>2, <2>6, <2>7, CallTypesStay DEF HasOp
  <2>9. Ordered'
    <3> SUFFICES ASSUME ~ overlapped'
                 PROVE  Ordered'
      BY DEF Ordered
    <3>1. overlapped' = Overlaps(c)
      BY <1>6 DEF Ensure
    <3>2. (\A d \in Calls : d # c => ~ Busy(d)) /\ SafeWith(call[c])
      BY <1>1, <3>1, IsAlone
    <3>3. Live' = Live /\ OnHandle' = OnHandle
      BY <1>4 DEF Live, Receiving, OnHandle
    <3>4. Live \subseteq {0} /\ asked \subseteq resume \cup OnHandle
      BY <1>1, <1>6, <3>2 DEF SafeWith, Owned, KeptBy, Holders, Holding
    <3>5. StaysSafeWith(s)
      <4>1. Stage(s)'
        BY <1>4, <1>6, <2>6 DEF Stage
      <4>2. Owned(s)'
        BY <1>4, <1>6, <2>6, <3>3, <3>4 DEF Owned, Holders
      <4>3. KeptBy(s)'
        BY <1>4, <2>6, <3>3, <3>4 DEF KeptBy
      <4> QED
        BY <1>4, <1>6, <2>6, <4>1, <4>2, <4>3 DEF StaysSafeWith, SafeWith, Starting
    <3> QED
      BY <2>7, <3>2, <3>5, AloneKeeps
  <2> QED
    BY <1>3, <2>8, <2>9 DEF Typed
<1> QED
  BY <1>5, <1>6

\* start_worker: the route, the sink and the task, which is one more than those started.
LEMMA InstallKeeps ==
    ASSUME Typed, Routed, Ordered, NEW c \in Calls, Install(c)
    PROVE  Typed' /\ Routed' /\ Ordered'
<1>1. /\ CallTypes /\ HostTypes /\ QueueTypes /\ TaskTypes /\ StreamTypes /\ call[c] \in CallStates
      /\ HasOp(call[c]) /\ call[c].pc = "install" /\ overlapped \in BOOLEAN /\ overlapped' = overlapped
  BY CallTyped DEF Typed, CallTypes, Install
<1>2. PICK g \in Tasks \ Started :
          /\ \A h \in Tasks \ Started : g <= h
          /\ route' = g /\ sink' = g /\ task' = [task EXCEPT ![g] = "spawn"]
          /\ call' = [call EXCEPT ![c].pc = "clear", ![c].task = g]
  BY DEF Install
<1>3. UNCHANGED <<lock, handle, pend, out, life, resume, cancelled, slot, conn,
                  child, todo, accepting, asked, raised>>
  BY DEF Install, workVars
<1>4. g \in 0 .. MaxTask /\ g # 0 /\ g \in Int
  BY SupervisorAssumption DEF Tasks
<1>5. [call[c] EXCEPT !.pc = "clear", !.task = g] \in CallStates
  BY <1>1, <1>4 DEF CallStates, PCs
<1>6. PICK s \in CallStates : s = [call[c] EXCEPT !.pc = "clear", !.task = g]
  BY <1>5
<1>7. /\ Moves(c, s) /\ s.pc = "clear" /\ s.task = g /\ s.op = call[c].op
      /\ s.held = call[c].held
  <2>1. call' = [call EXCEPT ![c] = s]
    BY <1>1, <1>2, <1>6 DEF CallTypes
  <2>2. s.pc = "clear" /\ s.task = g /\ s.op = call[c].op /\ s.held = call[c].held
    BY <1>1, <1>6 DEF CallStates
  <2> QED
    BY <1>1, <2>1, <2>2, BecomesMoves
<1>8. Typed'
  <2>1. CallTypes'
    BY <1>1, <1>3, <1>7, CallTypesStay DEF HasOp
  <2>2. HostTypes' /\ QueueTypes' /\ StreamTypes'
    BY <1>1, <1>2, <1>3, <1>4 DEF HostTypes, QueueTypes, StreamTypes
  <2>3. TaskTypes'
    BY <1>1, <1>2, <1>3, <1>4, QuestionsAssumption DEF TaskTypes, TaskStates
  <2> QED
    BY <2>1, <2>2, <2>3 DEF Typed
<1>9. Routed'
  <2>1. Started' = Started \cup {g} /\ task' [g] = "spawn" /\ Started \subseteq Tasks
    BY <1>1, <1>2 DEF Started, TaskTypes
  <2>2. \A h \in Tasks : h < g => h \in Started
    BY <1>2 DEF Tasks
  <2>3. \A h \in Started : h < g
    BY <1>2, <2>1 DEF Routed, Tasks
  <2>4. \A h \in Started', k \in Tasks : k < h => k \in Started'
    BY <2>1, <2>2 DEF Routed
  <2>5. RouteIsNewest'
    BY <1>2, <1>4, <2>1, <2>3 DEF RouteIsNewest, Tasks
  <2> QED
    BY <2>4, <2>5 DEF Routed
<1>10. Ordered'
  <2> SUFFICES ASSUME ~ overlapped'
               PROVE  Ordered'
    BY DEF Ordered
  <2>1. (\A d \in Calls : d # c => ~ Busy(d)) /\ SafeWith(call[c])
    BY <1>1, IsAlone DEF Busy, Starting
  <2>2. Live = {} /\ handle = 0 /\ s.held = resume
    BY <1>1, <1>7, <2>1 DEF SafeWith, Stage, Owned, Holders, Live, Receiving, Tasks
  <2>3. Live' \subseteq {g}
    BY <1>1, <1>2, <1>3, <2>2 DEF Live, Receiving, TaskTypes
  <2>4. StaysSafeWith(s)
    <3>1. Stage(s)'
      BY <1>2, <1>3, <1>7, <2>2 DEF Stage
    <3>2. Owned(s)'
      BY <1>7, <2>3 DEF Owned, Holders
    <3>3. KeptBy(s)'
      BY <1>1, <1>3, <1>7, <2>1 DEF SafeWith, KeptBy, OnHandle, Holding
    <3> QED
      BY <1>3, <1>7, <2>2, <3>1, <3>2, <3>3 DEF StaysSafeWith, SafeWith, Starting
  <2> QED
    BY <1>7, <2>1, <2>4, AloneKeeps
<1> QED
  BY <1>8, <1>9, <1>10

\* What a call that touches no task leaves as it was.
LEMMA TasksStay ==
    ASSUME TaskTypes, StreamTypes, UNCHANGED <<taskVars, workVars, raised>>
    PROVE  TaskTypes' /\ StreamTypes' /\ Live' = Live
BY DEF TaskTypes, StreamTypes, taskVars, workVars, Live, Receiving

\* ensure_active: the interactions of resume.json go to the new handle.
LEMMA ClearKeeps ==
    ASSUME Typed, Ordered, NEW c \in Calls, Clear(c)
    PROVE  Typed' /\ Ordered'
<1>1. /\ CallTypes /\ HostTypes /\ QueueTypes /\ TaskTypes /\ StreamTypes
      /\ HasOp(call[c]) /\ call[c].held \subseteq Questions
      /\ call[c].pc = "clear" /\ overlapped \in BOOLEAN /\ overlapped' = overlapped
  BY CallTyped DEF Typed, CallTypes, Clear
<1>2. /\ pend' = [pend EXCEPT ![call[c].task] = call[c].held] /\ resume' = {} /\ Goto(c, "insert")
      /\ UNCHANGED <<lock, handle, out, life, sink, asked, raised>>
      /\ UNCHANGED <<taskVars, workVars, raised>>
  BY DEF Clear, Reattach
<1>3. PICK s \in CallStates : /\ Moves(c, s) /\ s.pc = "insert" /\ s.op = call[c].op
                              /\ s.task = call[c].task /\ s.held = call[c].held
  BY <1>1, <1>2, GotoMoves DEF PCs
<1>4. Typed'
  <2>1. CallTypes'
    BY <1>1, <1>2, <1>3, CallTypesStay DEF HasOp
  <2>2. HostTypes' /\ QueueTypes'
    BY <1>1, <1>2 DEF HostTypes, QueueTypes
  <2> QED
    BY <1>1, <1>2, <2>1, <2>2, TasksStay DEF Typed
<1>5. Ordered'
  <2> SUFFICES ASSUME ~ overlapped'
               PROVE  Ordered'
    BY DEF Ordered
  <2>1. (\A d \in Calls : d # c => ~ Busy(d)) /\ SafeWith(call[c])
    BY <1>1, IsAlone DEF Busy, Starting
  <2>2. /\ handle = 0 /\ call[c].held = resume /\ call[c].task \in Tasks /\ sink = call[c].task
        /\ Live \subseteq {call[c].task} /\ asked \subseteq call[c].held
    BY <1>1, <2>1 DEF SafeWith, Stage, Owned, KeptBy, OnHandle, Holders
  <2>3. pend'[s.task] = s.held /\ Live' = Live
    BY <1>1, <1>2, <1>3, <2>2, TasksStay DEF HostTypes
  <2>4. Stage(s)' /\ Owned(s)' /\ KeptBy(s)'
    BY <1>2, <1>3, <2>2, <2>3 DEF Stage, Owned, Holders, KeptBy, Holding
  <2>5. StaysSafeWith(s)
    BY <1>2, <1>3, <2>2, <2>4 DEF StaysSafeWith, SafeWith, Starting
  <2> QED
    BY <1>3, <2>1, <2>5, AloneKeeps
<1> QED
  BY <1>4, <1>5

\* ensure_active: the new handle is the App's.
LEMMA InsertKeeps ==
    ASSUME Typed, Ordered, NEW c \in Calls, Insert(c)
    PROVE  Typed' /\ Ordered'
<1>1. /\ CallTypes /\ HostTypes /\ QueueTypes /\ TaskTypes /\ StreamTypes
      /\ HasOp(call[c]) /\ call[c].task \in 0 .. MaxTask
      /\ call[c].pc = "insert" /\ overlapped \in BOOLEAN /\ overlapped' = overlapped
  BY CallTyped DEF Typed, CallTypes, Insert
<1>2. /\ handle' = call[c].task /\ Goto(c, "record")
      /\ UNCHANGED <<lock, pend, out, life, resume, sink, asked, raised>>
      /\ UNCHANGED <<taskVars, workVars, raised>>
  BY DEF Insert
<1>3. PICK s \in CallStates : /\ Moves(c, s) /\ s.pc = "record" /\ s.op = call[c].op
                              /\ s.task = call[c].task /\ s.held = call[c].held
  BY <1>1, <1>2, GotoMoves DEF PCs
<1>4. Typed'
  <2>1. CallTypes'
    BY <1>1, <1>2, <1>3, CallTypesStay DEF HasOp
  <2>2. HostTypes' /\ QueueTypes'
    BY <1>1, <1>2 DEF HostTypes, QueueTypes
  <2> QED
    BY <1>1, <1>2, <2>1, <2>2, TasksStay DEF Typed
<1>5. Ordered'
  <2> SUFFICES ASSUME ~ overlapped'
               PROVE  Ordered'
    BY DEF Ordered
  <2>1. (\A d \in Calls : d # c => ~ Busy(d)) /\ SafeWith(call[c])
    BY <1>1, IsAlone DEF Busy, Starting
  <2>2. /\ handle = 0 /\ resume = {} /\ call[c].task \in Tasks /\ sink = call[c].task
        /\ Live \subseteq {call[c].task} /\ asked \subseteq pend[call[c].task]
    BY <1>1, <2>1 DEF SafeWith, Stage, Owned, KeptBy, OnHandle, Holders, Holding
  <2>3. OnHandle' = pend[call[c].task] /\ Live' = Live
    BY <1>1, <1>2, <2>2, TasksStay DEF OnHandle, Tasks
  <2>4. Stage(s)' /\ Owned(s)' /\ KeptBy(s)'
    BY <1>2, <1>3, <2>2, <2>3 DEF Stage, Owned, Holders, KeptBy
  <2>5. StaysSafeWith(s)
    BY <1>2, <1>3, <2>2, <2>4 DEF StaysSafeWith, SafeWith, Starting
  <2> QED
    BY <1>3, <2>1, <2>5, AloneKeeps
<1> QED
  BY <1>4, <1>5

\* ensure_active: the App is Active.
LEMMA RecordKeeps ==
    ASSUME Typed, Ordered, NEW c \in Calls, Record(c)
    PROVE  Typed' /\ Ordered'
<1>1. /\ CallTypes /\ HostTypes /\ QueueTypes /\ TaskTypes /\ StreamTypes /\ call[c] \in CallStates
      /\ HasOp(call[c]) /\ call[c].pc = "record"
      /\ overlapped \in BOOLEAN /\ overlapped' = overlapped
  BY CallTyped DEF Typed, CallTypes, Record
<1>2. /\ life' \in LifeStates /\ life'.phase = "Active"
      /\ call' = [call EXCEPT ![c].pc = "send", ![c].task = 0, ![c].held = {}]
      /\ UNCHANGED <<lock, handle, pend, out, resume, sink, asked, raised>>
      /\ UNCHANGED <<taskVars, workVars, raised>>
  BY DEF Record, LifeStates
<1>3. PICK s \in CallStates : /\ Moves(c, s) /\ s.pc = "send" /\ s.op = call[c].op
  <2>1. [call[c] EXCEPT !.pc = "send", !.task = 0, !.held = {}] \in CallStates
    <3>1. 0 \in 0 .. MaxTask
      BY SupervisorAssumption
    <3> QED
      BY <1>1, <3>1 DEF CallStates, PCs
  <2>2. PICK s \in CallStates : s = [call[c] EXCEPT !.pc = "send", !.task = 0, !.held = {}]
    BY <2>1
  <2>3. call' = [call EXCEPT ![c] = s]
    BY <1>1, <1>2, <2>2 DEF CallTypes
  <2>4. s.pc = "send" /\ s.op = call[c].op
    BY <1>1, <2>2 DEF CallStates
  <2> QED
    BY <1>1, <2>3, <2>4, BecomesMoves
<1>4. Typed'
  <2>1. CallTypes'
    BY <1>1, <1>2, <1>3, CallTypesStay DEF HasOp
  <2>2. HostTypes' /\ QueueTypes'
    BY <1>1, <1>2 DEF HostTypes, QueueTypes
  <2> QED
    BY <1>1, <1>2, <2>1, <2>2, TasksStay DEF Typed
<1>5. Ordered'
  <2> SUFFICES ASSUME ~ overlapped'
               PROVE  Ordered'
    BY DEF Ordered
  <2>1. (\A d \in Calls : d # c => ~ Busy(d)) /\ SafeWith(call[c])
    BY <1>1, IsAlone DEF Busy, Starting
  <2>2. /\ handle # 0 /\ handle = sink /\ resume = {} /\ Live \subseteq {handle}
        /\ asked \subseteq OnHandle
    BY <1>1, <2>1 DEF SafeWith, Stage, Owned, KeptBy, Holders, Holding, Tasks
  <2>3. OnHandle' = OnHandle /\ Live' = Live
    BY <1>1, <1>2, TasksStay DEF OnHandle
  <2>4. Stage(s)' /\ Owned(s)' /\ KeptBy(s)'
    BY <1>2, <1>3, <2>2, <2>3 DEF Stage, Owned, Holders, KeptBy
  <2>5. StaysSafeWith(s)
    BY <1>2, <1>3, <2>2, <2>4 DEF StaysSafeWith, SafeWith, RecordsAgree
  <2> QED
    BY <1>3, <2>1, <2>5, AloneKeeps
<1> QED
  BY <1>4, <1>5

\* What a call does between a start and a stop.
Sending == {"send", "full", "mark", "look", "sync"}

\* A call that neither starts nor stops the App.
LEMMA SenderKeeps ==
    ASSUME Typed, Ordered, NEW c \in Calls, NEW s, Moves(c, s), HasOp(s),
           call[c].pc \in Sending, s.pc \in Sending \cup {"idle"},
           lock' \in {lock, Nobody, c}, overlapped' = overlapped,
           UNCHANGED <<handle, sink, resume, raised>>, UNCHANGED <<taskVars, workVars, raised>>,
           QueueTypes', asked' \subseteq asked, pend' \in [Tasks -> SUBSET Questions],
           \A g \in Tasks : pend[g] \cap asked' \subseteq pend'[g],
           life' \in LifeStates, life'.phase = life.phase
    PROVE  Typed' /\ Ordered'
<1>1. /\ CallTypes /\ HostTypes /\ QueueTypes /\ TaskTypes /\ StreamTypes /\ overlapped \in BOOLEAN
  BY DEF Typed, CallTypes
<1>2. CallTypes'
  BY <1>1, CallTypesStay
<1>3. HostTypes'
  BY <1>1 DEF HostTypes
<1>4. TaskTypes' /\ StreamTypes' /\ Live' = Live
  BY <1>1, TasksStay
<1>5. \A d \in Calls : \/ call'[d] = call[d]
                       \/ call[d].pc \notin Starting \cup Stopping
                          /\ call'[d].pc \notin Starting \cup Stopping
  BY DEF Moves, Sending, Starting, Stopping
<1>6. Ordered'
  BY <1>1, <1>4, <1>5, OthersKeep
<1> QED
  BY <1>2, <1>3, <1>4, <1>6 DEF Typed

\* A frame is queued, and the interaction it answers is no longer pending.
LEMMA QueuedKeeps ==
    ASSUME HostTypes, QueueTypes, CallTypes, NEW c \in Calls, NEW g \in Tasks,
           Queued(c, g), Room(g), call[c].pc \in {"send", "full"}
    PROVE  /\ QueueTypes' /\ asked' \subseteq asked /\ pend' \in [Tasks -> SUBSET Questions]
           /\ \A h \in Tasks : pend[h] \cap asked' \subseteq pend'[h]
<1>1. call[c].op \in {"message"} \cup Questions
  BY CallTyped DEF HasOp
<1>2. Frame(call[c].op) \in Frames
  BY <1>1 DEF Frame, Frames
<1>3. QueueTypes'
  BY <1>2, QueuedTyped DEF Queued
<1>4. /\ pend' = [pend EXCEPT ![g] = @ \ {call[c].op}] /\ asked' = asked \ {call[c].op}
  BY DEF Queued
<1> QED
  BY <1>3, <1>4 DEF HostTypes

\* send_message and respond_to_interaction, with the runtimes locked.
LEMMA SendKeeps ==
    ASSUME Typed, Ordered, NEW c \in Calls, Send(c) \/ SendWhenRoom(c)
    PROVE  Typed' /\ Ordered'
<1>1. /\ CallTypes /\ HostTypes /\ QueueTypes /\ call[c] \in CallStates /\ HasOp(call[c])
      /\ call[c].pc \in {"send", "full"} /\ call[c].pc \in Sending
  BY CallTyped DEF Typed, Send, SendWhenRoom, Sending
<1>2. /\ overlapped' = overlapped /\ lock' \in {lock, Nobody, c}
      /\ UNCHANGED <<handle, sink, resume, raised, life>> /\ UNCHANGED <<taskVars, workVars, raised>>
      /\ life \in LifeStates
  BY <1>1 DEF Send, SendWhenRoom, HostTypes
<1>3. CASE \E g \in Tasks : Queued(c, g) /\ Room(g)
  <2>1. /\ QueueTypes' /\ asked' \subseteq asked /\ pend' \in [Tasks -> SUBSET Questions]
        /\ \A h \in Tasks : pend[h] \cap asked' \subseteq pend'[h]
    BY <1>1, <1>3, QueuedKeeps
  <2>2. PICK s \in CallStates : Moves(c, s) /\ s.pc = "mark"
    BY <1>1, <1>3, GotoMoves DEF Queued, PCs
  <2>3. HasOp(s) /\ s.pc \in Sending
    BY <2>2 DEF HasOp, Sending
  <2> QED
    BY <1>1, <1>2, <2>1, <2>2, <2>3, SenderKeeps
<1>4. ASSUME UNCHANGED <<out, pend, asked>>,
             \/ Return(c)
             \/ handle \in Tasks /\ call' = [call EXCEPT ![c].pc = "full", ![c].task = handle]
      PROVE  Typed' /\ Ordered'
  <2>1. /\ QueueTypes' /\ asked' \subseteq asked /\ pend' \in [Tasks -> SUBSET Questions]
        /\ \A h \in Tasks : pend[h] \cap asked' \subseteq pend'[h]
    BY <1>1, <1>4 DEF QueueTypes, HostTypes
  <2>2. PICK s \in CallStates : Moves(c, s) /\ s.pc \in {"idle", "full"} /\ HasOp(s)
    <3>1. CASE Return(c)
      BY <1>1, <3>1, ReturnMoves, AtRestTyped
    <3>2. CASE handle \in Tasks /\ call' = [call EXCEPT ![c].pc = "full", ![c].task = handle]
      <4>1. [call[c] EXCEPT !.pc = "full", !.task = handle] \in CallStates
        BY <1>1 DEF CallStates, PCs, HostTypes
      <4>2. PICK s \in CallStates : s = [call[c] EXCEPT !.pc = "full", !.task = handle]
        BY <4>1
      <4>3. call' = [call EXCEPT ![c] = s]
        BY <1>1, <3>2, <4>2 DEF CallTypes
      <4>4. s.pc = "full" /\ HasOp(s)
        BY <1>1, <3>2, <4>2 DEF CallStates, HasOp
      <4> QED
        BY <1>1, <4>3, <4>4, BecomesMoves
    <3> QED
      BY <1>4, <3>1, <3>2
  <2>3. s.pc \in Sending \cup {"idle"}
    BY <2>2 DEF Sending
  <2> QED
    BY <1>1, <1>2, <2>1, <2>2, <2>3, SenderKeeps
<1>5. \/ \E g \in Tasks : Queued(c, g) /\ Room(g)
      \/ /\ UNCHANGED <<out, pend, asked>>
         /\ \/ Return(c)
            \/ /\ handle \in Tasks
               /\ call' = [call EXCEPT ![c].pc = "full", ![c].task = handle]
  <2>1. CASE Send(c)
    BY <2>1 DEF Send, Receiving
  <2>2. CASE SendWhenRoom(c)
    BY <1>1, <2>2 DEF SendWhenRoom, HasOp
  <2> QED
    BY <2>1, <2>2
<1> QED
  BY <1>3, <1>4, <1>5

\* mark_turn_started and sync_pending_interaction.
LEMMA MarkKeeps ==
    ASSUME Typed, Ordered, NEW c \in Calls, Mark(c) \/ Look(c) \/ Sync(c)
    PROVE  Typed' /\ Ordered'
<1>1. /\ CallTypes /\ HostTypes /\ QueueTypes /\ call[c] \in CallStates
      /\ call[c].pc \in Sending
  BY CallTyped DEF Typed, Mark, Look, Sync, Sending
<1>2. /\ overlapped' = overlapped /\ lock' \in {lock, Nobody, c}
      /\ UNCHANGED <<handle, sink, resume, raised>> /\ UNCHANGED <<taskVars, workVars, raised>>
      /\ UNCHANGED <<out, pend, asked>>
  BY <1>1 DEF Mark, Look, Sync, hostVars
<1>3. QueueTypes' /\ asked' \subseteq asked /\ pend' \in [Tasks -> SUBSET Questions]
  BY <1>1, <1>2 DEF QueueTypes, HostTypes
<1>4. life' \in LifeStates /\ life'.phase = life.phase
  <2>1. life \in LifeStates
    BY <1>1 DEF HostTypes
  <2> QED
    BY <2>1 DEF Mark, Look, Sync, hostVars, LifeStates
<1>5. PICK s \in CallStates : Moves(c, s) /\ s.pc \in {"idle", "look", "sync"}
  <2>1. CASE Return(c)
    BY <1>1, <2>1, ReturnMoves, AtRestTyped
  <2>2. CASE Goto(c, "look")
    BY <1>1, <2>2, GotoMoves DEF PCs
  <2>3. CASE Look(c)
    <3> DEFINE held == IF handle = 0 THEN {} ELSE pend[handle]
    <3>1. held \subseteq Questions
      BY <1>1 DEF HostTypes, Tasks
    <3>2. call' = [call EXCEPT ![c].pc = "sync", ![c].held = held]
      BY <2>3 DEF Look
    <3> HIDE DEF held
    <3>3. [call[c] EXCEPT !.pc = "sync", !.held = held] \in CallStates
      BY <1>1, <3>1 DEF CallStates, PCs
    <3>4. PICK s \in CallStates : s = [call[c] EXCEPT !.pc = "sync", !.held = held]
      BY <3>3
    <3>5. call' = [call EXCEPT ![c] = s]
      BY <1>1, <3>2, <3>4 DEF CallTypes
    <3>6. s.pc = "sync"
      BY <1>1, <3>4 DEF CallStates
    <3> QED
      BY <1>1, <3>5, <3>6, BecomesMoves
  <2> QED
    BY <2>1, <2>2, <2>3 DEF Mark, Sync
<1>6. HasOp(s) /\ s.pc \in Sending \cup {"idle"}
  BY <1>5 DEF HasOp, Sending
<1>7. \A g \in Tasks : pend[g] \cap asked' \subseteq pend'[g]
  BY <1>2
<1> QED
  BY <1>1, <1>2, <1>3, <1>4, <1>5, <1>6, <1>7, SenderKeeps

\* tombstone_app takes the handle, with the interactions it has.
LEMMA TakeKeeps ==
    ASSUME Typed, Ordered, NEW c \in Calls, Suspend(c) \/ Remove(c)
    PROVE  Typed' /\ Ordered'
<1>1. /\ CallTypes /\ HostTypes /\ QueueTypes /\ TaskTypes /\ StreamTypes /\ call[c] \in CallStates
      /\ call[c].pc \in {"idle", "remove"} /\ TakeHandle(c)
      /\ overlapped \in BOOLEAN /\ overlapped' \in BOOLEAN
  BY CallTyped DEF Typed, CallTypes, Suspend, Remove, TakeHandle, Begins, Overlaps, Idle
<1>2. /\ handle' = 0
      /\ UNCHANGED <<lock, pend, out, life, resume, sink, asked, raised>>
      /\ UNCHANGED <<taskVars, workVars, raised>>
  BY <1>1 DEF TakeHandle
<1>3. HostTypes' /\ QueueTypes' /\ TaskTypes' /\ StreamTypes' /\ Live' = Live
  <2>1. HostTypes' /\ QueueTypes'
    BY <1>1, <1>2, SupervisorAssumption DEF HostTypes, QueueTypes
  <2> QED
    BY <1>1, <1>2, <2>1, TasksStay
<1>4. CASE handle = 0
  <2>1. Moves(c, AtRest) /\ overlapped' = overlapped
    BY <1>1, <1>4, ReturnMoves DEF TakeHandle
  <2>2. CallTypes'
    BY <1>1, <1>2, <2>1, AtRestTyped, CallTypesStay
  <2>3. \A d \in Calls : \/ call'[d] = call[d]
                         \/ call[d].pc \notin Starting \cup Stopping
                            /\ call'[d].pc \notin Starting \cup Stopping
    BY <1>1, <2>1, AtRestTyped DEF Moves, Starting, Stopping
  <2>4. Ordered'
    BY <1>1, <1>2, <1>3, <1>4, <2>1, <2>3, OthersKeep
  <2> QED
    BY <1>3, <2>2, <2>4 DEF Typed
<1>5. CASE handle # 0
  <2>1. handle \in Tasks /\ pend[handle] \subseteq Questions
    BY <1>1, <1>5 DEF HostTypes, Tasks
  <2>2. /\ call' = [call EXCEPT ![c].pc = "persist", ![c].task = handle, ![c].held = pend[handle]]
        /\ overlapped' = Overlaps(c)
    BY <1>1, <1>5 DEF TakeHandle
  <2>3. [call[c] EXCEPT !.pc = "persist", !.task = handle, !.held = pend[handle]] \in CallStates
    BY <1>1, <2>1 DEF CallStates, PCs, HostTypes
  <2>4. PICK s \in CallStates :
            s = [call[c] EXCEPT !.pc = "persist", !.task = handle, !.held = pend[handle]]
    BY <2>3
  <2>5. s.pc = "persist" /\ s.task = handle /\ s.held = pend[handle] /\ Moves(c, s)
    <3>1. call' = [call EXCEPT ![c] = s]
      BY <1>1, <2>2, <2>4 DEF CallTypes
    <3>2. s.pc = "persist" /\ s.task = handle /\ s.held = pend[handle]
      BY <1>1, <2>4 DEF CallStates
    <3> QED
      BY <1>1, <3>1, <3>2, BecomesMoves
  <2>6. CallTypes'
    BY <1>1, <1>2, <2>1, <2>5, CallTypesStay DEF HasOp
  <2>7. Ordered'
    <3> SUFFICES ASSUME ~ overlapped'
                 PROVE  Ordered'
      BY DEF Ordered
    <3>1. (\A d \in Calls : d # c => ~ Busy(d)) /\ SafeWith(call[c])
      BY <1>1, <2>2, IsAlone
    <3>2. resume = {} /\ Live \subseteq {handle} /\ asked \subseteq pend[handle]
      BY <1>1, <1>5, <3>1 DEF SafeWith, Owned, KeptBy, OnHandle, Holders, Holding
    <3>3. Stage(s)' /\ Owned(s)' /\ KeptBy(s)'
      BY <1>2, <1>3, <2>1, <2>5, <3>2 DEF Stage, Owned, Holders, KeptBy, Holding
    <3>4. StaysSafeWith(s)
      BY <1>2, <2>5, <3>2, <3>3 DEF StaysSafeWith, SafeWith, Stopping
    <3> QED
      BY <2>5, <3>1, <3>4, AloneKeeps
  <2> QED
    BY <1>3, <2>6, <2>7 DEF Typed
<1> QED
  BY <1>4, <1>5

\* tombstone_app: the sink goes, and the pending interactions go to resume.json.
LEMMA PersistKeeps ==
    ASSUME Typed, Ordered, NEW c \in Calls, Persist(c)
    PROVE  Typed' /\ Ordered'
<1>1. /\ CallTypes /\ HostTypes /\ QueueTypes /\ TaskTypes /\ StreamTypes /\ call[c] \in CallStates
      /\ call[c].task \in Tasks /\ call[c].pc = "persist"
      /\ overlapped \in BOOLEAN /\ overlapped' = overlapped
  BY CallTyped DEF Typed, CallTypes, Persist, HasOp
<1>2. /\ sink' = 0 /\ resume' = pend[call[c].task]
      /\ call' = [call EXCEPT ![c].pc = "shutdown", ![c].held = {}]
      /\ UNCHANGED <<lock, handle, pend, out, life, asked, raised>>
      /\ UNCHANGED <<taskVars, workVars, raised>>
  BY DEF Persist, Persisted
<1>3. PICK s \in CallStates : Moves(c, s) /\ s.pc = "shutdown" /\ s.task = call[c].task
  <2>1. [call[c] EXCEPT !.pc = "shutdown", !.held = {}] \in CallStates
    BY <1>1 DEF CallStates, PCs
  <2>2. PICK s \in CallStates : s = [call[c] EXCEPT !.pc = "shutdown", !.held = {}]
    BY <2>1
  <2>3. call' = [call EXCEPT ![c] = s]
    BY <1>1, <1>2, <2>2 DEF CallTypes
  <2>4. s.pc = "shutdown" /\ s.task = call[c].task
    BY <1>1, <2>2 DEF CallStates
  <2> QED
    BY <1>1, <2>3, <2>4, BecomesMoves
<1>4. Typed'
  <2>1. CallTypes'
    BY <1>1, <1>2, <1>3, CallTypesStay DEF HasOp
  <2>2. HostTypes' /\ QueueTypes'
    BY <1>1, <1>2, SupervisorAssumption DEF HostTypes, QueueTypes
  <2> QED
    BY <1>1, <1>2, <2>1, <2>2, TasksStay DEF Typed
<1>5. Ordered'
  <2> SUFFICES ASSUME ~ overlapped'
               PROVE  Ordered'
    BY DEF Ordered
  <2>1. (\A d \in Calls : d # c => ~ Busy(d)) /\ SafeWith(call[c])
    BY <1>1, IsAlone DEF Busy, Stopping
  <2>2. handle = 0 /\ Live \subseteq {call[c].task} /\ asked \subseteq pend[call[c].task]
    BY <1>1, <2>1 DEF SafeWith, Stage, Owned, KeptBy, OnHandle, Holders, Holding
  <2>3. Live' = Live
    BY <1>1, <1>2, TasksStay
  <2>4. Stage(s)' /\ Owned(s)' /\ KeptBy(s)'
    BY <1>2, <1>3, <2>2, <2>3 DEF Stage, Owned, Holders, KeptBy
  <2>5. StaysSafeWith(s)
    BY <1>2, <1>3, <2>2, <2>4 DEF StaysSafeWith, SafeWith, Stopping
  <2> QED
    BY <1>3, <2>1, <2>5, AloneKeeps
<1> QED
  BY <1>4, <1>5

\* tombstone_app: the worker is asked to shut down.
LEMMA AskShutdownKeeps ==
    ASSUME Typed, Ordered, NEW c \in Calls, AskShutdown(c)
    PROVE  Typed' /\ Ordered'
<1>1. /\ CallTypes /\ HostTypes /\ QueueTypes /\ TaskTypes /\ StreamTypes
      /\ call[c].task \in Tasks /\ call[c].pc = "shutdown"
      /\ overlapped \in BOOLEAN /\ overlapped' = overlapped
  BY CallTyped DEF Typed, CallTypes, AskShutdown, HasOp
<1>2. /\ Goto(c, "grace")
      /\ UNCHANGED <<lock, handle, pend, life, resume, sink, asked, raised>>
      /\ UNCHANGED <<taskVars, workVars, raised>>
  BY DEF AskShutdown
<1>3. PICK s \in CallStates : Moves(c, s) /\ s.pc = "grace" /\ s.task = call[c].task
  BY <1>1, <1>2, GotoMoves DEF PCs
<1>4. Typed'
  <2>1. CallTypes'
    BY <1>1, <1>2, <1>3, CallTypesStay DEF HasOp
  <2>2. HostTypes'
    BY <1>1, <1>2 DEF HostTypes
  <2>3. QueueTypes'
    <3>1. CASE UNCHANGED out
      BY <1>1, <3>1 DEF QueueTypes
    <3>2. CASE Room(call[c].task) /\ out' = [out EXCEPT ![call[c].task] = Append(@, "shutdown")]
      BY <1>1, <3>2, QueuedTyped DEF Frames
    <3> QED
      BY <3>1, <3>2 DEF AskShutdown
  <2> QED
    BY <1>1, <1>2, <2>1, <2>2, <2>3, TasksStay DEF Typed
<1>5. Ordered'
  <2> SUFFICES ASSUME ~ overlapped'
               PROVE  Ordered'
    BY DEF Ordered
  <2>1. (\A d \in Calls : d # c => ~ Busy(d)) /\ SafeWith(call[c])
    BY <1>1, IsAlone DEF Busy, Stopping
  <2>2. handle = 0 /\ sink = 0 /\ Live \subseteq {call[c].task} /\ asked \subseteq resume
    BY <1>1, <2>1 DEF SafeWith, Stage, Owned, KeptBy, OnHandle, Holders, Holding
  <2>3. Live' = Live
    BY <1>1, <1>2, TasksStay
  <2>4. Stage(s)' /\ Owned(s)' /\ KeptBy(s)'
    BY <1>2, <1>3, <2>2, <2>3 DEF Stage, Owned, Holders, KeptBy
  <2>5. StaysSafeWith(s)
    BY <1>2, <1>3, <2>2, <2>4 DEF StaysSafeWith, SafeWith, Stopping
  <2> QED
    BY <1>3, <2>1, <2>5, AloneKeeps
<1> QED
  BY <1>4, <1>5

\* tombstone_app: the token is cancelled, and the handle is dropped with what it had.
LEMMA CancelKeeps ==
    ASSUME Typed, Ordered, NEW c \in Calls, Cancel(c)
    PROVE  Typed' /\ Ordered'
<1>1. /\ CallTypes /\ HostTypes /\ QueueTypes /\ TaskTypes /\ StreamTypes /\ call[c] \in CallStates
      /\ call[c].task \in Tasks /\ call[c].pc = "grace"
      /\ overlapped \in BOOLEAN /\ overlapped' = overlapped
  BY CallTyped DEF Typed, CallTypes, Cancel, HasOp
<1>2. /\ cancelled' = cancelled \cup {call[c].task}
      /\ pend' = [pend EXCEPT ![call[c].task] = {}]
      /\ call' = [call EXCEPT ![c].pc = "phase", ![c].task = 0]
      /\ UNCHANGED <<lock, handle, out, life, resume, sink, task, slot, conn, route, workVars,
                     asked, raised>>
  BY DEF Cancel, CancelledBy
<1>3. PICK s \in CallStates : Moves(c, s) /\ s.pc = "phase"
  <2>1. [call[c] EXCEPT !.pc = "phase", !.task = 0] \in CallStates
    <3>1. 0 \in 0 .. MaxTask
      BY SupervisorAssumption
    <3> QED
      BY <1>1, <3>1 DEF CallStates, PCs
  <2>2. PICK s \in CallStates : s = [call[c] EXCEPT !.pc = "phase", !.task = 0]
    BY <2>1
  <2>3. call' = [call EXCEPT ![c] = s]
    BY <1>1, <1>2, <2>2 DEF CallTypes
  <2>4. s.pc = "phase"
    BY <1>1, <2>2 DEF CallStates
  <2> QED
    BY <1>1, <2>3, <2>4, BecomesMoves
<1>4. Typed'
  <2>1. CallTypes'
    BY <1>1, <1>2, <1>3, CallTypesStay DEF HasOp
  <2>2. HostTypes' /\ QueueTypes' /\ TaskTypes' /\ StreamTypes'
    BY <1>1, <1>2 DEF HostTypes, QueueTypes, TaskTypes, StreamTypes, workVars
  <2> QED
    BY <2>1, <2>2 DEF Typed
<1>5. Ordered'
  <2> SUFFICES ASSUME ~ overlapped'
               PROVE  Ordered'
    BY DEF Ordered
  <2>1. (\A d \in Calls : d # c => ~ Busy(d)) /\ SafeWith(call[c])
    BY <1>1, IsAlone DEF Busy, Stopping
  <2>2. handle = 0 /\ sink = 0 /\ Live \subseteq {call[c].task} /\ asked \subseteq resume
    BY <1>1, <2>1 DEF SafeWith, Stage, Owned, KeptBy, OnHandle, Holders, Holding
  <2>3. Live' = {}
    BY <1>2, <2>2 DEF Live, Receiving
  <2>4. Stage(s)' /\ Owned(s)' /\ KeptBy(s)'
    BY <1>2, <1>3, <2>2, <2>3 DEF Stage, Owned, Holders, KeptBy
  <2>5. StaysSafeWith(s)
    BY <1>2, <1>3, <2>2, <2>4 DEF StaysSafeWith, SafeWith, Stopping
  <2> QED
    BY <1>3, <2>1, <2>5, AloneKeeps
<1> QED
  BY <1>4, <1>5

\* tombstone_app: the App is Tombstoned.
LEMMA SetPhaseKeeps ==
    ASSUME Typed, Ordered, NEW c \in Calls, SetPhase(c)
    PROVE  Typed' /\ Ordered'
<1>1. /\ CallTypes /\ HostTypes /\ QueueTypes /\ TaskTypes /\ StreamTypes /\ life \in LifeStates
      /\ call[c].pc = "phase" /\ overlapped \in BOOLEAN /\ overlapped' = overlapped
  BY DEF Typed, CallTypes, HostTypes, SetPhase
<1>2. /\ life' = Tombstoned
      /\ UNCHANGED <<lock, handle, pend, out, resume, sink, asked, raised>>
      /\ UNCHANGED <<taskVars, workVars, raised>>
  BY DEF SetPhase
<1>3. PICK s \in CallStates : Moves(c, s) /\ s.pc = "idle" /\ HasOp(s)
  BY <1>1, ReturnMoves, AtRestTyped DEF SetPhase
<1>4. life' \in LifeStates /\ life'.phase # "Active"
  <2>1. CASE life = Unknown
    <3>1. life' = life /\ life.phase = "Unknown"
      BY <1>2, <2>1 DEF Tombstoned, Unknown
    <3> QED
      BY <1>1, <3>1
  <2>2. CASE life # Unknown
    <3>1. life' = [life EXCEPT !.phase = "Tombstoned", !.turn = FALSE]
      BY <1>2, <2>2 DEF Tombstoned
    <3> QED
      BY <1>1, <3>1 DEF LifeStates
  <2> QED
    BY <2>1, <2>2
<1>5. Typed'
  <2>1. CallTypes'
    BY <1>1, <1>2, <1>3, CallTypesStay
  <2>2. HostTypes' /\ QueueTypes'
    BY <1>1, <1>2, <1>4 DEF HostTypes, QueueTypes
  <2> QED
    BY <1>1, <1>2, <2>1, <2>2, TasksStay DEF Typed
<1>6. Ordered'
  <2> SUFFICES ASSUME ~ overlapped'
               PROVE  Ordered'
    BY DEF Ordered
  <2>1. (\A d \in Calls : d # c => ~ Busy(d)) /\ SafeWith(call[c])
    BY <1>1, IsAlone DEF Busy, Stopping
  <2>2. handle = 0 /\ sink = 0 /\ Live \subseteq {handle} /\ asked \subseteq resume
    BY <1>1, <2>1 DEF SafeWith, Stage, Owned, KeptBy, OnHandle, Holders, Holding
  <2>3. Live' = Live
    BY <1>1, <1>2, TasksStay
  <2>4. Stage(s)' /\ Owned(s)' /\ KeptBy(s)'
    BY <1>2, <1>3, <2>2, <2>3 DEF Stage, Owned, Holders, KeptBy
  <2>5. StaysSafeWith(s)
    BY <1>2, <1>3, <1>4, <2>2, <2>4 DEF StaysSafeWith, SafeWith, RecordsAgree
  <2> QED
    BY <1>3, <2>1, <2>5, AloneKeeps
<1> QED
  BY <1>5, <1>6
-----------------------------------------------------------------------------
\* The supervision tasks keep the invariant.

\* What an end of children does to the streams.
LEMMA KillTyped ==
    ASSUME StreamTypes, NEW hs \in SUBSET Tasks, Kill(hs)
    PROVE  /\ child' \in [Tasks -> {"none", "dead"} \cup Up]
           /\ accepting' \in [stream : Streams, to : 0 .. MaxTask]
BY DEF StreamTypes, Kill, Streams

LEMMA DiesTyped ==
    ASSUME NEW f \in [Tasks -> Streams], NEW hs
    PROVE  Dies(f, hs) \in [Tasks -> Streams]
BY DEF Dies, Streams

\* What a task reads from its queue is gone from it.
LEMMA TailTyped ==
    ASSUME QueueTypes, NEW g \in Tasks,
           out' = [out EXCEPT ![g] = <<>>]
           \/ (out[g] # <<>> /\ out' = [out EXCEPT ![g] = Tail(@)])
    PROVE  QueueTypes'
<1>1. out[g] \in Seq(Frames) /\ Len(out[g]) <= OutCap /\ <<>> \in Seq(Frames) /\ Len(<<>>) = 0
  BY DEF QueueTypes
<1>2. PICK t \in Seq(Frames) : out' = [out EXCEPT ![g] = t] /\ Len(t) <= OutCap
  <2>1. CASE out' = [out EXCEPT ![g] = <<>>]
    <3>1. <<>> \in Seq(Frames) /\ Len(<<>>) <= OutCap
      BY <1>1, SupervisorAssumption
    <3> QED
      BY <2>1, <3>1
  <2>2. CASE out[g] # <<>> /\ out' = [out EXCEPT ![g] = Tail(@)]
    <3>1. Tail(out[g]) \in Seq(Frames) /\ Len(Tail(out[g])) <= OutCap
      BY <1>1, <2>2, SupervisorAssumption
    <3> QED
      BY <2>2, <3>1
  <2> QED
    BY <2>1, <2>2
<1> QED
  BY <1>2 DEF QueueTypes

\* A step of the tasks, the children and the router starts no call and records nothing.
LEMMA WorkersKeep ==
    ASSUME Typed, Routed, Ordered,
           UNCHANGED <<call, overlapped, lock, handle, pend, resume, sink, asked, cancelled>>,
           QueueTypes', StreamTypes', life' \in LifeStates, life'.phase = life.phase,
           raised \subseteq raised', raised' \subseteq Questions,
           \A g \in Tasks : \/ task'[g] = task[g]
                            \/ task[g] \notin {"none", "ended"} /\ task'[g] # "none",
           \A g \in Tasks : task'[g] \in Questions => task'[g] \in raised',
           task' \in [Tasks -> TaskStates],
           route' = route \/ (route' = 0 /\ \E g \in Tasks : route = g /\ task'[g] = "ended")
    PROVE  Typed' /\ Routed' /\ Ordered'
<1>1. /\ CallTypes /\ HostTypes /\ TaskTypes
  BY DEF Typed
<1>2. Typed'
  <2>1. CallTypes' /\ HostTypes'
    BY <1>1 DEF CallTypes, HostTypes, HasOp
  <2>2. TaskTypes'
    BY <1>1, SupervisorAssumption DEF TaskTypes
  <2> QED
    BY <2>1, <2>2 DEF Typed
<1>3. Routed'
  <2>1. Started' = Started
    BY DEF Started
  <2>2. \A g \in Started', h \in Tasks : h < g => h \in Started'
    BY <2>1 DEF Routed
  <2>3. RouteIsNewest'
    <3> SUFFICES ASSUME NEW g \in Started, \A h \in Started : h <= g, task'[g] # "ended"
                 PROVE  route' = g
      BY <2>1 DEF RouteIsNewest
    <3>1. route = g /\ g \in Tasks
      BY DEF Routed, RouteIsNewest, Started
    <3> QED
      BY <3>1
  <2> QED
    BY <2>2, <2>3 DEF Routed
<1>4. Ordered'
  <2>1. Live' \subseteq Live
    BY LiveShrinks
  <2> QED
    BY <1>1, <2>1, OthersKeep
<1> QED
  BY <1>2, <1>3, <1>4

\* spawn_and_pump: a child is spawned, connects, and writes and reads frames.
LEMMA PumpKeeps ==
    ASSUME Typed, Routed, Ordered, NEW g \in Tasks,
           SpawnChild(g) \/ Connected(g) \/ PumpOut(g) \/ Finish(g)
           \/ \E q \in Questions : Ask(g, q)
    PROVE  Typed' /\ Routed' /\ Ordered'
<1>1. HostTypes /\ QueueTypes /\ TaskTypes /\ StreamTypes /\ life \in LifeStates
  BY DEF Typed, HostTypes
<1>2. UNCHANGED <<call, overlapped, lock, handle, pend, resume, sink, asked, cancelled, route>>
  BY DEF SpawnChild, Connected, PumpOut, Finish, Ask, callVars, hostVars, taskVars
<1>3. QueueTypes'
  <2>1. CASE PumpOut(g)
    BY <1>1, <2>1, TailTyped DEF PumpOut
  <2>2. CASE out' = out
    BY <1>1, <2>2 DEF QueueTypes
  <2> QED
    BY <2>1, <2>2 DEF SpawnChild, Connected, Finish, Ask, hostVars
<1>4. life' \in LifeStates /\ life'.phase = life.phase
  BY <1>1 DEF SpawnChild, Connected, PumpOut, Finish, Ask, hostVars, LifeStates
<1>5. StreamTypes'
  <2>1. CASE SpawnChild(g)
    BY <1>1, <2>1 DEF SpawnChild, StreamTypes, Up
  <2>2. CASE Connected(g)
    BY <1>1, <2>2 DEF Connected, StreamTypes, Streams, workVars
  <2>3. CASE Finish(g) \/ \E q \in Questions : Ask(g, q)
    BY <1>1, <2>3 DEF Finish, Ask, StreamTypes, workVars, taskVars
  <2>4. CASE PumpOut(g)
    <3>1. conn[g] \in Tasks /\ slot \in [Tasks -> Streams] /\ conn \in [Tasks -> Streams]
          /\ Dead \in Streams
      BY <1>1, <2>4 DEF PumpOut, Pumping, StreamTypes, Streams
    <3>2. \/ UNCHANGED <<child, accepting, slot, conn>>
          \/ Kill({conn[g]}) /\ slot' = Dies(slot, {conn[g]}) /\ conn' = Dies(conn, {conn[g]})
          \/ Kill({conn[g]} \ {g}) /\ conn' = [conn EXCEPT ![g] = Dead] /\ UNCHANGED slot
      BY <2>4 DEF PumpOut
    <3>3. slot' \in [Tasks -> Streams] /\ conn' \in [Tasks -> Streams]
      BY <3>1, <3>2, DiesTyped
    <3>4. /\ child' \in [Tasks -> {"none", "dead"} \cup Up]
          /\ accepting' \in [stream : Streams, to : 0 .. MaxTask]
      <4>1. CASE UNCHANGED <<child, accepting>>
        BY <1>1, <4>1 DEF StreamTypes
      <4>2. CASE \E hs \in SUBSET Tasks : Kill(hs)
        BY <1>1, <4>2, KillTyped
      <4>3. {conn[g]} \in SUBSET Tasks /\ {conn[g]} \ {g} \in SUBSET Tasks
        BY <3>1
      <4> QED
        BY <3>2, <4>1, <4>2, <4>3
    <3> QED
      BY <3>3, <3>4 DEF StreamTypes
  <2> QED
    BY <2>1, <2>2, <2>3, <2>4
<1>6. /\ raised \subseteq raised' /\ raised' \subseteq Questions
      /\ task' \in [Tasks -> TaskStates]
      /\ \A h \in Tasks : \/ task'[h] = task[h]
                          \/ task[h] \notin {"none", "ended"} /\ task'[h] # "none"
      /\ \A h \in Tasks : task'[h] \in Questions => task'[h] \in raised'
  <2>1. PICK st \in {"wait", "pump", task[g]} \cup Questions :
            /\ task' = [task EXCEPT ![g] = st]
            /\ raised \subseteq raised' /\ raised' \subseteq Questions
            /\ st \in Questions => st \in raised'
            /\ st = task[g] \/ task[g] \in {"spawn", "wait", "pump"}
    <3>1. CASE SpawnChild(g) \/ Connected(g)
      BY <1>1, <3>1, QuestionsAssumption DEF SpawnChild, Connected, HostTypes
    <3>2. CASE PumpOut(g) \/ Finish(g)
      <4>1. task' = task /\ raised' = raised
        BY <3>2 DEF PumpOut, Finish, taskVars
      <4>2. task = [task EXCEPT ![g] = task[g]]
        BY <1>1 DEF TaskTypes
      <4> QED
        BY <1>1, <4>1, <4>2 DEF HostTypes, TaskTypes
    <3>3. CASE \E q \in Questions : Ask(g, q)
      BY <1>1, <3>3 DEF Ask, Pumping, HostTypes
    <3> QED
      BY <3>1, <3>2, <3>3
  <2>2. st \in TaskStates
    BY <1>1 DEF TaskStates, TaskTypes
  <2> QED
    BY <1>1, <2>1, <2>2, QuestionsAssumption DEF TaskTypes
<1> QED
  BY <1>2, <1>3, <1>4, <1>5, <1>6, WorkersKeep

\* A task that restarts its child, or winds down and ends.
LEMMA WindKeeps ==
    ASSUME Typed, Routed, Ordered, NEW g \in Tasks, Restart(g) \/ Stop(g) \/ Close(g)
    PROVE  Typed' /\ Routed' /\ Ordered'
<1>1. /\ HostTypes /\ QueueTypes /\ TaskTypes /\ StreamTypes /\ life \in LifeStates
      /\ slot \in [Tasks -> Streams] /\ conn \in [Tasks -> Streams]
  BY DEF Typed, HostTypes, StreamTypes
<1>2. UNCHANGED <<call, overlapped, lock, handle, pend, resume, sink, asked, cancelled, life, raised>>
  BY DEF Restart, Stop, Close, callVars, hostVars
<1>3. QueueTypes'
  <2>1. CASE Close(g)
    BY <1>1, <2>1, TailTyped DEF Close
  <2>2. CASE out' = out
    BY <1>1, <2>2 DEF QueueTypes
  <2> QED
    BY <2>1, <2>2 DEF Restart, Stop, hostVars
<1>4. PICK hs \in SUBSET Tasks :
          /\ Kill(hs)
          /\ \/ slot' = Dies(slot, hs) /\ conn' = [Dies(conn, hs) EXCEPT ![g] = 0]
             \/ slot' = [Dies(slot, hs) EXCEPT ![g] = 0] /\ conn' = Dies(conn, hs)
  <2>1. CASE Restart(g) \/ Stop(g)
    <3> DEFINE hs == {h \in {g, conn[g]} \cap Tasks : child[h] \in Up}
    <3>1. Kill(hs) /\ slot' = Dies(slot, hs) /\ conn' = [Dies(conn, hs) EXCEPT ![g] = 0]
      BY <2>1 DEF Restart, Stop, EndOfRun
    <3>2. hs \in SUBSET Tasks
      OBVIOUS
    <3> QED
      BY <3>1, <3>2
  <2>2. CASE Close(g)
    <3> DEFINE hs == {slot[g]} \cap Tasks
    <3>1. Kill(hs) /\ slot' = [Dies(slot, hs) EXCEPT ![g] = 0] /\ conn' = Dies(conn, hs)
      BY <2>2 DEF Close
    <3>2. hs \in SUBSET Tasks
      OBVIOUS
    <3> QED
      BY <3>1, <3>2
  <2> QED
    BY <2>1, <2>2
<1>5. StreamTypes'
  <2>1. Dies(slot, hs) \in [Tasks -> Streams] /\ Dies(conn, hs) \in [Tasks -> Streams] /\ 0 \in Streams
    BY <1>1, DiesTyped DEF Streams
  <2>2. slot' \in [Tasks -> Streams] /\ conn' \in [Tasks -> Streams]
    BY <1>4, <2>1
  <2> QED
    BY <1>1, <1>4, <2>2, KillTyped DEF StreamTypes
<1>6. PICK st \in {"spawn", "closing", "ended"} :
          /\ task' = [task EXCEPT ![g] = st] /\ task[g] \in {"spawn", "wait", "pump", "closing"}
          /\ route' = route \/ (route' = 0 /\ route = g /\ st = "ended")
  BY DEF Restart, Stop, Close, EndOfRun, Down, RouteWithout
<1>7. /\ task' \in [Tasks -> TaskStates]
      /\ \A h \in Tasks : \/ task'[h] = task[h]
                          \/ task[h] \notin {"none", "ended"} /\ task'[h] # "none"
      /\ \A h \in Tasks : task'[h] \in Questions => task'[h] \in raised'
  BY <1>1, <1>2, <1>6, QuestionsAssumption DEF TaskTypes, TaskStates
<1>8. route' = route \/ (route' = 0 /\ \E h \in Tasks : route = h /\ task'[h] = "ended")
  BY <1>1, <1>6 DEF TaskTypes
<1>9. raised \subseteq raised' /\ raised' \subseteq Questions /\ life' \in LifeStates
      /\ life'.phase = life.phase
  BY <1>1, <1>2 DEF HostTypes
<1> QED
  BY <1>2, <1>3, <1>5, <1>7, <1>8, <1>9, WorkersKeep

\* The accept router, and a child that crashes.
LEMMA RouterKeeps ==
    ASSUME Typed, Routed, Ordered, Accept \/ Deliver \/ \E h \in Tasks : ChildCrash(h)
    PROVE  Typed' /\ Routed' /\ Ordered'
<1>1. /\ HostTypes /\ QueueTypes /\ TaskTypes /\ StreamTypes /\ life \in LifeStates
      /\ slot \in [Tasks -> Streams] /\ conn \in [Tasks -> Streams]
  BY DEF Typed, HostTypes, StreamTypes
<1>2. UNCHANGED <<call, overlapped, lock, handle, pend, out, resume, sink, asked, cancelled, life,
                  raised, task, route>>
  BY DEF Accept, Deliver, ChildCrash, callVars, hostVars, taskVars
<1>3. StreamTypes'
  <2>1. CASE Accept
    <3>1. PICK h \in Tasks : IF route = 0
              THEN child' = [child EXCEPT ![h] = "dead"] /\ UNCHANGED accepting
              ELSE child' = [child EXCEPT ![h] = "up"] /\ accepting' = [stream |-> h, to |-> route]
      BY <2>1 DEF Accept
    <3>2. slot' = slot /\ conn' = conn
      BY <2>1 DEF Accept, taskVars
    <3> QED
      BY <1>1, <3>1, <3>2 DEF StreamTypes, TaskTypes, Streams, Up
  <2>2. CASE Deliver
    <3>1. accepting.stream \in Streams /\ accepting.to \in 0 .. MaxTask
      BY <1>1 DEF StreamTypes
    <3>2. /\ child' = child \/ child' = [child EXCEPT ![accepting.stream] = "dead"]
          /\ slot' = slot \/ slot' = [slot EXCEPT ![accepting.to] = accepting.stream]
          /\ conn' = conn /\ accepting' = NotAccepting
      BY <2>2 DEF Deliver
    <3>3. NotAccepting \in [stream : Streams, to : 0 .. MaxTask]
      <4>1. 0 \in 0 .. MaxTask
        BY SupervisorAssumption
      <4> QED
        BY <4>1 DEF NotAccepting, Streams
    <3> QED
      BY <1>1, <3>1, <3>2, <3>3 DEF StreamTypes
  <2>3. CASE \E h \in Tasks : ChildCrash(h)
    <3>1. PICK h \in Tasks : Kill({h}) /\ slot' = Dies(slot, {h}) /\ conn' = Dies(conn, {h})
      BY <2>3 DEF ChildCrash
    <3>2. slot' \in [Tasks -> Streams] /\ conn' \in [Tasks -> Streams]
      BY <1>1, <3>1, DiesTyped
    <3> QED
      BY <1>1, <3>1, <3>2, KillTyped DEF StreamTypes
  <2> QED
    BY <2>1, <2>2, <2>3
<1>4. QueueTypes'
  BY <1>1, <1>2 DEF QueueTypes
<1>5. /\ raised \subseteq raised' /\ raised' \subseteq Questions /\ life' \in LifeStates
      /\ life'.phase = life.phase /\ task' \in [Tasks -> TaskStates]
      /\ \A g \in Tasks : task'[g] \in Questions => task'[g] \in raised'
  BY <1>1, <1>2 DEF HostTypes, TaskTypes
<1> QED
  BY <1>2, <1>3, <1>4, <1>5, WorkersKeep

\* capture_interaction: the interaction is recorded on the App's handle, if there is one.
LEMMA CaptureKeeps ==
    ASSUME Typed, Routed, Ordered, NEW g \in Tasks, Capture(g)
    PROVE  Typed' /\ Routed' /\ Ordered'
<1>1. /\ CallTypes /\ HostTypes /\ QueueTypes /\ TaskTypes /\ StreamTypes /\ life \in LifeStates
      /\ task[g] \in Questions /\ task[g] \in raised
  BY DEF Typed, HostTypes, Capture, TaskTypes
<1>2. /\ task' = [task EXCEPT ![g] = "pump"]
      /\ UNCHANGED <<call, lock, overlapped, handle, out, resume, sink, cancelled, slot, conn, route,
                     child, todo, accepting, raised>>
  BY DEF Capture, callVars, workVars
<1>3. CASE handle = 0
  <2>1. UNCHANGED <<pend, asked, life>>
    BY <1>3 DEF Capture
  <2>2. QueueTypes' /\ StreamTypes' /\ life' \in LifeStates /\ life'.phase = life.phase
        /\ raised \subseteq raised' /\ raised' \subseteq Questions
    BY <1>1, <1>2, <2>1 DEF QueueTypes, StreamTypes, HostTypes
  <2>3. /\ task' \in [Tasks -> TaskStates]
        /\ \A h \in Tasks : \/ task'[h] = task[h]
                            \/ task[h] \notin {"none", "ended"} /\ task'[h] # "none"
        /\ \A h \in Tasks : task'[h] \in Questions => task'[h] \in raised'
    BY <1>1, <1>2, QuestionsAssumption DEF TaskTypes, TaskStates
  <2> QED
    BY <1>2, <2>1, <2>2, <2>3, WorkersKeep
<1>4. CASE handle # 0
  <2>1. /\ pend' = [pend EXCEPT ![handle] = @ \cup {task[g]}]
        /\ asked' = asked \cup {task[g]}
        /\ life' = [life EXCEPT !.blocked = life # Unknown]
    BY <1>4 DEF Capture
  <2>2. handle \in Tasks
    BY <1>1, <1>4 DEF HostTypes, Tasks
  <2>3. life' \in LifeStates /\ life'.phase = life.phase
    BY <1>1, <2>1 DEF LifeStates
  <2>4. Typed'
    <3>1. CallTypes' /\ QueueTypes' /\ StreamTypes'
      BY <1>1, <1>2 DEF CallTypes, QueueTypes, StreamTypes, HasOp
    <3>2. HostTypes'
      BY <1>1, <1>2, <2>1, <2>2, <2>3 DEF HostTypes
    <3>3. TaskTypes'
      BY <1>1, <1>2, QuestionsAssumption DEF TaskTypes, TaskStates
    <3> QED
      BY <3>1, <3>2, <3>3 DEF Typed
  <2>5. Routed'
    BY <1>1, <1>2, QuestionsAssumption, RoutedStays DEF TaskTypes
  <2>6. Live' \subseteq Live
    BY <1>1, <1>2, QuestionsAssumption, LiveShrinks DEF TaskTypes
  <2>7. Ordered'
    <3> SUFFICES ASSUME ~ overlapped
                 PROVE  Safe'
      BY <1>2 DEF Ordered
    <3>1. Safe
      BY DEF Ordered
    <3>2. \A c \in Calls : Stage(call[c])'
      <4> SUFFICES ASSUME NEW c \in Calls
                   PROVE  Stage(call[c])'
        OBVIOUS
      <4>1. Stage(call[c])
        BY <3>1 DEF Safe
      <4> QED
        BY <1>2, <1>4, <4>1 DEF Stage
    <3>3. InteractionsAreKept'
      <4>1. asked \subseteq resume \cup pend[handle] \cup UNION {call[c].held : c \in {d \in Calls : call[d].pc \in Holding}}
        BY <1>4, <3>1 DEF Safe, InteractionsAreKept
      <4>2. pend'[handle] = pend[handle] \cup {task[g]}
        BY <1>1, <2>1, <2>2 DEF HostTypes
      <4> QED
        BY <1>2, <1>4, <2>1, <4>1, <4>2 DEF InteractionsAreKept
    <3>4. Quiet' => RecordsAgree'
      BY <1>2, <2>3, <3>1 DEF Safe, Quiet, RecordsAgree
    <3>5. /\ \A c, d \in Calls : Busy(c)' /\ Busy(d)' => c = d
          /\ handle' # 0 => resume' = {}
      BY <1>2, <3>1 DEF Safe, Busy
    <3>6. /\ \A c \in Calls : call'[c].pc \in Holders => Live' \subseteq {call'[c].task}
          /\ (\A c \in Calls : call'[c].pc \notin Holders) => Live' \subseteq {handle'}
      BY <1>2, <2>6, <3>1 DEF Safe
    <3> QED
      BY <3>2, <3>3, <3>4, <3>5, <3>6 DEF Safe
  <2> QED
    BY <2>4, <2>5, <2>7
<1> QED
  BY <1>3, <1>4
-----------------------------------------------------------------------------
\* The specification.

\* A host that starts has no handle, no task and no call.
LEMMA InitHolds == Init => IInv
<1> SUFFICES ASSUME Init
             PROVE  IInv
  OBVIOUS
<1> USE DEF Init
<1>1. 0 \in 0 .. MaxTask /\ 0 <= OutCap /\ <<>> \in Seq(Frames) /\ Len(<<>>) = 0
  BY SupervisorAssumption
<1>2. CallTypes
  BY <1>1, AtRestTyped DEF CallTypes
<1>3. HostTypes /\ QueueTypes
  BY <1>1 DEF HostTypes, QueueTypes, LifeStates, Unknown
<1>4. TaskTypes /\ StreamTypes
  BY <1>1, QuestionsAssumption DEF TaskTypes, StreamTypes, TaskStates, Streams, NotAccepting
<1>5. Started = {}
  BY DEF Started
<1>6. Routed
  BY <1>5 DEF Routed, RouteIsNewest
<1>7. Ordered
  <2>1. \A c \in Calls : call[c].pc = "idle"
    BY AtRestTyped
  <2>2. Live = {}
    BY DEF Live, Receiving
  <2>3. Quiet => RecordsAgree
    BY DEF RecordsAgree, Unknown
  <2> QED
    BY <2>1, <2>2, <2>3 DEF Ordered, Safe, Busy, Stage, Starting, Stopping, Holders,
                            InteractionsAreKept
<1> QED
  BY <1>2, <1>3, <1>4, <1>6, <1>7 DEF IInv, Typed

\* A call that touches no task touches no route.
LEMMA CallsKeepRoute ==
    ASSUME Routed, UNCHANGED <<task, route>>
    PROVE  Routed'
BY RoutedStays

\* Every step of the calls, the tasks, the children and the router keeps the invariant.
LEMMA NextKeeps == IInv /\ [Next]_vars => IInv'
<1> SUFFICES ASSUME IInv, [Next]_vars
             PROVE  IInv'
  OBVIOUS
<1>1. Typed /\ Routed /\ Ordered
  BY DEF IInv
<1>2. ASSUME NEW c \in Calls, Install(c)
      PROVE  IInv'
  BY <1>1, <1>2, InstallKeeps DEF IInv
<1>3. ASSUME NEW c \in Calls, Ensure(c) \/ Sweep(c)
      PROVE  IInv'
  BY <1>1, <1>3, EnsureKeeps, CallsKeepRoute DEF IInv, Ensure, Sweep, taskVars
<1>4. ASSUME NEW c \in Calls, Clear(c) \/ Insert(c) \/ Record(c)
      PROVE  IInv'
  BY <1>1, <1>4, ClearKeeps, InsertKeeps, RecordKeeps, CallsKeepRoute
     DEF IInv, Clear, Insert, Record, taskVars
<1>5. ASSUME NEW c \in Calls, Send(c) \/ SendWhenRoom(c) \/ Mark(c) \/ Look(c) \/ Sync(c)
      PROVE  IInv'
  BY <1>1, <1>5, SendKeeps, MarkKeeps, CallsKeepRoute
     DEF IInv, Send, SendWhenRoom, Mark, Look, Sync, taskVars
<1>6. ASSUME NEW c \in Calls, Suspend(c) \/ Remove(c)
      PROVE  IInv'
  BY <1>1, <1>6, TakeKeeps, CallsKeepRoute DEF IInv, Suspend, Remove, TakeHandle, taskVars
<1>7. ASSUME NEW c \in Calls, Persist(c) \/ AskShutdown(c) \/ Cancel(c) \/ SetPhase(c)
      PROVE  IInv'
  BY <1>1, <1>7, PersistKeeps, AskShutdownKeeps, CancelKeeps, SetPhaseKeeps, CallsKeepRoute
     DEF IInv, Persist, AskShutdown, Cancel, SetPhase, taskVars
<1>8. ASSUME NEW g \in Tasks,
             SpawnChild(g) \/ Connected(g) \/ PumpOut(g) \/ Finish(g)
             \/ \E q \in Questions : Ask(g, q)
      PROVE  IInv'
  BY <1>1, <1>8, PumpKeeps DEF IInv
<1>9. ASSUME NEW g \in Tasks, Restart(g) \/ Stop(g) \/ Close(g)
      PROVE  IInv'
  BY <1>1, <1>9, WindKeeps DEF IInv
<1>10. ASSUME NEW g \in Tasks, Capture(g)
       PROVE  IInv'
  BY <1>1, <1>10, CaptureKeeps DEF IInv
<1>11. ASSUME Accept \/ Deliver \/ \E h \in Tasks : ChildCrash(h)
       PROVE  IInv'
  BY <1>1, <1>11, RouterKeeps DEF IInv
<1>12. CASE UNCHANGED vars
  <2>1. UNCHANGED <<call, overlapped, lock, handle, pend, resume, sink, asked, cancelled, out, slot,
                    conn, child, accepting, life, raised, task, route>>
    BY <1>12 DEF vars, callVars, hostVars, taskVars, workVars
  <2>2. QueueTypes' /\ StreamTypes'
    BY <1>1, <2>1 DEF Typed, QueueTypes, StreamTypes
  <2>3. /\ raised \subseteq raised' /\ raised' \subseteq Questions /\ life' \in LifeStates
        /\ life'.phase = life.phase /\ task' \in [Tasks -> TaskStates]
        /\ \A g \in Tasks : task'[g] \in Questions => task'[g] \in raised'
    BY <1>1, <2>1 DEF Typed, HostTypes, TaskTypes
  <2> QED
    BY <1>1, <2>1, <2>2, <2>3, WorkersKeep DEF IInv
<1> QED
  BY <1>2, <1>3, <1>4, <1>5, <1>6, <1>7, <1>8, <1>9, <1>10, <1>11, <1>12
     DEF Next, Advance, Supervise

\* The invariant is that of the specification.
LEMMA IInvHolds == Spec => []IInv
BY InitHolds, NextKeeps, PTL DEF Spec

\* The calls, the handles, the queues, the tasks and the streams have their types, and no
\* queue is longer than its capacity (OUTBOUND_CAPACITY).
THEOREM TypesAreKept == Spec => []TypeOK
<1>1. IInv => TypeOK
  <2> SUFFICES ASSUME IInv
               PROVE  TypeOK
    OBVIOUS
  <2>1. CallTypes /\ HostTypes /\ QueueTypes /\ TaskTypes /\ StreamTypes
    BY DEF IInv, Typed
  <2>2. \A c \in Calls : call[c].task \in 0 .. MaxTask /\ call[c].held \subseteq Questions
    BY <2>1, CallTyped
  <2>3. \A g \in Tasks : Len(out[g]) <= OutCap /\ \A i \in DOMAIN out[g] : out[g][i] \in Frames
    BY <2>1 DEF QueueTypes
  <2>4. life.phase \in {"Unknown", "Active", "Tombstoned"} /\ {life.turn, life.blocked} \subseteq BOOLEAN
    BY <2>1 DEF HostTypes, LifeStates
  <2> QED
    BY <2>1, <2>2, <2>3, <2>4
       DEF TypeOK, CallTypes, HostTypes, TaskTypes, StreamTypes, TaskStates, Streams
<1> QED
  BY <1>1, IInvHolds, PTL

\* The connection of the newest worker is routed to its task until that task ends, however
\* starts, stops and grace periods overlap (SupervisionTask::run, own_inbox).
THEOREM NewestIsRouted == Spec => []RouteIsNewest
<1>1. IInv => RouteIsNewest
  BY DEF IInv, Routed
<1> QED
  BY <1>1, IInvHolds, PTL

\* Unless a start overlapped another start or a stop, an interaction recorded and not
\* answered is on the handle, in resume.json, or in the hands of the call between the two
\* (tombstone_app, ensure_active).
THEOREM InteractionsSurvive == Spec => []InteractionsAreKept
<1>1. IInv => InteractionsAreKept
  BY DEF IInv, Ordered, Safe, InteractionsAreKept
<1> QED
  BY <1>1, IInvHolds, PTL

\* Unless a start overlapped another start or a stop, one supervision task at most is not
\* cancelled, and between calls the records agree (AppLifecycle, PeerBroker::register).
THEOREM WorkerIsOne == Spec => []OneWorker
<1>1. IInv => OneWorker
  <2> SUFFICES ASSUME IInv, ~ overlapped
               PROVE  OneWorker
    BY DEF OneWorker
  <2>1. Safe
    BY DEF IInv, Ordered
  <2>2. \E g : Live \subseteq {g}
    BY <2>1 DEF Safe
  <2>3. Live = {} \/ \E g : Live = {g}
    BY <2>2
  <2>4. Cardinality(Live) \in {0, 1}
    BY <2>3, FS_EmptySet, FS_Singleton
  <2>5. Cardinality(Receiving \ cancelled) <= 1
    BY <2>4 DEF Live
  <2> QED
    BY <2>1, <2>5 DEF OneWorker, Safe
<1> QED
  BY <1>1, IInvHolds, PTL
=============================================================================
