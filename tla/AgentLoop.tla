----------------------------- MODULE AgentLoop -----------------------------
(***************************************************************************)
(* The event loop of src/agent/runtime: one conversation whose turns call  *)
(* a model, run its tools and suspend while background tasks and           *)
(* sub-agents are at work.  Messages, context updates and results come at  *)
(* any time; the loop takes them one by one (the select! of run) and       *)
(* appends each new entry to a file that a restarted process loads.        *)
(*                                                                         *)
(* A user message is its number.  An entry is what it is and which message *)
(* or task it is about; one of an assistant says how many tools it calls.  *)
(* The calls of an "assistant" are run; an "answer" ended its turn, and its *)
(* calls are not.                                                          *)
(***************************************************************************)
EXTENDS Integers, FiniteSets, SequencesExt, FiniteSetsExt

CONSTANTS
    TokenBudget, \* AgentLoopConfig::token_budget
    Prompts,     \* the prompt sizes the model may report
    MaxMsg,      \* bound on the messages sent
    MaxContext,  \* bound on the context updates
    MaxCalls,    \* bound on the turns that end in tool calls
    MaxTask,     \* bound on the tasks started
    MaxFault     \* bound on cancellations, lost tasks, failed writes and crashes

ASSUME AgentLoopAssumption ==
    /\ TokenBudget \in Nat /\ Prompts \subseteq Nat
    /\ \A n \in {MaxMsg, MaxContext, MaxCalls, MaxTask, MaxFault} : n \in Nat

VARIABLES
    pc,      \* where the loop is
    driver,  \* who drives the turns: process_message or handle_task_result
    history, \* EntryHistory
    file,    \* the entries a load of session.jsonl reads
    tail,    \* how it ends: "clean", with a line that is "whole" but for its newline or
             \* only "part" of one, or "broken": what follows is not read any more
    unsaved, \* the entries the handler has yet to append to the file
    tokens,  \* current_tokens
    state,   \* AgentState
    pending, \* pending_messages
    origin,  \* the message current_origin and its metadata come from, 0 if none
    retried, \* guardrail_retries
    input,   \* the queue behind InputPort
    results, \* bg_rx and child_agent_rx
    running, \* the tasks at work
    groups,  \* TaskGroupSet::groups
    owner,   \* TaskGroupSet::task_to_group
    stopped, \* whether the cancellation token is cancelled
    \* What follows is history or bounds:
    heard,   \* the messages that entered the history, in order
    sent,    \* the messages sent so far
    updates, calls, tasks, faults,
    clash,   \* whether two tasks of a turn were given one id
    gap,     \* whether an entry failed to reach the file
    lost,    \* the messages a crash lost
    dead     \* the tasks that ended without a result

queues == <<input, results, running>>
disk == <<file, tail>>
turn == <<driver, state, pending, origin, retried, tokens>>
book == <<groups, owner>>
bounds == <<sent, updates, calls, tasks, faults, clash, gap, lost, dead>>
vars == <<pc, turn, history, disk, unsaved, queues, book, stopped, heard, bounds>>

Kinds == {"background", "subagent"}
Tasks == [no : 1 .. MaxTask, id : 1 .. MaxTask, kind : Kinds]
Entry(kind, of) == [kind |-> kind, of |-> of, tools |-> 0]
Reply(n) == [kind |-> "assistant", of |-> 0, tools |-> n]
Answer(n) == [kind |-> "answer", of |-> 0, tools |-> n]
System == Entry("system", 0)
ToolEntries(n) == [i \in 1 .. n |-> Entry("tool", i)]
EntryKinds == {"system", "user", "context", "correction", "result", "assistant", "answer", "tool"}

\* A message has no parent: it starts a turn of the compaction's count.
StartsTurn(e) == e.kind \in {"user", "context", "correction", "result"}
UserEntries == {Entry("user", m) : m \in 1 .. MaxMsg}

\* The elements of a sequence that are in a set.
Within(s, set) ==
    LET f[n \in 0 .. Len(s)] ==
            IF n = 0 THEN <<>>
            ELSE IF s[n] \in set THEN Append(f[n - 1], s[n]) ELSE f[n - 1]
    IN  f[Len(s)]
Messages(s) == LET users == Within(s, UserEntries) IN [i \in DOMAIN users |-> users[i].of]
\* What is queued behind InputPort: messages, and context updates (0).
Queued == Within(input, 1 .. MaxMsg)
ContextUpdates == Within(input, {0})

(***************************************************************************)
(* EvictOldestTurns: turns leave from the oldest on while the estimate of  *)
(* what is left exceeds the budget.  A turn is where it starts.             *)
(***************************************************************************)
Starts(s) == {i \in 2 .. Len(s) : StartsTurn(s[i])}
EndOf(s, i) == Min({j \in Starts(s) : j > i} \union {Len(s) + 1})
Estimate(s, i) == ((EndOf(s, i) - i) * tokens) \div Len(s)
LeftBefore(s, i) ==
    tokens - FoldSet(LAMBDA j, n : n + Estimate(s, j), 0, {j \in Starts(s) : j < i})
Evicted(s) == {i \in Starts(s) : LeftBefore(s, i) > TokenBudget}
\* Mutant: the two oldest entries go, whatever they are (EntryHistory::evict_oldest_pair).
CompactedByPair(s) == IF Len(s) < 4 THEN s ELSE <<s[1]>> \o SubSeq(s, 4, Len(s))

Compacted(s) ==
    LET kept == Min((Starts(s) \ Evicted(s)) \union {Len(s) + 1})
    IN IF Starts(s) = {} THEN s
       ELSE SubSeq(s, 1, Min(Starts(s)) - 1) \o SubSeq(s, kept, Len(s))

\* Push entries, and have the handler append them to the file before it goes on.
Push(entries) ==
    /\ history' = history \o entries
    /\ unsaved' = unsaved \o entries

----------------------------------------------------------------------------
Init ==
    /\ pc = "Select" /\ driver = "message" /\ history = <<System>>
    /\ file = <<>> /\ tail = "clean" /\ unsaved = <<>> /\ tokens = 0 /\ state = "Idle"
    /\ pending = <<>> /\ origin = 0 /\ retried = FALSE
    /\ input = <<>> /\ results = [k \in Kinds |-> <<>>] /\ running = {}
    /\ groups = <<>> /\ owner = <<>> /\ stopped = FALSE
    /\ heard = <<>> /\ sent = 0 /\ updates = 0 /\ calls = 0 /\ tasks = 0
    /\ faults = 0 /\ clash = FALSE /\ gap = FALSE /\ lost = {} /\ dead = {}

----------------------------------------------------------------------------
(* Senders, tasks and the file system.                                     *)

\* InputPort: a user message, or a context update (0).
Say ==
    /\ pc # "Off" /\ pc # "Down" /\ sent < MaxMsg
    /\ sent' = sent + 1
    /\ input' = Append(input, sent + 1)
    /\ UNCHANGED <<pc, turn, history, disk, unsaved, results, running, book, stopped,
                   heard, updates, calls, tasks, faults, clash, gap, lost, dead>>

Inform ==
    /\ pc # "Off" /\ pc # "Down" /\ updates < MaxContext
    /\ updates' = updates + 1
    /\ input' = Append(input, 0)
    /\ UNCHANGED <<pc, turn, history, disk, unsaved, results, running, book, stopped,
                   heard, sent, calls, tasks, faults, clash, gap, lost, dead>>

CancelLoop ==
    /\ pc # "Off" /\ pc # "Down" /\ ~stopped /\ faults < MaxFault
    /\ faults' = faults + 1
    /\ stopped' = TRUE
    /\ UNCHANGED <<pc, turn, history, disk, unsaved, queues, book, heard,
                   sent, updates, calls, tasks, clash, gap, lost, dead>>

\* A task sends its result, which the forwarding task queues.
TaskEnds(t) ==
    /\ pc # "Off"
    /\ running' = running \ {t}
    /\ results' = [results EXCEPT ![t.kind] = Append(@, t)]
    /\ UNCHANGED <<pc, turn, history, disk, unsaved, input, book, stopped, heard, bounds>>

\* A task panics and its sender is dropped, which the forwarding task only logs; or an
\* external agent waits for an answer that never reaches it (ExternalAgents).
TaskDies(t) ==
    /\ pc # "Off" /\ faults < MaxFault
    /\ running' = running \ {t}
    /\ dead' = dead \union {t}
    /\ faults' = faults + 1
    /\ UNCHANGED <<pc, turn, history, disk, unsaved, input, results, book, stopped, heard,
                   sent, updates, calls, tasks, clash, gap, lost>>

\* FilesystemStore::persist: a line and its newline, in two writes.  A line that is added to
\* one without a newline is glued to it, and load skips what it cannot parse; what is not
\* UTF-8 it does not read past.
WriteLine(e) ==
    \/ /\ tail = "clean"
       /\ file' = Append(file, e)
       /\ UNCHANGED <<tail, gap>>
    \/ /\ tail = "whole"
       /\ file' = Front(file) /\ tail' = "clean" /\ gap' = TRUE
    \/ /\ tail = "part"
       /\ tail' \in {"clean", "broken"} /\ gap' = TRUE
       /\ UNCHANGED file
    \/ /\ tail = "broken"
       /\ gap' = TRUE
       /\ UNCHANGED disk

\* The same, interrupted: nothing is written, the line but not its newline, or a part.
WriteCut(e) ==
    \/ gap' = TRUE /\ UNCHANGED disk
    \/ /\ tail = "clean"
       /\ file' = Append(file, e) /\ tail' = "whole"
       /\ gap' = (gap \/ Len(unsaved) > 1)
    \/ /\ tail # "broken"
       /\ file' = (IF tail = "whole" THEN Front(file) ELSE file)
       /\ tail' = "part" /\ gap' = TRUE

\* persist_entry: a write that fails is logged.
Save ==
    /\ unsaved # <<>>
    /\ unsaved' = Tail(unsaved)
    /\ \/ /\ WriteLine(Head(unsaved))
          /\ UNCHANGED faults
       \/ /\ faults < MaxFault /\ faults' = faults + 1
          /\ WriteCut(Head(unsaved))
    /\ UNCHANGED <<pc, turn, history, queues, book, stopped, heard,
                   sent, updates, calls, tasks, clash, lost, dead>>

Crash ==
    /\ pc # "Off" /\ pc # "Down" /\ faults < MaxFault
    /\ faults' = faults + 1
    /\ pc' = "Down" /\ driver' = "message" /\ state' = "Idle"
    /\ IF unsaved = <<>> THEN UNCHANGED <<disk, gap>> ELSE WriteCut(Head(unsaved))
    /\ lost' = (1 .. sent) \ ToSet(Messages(file'))
    /\ history' = <<System>> /\ heard' = Messages(file')
    /\ unsaved' = <<>> /\ tokens' = 0 /\ pending' = <<>> /\ origin' = 0 /\ retried' = FALSE
    /\ input' = <<>> /\ results' = [k \in Kinds |-> <<>>] /\ running' = {}
    /\ groups' = <<>> /\ owner' = <<>> /\ stopped' = FALSE
    /\ UNCHANGED <<sent, updates, calls, tasks, clash, dead>>

\* A new process: AgentLoop::new loads the file.
Restart ==
    /\ pc = "Down"
    /\ pc' = "Select"
    /\ history' = <<System>> \o file
    /\ UNCHANGED <<turn, disk, unsaved, queues, book, stopped, heard, bounds>>

----------------------------------------------------------------------------
(* The loop.                                                               *)

Ready == pc = "Select" /\ unsaved = <<>>
MustDrain == state = "Idle" /\ pending # <<>>

\* process_message
ProcessMessage(m) ==
    /\ origin' = m /\ retried' = FALSE
    /\ Push(<<Entry("user", m)>>)
    /\ heard' = Append(heard, m)
    /\ state' = "Waiting" /\ driver' = "message" /\ pc' = "Turn"
    /\ UNCHANGED tokens

TakePending ==
    /\ Ready /\ MustDrain
    /\ pending' = Tail(pending)
    /\ ProcessMessage(Head(pending))
    /\ UNCHANGED <<disk, queues, book, stopped, bounds>>

\* The cancellation branch of the select comes first.
Stop ==
    /\ Ready /\ ~MustDrain /\ stopped
    /\ pc' = "Off"
    /\ UNCHANGED <<turn, history, disk, unsaved, queues, book, stopped, heard, bounds>>

\* Mutant: a message starts a turn although the loop waits for tasks.
TakeInputAtOnce ==
    /\ Ready /\ ~MustDrain /\ ~stopped /\ input # <<>> /\ Head(input) # 0
    /\ input' = Tail(input)
    /\ ProcessMessage(Head(input))
    /\ UNCHANGED <<pending, disk, results, running, book, stopped, bounds>>

\* handle_event, handle_user_message and record_context_update
TakeInput ==
    /\ Ready /\ ~MustDrain /\ ~stopped /\ input # <<>>
    /\ input' = Tail(input)
    /\ \/ /\ Head(input) = 0
          /\ Push(<<Entry("context", 0)>>)
          /\ UNCHANGED <<pc, turn, heard>>
       \/ /\ Head(input) # 0 /\ state = "Idle"
          /\ ProcessMessage(Head(input))
          /\ UNCHANGED pending
       \/ /\ Head(input) # 0 /\ state # "Idle"
          /\ pending' = Append(pending, Head(input))
          /\ UNCHANGED <<pc, driver, state, origin, retried, tokens, history, unsaved, heard>>
    /\ UNCHANGED <<disk, results, running, book, stopped, bounds>>

\* The first queue with a result, in the order of the select.
NextKind == IF results["background"] # <<>> THEN "background" ELSE "subagent"

\* Mutant: the entry of a completed task or group is kept.
WithoutNothing(f, x) == f

Without(f, x) == [y \in DOMAIN f \ {x} |-> f[y]]

\* handle_task_result, TaskGroupSet::complete
Known(t) == t.id \in DOMAIN owner /\ owner[t.id] \in DOMAIN groups
Orphaned(t) ==
    /\ ~Known(t)
    /\ Push(<<Entry("result", t.no)>>)
    /\ owner' = Without(owner, t.id)
    /\ UNCHANGED <<pc, turn, groups>>
Counted(t) ==
    LET g == owner[t.id]
        group == [groups[g] EXCEPT !.left = @ - 1, !.done = Append(@, t.no)]
    IN /\ owner' = Without(owner, t.id)
       /\ \/ /\ group.left > 0
             /\ groups' = [groups EXCEPT ![g] = group]
             /\ UNCHANGED <<pc, turn, history, unsaved>>
          \/ /\ group.left = 0
             /\ groups' = Without(groups, g)
             /\ Push([i \in DOMAIN group.done |-> Entry("result", group.done[i])])
             /\ \/ /\ groups' = <<>>
                   /\ origin' = group.origin
                   /\ state' = "Waiting" /\ driver' = "group" /\ pc' = "Turn"
                   /\ UNCHANGED <<tokens, pending, retried>>
                \/ /\ groups' # <<>>
                   /\ UNCHANGED <<pc, turn>>

TakeResult ==
    /\ Ready /\ ~MustDrain /\ ~stopped /\ input = <<>> /\ results[NextKind] # <<>>
    /\ results' = [results EXCEPT ![NextKind] = Tail(@)]
    /\ LET t == Head(results[NextKind]) IN Orphaned(t) \/ (Known(t) /\ Counted(t))
    /\ UNCHANGED <<disk, input, running, stopped, heard, bounds>>

\* Mutant: messages that come between turns are drained and dropped.
BeginTurnDropping ==
    /\ pc = "Turn" /\ unsaved = <<>>
    /\ input' = <<>>
    /\ pc' = "Call"
    /\ UNCHANGED <<turn, history, unsaved, disk, results, running, book, stopped, heard,
                   bounds>>

\* The head of the loop of process_message (handle_task_result has no compaction):
\* compact, drain_ready_inputs, and call the model.
BeginTurn ==
    /\ pc = "Turn" /\ unsaved = <<>>
    /\ pc' = "Call"
    /\ LET over == driver = "message" /\ tokens > TokenBudget
           updated == [i \in DOMAIN ContextUpdates |-> Entry("context", 0)]
       IN  /\ history' = (IF over THEN Compacted(history) ELSE history) \o updated
           /\ unsaved' = updated
           /\ tokens' = IF over THEN tokens \div 2 ELSE tokens
    /\ input' = <<>>
    /\ pending' = pending \o Queued
    /\ UNCHANGED <<driver, state, origin, retried, disk, results, running, book,
                   stopped, heard, bounds>>

Answered == pc = "Call" /\ unsaved = <<>>

\* The prompt size the response reports is used by process_message only.
Measure == tokens' \in (IF driver = "message" THEN Prompts ELSE {tokens})

\* A finish reason "stop" ends the turn, whatever calls the reply holds: they are pushed
\* with it and not run (model_bridge keeps them for EndTurn, Refusal and PauseTurn).
AnswerWith(n) ==
    /\ calls + n <= MaxCalls
    /\ calls' = calls + n

\* A text the guardrails pass or repair, or that they reject for the second time.
AnswerText ==
    /\ Answered
    /\ Measure
    /\ \E n \in {0, 1} : AnswerWith(n) /\ Push(<<Answer(n)>>)
    /\ state' = "Idle" /\ pc' = "Select"
    /\ UNCHANGED <<driver, pending, origin, retried, disk, queues, book, stopped, heard,
                   sent, updates, tasks, faults, clash, gap, lost, dead>>

\* A text the guardrails reject: the rejected entry is not appended to the file.
AnswerRejected ==
    /\ Answered /\ ~retried
    /\ Measure
    /\ \E n \in {0, 1} :
          /\ AnswerWith(n)
          /\ history' = history \o <<Answer(n), Entry("correction", 0)>>
    /\ unsaved' = <<Entry("correction", 0)>>
    /\ retried' = TRUE /\ state' = "Waiting" /\ pc' = "Turn"
    /\ UNCHANGED <<driver, pending, origin, disk, queues, book, stopped, heard,
                   sent, updates, tasks, faults, clash, gap, lost, dead>>

\* Mutant: the state stays WaitingForResponse after an error.
AnswerFailedWaiting ==
    /\ Answered
    /\ Push(<<Answer(0)>>)
    /\ pc' = "Select"
    /\ UNCHANGED <<turn, disk, queues, book, stopped, heard, bounds>>

\* The model call fails: the error is the answer.
AnswerFailed ==
    /\ Answered
    /\ Push(<<Answer(0)>>)
    /\ state' = "Idle" /\ pc' = "Select"
    /\ UNCHANGED <<driver, pending, origin, retried, tokens, disk, queues, book, stopped, heard,
                   bounds>>

\* Tools that all answer at once.
AnswerTools ==
    /\ Answered /\ calls < MaxCalls
    /\ calls' = calls + 1
    /\ Measure
    /\ Push(<<Reply(1)>> \o ToolEntries(1))
    /\ state' = "Waiting" /\ pc' = "Turn"
    /\ UNCHANGED <<driver, pending, origin, retried, disk, input, results, running, book,
                   stopped, heard, sent, updates, tasks, faults, clash, gap, lost, dead>>

\* generate_task_id is the time in milliseconds: tasks of one kind and turn may get one id.
Started(n, kinds) ==
    LET fresh(i) == [no |-> tasks + i, id |-> tasks + i, kind |-> kinds[i]]
        same(i) == [no |-> tasks + i, kind |-> kinds[i],
                    id |-> tasks + Min({j \in 1 .. n : kinds[j] = kinds[i]})]
    IN {{fresh(i) : i \in 1 .. n}, {same(i) : i \in 1 .. n}}
Ids(started) == {t.id : t \in started}

\* TaskGroupSet::register
Register(started) ==
    \/ /\ Ids(started) \intersect DOMAIN owner # {}
       /\ UNCHANGED book
    \/ /\ Ids(started) \intersect DOMAIN owner = {}
       /\ owner' = [i \in Ids(started) \union DOMAIN owner |->
                      IF i \in Ids(started) THEN calls + 1 ELSE owner[i]]
       /\ groups' = [g \in {calls + 1} \union DOMAIN groups |->
                       IF g # calls + 1 THEN groups[g]
                       ELSE [left |-> Cardinality(started), done |-> <<>>, origin |-> origin]]

AnswerTasks ==
    /\ Answered /\ calls < MaxCalls
    /\ calls' = calls + 1
    /\ Measure
    /\ \E n \in 1 .. MaxTask - tasks : \E kinds \in [1 .. n -> Kinds] :
       \E started \in Started(n, kinds) :
          /\ Push(<<Reply(n)>> \o ToolEntries(n))
          /\ running' = running \union started
          /\ Register(started)
          /\ tasks' = tasks + n
          /\ clash' = (clash \/ Cardinality(Ids(started)) < n)
    /\ state' = "Processing" /\ pc' = "Select"
    /\ UNCHANGED <<driver, pending, origin, retried, disk, input, results, stopped,
                   heard, sent, updates, faults, gap, lost, dead>>

----------------------------------------------------------------------------
LoopSteps == Save \/ TakePending \/ Stop \/ TakeInput \/ TakeResult \/ BeginTurn
ModelAnswers == AnswerText \/ AnswerRejected \/ AnswerFailed \/ AnswerTools \/ AnswerTasks
TasksEnd == \E t \in running : TaskEnds(t)

Next ==
    \/ Save \/ TakePending \/ Stop \/ TakeInput \/ TakeResult \/ BeginTurn
    \/ AnswerText \/ AnswerRejected \/ AnswerFailed \/ AnswerTools \/ AnswerTasks
    \/ Say \/ Inform \/ CancelLoop
    \/ \E t \in running : TaskEnds(t) \/ TaskDies(t)
    \/ Crash \/ Restart

\* The loop runs while it has work, a model call returns, and a task ends.
Fairness == WF_vars(LoopSteps) /\ WF_vars(ModelAnswers) /\ WF_vars(TasksEnd)
Spec == Init /\ [][Next]_vars
FairSpec == Spec /\ Fairness

----------------------------------------------------------------------------
\* The loop, the entries, the queues and the tasks have their types.
TypeOK ==
    /\ pc \in {"Select", "Turn", "Call", "Down", "Off"}
    /\ driver \in {"message", "group"}
    /\ state \in {"Idle", "Waiting", "Processing"}
    /\ \A e \in ToSet(history) \union ToSet(file) \union ToSet(unsaved) :
          e \in [kind : EntryKinds, of : 0 .. MaxMsg + MaxTask, tools : 0 .. MaxTask + 1]
    /\ tokens \in Nat /\ origin \in 0 .. MaxMsg /\ retried \in BOOLEAN
    /\ running \subseteq Tasks /\ dead \subseteq Tasks
    /\ \A k \in Kinds : ToSet(results[k]) \subseteq Tasks
    /\ ToSet(pending) \union ToSet(heard) \subseteq 1 .. MaxMsg

(***************************************************************************)
(* Every message is in the queue, parked or in the history, once and in    *)
(* the order it was sent, whatever turns and tasks are under way; only a   *)
(* crash loses one.                                                        *)
(***************************************************************************)
MessagesKeepOrder ==
    pc # "Down" =>
        LET known == heard \o pending \o Queued
        IN /\ \A i, j \in DOMAIN known : i < j => known[i] < known[j]
           /\ ToSet(known) = (1 .. sent) \ lost

(***************************************************************************)
(* A reply goes to the channel of the message the conversation heard last, *)
(* also when background results continue the turn of that message.         *)
(***************************************************************************)
ReplyGoesToAsker ==
    pc \in {"Turn", "Call"} => heard # <<>> /\ origin = Last(heard)

(***************************************************************************)
(* The model sees each tool call followed by its results, and no result    *)
(* without its call: context updates, background results, compaction and a *)
(* reload do not come between.  Two exceptions: the calls of a reply that  *)
(* ended its turn (TurnDriver::drive pushes and never runs them), and a    *)
(* conversation one of whose entries did not reach the file, or was glued  *)
(* to a cut line there.                                                    *)
(***************************************************************************)
CallsAreAnswered ==
    pc = "Call" /\ ~gap =>
        \A i \in DOMAIN history :
            /\ history[i].kind = "assistant" =>
                  \A n \in 1 .. history[i].tools :
                     i + n \in DOMAIN history /\ history[i + n] = Entry("tool", n)
            /\ history[i].kind = "tool" =>
                  LET call == i - history[i].of
                  IN  /\ call \in DOMAIN history /\ history[call].kind = "assistant"
                      /\ history[call].tools >= history[i].of

(***************************************************************************)
(* Between events the loop is suspended exactly when one group is open,    *)
(* and the group waits for tasks that are at work, whose result is queued, *)
(* or that died: no result is lost or taken for another's, and a turn is   *)
(* continued when its last task is done.                                   *)
(***************************************************************************)
Outstanding == running \union dead \union UNION {ToSet(results[k]) : k \in Kinds}
SuspendedForTasks ==
    pc = "Select" /\ ~clash =>
        /\ state \in {"Idle", "Processing"}
        /\ state = "Processing" <=> groups # <<>>
        /\ Cardinality(DOMAIN groups) <= 1
        /\ \A g \in DOMAIN groups :
              /\ groups[g].left = Cardinality({i \in DOMAIN owner : owner[i] = g})
              /\ \A i \in DOMAIN owner : \E t \in Outstanding : t.id = i

(***************************************************************************)
(* All messages sent are heard in the end, unless the loop is cancelled or *)
(* waits for a task that died or for two tasks of one id.                  *)
(***************************************************************************)
Unheard == (1 .. sent) \ (lost \union ToSet(heard))
MessagesAreHeard == Unheard # {} ~> Unheard = {} \/ stopped \/ clash \/ dead # {}
=============================================================================
