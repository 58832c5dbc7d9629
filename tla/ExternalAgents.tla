--------------------------- MODULE ExternalAgents ---------------------------
(***************************************************************************)
(* External coding agents (Claude Code through its bridge, Codex through   *)
(* its app-server) and the InteractionQueue their questions wait in        *)
(* (src/src/agent/external, src/src/host.rs, src/src/child.rs).            *)
(*                                                                         *)
(* An agent runs beside the host, driven by a task of the host, or inside  *)
(* a VM of its own, where child.rs drives it and a socket carries its      *)
(* events to the task that runs the VM.  A task is named by the agent it   *)
(* started.  A question is put in the queue under the id the agent gave    *)
(* it; an answer takes it out, and a waiter forwards the answer to the     *)
(* agent.  The agents and the person who answers are external.             *)
(***************************************************************************)
EXTENDS Naturals, Sequences, FiniteSets

CONSTANTS
  Agents,      \* the external agents, and the tasks that run them
  Isolated,    \* those started with isolate = true, in a VM
  Ids,         \* the request ids an agent may choose from
  NoAgent,
  MaxAsk       \* bound: questions of all agents

ASSUME IsolatedAssumption == Isolated \subseteq Agents
ASSUME NoAgentAssumption == NoAgent \notin Agents

VARIABLES
  task,        \* the host's task: "new", "accepting", "reading" or "ended"
  reader,      \* the agent whose events the task reads
  proc,        \* the agent: "off", "starting", "working", "reported" its end, "gone",
               \* or "absent": its VM never connects to the host
  used,        \* the ids the agent has given to questions
  asked,       \* the questions it is waiting on
  wire,        \* its events on their way to the task
  pending,     \* InteractionQueue.pending: the asker of each id
  answers,     \* answers forwarded to the agent and not yet taken
  lost,        \* ghost: answers whose forwarding failed
  clash,       \* ghost: a question replaced another one under its id
  late,        \* ghost: the questions it asked after it had reported its end
  swapped      \* ghost: a task took the socket of another task's VM

queueVars == <<pending, clash>>
agentVars == <<proc, used, asked, wire, late>>
taskVars  == <<task, reader, swapped>>
vars == <<taskVars, agentVars, queueVars, answers, lost>>

Ask(id) == [kind |-> "ask", id |-> id]
EndOf == [kind |-> "end"]

Init ==
  /\ task = [t \in Agents |-> "new"]
  /\ reader = [t \in Agents |-> NoAgent]
  /\ proc = [a \in Agents |-> "off"]
  /\ used = [a \in Agents |-> {}]
  /\ asked = [a \in Agents |-> {}]
  /\ wire = [a \in Agents |-> <<>>]
  /\ pending = [id \in Ids |-> NoAgent]
  /\ answers = [a \in Agents |-> {}]
  /\ lost = [a \in Agents |-> {}]
  /\ late = [a \in Agents |-> {}]
  /\ clash = FALSE
  /\ swapped = FALSE

-----------------------------------------------------------------------------
(* The agents and their drivers.                                           *)

(* AgentTool starts the agent: beside the host its events come to the task
   at once, in a VM the task waits for a connection. *)
Spawn(t) ==
  /\ task[t] = "new"
  /\ IF t \in Isolated
     THEN /\ task' = [task EXCEPT ![t] = "accepting"]
          /\ proc' = [proc EXCEPT ![t] = "starting"]
          /\ UNCHANGED reader
     ELSE /\ task' = [task EXCEPT ![t] = "reading"]
          /\ proc' = [proc EXCEPT ![t] = "working"]
          /\ reader' = [reader EXCEPT ![t] = t]
  /\ UNCHANGED <<used, asked, wire, late, queueVars, answers, lost, swapped>>

(* run_child connects to the host, or returns before it does: its prompt is
   missing, or the connection is refused. *)
Connects(a) ==
  /\ proc[a] = "starting"
  /\ \E to \in {"working", "absent"} : proc' = [proc EXCEPT ![a] = to]
  /\ UNCHANGED <<taskVars, used, asked, wire, late, queueVars, answers, lost>>

(* The agent does not start: its tool call answers with an error. *)
SpawnFails(t) ==
  /\ task[t] = "new"
  /\ task' = [task EXCEPT ![t] = "ended"]
  /\ UNCHANGED <<reader, agentVars, queueVars, answers, lost, swapped>>

Runs(a) == proc[a] \in {"working", "reported"}

(* An event of an agent beside the host fails silently once its task dropped
   event_rx. *)
Sends(a, event) ==
  wire' = IF a \in Isolated \/ task[a] = "reading"
          THEN [wire EXCEPT ![a] = Append(@, event)] ELSE wire

(* The agent asks; its driver remembers the request and sends the event. *)
Asks(a) ==
  /\ Runs(a)
  /\ Cardinality({q \in Agents \X Ids : q[2] \in used[q[1]]}) < MaxAsk
  /\ \E id \in Ids \ used[a] :
       /\ used' = [used EXCEPT ![a] = @ \cup {id}]
       /\ asked' = [asked EXCEPT ![a] = @ \cup {id}]
       /\ late' = IF proc[a] = "reported" THEN [late EXCEPT ![a] = @ \cup {id}] ELSE late
       /\ Sends(a, Ask(id))
  /\ UNCHANGED <<taskVars, proc, queueVars, answers, lost>>

(* The agent tells that it completed or failed, or closes its connection.  In
   a VM run_external_task then leaves, and the process with it; beside the
   host drive goes on, and the agent may go on asking. *)
Ends(a) ==
  /\ Runs(a)
  /\ \E to \in {"gone", "reported"} :
       /\ to = "reported" => a \notin Isolated /\ proc[a] = "working"
       /\ proc' = [proc EXCEPT ![a] = to]
  /\ Sends(a, EndOf)
  /\ UNCHANGED <<taskVars, used, asked, late, queueVars, answers, lost>>

(* The VM or its connection breaks: no response follows. *)
Breaks(a) ==
  /\ a \in Isolated /\ Runs(a)
  /\ proc' = [proc EXCEPT ![a] = "gone"]
  /\ UNCHANGED <<taskVars, used, asked, wire, late, queueVars, answers, lost>>

(* drive takes an answer and releases the question it is for. *)
Takes(a) ==
  /\ Runs(a)
  /\ \E id \in answers[a] :
       /\ answers' = [answers EXCEPT ![a] = @ \ {id}]
       /\ asked' = [asked EXCEPT ![a] = @ \ {id}]
  /\ UNCHANGED <<taskVars, proc, used, wire, late, queueVars, lost>>

-----------------------------------------------------------------------------
(* The tasks of the host.                                                  *)

Accepted == {reader[t] : t \in Agents}

(* accept_worker returns the next connection whose first frame is not a
   Hello, whichever VM it comes from. *)
AcceptVM(t) ==
  /\ task[t] = "accepting"
  /\ \E a \in Isolated \ Accepted :
       /\ wire[a] # <<>>
       /\ reader' = [reader EXCEPT ![t] = a]
       /\ swapped' = (swapped \/ a # t)
  /\ task' = [task EXCEPT ![t] = "reading"]
  /\ UNCHANGED <<agentVars, queueVars, answers, lost>>

(* run_child_vm destroys the VM of its own task on every way out. *)
DestroyVM(t) ==
  proc' = [proc EXCEPT ![t] = IF t \notin Isolated THEN @
                               ELSE IF @ = "starting" THEN "absent"
                               ELSE IF @ = "working" THEN "gone" ELSE @]

(* A connection that ends before its first frame fails the run that accepted
   it. *)
AcceptFails(t) ==
  /\ task[t] = "accepting"
  /\ \E a \in Isolated \ Accepted :
       /\ proc[a] = "gone" /\ wire[a] = <<>>
       /\ reader' = [reader EXCEPT ![t] = a]
       /\ swapped' = (swapped \/ a # t)
  /\ task' = [task EXCEPT ![t] = "ended"]
  /\ DestroyVM(t)
  /\ UNCHANGED <<used, asked, wire, late, queueVars, answers, lost>>

(* The queue keeps one question only. *)
EnqueueAlone(id, a) ==
  /\ pending' = [i \in Ids |-> IF i = id THEN a ELSE NoAgent]
  /\ clash' = (clash \/ pending[id] # NoAgent)

(* InteractionQueue::add: a map insert, which replaces what has this id. *)
Enqueue(id, a) ==
  /\ pending' = [pending EXCEPT ![id] = a]
  /\ clash' = (clash \/ pending[id] # NoAgent)

(* A question reaches its task.  The notification and the injection into the
   conversation go to channels nobody reads. *)
HandleAsk(t) ==
  LET a == reader[t] IN
  /\ task[t] = "reading"
  /\ wire[a] # <<>> /\ Head(wire[a]) # EndOf
  /\ Enqueue(Head(wire[a]).id, a)
  /\ wire' = [wire EXCEPT ![a] = Tail(@)]
  /\ UNCHANGED <<taskVars, proc, used, asked, late, answers, lost>>

(* The task stops reading at the end of its agent without ending. *)
HandleEndUnreported(t) ==
  LET a == reader[t] IN
  /\ task[t] = "reading"
  /\ wire[a] # <<>> /\ Head(wire[a]) = EndOf
  /\ wire' = [wire EXCEPT ![a] = <<>>]
  /\ task' = [task EXCEPT ![t] = "idle"]
  /\ DestroyVM(t)
  /\ UNCHANGED <<reader, used, asked, late, queueVars, answers, lost, swapped>>

(* The end of the agent is the result of the task that reads it.  What is
   pending stays in the queue; what an agent beside the host sent since is
   dropped with the receiver. *)
HandleEnd(t) ==
  LET a == reader[t] IN
  /\ task[t] = "reading"
  /\ wire[a] # <<>> /\ Head(wire[a]) = EndOf
  /\ wire' = [wire EXCEPT ![a] = <<>>]
  /\ task' = [task EXCEPT ![t] = "ended"]
  /\ DestroyVM(t)
  /\ UNCHANGED <<reader, used, asked, late, queueVars, answers, lost, swapped>>

(* The connection closes without a final response. *)
HandleEOF(t) ==
  LET a == reader[t] IN
  /\ task[t] = "reading"
  /\ wire[a] = <<>> /\ proc[a] = "gone"
  /\ task' = [task EXCEPT ![t] = "ended"]
  /\ DestroyVM(t)
  /\ UNCHANGED <<reader, used, asked, wire, late, queueVars, answers,
                 lost, swapped>>

-----------------------------------------------------------------------------
(* The waiter of a VM's question has no one to write to either. *)
ForwardNowhere(id, a) ==
  /\ lost' = [lost EXCEPT ![a] = @ \cup {id}]
  /\ UNCHANGED answers

(* The waiter of a VM's question writes the answer to the socket; the waiter
   of one asked beside the host sends it to a channel whose receiver was
   dropped when the agent tool was built. *)
Forward(id, a) ==
  IF a \in Isolated
  THEN /\ answers' = [answers EXCEPT ![a] = @ \cup {id}]
       /\ UNCHANGED lost
  ELSE /\ lost' = [lost EXCEPT ![a] = @ \cup {id}]
       /\ UNCHANGED answers

(* The person presses a button, or the model calls interaction_respond. *)
Answer(id) ==
  /\ pending[id] # NoAgent
  /\ pending' = [pending EXCEPT ![id] = NoAgent]
  /\ Forward(id, pending[id])
  /\ UNCHANGED <<taskVars, agentVars, clash>>

Handles(t) == HandleAsk(t) \/ HandleEnd(t) \/ HandleEOF(t)
Accepts(t) == AcceptVM(t) \/ AcceptFails(t)

Next ==
  \/ \E t \in Agents : Spawn(t) \/ SpawnFails(t) \/ Accepts(t) \/ Handles(t)
  \/ \E a \in Agents : Connects(a) \/ Asks(a) \/ Ends(a) \/ Breaks(a) \/ Takes(a)
  \/ \E id \in Ids : Answer(id)

Spec == Init /\ [][Next]_vars

(* The tasks and drivers run; run_child connects or returns; every question is
   answered in the end; an agent that waits on none ends in the end. *)
FairSpec ==
  /\ Spec
  /\ \A t \in Agents : WF_vars(Handles(t)) /\ WF_vars(Accepts(t))
  /\ \A a \in Agents : WF_vars(Connects(a)) /\ WF_vars(Takes(a)) /\ WF_vars(asked[a] = {} /\ Ends(a))
  /\ \A id \in Ids : WF_vars(Answer(id))

-----------------------------------------------------------------------------
(* Properties.                                                             *)

OnWire(a, id) == \E i \in DOMAIN wire[a] : wire[a][i] = Ask(id)

(* A question an agent waits on is never dropped between the agent, the queue
   and the answer: it is on its way to its task, pending under its own asker, or
   answered.  Two exceptions: two questions had one id at one time (codex.rs
   numbers them per connection, claude_code's bridge by the clock), or an agent
   beside the host asked it after it had reported its end (the event_rx that
   spawn_external_agent_session drops at the first Completed or Failed). *)
RequestIsKept ==
  clash \/ \A a \in Agents : Runs(a) =>
    \A id \in asked[a] \ late[a] :
      OnWire(a, id) \/ pending[id] = a \/ id \in answers[a] \cup lost[a]

(* A question asked in a VM is released in the end, whichever task reads the
   VM's socket, as long as no other question takes its id: its agent is
   answered or gone (run_child_vm, run_external_task and drive together). *)
QuestionsAreReleased ==
  \A a \in Isolated : \A id \in Ids :
    id \in asked[a] ~> (id \notin asked[a] \/ proc[a] = "gone" \/ clash)

(* A task that waits for its VM ends in the end, and its tool call with it.
   Three exceptions: an id clashed, a task took another's socket (then the VM it
   waits for may already be destroyed), or its VM never connects:
   run_child_vm accepts without a timeout, and its task waits for ever. *)
TasksEnd ==
  \A t \in Isolated :
    task[t] = "accepting" ~> (task[t] = "ended" \/ clash \/ swapped \/ proc[t] = "absent")

(* mod.rs on the waiter: "when user responds via button, forward to bridge".
   An answer the queue accepted has not failed to be forwarded to an agent
   that is still waiting for it.  The code breaks this for every agent that
   runs beside the host. *)
AnswersReach ==
  \A a \in Agents : Runs(a) => lost[a] \cap asked[a] = {}

=============================================================================
