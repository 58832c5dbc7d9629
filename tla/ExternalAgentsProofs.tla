------------------------ MODULE ExternalAgentsProofs ------------------------
(***************************************************************************)
(* A question of an external agent is never dropped on its way through the *)
(* host, for any number of agents, ids and questions (ExternalAgents).     *)
(***************************************************************************)
EXTENDS ExternalAgents, TLAPS

Events == {Ask(id) : id \in Ids} \cup {EndOf}

Stages == {"off", "starting", "working", "reported", "gone", "absent"}
Staged(t) ==
  /\ task[t] = "reading" => IF t \in Isolated THEN reader[t] \in Isolated ELSE reader[t] = t
  /\ task[t] = "accepting" => t \in Isolated
  /\ task[t] = "new" => proc[t] = "off"
  /\ proc[t] = "starting" => t \in Isolated
  /\ proc[t] \in {"off", "starting"} => asked[t] = {}
  /\ t \notin Isolated /\ proc[t] = "working" => task[t] = "reading"

(* The agents, sockets and queue have their types, a task reads from an agent
   of its own kind, and one that works beside the host has its task reading. *)
Types ==
  /\ task \in [Agents -> {"new", "accepting", "reading", "ended"}]
  /\ reader \in [Agents -> Agents \cup {NoAgent}]
  /\ proc \in [Agents -> Stages]
  /\ asked \in [Agents -> SUBSET Ids]
  /\ wire \in [Agents -> Seq(Events)]
  /\ pending \in [Ids -> Agents \cup {NoAgent}]
  /\ answers \in [Agents -> SUBSET Ids]
  /\ lost \in [Agents -> SUBSET Ids]
  /\ late \in [Agents -> SUBSET Ids]
  /\ clash \in BOOLEAN
  /\ \A t \in Agents : Staged(t)

(* The event with which an agent reports its end comes after all its questions
   that are not late. *)
Early == {"off", "starting", "working"}
EndsLast(a) ==
  /\ proc[a] \in Early => \A i \in DOMAIN wire[a] : wire[a][i] # EndOf
  /\ \A i, j \in DOMAIN wire[a] : i < j /\ wire[a][i] = EndOf =>
       \A id \in Ids : wire[a][j] = Ask(id) => id \in late[a]
EndComesLast == \A a \in Agents : EndsLast(a)

IInv == Types /\ EndComesLast /\ RequestIsKept

(* Two questions are the same event exactly if they have the same id, and none
   is the end of its agent. *)
LEMMA AskIsAnEvent ==
  ASSUME NEW i \in Ids
  PROVE  /\ Ask(i) \in Events /\ Ask(i) # EndOf /\ Ask(i).id = i
         /\ \A j \in Ids : Ask(i) = Ask(j) => i = j
<1>1. Ask(i).kind = "ask" /\ EndOf.kind = "end" /\ \A j \in Ids : Ask(j).id = j
  BY DEF Ask, EndOf
<1> QED
  BY <1>1 DEF Events

(* An event that is not the end of its agent is a question. *)
LEMMA EventIsAQuestion ==
  ASSUME NEW x \in Events, x # EndOf
  PROVE  x.id \in Ids /\ x = Ask(x.id)
BY DEF Events, Ask

LEMMA TypesInit == Init => Types
<1> SUFFICES ASSUME Init PROVE Types
  OBVIOUS
<1>1. wire \in [Agents -> Seq(Events)]
  <2>1. <<>> \in Seq(Events)
    OBVIOUS
  <2> QED
    BY <2>1 DEF Init
<1>2. /\ task \in [Agents -> {"new", "accepting", "reading", "ended"}]
      /\ reader \in [Agents -> Agents \cup {NoAgent}]
      /\ proc \in [Agents -> Stages] /\ late \in [Agents -> SUBSET Ids]
      /\ asked \in [Agents -> SUBSET Ids]
      /\ pending \in [Ids -> Agents \cup {NoAgent}]
      /\ answers \in [Agents -> SUBSET Ids] /\ lost \in [Agents -> SUBSET Ids]
  BY DEF Init, Stages
<1>3. \A t \in Agents : task[t] = "new" /\ proc[t] = "off" /\ asked[t] = {}
  BY DEF Init
<1> QED
  BY <1>1, <1>2, <1>3 DEF Init, Types, Staged

(* An answer is added to those forwarded to its agent, or to those lost. *)
LEMMA AnswerForwards ==
  ASSUME Types, NEW id \in Ids, Answer(id)
  PROVE  /\ answers' \in [Agents -> SUBSET Ids] /\ lost' \in [Agents -> SUBSET Ids]
         /\ id \in answers'[pending[id]] \cup lost'[pending[id]]
         /\ \A a \in Agents : answers[a] \subseteq answers'[a] /\ lost[a] \subseteq lost'[a]
<1> DEFINE b == pending[id]
<1>1. b \in Agents
  BY DEF Types, Answer
<1>2. answers \in [Agents -> SUBSET Ids] /\ lost \in [Agents -> SUBSET Ids]
  BY DEF Types
<1>3. \/ answers' = [answers EXCEPT ![b] = @ \cup {id}] /\ lost' = lost
      \/ lost' = [lost EXCEPT ![b] = @ \cup {id}] /\ answers' = answers
  BY DEF Answer, Forward
<1> HIDE DEF b
<1>4. /\ answers' \in [Agents -> SUBSET Ids] /\ lost' \in [Agents -> SUBSET Ids]
      /\ id \in answers'[b] \cup lost'[b]
      /\ \A a \in Agents : answers[a] \subseteq answers'[a] /\ lost[a] \subseteq lost'[a]
  BY ONLY <1>1, <1>2, <1>3
<1> QED
  BY <1>4 DEF b

(* A task reads from an agent. *)
LEMMA ReaderIsAnAgent ==
  ASSUME Types, NEW t \in Agents, task[t] = "reading"
  PROVE  reader[t] \in Agents
BY IsolatedAssumption DEF Types, Staged

(* An event added to a wire moves none of those before it; what was sent after the end of
   its task is not added. *)
LEMMA EventIsSent ==
  ASSUME wire \in [Agents -> Seq(Events)], NEW b \in Agents, NEW x \in Events, Sends(b, x)
  PROVE  /\ wire' \in [Agents -> Seq(Events)]
         /\ \A a \in Agents : a # b => wire'[a] = wire[a]
         /\ wire'[b] = wire[b] \/ wire'[b] = Append(wire[b], x)
         /\ b \in Isolated \/ task[b] = "reading" => wire'[b] = Append(wire[b], x)
<1>1. CASE b \in Isolated \/ task[b] = "reading"
  <2>1. wire' = [wire EXCEPT ![b] = Append(@, x)]
    BY <1>1 DEF Sends
  <2>2. wire[b] \in Seq(Events) /\ Append(wire[b], x) \in Seq(Events)
    OBVIOUS
  <2> QED
    BY <2>1, <2>2
<1>2. CASE ~ (b \in Isolated \/ task[b] = "reading")
  <2>1. wire' = wire
    BY <1>2 DEF Sends
  <2> QED
    BY <1>2, <2>1
<1> QED
  BY <1>1, <1>2

(* An agent stays where it is, or is not to work any more. *)
Moved(a) ==
  \/ proc'[a] = proc[a]
  \/ proc[a] # "off" /\ proc'[a] \in {"gone", "absent"}
  \/ Runs(a) /\ proc'[a] = "reported"

(* A destroyed VM is gone, or will never connect. *)
LEMMA VMIsDestroyed ==
  ASSUME Types, NEW t \in Agents, DestroyVM(t)
  PROVE  /\ proc' \in [Agents -> Stages]
         /\ \A a \in Agents : Moved(a)
BY DEF Types, DestroyVM, Stages, Moved

(* An agent that stops is at no stage its task depends on. *)
LEMMA StagedStays ==
  ASSUME NEW a \in Agents, Staged(a), Moved(a), UNCHANGED <<reader, asked>>,
         \/ task'[a] = task[a]
         \/ task'[a] = "ended" /\ (a \in Isolated \/ proc[a] # "working")
  PROVE  Staged(a)'
BY DEF Staged, Moved, Runs

LEMMA TypesStep == Types /\ EndComesLast /\ [Next]_vars => Types'
<1> SUFFICES ASSUME Types, EndComesLast, [Next]_vars PROVE Types'
  OBVIOUS
<1> USE DEF queueVars, agentVars, taskVars
<1>0. \A a \in Agents : Staged(a)
  BY DEF Types
<1>1. ASSUME NEW t \in Agents, Spawn(t) PROVE Types'
  <2>1. CASE t \in Isolated
    <3>1. /\ task' = [task EXCEPT ![t] = "accepting"] /\ reader' = reader
          /\ proc' = [proc EXCEPT ![t] = "starting"]
      BY <1>1, <2>1 DEF Spawn
    <3>2. \A a \in Agents : Staged(a)'
      BY <1>0, <1>1, <2>1, <3>1 DEF Types, Staged, Spawn
    <3> QED
      BY <1>1, <3>1, <3>2 DEF Types, Spawn, Stages
  <2>2. CASE t \notin Isolated
    <3>1. /\ task' = [task EXCEPT ![t] = "reading"] /\ reader' = [reader EXCEPT ![t] = t]
          /\ proc' = [proc EXCEPT ![t] = "working"]
      BY <1>1, <2>2 DEF Spawn
    <3>2. \A a \in Agents : Staged(a)'
      BY <1>0, <1>1, <2>2, <3>1 DEF Types, Staged, Spawn
    <3> QED
      BY <1>1, <3>1, <3>2 DEF Types, Spawn, Stages
  <2> QED
    BY <2>1, <2>2
<1>2. ASSUME NEW t \in Agents, SpawnFails(t) PROVE Types'
  BY <1>2 DEF Types, SpawnFails, Staged
<1>3. ASSUME NEW t \in Agents, AcceptVM(t) PROVE Types'
  <2>1. PICK a \in Isolated : reader' = [reader EXCEPT ![t] = a]
    BY <1>3 DEF AcceptVM
  <2>2. \A b \in Agents : Staged(b)'
    BY <1>0, <1>3, <2>1, IsolatedAssumption DEF Types, AcceptVM, Staged
  <2> QED
    BY <1>3, <2>1, <2>2, IsolatedAssumption DEF Types, AcceptVM
<1>4. ASSUME NEW t \in Agents, AcceptFails(t) PROVE Types'
  <2>1. PICK a \in Isolated : reader' = [reader EXCEPT ![t] = a]
    BY <1>4 DEF AcceptFails
  <2>2. t \in Isolated /\ task' = [task EXCEPT ![t] = "ended"] /\ DestroyVM(t)
    BY <1>0, <1>4 DEF AcceptFails, Staged
  <2>3. \A b \in Agents : Staged(b)'
    <3> SUFFICES ASSUME NEW b \in Agents PROVE Staged(b)'
      OBVIOUS
    <3>1. /\ Staged(b) /\ Moved(b) /\ asked' = asked
          /\ task'[b] = task[b] \/ task'[b] = "ended"
          /\ b # t => task'[b] = task[b] /\ reader'[b] = reader[b]
          /\ b = t => task'[b] = "ended"
      BY <1>0, <1>4, <2>1, <2>2, VMIsDestroyed DEF Types, AcceptFails
    <3> QED
      BY <2>2, <3>1 DEF Staged, Moved, Runs
  <2> QED
    BY <1>4, <2>1, <2>2, <2>3, VMIsDestroyed, IsolatedAssumption DEF Types, AcceptFails
<1>5. ASSUME NEW t \in Agents, HandleAsk(t) PROVE Types'
  <2>1. reader[t] \in Agents
    BY <1>5, ReaderIsAnAgent DEF HandleAsk
  <2>2. wire' \in [Agents -> Seq(Events)]
    BY <1>5, <2>1 DEF Types, HandleAsk
  <2>3. pending' \in [Ids -> Agents \cup {NoAgent}] /\ clash' \in BOOLEAN
    BY <1>5, <2>1 DEF Types, HandleAsk, Enqueue
  <2> QED
    BY <1>5, <2>2, <2>3 DEF Types, HandleAsk, Staged
<1>6. ASSUME NEW t \in Agents, HandleEnd(t) PROVE Types'
  <2>1. reader[t] \in Agents /\ proc[reader[t]] # "working"
    <3>1. reader[t] \in Agents
      BY <1>6, ReaderIsAnAgent DEF HandleEnd
    <3>2. wire[reader[t]] \in Seq(Events) /\ wire[reader[t]] # <<>>
          /\ Head(wire[reader[t]]) = EndOf
      BY <1>6, <3>1 DEF HandleEnd, Types
    <3>3. 1 \in DOMAIN wire[reader[t]] /\ wire[reader[t]][1] = EndOf
      BY <3>2
    <3> QED
      BY <3>1, <3>3 DEF EndComesLast, EndsLast, Early
  <2>2. wire' \in [Agents -> Seq(Events)]
    <3>1. <<>> \in Seq(Events) /\ wire' = [wire EXCEPT ![reader[t]] = <<>>]
      BY <1>6 DEF HandleEnd
    <3> QED
      BY <2>1, <3>1 DEF Types
  <2>3. DestroyVM(t) /\ task' = [task EXCEPT ![t] = "ended"] /\ task[t] = "reading"
    BY <1>6 DEF HandleEnd
  <2>4. \A b \in Agents : Staged(b)'
    <3> SUFFICES ASSUME NEW b \in Agents PROVE Staged(b)'
      OBVIOUS
    <3>1. Staged(b) /\ Moved(b) /\ Staged(t) /\ UNCHANGED <<reader, asked>>
      BY <1>0, <1>6, <2>3, VMIsDestroyed DEF HandleEnd
    <3>2. task'[b] = task[b] \/ (task'[b] = "ended" /\ b = t)
      BY <2>3 DEF Types
    <3>3. t \in Isolated \/ proc[t] # "working"
      BY <2>1, <3>1, <2>3 DEF Staged
    <3> QED
      BY <3>1, <3>2, <3>3, StagedStays
  <2> QED
    BY <1>6, <2>2, <2>3, <2>4, VMIsDestroyed DEF Types, HandleEnd
<1>7. ASSUME NEW t \in Agents, HandleEOF(t) PROVE Types'
  <2>1. /\ DestroyVM(t) /\ task' = [task EXCEPT ![t] = "ended"] /\ task[t] = "reading"
        /\ proc[reader[t]] # "working"
    BY <1>7 DEF HandleEOF
  <2>2. \A b \in Agents : Staged(b)'
    <3> SUFFICES ASSUME NEW b \in Agents PROVE Staged(b)'
      OBVIOUS
    <3>1. Staged(b) /\ Moved(b) /\ Staged(t) /\ UNCHANGED <<reader, asked>>
      BY <1>0, <1>7, <2>1, VMIsDestroyed DEF HandleEOF
    <3>2. task'[b] = task[b] \/ (task'[b] = "ended" /\ b = t)
      BY <2>1 DEF Types
    <3>3. t \in Isolated \/ proc[t] # "working"
      BY <2>1, <3>1 DEF Staged
    <3> QED
      BY <3>1, <3>2, <3>3, StagedStays
  <2> QED
    BY <1>7, <2>1, <2>2, VMIsDestroyed DEF Types, HandleEOF
<1>8. ASSUME NEW a \in Agents, Asks(a) PROVE Types'
  <2>1. PICK id \in Ids : /\ asked' = [asked EXCEPT ![a] = @ \cup {id}] /\ Sends(a, Ask(id))
                          /\ late' = [late EXCEPT ![a] = @ \cup {id}] \/ late' = late
    BY <1>8 DEF Asks
  <2>2. wire' \in [Agents -> Seq(Events)]
    BY <2>1, AskIsAnEvent, EventIsSent DEF Types
  <2>3. asked' \in [Agents -> SUBSET Ids] /\ late' \in [Agents -> SUBSET Ids]
    <3>1. asked \in [Agents -> SUBSET Ids] /\ late \in [Agents -> SUBSET Ids]
      BY DEF Types
    <3>2. asked' \in [Agents -> SUBSET Ids]
      BY <2>1, <3>1
    <3>3. late' \in [Agents -> SUBSET Ids]
      BY <2>1, <3>1
    <3> QED
      BY <3>2, <3>3
  <2>4. \A b \in Agents : Staged(b)'
    BY <1>0, <1>8, <2>1 DEF Types, Asks, Runs, Staged
  <2> QED
    BY <1>8, <2>2, <2>3, <2>4 DEF Types, Asks
<1>9. ASSUME NEW a \in Agents, Ends(a) PROVE Types'
  <2>1. wire' \in [Agents -> Seq(Events)]
    <3>1. EndOf \in Events /\ Sends(a, EndOf)
      BY <1>9 DEF Ends, Events
    <3> QED
      BY <3>1, EventIsSent DEF Types
  <2>2. PICK to \in {"gone", "reported"} : proc' = [proc EXCEPT ![a] = to]
    BY <1>9 DEF Ends
  <2>3. \A b \in Agents : Staged(b)'
    <3> SUFFICES ASSUME NEW b \in Agents PROVE Staged(b)'
      OBVIOUS
    <3>1. Runs(a) /\ UNCHANGED <<task, reader, asked>>
      BY <1>9 DEF Ends
    <3>2. Moved(b)
      BY <2>2, <3>1 DEF Types, Moved, Runs
    <3> QED
      BY <1>0, <3>1, <3>2, StagedStays
  <2> QED
    BY <1>9, <2>1, <2>2, <2>3 DEF Types, Ends, Stages
<1>10. ASSUME NEW a \in Agents, Takes(a) PROVE Types'
  BY <1>10 DEF Types, Takes, Staged
<1>11. ASSUME NEW id \in Ids, Answer(id) PROVE Types'
  BY <1>11, AnswerForwards DEF Types, Answer, Staged
<1>12. ASSUME NEW a \in Agents, Connects(a) PROVE Types'
  <2>1. PICK to \in {"working", "absent"} : proc' = [proc EXCEPT ![a] = to]
    BY <1>12 DEF Connects
  <2>2. \A b \in Agents : Staged(b)'
    <3> SUFFICES ASSUME NEW b \in Agents PROVE Staged(b)'
      OBVIOUS
    <3>1. proc[a] = "starting" /\ UNCHANGED <<task, reader, asked>> /\ Staged(b)
      BY <1>0, <1>12 DEF Connects
    <3>2. proc'[b] = IF b = a THEN to ELSE proc[b]
      BY <2>1 DEF Types
    <3>3. b = a => b \in Isolated
      BY <3>1 DEF Staged
    <3> QED
      BY <3>1, <3>2, <3>3 DEF Staged
  <2> QED
    BY <1>12, <2>1, <2>2 DEF Types, Connects, Stages
<1>13. ASSUME NEW a \in Agents, Breaks(a) PROVE Types'
  <2>1. /\ proc[a] # "off" /\ UNCHANGED <<task, reader, asked>>
        /\ proc' = [proc EXCEPT ![a] = "gone"]
    BY <1>13 DEF Breaks, Runs
  <2>2. ASSUME NEW b \in Agents PROVE Staged(b)'
    <3>1. Moved(b)
      BY <2>1 DEF Types, Moved
    <3> QED
      BY <1>0, <2>1, <3>1, StagedStays
  <2> QED
    BY <1>13, <2>1, <2>2 DEF Types, Breaks, Stages
<1>14. CASE UNCHANGED vars
  BY <1>14 DEF Types, vars, Staged
<1> QED
  BY <1>1, <1>2, <1>3, <1>4, <1>5, <1>6, <1>7, <1>8, <1>9, <1>10, <1>11, <1>12, <1>13, <1>14
     DEF Next, Accepts, Handles

(* An event taken from the head of a wire, or added to its end, keeps the order of the rest;
   an agent that is stopped is not one that may still report its end. *)
LEMMA EndStep == Types /\ EndComesLast /\ [Next]_vars => EndComesLast'
<1> SUFFICES ASSUME Types, EndComesLast, [Next]_vars, NEW a \in Agents
             PROVE  EndsLast(a)'
  BY DEF EndComesLast
<1> USE DEF queueVars, agentVars, taskVars
<1>0. EndsLast(a) /\ wire \in [Agents -> Seq(Events)] /\ wire[a] \in Seq(Events)
  BY DEF EndComesLast, Types
<1>1. ASSUME wire' = wire, late' = late, proc'[a] \in Early => proc[a] \in Early
      PROVE  EndsLast(a)'
  BY <1>0, <1>1 DEF EndsLast
<1>2. ASSUME NEW b \in Agents, NEW x \in Events, Sends(b, x),
             \A c \in Agents : c # b => late'[c] = late[c] /\ proc'[c] = proc[c],
             late[b] \subseteq late'[b],
             proc'[b] \in Early => proc[b] \in Early /\ x # EndOf,
             proc[b] \notin Early => \A id \in Ids : x = Ask(id) => id \in late'[b]
      PROVE  EndsLast(a)'
  <2>1. CASE wire'[a] = wire[a]
    <3>1. /\ late[a] \subseteq late'[a]
          /\ proc'[a] \in Early => proc[a] \in Early
      BY <1>2
    <3> QED
      BY <1>0, <2>1, <3>1 DEF EndsLast
  <2>2. CASE a = b /\ wire'[a] = Append(wire[a], x)
    <3>1. ASSUME NEW i \in DOMAIN wire'[a]
          PROVE  \/ i \in DOMAIN wire[a] /\ wire'[a][i] = wire[a][i]
                 \/ i = Len(wire[a]) + 1 /\ wire'[a][i] = x
      BY <1>0, <2>2
    <3>2. ASSUME proc'[a] \in Early, NEW i \in DOMAIN wire'[a] PROVE wire'[a][i] # EndOf
      BY <1>0, <1>2, <2>2, <3>1, <3>2 DEF EndsLast
    <3>3. ASSUME NEW i \in DOMAIN wire'[a], NEW j \in DOMAIN wire'[a], i < j,
                 wire'[a][i] = EndOf, NEW id \in Ids, wire'[a][j] = Ask(id)
          PROVE  id \in late'[a]
      <4>1. i \in DOMAIN wire[a] /\ wire[a][i] = EndOf
        <5>1. i \in 1 .. Len(wire[a]) + 1 /\ j \in 1 .. Len(wire[a]) + 1 /\ Len(wire[a]) \in Nat
          BY <1>0, <2>2
        <5> QED
          BY <3>1, <3>3, <5>1
      <4>2. proc[a] \notin Early
        BY <1>0, <4>1 DEF EndsLast
      <4>3. CASE j \in DOMAIN wire[a] /\ wire'[a][j] = wire[a][j]
        BY <1>0, <1>2, <2>2, <3>3, <4>1, <4>3 DEF EndsLast
      <4>4. CASE wire'[a][j] = x
        BY <1>2, <2>2, <3>3, <4>2, <4>4
      <4> QED
        BY <3>1, <4>3, <4>4
    <3> QED
      BY <3>2, <3>3 DEF EndsLast
  <2> QED
    BY <1>0, <1>2, <2>1, <2>2, EventIsSent
<1>3. ASSUME NEW t \in Agents, DestroyVM(t) PROVE proc'[a] \in Early => proc[a] \in Early
  BY <1>3, VMIsDestroyed DEF Early, Moved, Runs
<1>4. ASSUME NEW t \in Agents, Spawn(t) PROVE EndsLast(a)'
  <2>1. proc[t] \in Early /\ \A c \in Agents : c # t => proc'[c] = proc[c]
    BY <1>4 DEF Types, Staged, Spawn, Early
  <2> QED
    BY <1>1, <1>4, <2>1 DEF Spawn
<1>5. ASSUME NEW t \in Agents, SpawnFails(t) \/ AcceptVM(t) PROVE EndsLast(a)'
  BY <1>1, <1>5 DEF SpawnFails, AcceptVM
<1>6. ASSUME NEW t \in Agents, AcceptFails(t) \/ HandleEOF(t) PROVE EndsLast(a)'
  BY <1>1, <1>3, <1>6 DEF AcceptFails, HandleEOF
<1>7. ASSUME NEW t \in Agents, HandleAsk(t) PROVE EndsLast(a)'
  <2> DEFINE b == reader[t]
  <2>1. b \in Agents /\ wire' = [wire EXCEPT ![b] = Tail(@)] /\ wire[b] # <<>>
        /\ UNCHANGED <<proc, late>>
    BY <1>7, ReaderIsAnAgent DEF HandleAsk
  <2> HIDE DEF b
  <2>2. CASE a # b
    BY <1>0, <2>1, <2>2 DEF EndsLast
  <2>3. CASE a = b
    <3>1. wire'[a] = Tail(wire[a]) /\ wire[a] # <<>>
      BY <1>0, <2>1, <2>3
    <3>2. \A i \in DOMAIN wire'[a] : i + 1 \in DOMAIN wire[a] /\ wire'[a][i] = wire[a][i + 1]
                                     /\ i \in Nat
      BY <1>0, <3>1
    <3>3. ASSUME NEW i \in DOMAIN wire'[a], NEW j \in DOMAIN wire'[a], i < j,
                 wire'[a][i] = EndOf, NEW id \in Ids, wire'[a][j] = Ask(id)
          PROVE  id \in late'[a]
      <4>1. i + 1 < j + 1 /\ wire[a][i + 1] = EndOf /\ wire[a][j + 1] = Ask(id)
        BY <3>2, <3>3
      <4> QED
        BY <1>0, <2>1, <3>2, <4>1 DEF EndsLast
    <3>4. ASSUME proc'[a] \in Early, NEW i \in DOMAIN wire'[a] PROVE wire'[a][i] # EndOf
      BY <1>0, <2>1, <3>2, <3>4 DEF EndsLast
    <3> QED
      BY <3>3, <3>4 DEF EndsLast
  <2> QED
    BY <2>2, <2>3
<1>8. ASSUME NEW t \in Agents, HandleEnd(t) PROVE EndsLast(a)'
  <2>1. reader[t] \in Agents /\ wire' = [wire EXCEPT ![reader[t]] = <<>>] /\ late' = late
        /\ DestroyVM(t)
    BY <1>8, ReaderIsAnAgent DEF HandleEnd
  <2>2. wire'[a] = wire[a] \/ wire'[a] = <<>>
    BY <1>0, <2>1
  <2> QED
    BY <1>0, <1>3, <2>1, <2>2 DEF EndsLast
<1>9. ASSUME NEW b \in Agents, Asks(b) PROVE EndsLast(a)'
  <2>1. PICK id \in Ids :
          /\ Sends(b, Ask(id))
          /\ late' = IF proc[b] = "reported" THEN [late EXCEPT ![b] = @ \cup {id}] ELSE late
    BY <1>9 DEF Asks
  <2>2. Ask(id) \in Events /\ Ask(id) # EndOf /\ \A k \in Ids : Ask(id) = Ask(k) => id = k
    BY AskIsAnEvent
  <2>3. /\ \A c \in Agents : c # b => late'[c] = late[c] /\ proc'[c] = proc[c]
        /\ late[b] \subseteq late'[b] /\ proc' = proc
        /\ proc[b] \notin Early => id \in late'[b]
    BY <1>9, <2>1 DEF Asks, Runs, Early, Types
  <2> QED
    BY <1>2, <2>1, <2>2, <2>3
<1>10. ASSUME NEW b \in Agents, Ends(b) PROVE EndsLast(a)'
  <2>1. PICK to \in {"gone", "reported"} : proc' = [proc EXCEPT ![b] = to]
    BY <1>10 DEF Ends
  <2>2. EndOf \in Events /\ Sends(b, EndOf) /\ late' = late
        /\ \A id \in Ids : EndOf # Ask(id)
    BY <1>10, AskIsAnEvent DEF Ends, Events
  <2>3. /\ \A c \in Agents : c # b => proc'[c] = proc[c]
        /\ proc'[b] \notin Early
    BY <2>1 DEF Types, Early
  <2> QED
    BY <1>2, <2>2, <2>3
<1>11. ASSUME NEW b \in Agents, Takes(b) PROVE EndsLast(a)'
  BY <1>1, <1>11 DEF Takes
<1>12. ASSUME NEW id \in Ids, Answer(id) PROVE EndsLast(a)'
  BY <1>1, <1>12 DEF Answer
<1>13. ASSUME NEW b \in Agents, Connects(b) \/ Breaks(b) PROVE EndsLast(a)'
  <2>1. proc'[a] \in Early => proc[a] \in Early
    BY <1>13 DEF Connects, Breaks, Types, Early
  <2> QED
    BY <1>1, <1>13, <2>1 DEF Connects, Breaks
<1>14. CASE UNCHANGED vars
  BY <1>1, <1>14 DEF vars
<1> QED
  BY <1>4, <1>5, <1>6, <1>7, <1>8, <1>9, <1>10, <1>11, <1>12, <1>13, <1>14
     DEF Next, Accepts, Handles

(* Where a question is, between the agent and its answer. *)
Kept(a, id) == OnWire(a, id) \/ pending[id] = a \/ id \in answers[a] \cup lost[a]

(* What an agent asked and sent stays on its wire when something else is taken from its
   head. *)
LEMMA WireKeeps ==
  ASSUME NEW s \in Seq(Events), NEW i \in DOMAIN s, s[i] # Head(s)
  PROVE  i - 1 \in DOMAIN Tail(s) /\ Tail(s)[i - 1] = s[i]
<1>1. s # <<>> /\ i # 1 /\ i \in 1 .. Len(s)
  OBVIOUS
<1> QED
  BY <1>1

(* A step that drops no event and touches neither the queue nor the answers keeps every
   question; an agent that starts waits on none. *)
LEMMA RequestStays ==
  ASSUME Types, RequestIsKept, UNCHANGED <<asked, late, pending, clash, answers, lost>>,
         \A a \in Agents : Runs(a)' => Runs(a) \/ asked[a] = {},
         \A a \in Agents : \A id \in asked[a] \ late[a] : OnWire(a, id) => OnWire(a, id)'
  PROVE  RequestIsKept'
<1>1. SUFFICES ASSUME ~ clash, NEW a \in Agents, Runs(a)', NEW id \in asked[a] \ late[a]
               PROVE  Kept(a, id)'
  BY DEF RequestIsKept, Kept
<1>2. Kept(a, id)
  BY <1>1 DEF RequestIsKept, Kept
<1> QED
  BY <1>2 DEF Kept

(* With the end of its agent only late questions leave the wire. *)
LEMMA EndIsTaken ==
  ASSUME Types, EndComesLast, NEW b \in Agents, wire[b] # <<>>, Head(wire[b]) = EndOf,
         wire' = [wire EXCEPT ![b] = <<>>], NEW a \in Agents, NEW id \in Ids \ late[a],
         OnWire(a, id)
  PROVE  OnWire(a, id)'
<1>1. PICK i \in DOMAIN wire[a] : wire[a][i] = Ask(id)
  BY DEF OnWire
<1>2. CASE a = b
  <2>1. wire[a] \in Seq(Events) /\ wire[a] # <<>> /\ Ask(id) # EndOf /\ wire[a][1] = EndOf
    BY <1>2, AskIsAnEvent DEF Types
  <2>2. 1 \in DOMAIN wire[a] /\ 1 < i
    BY <1>1, <2>1
  <2> QED
    BY <1>1, <2>1, <2>2 DEF EndComesLast, EndsLast
<1>3. CASE a # b
  BY <1>1, <1>3 DEF OnWire, Types
<1> QED
  BY <1>2, <1>3

(* An event that is sent moves none of those before it. *)
LEMMA EventIsAdded ==
  ASSUME Types, NEW b \in Agents, NEW x \in Events, Sends(b, x), NEW a \in Agents, NEW id \in Ids
  PROVE  /\ OnWire(a, id) => OnWire(a, id)'
         /\ x = Ask(id) /\ (b \in Isolated \/ task[b] = "reading") => OnWire(b, id)'
<1>1. /\ wire \in [Agents -> Seq(Events)] /\ wire[a] \in Seq(Events) /\ wire[b] \in Seq(Events)
      /\ wire'[a] = wire[a] \/ (a = b /\ wire'[b] = Append(wire[b], x))
      /\ b \in Isolated \/ task[b] = "reading" => wire'[b] = Append(wire[b], x)
  BY EventIsSent DEF Types
<1>2. ASSUME NEW i \in DOMAIN wire[a], wire[a][i] = Ask(id) PROVE OnWire(a, id)'
  <2>1. i \in DOMAIN Append(wire[a], x) /\ Append(wire[a], x)[i] = Ask(id)
    BY <1>1, <1>2
  <2> QED
    BY <1>1, <1>2, <2>1 DEF OnWire
<1>3. ASSUME x = Ask(id), b \in Isolated \/ task[b] = "reading" PROVE OnWire(b, id)'
  <2>1. Append(wire[b], x)[Len(wire[b]) + 1] = x /\ Len(wire[b]) + 1 \in DOMAIN Append(wire[b], x)
    BY <1>1
  <2> QED
    BY <1>1, <1>3, <2>1 DEF OnWire
<1> QED
  BY <1>2, <1>3 DEF OnWire

LEMMA RequestStep == Types /\ EndComesLast /\ RequestIsKept /\ [Next]_vars => RequestIsKept'
<1> SUFFICES ASSUME Types, EndComesLast, RequestIsKept, [Next]_vars PROVE RequestIsKept'
  OBVIOUS
<1> USE DEF queueVars, agentVars, taskVars
<1>0. \A a \in Agents : asked[a] \subseteq Ids
  BY DEF Types
<1>1. ASSUME NEW t \in Agents, Spawn(t) PROVE RequestIsKept'
  <2>1. \A a \in Agents : Runs(a)' => Runs(a) \/ asked[a] = {}
    BY <1>1 DEF Types, Staged, Spawn, Runs
  <2> QED
    BY <1>1, <2>1, RequestStays DEF Spawn, OnWire
<1>2. ASSUME NEW t \in Agents, SpawnFails(t) \/ AcceptVM(t) PROVE RequestIsKept'
  BY <1>2, RequestStays DEF SpawnFails, AcceptVM, OnWire, Runs
<1>3. ASSUME NEW a \in Agents, Connects(a) PROVE RequestIsKept'
  <2>1. \A b \in Agents : Runs(b)' => Runs(b) \/ asked[b] = {}
    BY <1>3 DEF Types, Staged, Connects, Runs
  <2> QED
    BY <1>3, <2>1, RequestStays DEF Connects, OnWire
<1>13. ASSUME NEW a \in Agents, Breaks(a) PROVE RequestIsKept'
  <2>1. \A b \in Agents : Runs(b)' => Runs(b)
    BY <1>13 DEF Types, Breaks, Runs
  <2> QED
    BY <1>13, <2>1, RequestStays DEF Breaks, OnWire
<1>4. ASSUME NEW t \in Agents, AcceptFails(t) \/ HandleEOF(t) PROVE RequestIsKept'
  <2>1. \A a \in Agents : Runs(a)' => Runs(a)
    <3>1. DestroyVM(t)
      BY <1>4 DEF AcceptFails, HandleEOF
    <3> QED
      BY <3>1, VMIsDestroyed DEF Runs, Moved
  <2> QED
    BY <1>4, <2>1, RequestStays DEF AcceptFails, HandleEOF, OnWire
<1>5. ASSUME NEW t \in Agents, HandleAsk(t) PROVE RequestIsKept'
  <2> DEFINE b == reader[t]
             k == Head(wire[b]).id
  <2>1. b \in Agents /\ wire[b] \in Seq(Events) /\ wire[b] # <<>> /\ Head(wire[b]) # EndOf
    BY <1>5, ReaderIsAnAgent DEF Types, HandleAsk
  <2>2. k \in Ids /\ Head(wire[b]) = Ask(k)
    BY <2>1, EventIsAQuestion
  <2>3. /\ wire' = [wire EXCEPT ![b] = Tail(@)]
        /\ pending' = [pending EXCEPT ![k] = b] /\ clash' = (clash \/ pending[k] # NoAgent)
        /\ UNCHANGED <<proc, asked, late, answers, lost>>
    BY <1>5 DEF HandleAsk, Enqueue
  <2> HIDE DEF b, k
  <2> SUFFICES ASSUME ~ clash', NEW a \in Agents, Runs(a)', NEW id \in asked[a] \ late[a]
               PROVE  Kept(a, id)'
    BY <2>3 DEF RequestIsKept, Kept, Runs
  <2>4. Kept(a, id) /\ pending[k] = NoAgent /\ id \in Ids
    BY <1>0, <2>3 DEF RequestIsKept, Kept, Runs
  <2>5. CASE id = k /\ a = b
    BY <2>2, <2>3, <2>5 DEF Kept, Types
  <2>6. CASE id # k \/ a # b
    <3>1. OnWire(a, id) => OnWire(a, id)'
      <4>1. CASE a # b
        BY <2>1, <2>3, <4>1 DEF OnWire, Types
      <4>2. CASE a = b /\ id # k
        <5> SUFFICES ASSUME NEW i \in DOMAIN wire[b], wire[b][i] = Ask(id)
                     PROVE  OnWire(a, id)'
          BY <4>2 DEF OnWire
        <5>1. Ask(id) # Ask(k) /\ wire'[b] = Tail(wire[b])
          BY <2>1, <2>2, <2>3, <2>4, <4>2, AskIsAnEvent DEF Types
        <5>2. i - 1 \in DOMAIN Tail(wire[b]) /\ Tail(wire[b])[i - 1] = Ask(id)
          BY <2>1, <2>2, <5>1, WireKeeps, AskIsAnEvent
        <5> QED
          BY <4>2, <5>1, <5>2 DEF OnWire
      <4> QED
        BY <2>6, <4>1, <4>2
    <3>2. pending[id] = a => pending'[id] = a
      BY <2>2, <2>3, <2>4, NoAgentAssumption DEF Types
    <3> QED
      BY <2>3, <2>4, <3>1, <3>2 DEF Kept
  <2> QED
    BY <2>5, <2>6
<1>6. ASSUME NEW t \in Agents, HandleEnd(t) PROVE RequestIsKept'
  <2>1. reader[t] \in Agents
    BY <1>6, ReaderIsAnAgent DEF HandleEnd
  <2>2. \A a \in Agents : \A id \in asked[a] \ late[a] : OnWire(a, id) => OnWire(a, id)'
    BY <1>0, <1>6, <2>1, EndIsTaken DEF HandleEnd
  <2>3. \A a \in Agents : Runs(a)' => Runs(a)
    <3>1. DestroyVM(t)
      BY <1>6 DEF HandleEnd
    <3> QED
      BY <3>1, VMIsDestroyed DEF Runs, Moved
  <2> QED
    BY <1>6, <2>2, <2>3, RequestStays DEF HandleEnd
<1>8. ASSUME NEW b \in Agents, Asks(b) PROVE RequestIsKept'
  <2>1. PICK k \in Ids :
          /\ asked' = [asked EXCEPT ![b] = @ \cup {k}] /\ Sends(b, Ask(k))
          /\ late' = IF proc[b] = "reported" THEN [late EXCEPT ![b] = @ \cup {k}] ELSE late
    BY <1>8 DEF Asks
  <2>2. UNCHANGED <<proc, pending, clash, answers, lost>> /\ Runs(b)
    BY <1>8 DEF Asks
  <2> SUFFICES ASSUME ~ clash, NEW a \in Agents, Runs(a), NEW id \in asked'[a] \ late'[a]
               PROVE  Kept(a, id)'
    BY <2>2 DEF RequestIsKept, Kept, Runs
  <2>3. CASE id \in asked[a]
    <3>1. id \notin late[a]
      BY <2>1 DEF Types
    <3>2. Kept(a, id) /\ id \in Ids
      BY <1>0, <2>3, <3>1 DEF RequestIsKept, Kept
    <3>3. OnWire(a, id) => OnWire(a, id)'
      BY <2>1, <3>2, EventIsAdded, AskIsAnEvent
    <3> QED
      BY <2>2, <3>2, <3>3 DEF Kept
  <2>4. CASE id = k /\ a = b
    <3>1. proc[b] # "reported"
      BY <2>1, <2>4 DEF Types
    <3>2. b \in Isolated \/ task[b] = "reading"
      BY <2>2, <3>1 DEF Types, Staged, Runs
    <3> QED
      BY <2>1, <2>4, <3>2, EventIsAdded, AskIsAnEvent DEF Kept
  <2>5. id \in asked[a] \/ (id = k /\ a = b)
    BY <2>1 DEF Types
  <2> QED
    BY <2>3, <2>4, <2>5
<1>9. ASSUME NEW b \in Agents, Ends(b) PROVE RequestIsKept'
  <2>1. EndOf \in Events /\ Sends(b, EndOf)
    BY <1>9 DEF Ends, Events
  <2>2. \A a \in Agents : \A id \in asked[a] \ late[a] : OnWire(a, id) => OnWire(a, id)'
    BY <1>0, <2>1, EventIsAdded
  <2>3. \A a \in Agents : Runs(a)' => Runs(a)
    <3>1. PICK to \in {"gone", "reported"} : proc' = [proc EXCEPT ![b] = to]
      BY <1>9 DEF Ends
    <3> QED
      BY <1>9, <3>1 DEF Types, Ends, Runs
  <2> QED
    BY <1>9, <2>2, <2>3, RequestStays DEF Ends
<1>10. ASSUME NEW b \in Agents, Takes(b) PROVE RequestIsKept'
  <2>1. PICK k \in answers[b] : /\ answers' = [answers EXCEPT ![b] = @ \ {k}]
                                /\ asked' = [asked EXCEPT ![b] = @ \ {k}]
    BY <1>10 DEF Takes
  <2>2. UNCHANGED <<proc, wire, late, pending, clash, lost>>
    BY <1>10 DEF Takes
  <2> SUFFICES ASSUME ~ clash, NEW a \in Agents, Runs(a), NEW id \in asked'[a] \ late[a]
               PROVE  Kept(a, id)'
    BY <2>2 DEF RequestIsKept, Kept, Runs
  <2>3. id \in asked[a] /\ (a = b => id # k)
    BY <2>1 DEF Types
  <2>4. Kept(a, id)
    BY <2>3 DEF RequestIsKept, Kept
  <2>5. id \in answers[a] => id \in answers'[a]
    BY <2>1, <2>3 DEF Types
  <2> QED
    BY <2>2, <2>4, <2>5 DEF Kept, OnWire
<1>11. ASSUME NEW k \in Ids, Answer(k) PROVE RequestIsKept'
  <2> DEFINE b == pending[k]
  <2>1. b \in Agents /\ pending' = [pending EXCEPT ![k] = NoAgent]
    BY <1>11 DEF Types, Answer
  <2>2. UNCHANGED <<proc, asked, late, wire, clash>>
    BY <1>11 DEF Answer
  <2>3. k \in answers'[b] \cup lost'[b]
        /\ \A a \in Agents : answers[a] \subseteq answers'[a] /\ lost[a] \subseteq lost'[a]
    BY <1>11, AnswerForwards
  <2> SUFFICES ASSUME ~ clash, NEW a \in Agents, Runs(a), NEW id \in asked[a] \ late[a]
               PROVE  Kept(a, id)'
    BY <2>2 DEF RequestIsKept, Kept, Runs
  <2>4. Kept(a, id) /\ id \in Ids
    BY <1>0 DEF RequestIsKept, Kept
  <2>5. CASE id = k /\ a = b
    BY <2>3, <2>5 DEF Kept
  <2>6. CASE ~ (id = k /\ a = b)
    <3>1. pending[id] = a => pending'[id] = a
      BY <2>1, <2>4, <2>6 DEF Types
    <3> QED
      BY <2>2, <2>3, <2>4, <3>1 DEF Kept, OnWire
  <2> QED
    BY <2>5, <2>6
<1>12. CASE UNCHANGED vars
  BY <1>12, RequestStays DEF vars, OnWire, Runs
<1> QED
  BY <1>1, <1>2, <1>3, <1>4, <1>5, <1>6, <1>8, <1>9, <1>10, <1>11, <1>12, <1>13
     DEF Next, Accepts, Handles

(* Whatever agents ask, in whatever order their events, ends and answers come, a question
   a working agent waits on is on its wire, in the queue under its asker, or answered: as
   long as no two questions had one id at one time, and it was not asked beside the host
   after its agent had reported its end (run_external_task, drive, InteractionQueue). *)
THEOREM QuestionsAreKept == Spec => []RequestIsKept
<1>1. Init => IInv
  <2>1. Init => EndComesLast
    BY DEF Init, EndComesLast, EndsLast
  <2> QED
    BY <2>1, TypesInit DEF Init, IInv, RequestIsKept
<1>2. IInv /\ [Next]_vars => IInv'
  BY TypesStep, EndStep, RequestStep DEF IInv
<1>3. IInv => RequestIsKept
  BY DEF IInv
<1> QED
  BY <1>1, <1>2, <1>3, PTL DEF Spec

=============================================================================
