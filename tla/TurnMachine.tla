---------------------------- MODULE TurnMachine ----------------------------
(***************************************************************************)
(* The reducer under its whole input alphabet (src/agent/world/inputs.rs): *)
(* the World, and the commands it emitted whose answer the shell still     *)
(* owes.  Every action folds one LogicalInput with Tick.  An answer may    *)
(* come in any order and after any control input; the shell answers each   *)
(* command once.                                                           *)
(***************************************************************************)
EXTENDS Systems

CONSTANTS
    Plans,      \* the tool_use plans a model may ask for: sequences of slot kinds
    Stops,      \* the stop reasons other than ToolUse
    Usages,     \* token counts of a response
    Controls,   \* the control inputs that may arrive
    Envelopes,  \* peer envelope ids
    Ask,        \* whether the session starts with an approval policy
    MaxCmd,     \* bound: a model asks for tools only while this many commands suffice
    MaxMsg,     \* bound on the messages submitted
    MaxControl  \* bound on the control inputs folded

ControlTypes == {"Cancel", "Pause", "Resume", "ClearPolicyHalt", "SetAutonomy"}

ASSUME AlphabetAssumption ==
    /\ Plans \subseteq Seq(SlotKinds)
    /\ Stops \subseteq {"EndTurn", "MaxTokens", "Refusal"}
    /\ Usages \subseteq Nat /\ Envelopes \subseteq Nat \ {0}
    /\ Controls \subseteq ControlTypes
    /\ Ask \in BOOLEAN
    /\ MaxCmd \in Nat /\ MaxMsg \in Nat /\ MaxControl \in Nat

VARIABLES
    world,    \* the World
    owed,     \* the commands whose answer the shell owes
    msgs,     \* how many messages were submitted
    controls  \* how many control inputs were folded

vars == <<world, owed, msgs, controls>>

Init == world = Genesis(Ask) /\ owed = {} /\ msgs = 0 /\ controls = 0

-----------------------------------------------------------------------------
\* The shell: it owes an answer to every work command and marks the cancelled ones.
Shell(open, out) ==
    {[k EXCEPT !.stop = @ \/ \E x \in out : x.type \in CancelTypes /\ x.cmd = k.cmd] : k \in open}
        \cup {x \in out : x.type \in WorkTypes}

Fold(in, answered) ==
    \E r \in Tick(world, in) : world' = r.w /\ owed' = Shell(owed \ answered, r.out)

Answer(in, k) == Fold(in, {k}) /\ UNCHANGED <<msgs, controls>>

\* drive_live: the model's response, its plan bounded by MaxCmd.
ModelResponded(k) ==
    \E usage \in Usages, stop \in Stops \cup {"ToolUse"}, plan \in Plans \cup {<<>>} :
        /\ stop \in {"EndTurn", "Refusal"} => plan = <<>>
        /\ stop = "ToolUse" => plan \in Plans
        /\ plan # <<>> => world.nextCmd + Len(plan) < MaxCmd
        /\ Answer([type |-> "ModelResponded", ent |-> k.ent, cmd |-> k.cmd, usage |-> usage,
                   stop |-> stop, plan |-> plan], k)

ModelFailed(k) == Answer([type |-> "ModelFailed", ent |-> k.ent, cmd |-> k.cmd], k)

\* Of an honoured CancelInference, or of a call a crash left unanswered.
InferenceCancelled(k) == Answer([type |-> "InferenceCancelled", ent |-> k.ent, cmd |-> k.cmd], k)

Compacted(k) ==
    \E summary \in BOOLEAN :
        Answer([type |-> "Compacted", ent |-> k.ent, cmd |-> k.cmd, n |-> k.n,
                summary |-> summary], k)

ToolReturned(k) ==
    \E err \in BOOLEAN :
        Answer([type |-> "ToolReturned", ent |-> k.ent, cmd |-> k.cmd, err |-> err], k)

ToolAborted(k) ==
    k.stop /\ Answer([type |-> "ToolAborted", ent |-> k.ent, cmd |-> k.cmd], k)

HumanActionDone(k) ==
    \E err \in BOOLEAN :
        Answer([type |-> "HumanActionDone", ent |-> k.ent, cmd |-> k.cmd, err |-> err], k)

HumanActionAborted(k) ==
    Answer([type |-> "HumanActionAborted", ent |-> k.ent, cmd |-> k.cmd], k)

PeerSendOutcome(k) ==
    \E err \in BOOLEAN :
        Answer([type |-> "PeerSendOutcome", ent |-> k.ent, cmd |-> k.cmd, err |-> err], k)

AnswerModel(k) ==
    k.type = "CallModel" /\ (ModelResponded(k) \/ ModelFailed(k) \/ InferenceCancelled(k))
AnswerCompact(k) == k.type = "Compact" /\ (Compacted(k) \/ ModelFailed(k))
AnswerTool(k) == k.type = "RunTool" /\ (ToolReturned(k) \/ ToolAborted(k))
AnswerHuman(k) == k.type = "RequestHumanAction" /\ (HumanActionDone(k) \/ HumanActionAborted(k))
AnswerPeer(k) == k.type = "SendPeer" /\ PeerSendOutcome(k)

ShellAnswers ==
    \E k \in owed : AnswerModel(k) \/ AnswerCompact(k) \/ AnswerTool(k)
                        \/ AnswerHuman(k) \/ AnswerPeer(k)

\* settle_returned_children submits what regenerate_child_returns found.
ChildReturned ==
    \E in \in ChildReturns(world) : Fold(in, {}) /\ UNCHANGED <<msgs, controls>>

\* The operator answers a raised request, or one that is raised no more.
InteractionAnswer ==
    \E req \in 0 .. world.nextReq - 1, accepted \in BOOLEAN :
        /\ Fold([type |-> "InteractionAnswer", req |-> req, accepted |-> accepted], {})
        /\ UNCHANGED <<msgs, controls>>

-----------------------------------------------------------------------------
\* Inputs of the user, the operator and the peers.

UserMessage ==
    /\ msgs < MaxMsg
    /\ msgs' = msgs + 1
    /\ Fold([type |-> "UserMessage", to |-> Root, msg |-> msgs + 1], {})
    /\ UNCHANGED controls

\* A peer's drive and its prompt: redelivered, an envelope carries the same prompt.
PromptOf(envelope) == MaxMsg + envelope

DriveRequested ==
    \E envelope \in Envelopes, auth \in BOOLEAN :
        /\ Fold([type |-> "DriveRequested", envelope |-> envelope, auth |-> auth,
                 prompt |-> PromptOf(envelope)], {})
        /\ UNCHANGED <<msgs, controls>>

PeerDelivered ==
    \E envelope \in Envelopes :
        Fold([type |-> "PeerDelivered", envelope |-> envelope], {}) /\ UNCHANGED <<msgs, controls>>

Control(in) ==
    /\ in.type \in Controls
    /\ controls < MaxControl
    /\ controls' = controls + 1
    /\ Fold(in, {})
    /\ UNCHANGED msgs

CancelEntity == \E e \in DOMAIN world.ents : Control([type |-> "Cancel", ent |-> e])
Pause == Control([type |-> "Pause"])
Resume == Control([type |-> "Resume"])
ClearPolicyHalt ==
    \E trip \in Trips \ {"none"}, auth \in BOOLEAN :
        Control([type |-> "ClearPolicyHalt", trip |-> trip, auth |-> auth])
SetAutonomy == \E ask \in BOOLEAN : Control([type |-> "SetAutonomy", ask |-> ask])

Next ==
    \/ ShellAnswers \/ ChildReturned \/ InteractionAnswer
    \/ UserMessage \/ DriveRequested \/ PeerDelivered
    \/ CancelEntity \/ Pause \/ Resume \/ ClearPolicyHalt \/ SetAutonomy

Spec == Init /\ [][Next]_vars

\* The operator answers something that is raised.
OperatorAnswers ==
    \E q \in world.raised, accepted \in BOOLEAN :
        /\ Fold([type |-> "InteractionAnswer", req |-> q.req, accepted |-> accepted], {})
        /\ UNCHANGED <<msgs, controls>>

\* drive_to_quiescence runs until the shell owes nothing and no child is left to settle;
\* the operator answers what was raised.  Users, peers and controls owe nothing.
Fairness == WF_vars(ShellAnswers) /\ WF_vars(ChildReturned) /\ WF_vars(OperatorAnswers)

FairSpec == Spec /\ Fairness

-----------------------------------------------------------------------------
\* Types.

\* Every variable has its type (World, Components, ToolSlot, Command).
TypeOK ==
    /\ WorldType(world)
    /\ owed \subseteq Commands
    /\ msgs \in 0 .. MaxMsg /\ controls \in 0 .. MaxControl

-----------------------------------------------------------------------------
\* Safety.

Ents == DOMAIN world.ents
Act(e) == world.ents[e].act
Slots(e) == world.ents[e].slots

\* The commands e waits for: its call or compaction, its dispatched slots, or the
\* acknowledgements its cancellation still needs.
Awaited(e) == world.ents[e].awaits \cup SentCmds(world.ents[e])

\* An entity waits exactly for the answers the shell owes it: no wait is a sink
\* (Activity::Cancelling, SlotState::Pending) and no owed answer lacks a taker.
WaitsMatchOwed ==
    \A e \in Ents : Awaited(e) = {k.cmd : k \in {x \in owed : x.ent = e}}

\* Every id in use was minted: a command, child or request the allocator mints next is
\* new, so no late answer can be taken for another's (IdAlloc, Invariant 8).
IdsAreMinted ==
    /\ \A k \in owed : k.cmd < world.nextCmd
    /\ \A e \in Ents : /\ e < world.nextEnt
                      /\ \A c \in Awaited(e) : c < world.nextCmd
                      /\ \A i \in DOMAIN Slots(e) : Slots(e)[i].child < world.nextEnt
    /\ \A q \in world.raised : q.req < world.nextReq

\* A slot is held iff exactly one approval request of its turn is raised: no held tool is
\* unanswerable and no request outlives its slot (AutonomySystem, CancelSystem).
HeldIsRaised ==
    /\ \A q \in world.raised :
          /\ q.ent \in Ents /\ q.turn = world.ents[q.ent].turn
          /\ q.slot \in DOMAIN Slots(q.ent) /\ Slots(q.ent)[q.slot].st = "held"
    /\ \A e \in Ents : \A i \in DOMAIN Slots(e) : Slots(e)[i].st = "held" =>
          Cardinality({q \in world.raised : q.ent = e /\ q.slot = i}) = 1

\* In a history every request for tools is followed at once by its results, but for the
\* turn that is being resolved (begin_resolving_tool_uses, advance).
ToolResultsFollow ==
    \A e \in Ents : LET h == world.ents[e].hist IN
        \A i \in DOMAIN h : h[i].role = "uses" =>
            IF i < Len(h) THEN h[i + 1] = Msg("results", h[i].id)
            ELSE Act(e) = "Resolving" /\ world.ents[e].turn = h[i].id

\* The user messages the primary entity has taken, then those parked in its inbox.
UserIds(h) == LET said == SelectSeq(h, LAMBDA m : m.role = "user")
              IN  [i \in DOMAIN said |-> said[i].id]
Taken == UserIds(world.ents[Root].hist) \o world.ents[Root].inbox

\* Messages enter the history in the order they came, parked messages before the one that
\* starts the turn, and none twice: a redelivered drive folds its prompt once
\* (SteeringSystem, IntakeSystem, apply_drive).
MessagesKeepOrder ==
    \A i, j \in DOMAIN Taken : i < j =>
        /\ Taken[i] # Taken[j]
        /\ Taken[j] <= MaxMsg => Taken[i] < Taken[j] \/ Taken[i] > MaxMsg

\* A child that works has a parent whose turn waits for it (Lineage, SlotKind::Child).
WorkingChildIsAwaited ==
    \A e \in Ents \ {Root} : Act(e) # "Idle" => ChildSlots(world, world.ents[e].parent, e) # {}

-----------------------------------------------------------------------------
\* Action properties.

\* The commands a step emitted.
Emitted == {k \in owed' : k.cmd >= world.nextCmd}

\* The gate a new child starts behind is its parent's; an entity at work has its own.
Opener(k) == IF k.ent \in Ents THEN k.ent ELSE world'.ents[k.ent].parent

\* While the world gate or the entity's own gate is closed no step starts work for an
\* entity or for a child of it that is born, except the continuation of a compaction and a
\* tool the operator accepts (WorldGate, EntityGate, spawn_or_deny).
ClosedGateStartsNoWork ==
    [][\A k \in Emitted :
          \/ world'.holds = {} /\ world'.ents[Opener(k)].halt = "none"
          \/ k.type = "CallModel" /\ k.ent \in Ents /\ Act(k.ent) = "Compacting"
          \/ k.type = "RunTool" /\ world'.raised # world.raised]_vars

\* Under an approval policy every tool that runs was held, and the answer that runs it is
\* the one that takes back the request for its own slot (AutonomySystem, InteractionSystem).
ApprovedBeforeRun ==
    [][world.ask /\ world'.ask =>
          \A k \in Emitted : k.type = "RunTool" =>
            \E q \in world.raised \ world'.raised :
                /\ q.ent = k.ent /\ Slots(q.ent)[q.slot].st = "held"
                /\ q.slot \in DOMAIN world'.ents[q.ent].slots
                /\ world'.ents[q.ent].slots[q.slot].cmd = k.cmd]_vars

-----------------------------------------------------------------------------
\* Liveness.

\* A turn of the primary entity ends (Totality).
TurnSettles == world.ents[Root].act # "Idle" ~> world.ents[Root].act = "Idle"

\* A cancellation ends: everything the cancelled entity still waits for is absorbed
\* (Invariant 14).  It need not end in Idle, since the response that ends it may start a
\* compaction in the same tick.
CancelSettles == Act(Root) = "Cancelling" ~> Act(Root) # "Cancelling"
=============================================================================
