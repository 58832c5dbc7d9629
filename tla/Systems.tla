------------------------------ MODULE Systems ------------------------------
(***************************************************************************)
(* The Systems of the reducer and the tick that runs them in PHASE_ORDER   *)
(* (src/agent/world/systems).  A System maps the run so far, r = [w, out], *)
(* and the one input of the tick to the run after it.                      *)
(***************************************************************************)
EXTENDS World

-----------------------------------------------------------------------------
\* Phase Lifecycle.

GateSystem(r, in) ==
    CASE in.type = "Pause" -> [r EXCEPT !.w.holds = @ \cup {"User"}]
      [] in.type = "Resume" -> [r EXCEPT !.w.holds = @ \ {"User"}]
      [] in.type = "ClearPolicyHalt" /\ in.auth ->
            [r EXCEPT !.w.holds = @ \ {in.trip},
                      !.w.ents = [e \in DOMAIN @ |->
                                    IF @[e].halt = in.trip
                                    THEN [@[e] EXCEPT !.halt = "none"]
                                    ELSE @[e]]]
      [] OTHER -> r

\* What a Cancel still waits for: the commands in flight of the cancelled entity.
\* A held slot has none; a running child is neither awaited nor told.
SentCmds(c) == {c.slots[i].cmd : i \in {j \in DOMAIN c.slots : c.slots[j].st = "sent"}}

CancelCommands(c, e) ==
    CASE c.act \in {"Thinking", "Compacting"} ->
            {Command("CancelInference", k, e, 0) : k \in c.awaits}
      [] OTHER ->
            {Command(IF c.slots[i].kind = "Local" THEN "CancelTool" ELSE "AbortHumanAction",
                     c.slots[i].cmd, e, 0) :
                i \in {j \in DOMAIN c.slots :
                         c.slots[j].st = "sent" /\ c.slots[j].kind \in {"Local", "Human"}}}

\* Mutation: a cancelled turn leaves its approval requests raised.
NoHeldRequests(w, e) == {}
HeldRequests(w, e) ==
    {q \in w.raised : /\ q.ent = e /\ q.turn = w.ents[e].turn
                      /\ q.slot \in DOMAIN w.ents[e].slots
                      /\ w.ents[e].slots[q.slot].st = "held"}

Cancel(r, e) ==
    LET c == r.w.ents[e]
        awaiting == IF c.act = "Resolving" THEN SentCmds(c) ELSE c.awaits
    IN  IF c.act \in {"Thinking", "Compacting", "Resolving"}
        THEN Emit(Put([r EXCEPT !.w.raised = @ \ HeldRequests(r.w, e)], e,
                      [ToIdle(c) EXCEPT !.act = IF awaiting = {} THEN "Idle" ELSE "Cancelling",
                                        !.awaits = awaiting]),
                  CancelCommands(c, e))
        ELSE r

\* Mutation: the last acknowledgement does not make the entity Idle.
AbsorbForever(r, e, cmd) ==
    IF r.w.ents[e].act = "Cancelling"
    THEN Put(r, e, [r.w.ents[e] EXCEPT !.awaits = @ \ {cmd}]) ELSE r

\* A late result of a cancelled command; the last one lets the entity go Idle.
Absorb(r, e, cmd) ==
    LET c == r.w.ents[e]
    IN  IF c.act = "Cancelling" /\ cmd \in c.awaits
        THEN Put(r, e, [c EXCEPT !.awaits = @ \ {cmd},
                                 !.act = IF c.awaits = {cmd} THEN "Idle" ELSE @])
        ELSE r

\* Mutation: the abort of a human action is not absorbed.
AbsorbedWithoutAborts == {"ToolReturned", "ToolAborted", "HumanActionDone",
                          "ModelResponded", "ModelFailed", "InferenceCancelled", "Compacted"}

\* PeerSendOutcome is not among the inputs CancelSystem matches.
AbsorbedInputs == {"ToolReturned", "ToolAborted", "HumanActionDone", "HumanActionAborted",
                   "ModelResponded", "ModelFailed", "InferenceCancelled", "Compacted"}

CancelSystem(r, in) ==
    CASE in.type = "Cancel" -> Cancel(r, in.ent)
      [] in.type \in AbsorbedInputs -> Absorb(r, in.ent, in.cmd)
      [] OTHER -> r

GuardrailSystem(r, in) ==
    IF in.type = "ModelResponded" /\ in.stop = "Refusal"
    THEN [r EXCEPT !.w.holds = @ \cup {"model-refusal"}]
    ELSE r

-----------------------------------------------------------------------------
\* Phase Intake.

\* Push m; an inbox at its capacity drops its oldest messages first.
BoundedEnqueue(inbox, m, capacity) ==
    Append(IF capacity # 0 /\ Len(inbox) >= capacity
           THEN SubSeq(inbox, Len(inbox) - capacity + 2, Len(inbox))
           ELSE inbox, m)

SteeringSystem(r, in) ==
    IF in.type = "UserMessage" /\ r.w.ents[in.to].act # "Idle"
    THEN Put(r, in.to, [r.w.ents[in.to] EXCEPT !.inbox =
                BoundedEnqueue(@, in.msg, LimitOf(in.to, InboxCapacity))])
    ELSE r

UserMsgs(ids) == [i \in DOMAIN ids |-> Msg("user", ids[i])]

IntakeSystem(r, in) ==
    LET e == in.to
        c == r.w.ents[e]
        cap == LimitOf(e, LoopCap)
        wrapUp == IF Reached(c.turns + 1, cap) THEN <<Msg("note", 0)>> ELSE <<>>
    IN  IF /\ in.type = "UserMessage"
           /\ c.act = "Idle"
           /\ GateOpen(r.w, e)
           /\ ~ Reached(c.turns, cap)
        THEN Think(r, e, [c EXCEPT
                !.hist = @ \o UserMsgs(c.inbox) \o <<Msg("user", in.msg)>> \o wrapUp,
                !.inbox = <<>>,
                !.turns = @ + 1])
        ELSE r

-----------------------------------------------------------------------------
\* Phase SettleResults.

CloseTurn(r, e, said) ==
    Put(r, e, [ToIdle(r.w.ents[e]) EXCEPT !.hist = @ \o said])

\* Mutation: the allocator that minted the child ids is not stored back.
MintEntsUnstored(r, n) == r

\* IdAlloc::mint_entity, n times.
MintEnts(r, n) == [r EXCEPT !.w.nextEnt = @ + n]

\* One fresh slot per tool_use, a child id minted for each spawn.
NewSlots(plan, ent) ==
    LET spawns == {i \in DOMAIN plan : plan[i] = "Child"}
    IN  [i \in DOMAIN plan |->
            [kind |-> plan[i], st |-> "fresh", cmd |-> None, err |-> FALSE,
             child |-> IF i \in spawns THEN ent + Rank(i, spawns) ELSE None]]

BeginResolving(r, e, turn, plan) ==
    Put(MintEnts(r, Cardinality({i \in DOMAIN plan : plan[i] = "Child"})), e,
        [ToIdle(r.w.ents[e]) EXCEPT !.hist = Append(@, Msg("uses", turn)),
                                    !.act = "Resolving", !.turn = turn,
                                    !.slots = NewSlots(plan, r.w.nextEnt)])

\* The assistant message of a turn that closes: it may still hold tool_use blocks.
Said(in) == <<Msg(IF in.plan = <<>> THEN "answer" ELSE "uses", in.cmd)>>

TurnSystem(r, in) ==
    LET c == r.w.ents[in.ent]
    IN  IF /\ in.type \in {"ModelResponded", "ModelFailed", "InferenceCancelled"}
           /\ c.act = "Thinking" /\ in.cmd \in c.awaits
        THEN IF in.type # "ModelResponded" THEN CloseTurn(r, in.ent, <<>>)
             ELSE IF in.stop = "ToolUse" THEN BeginResolving(r, in.ent, in.cmd, in.plan)
             ELSE CloseTurn(r, in.ent, Said(in))
        ELSE r

-----------------------------------------------------------------------------
\* Phase BudgetCompaction.

BudgetSystem(r, in) ==
    LET e == in.ent
        limit == LimitOf(e, SpendLimit)
        spend == SaturatingAdd(r.w.ents[e].spend, in.usage, limit)
        context == SaturatingAdd(0, in.usage, LimitOf(e, ContextLimit))
        folded == [r.w.ents[e] EXCEPT !.spend = spend, !.context = context]
    IN  IF in.type # "ModelResponded" THEN r
        ELSE IF Reached(spend, limit) /\ folded.halt = "none"
        THEN Put(r, e, SettleSlots([folded EXCEPT !.halt = "budget-exhausted"],
                                   Pending(r.w, e), TRUE))
        ELSE Put(r, e, folded)

\* The oldest half of the history, at least one message when there is one.
SplitPoint(hist) ==
    LET n == Len(hist) IN IF n \div 2 > 1 THEN n \div 2 ELSE IF n > 0 THEN 1 ELSE 0

StartCompaction(r, e) ==
    LET c == r.w.ents[e]
        k == r.w.nextCmd
    IN  IF /\ c.act = "Idle"
           /\ Reached(c.context, LimitOf(e, ContextLimit))
           /\ c.inbox # <<>>
           /\ GateOpen(r.w, e)
        THEN Emit(Put(Mint(r, 1), e, ToWaiting(c, "Compacting", k)),
                  {Command("Compact", k, e, SplitPoint(c.hist))})
        ELSE r

\* The suspended continuation: the parked messages, then a CallModel, whatever the gates.
Continue(r, e, hist) ==
    LET c == r.w.ents[e]
    IN  Think(r, e, [c EXCEPT !.hist = hist \o UserMsgs(c.inbox), !.inbox = <<>>])

Summarised(hist, in) ==
    IF in.n > 0 /\ in.summary
    THEN <<Msg("summary", in.cmd)>> \o SubSeq(hist, in.n + 1, Len(hist))
    ELSE hist

CompactionSystem(r, in) ==
    LET c == r.w.ents[in.ent]
        mine == c.act = "Compacting" /\ in.cmd \in c.awaits
    IN  CASE in.type = "ModelResponded" -> StartCompaction(r, in.ent)
          [] in.type = "Compacted" /\ mine -> Continue(r, in.ent, Summarised(c.hist, in))
          [] in.type = "ModelFailed" /\ mine -> Continue(r, in.ent, c.hist)
          [] OTHER -> r

-----------------------------------------------------------------------------
\* Phase TurnAdvance.

\* Mutation: the turn continues without its tool results.
WithoutResults(c) == c

\* One user message with the results of every slot, in ordinal order.
WithResults(c) == [c EXCEPT !.hist = Append(@, Msg("results", c.turn))]

\* Dispatch the fresh Local slots of e and, once every slot is settled, continue its turn.
Advance(r, e) ==
    LET s == Dispatch(r, e, FreshSlots(r.w, e, "Local"), "RunTool")
        c == s.w.ents[e]
    IN  IF ~ GateOpen(r.w, e) THEN r
        ELSE IF c.slots # <<>> /\ Pending(s.w, e) = {}
        THEN Think(s, e, WithResults(c))
        ELSE s

MarkSlots(c, I, st) ==
    [c EXCEPT !.slots =
        [i \in DOMAIN @ |-> IF i \in I THEN [@[i] EXCEPT !.st = st] ELSE @[i]]]

\* Hold the fresh Local slots of a response and raise one approval request for each.
GateNewSlots(r, e) ==
    LET I == FreshSlots(r.w, e, "Local")
        request(i) == [req |-> r.w.nextReq + Rank(i, I), ent |-> e,
                       turn |-> r.w.ents[e].turn, slot |-> i]
    IN  IF r.w.ask
        THEN Put([r EXCEPT !.w.nextReq = @ + Cardinality(I),
                           !.w.raised = @ \cup {request(i) : i \in I}],
                 e, MarkSlots(r.w.ents[e], I, "held"))
        ELSE r

\* Mutation: the request is matched to its turn, not to its slot.
AskedInTurn(w, q, states) ==
    {i \in DOMAIN w.ents[q.ent].slots :
        /\ w.ents[q.ent].turn = q.turn
        /\ w.ents[q.ent].slots[i].kind = "Local"
        /\ w.ents[q.ent].slots[i].st \in states}

\* The Local slots request q names, while its turn is being resolved and in the state st.
Asked(w, q, states) ==
    {i \in DOMAIN w.ents[q.ent].slots :
        /\ i = q.slot /\ w.ents[q.ent].turn = q.turn
        /\ w.ents[q.ent].slots[i].kind = "Local"
        /\ w.ents[q.ent].slots[i].st \in states}

RestoreHeldSlot(r, q) ==
    Put(r, q.ent, MarkSlots(r.w.ents[q.ent], Asked(r.w, q, {"held"}), "fresh"))

IsRaised(r, in) == \E q \in r.w.raised : q.req = in.req
Request(r, in) == CHOOSE q \in r.w.raised : q.req = in.req

AutonomySystem(r, in) ==
    CASE in.type = "SetAutonomy" -> [r EXCEPT !.w.ask = in.ask]
      [] in.type = "ModelResponded" -> GateNewSlots(r, in.ent)
      [] in.type = "InteractionAnswer" /\ IsRaised(r, in) -> RestoreHeldSlot(r, Request(r, in))
      [] OTHER -> r

ToolSystem(r, in) ==
    CASE in.type = "ToolReturned" ->
            Advance(Settle(r, in.ent, SentAs(r.w, in.ent, "Local", in.cmd), in.err), in.ent)
      [] in.type = "ModelResponded" -> Advance(r, in.ent)
      [] OTHER -> r

HumanActionSystem(r, in) ==
    CASE in.type = "ModelResponded" /\ GateOpen(r.w, in.ent) ->
            Advance(Dispatch(r, in.ent, FreshSlots(r.w, in.ent, "Human"), "RequestHumanAction"),
                    in.ent)
      [] in.type = "HumanActionDone" ->
            Advance(Settle(r, in.ent, SentAs(r.w, in.ent, "Human", in.cmd), in.err), in.ent)
      [] in.type = "HumanActionAborted" ->
            Advance(Settle(r, in.ent, SentAs(r.w, in.ent, "Human", in.cmd), TRUE), in.ent)
      [] OTHER -> r

\* An accepted slot runs at once, whatever the gates; a rejected one settles as an error.
ApplyAnswer(r, q, accepted) ==
    LET s == [r EXCEPT !.w.raised = @ \ {q}]
    IN  Advance(IF accepted
                THEN Dispatch(s, q.ent, Asked(r.w, q, {"fresh"}), "RunTool")
                ELSE Settle(s, q.ent, Asked(r.w, q, {"fresh", "held", "sent"}), TRUE),
                q.ent)

InteractionSystem(r, in) ==
    IF in.type = "InteractionAnswer" /\ IsRaised(r, in)
    THEN ApplyAnswer(r, Request(r, in), in.accepted)
    ELSE r

\* The spawns of a response: within the depth and fan-out caps a child entity starts on
\* its prompt, past them the slot is denied.
NewChildren(w, p) ==
    {i \in FreshSlots(w, p, "Child") : w.ents[p].slots[i].child \notin DOMAIN w.ents}

Admitted(w, p) ==
    LET I == NewChildren(w, p)
        c == w.ents[p]
    IN  {i \in I : /\ c.depth + 1 <= DepthCap
                   /\ ~ Reached(c.spawned + Rank(i, I), LimitOf(p, FanoutCap))}

\* The children of the admitted slots A, each Thinking on its own command over its prompt.
Spawn(r, p, A) ==
    LET c == r.w.ents[p]
        cmd(i) == r.w.nextCmd + Rank(i, A)
        children == {c.slots[i].child : i \in A}
        slotOf(e) == CHOOSE i \in A : c.slots[i].child = e
        born(e) == ToWaiting(Newborn(p, c.depth + 1, <<Msg("user", 0)>>), "Thinking", cmd(slotOf(e)))
        grown == [Mint(r, Cardinality(A)) EXCEPT !.w.ents =
                    [e \in DOMAIN @ \cup children |-> IF e \in children THEN born(e) ELSE @[e]]]
    IN  Emit(Put(grown, p, [c EXCEPT !.spawned = @ + Cardinality(A)]),
             {Command("CallModel", cmd(i), c.slots[i].child, 0) : i \in A})

SpawnOrDeny(r, p) ==
    LET A == Admitted(r.w, p)
        I == NewChildren(r.w, p)
    IN  IF GateOpen(r.w, p) /\ I # {}
        THEN Advance(Settle(Spawn(r, p, A), p, I \ A, TRUE), p)
        ELSE r

\* Mutation: a child slot is looked up as if it were dispatched.
SentChildSlots(w, p, e) ==
    {i \in Pending(w, p) : w.ents[p].slots[i].child = e /\ w.ents[p].slots[i].st = "sent"}

\* The slots of p that wait for the child e.
ChildSlots(w, p, e) == {i \in Pending(w, p) : w.ents[p].slots[i].child = e}

SettleChild(r, p, e, err) ==
    LET I == ChildSlots(r.w, p, e)
    IN  IF I # {} THEN Advance(Settle(r, p, I, err), p) ELSE r

\* Mutation: a child is taken to have returned whatever it is doing.
AnyChildReturns(w) ==
    {[type |-> "ChildReturned", ent |-> w.ents[e].parent, child |-> e, err |-> FALSE] :
        e \in {x \in DOMAIN w.ents : /\ w.ents[x].parent \in DOMAIN w.ents
                                    /\ ChildSlots(w, w.ents[x].parent, x) # {}}}

\* regenerate_child_returns: every Idle child whose parent still waits for it.
\* err is always FALSE, and the answer is the child's last assistant message, if any.
ChildReturns(w) ==
    {[type |-> "ChildReturned", ent |-> w.ents[e].parent, child |-> e, err |-> FALSE] :
        e \in {x \in DOMAIN w.ents :
                 /\ w.ents[x].act = "Idle"
                 /\ w.ents[x].parent \in DOMAIN w.ents
                 /\ ChildSlots(w, w.ents[x].parent, x) # {}}}

SubagentSystem(r, in) ==
    CASE in.type = "ModelResponded" -> SpawnOrDeny(r, in.ent)
      [] in.type = "ChildReturned" -> SettleChild(r, in.ent, in.child, in.err)
      [] OTHER -> r

\* A failed model call of a child settles the parent's slot as an error.
SupervisionSystem(r, in) ==
    IF in.type = "ModelFailed" /\ r.w.ents[in.ent].parent # None
    THEN SettleChild(r, r.w.ents[in.ent].parent, in.ent, TRUE)
    ELSE r

EmitOrDeny(r, e) ==
    LET I == FreshSlots(r.w, e, "Peer")
        bad == FreshSlots(r.w, e, "BadPeer")
    IN  IF GateOpen(r.w, e) /\ I \cup bad # {}
        THEN Advance(Dispatch(Settle(r, e, bad, TRUE), e, I, "SendPeer"), e)
        ELSE r

SettlePeerOutcome(r, e, cmd, err) ==
    LET I == SentAs(r.w, e, "Peer", cmd)
    IN  IF I # {} THEN Advance(Settle(r, e, I, err), e) ELSE r

\* Mutation: a redelivered drive is applied again.
ApplyDriveAgain(r, in) ==
    IF in.auth
    THEN [Put(r, Root, [r.w.ents[Root] EXCEPT !.inbox = Append(@, in.prompt)])
            EXCEPT !.w.applied = @ \cup {in.envelope}]
    ELSE r

\* An unapplied, authorised drive parks its prompt in the primary's inbox, unbounded.
ApplyDrive(r, in) ==
    IF in.envelope \notin r.w.applied /\ in.auth
    THEN [Put(r, Root, [r.w.ents[Root] EXCEPT !.inbox = Append(@, in.prompt)])
            EXCEPT !.w.applied = @ \cup {in.envelope}]
    ELSE r

PeerDriveSystem(r, in) ==
    CASE in.type = "ModelResponded" -> EmitOrDeny(r, in.ent)
      [] in.type = "PeerSendOutcome" -> SettlePeerOutcome(r, in.ent, in.cmd, in.err)
      [] in.type = "DriveRequested" -> ApplyDrive(r, in)
      [] in.type = "PeerDelivered" -> [r EXCEPT !.w.applied = @ \cup {in.envelope}]
      [] OTHER -> r

-----------------------------------------------------------------------------
\* One System after another: runs is the singleton of the run so far.
Through(System(_, _), runs, in) == {System(r, in) : r \in runs}

Lifecycle(runs, in) ==
    Through(GuardrailSystem, Through(CancelSystem, Through(GateSystem, runs, in), in), in)
Intake(runs, in) == Through(IntakeSystem, Through(SteeringSystem, runs, in), in)
SettleResults(runs, in) == Through(TurnSystem, runs, in)
BudgetCompaction(runs, in) == Through(CompactionSystem, Through(BudgetSystem, runs, in), in)
TurnAdvance(runs, in) ==
    Through(PeerDriveSystem, Through(SupervisionSystem, Through(SubagentSystem,
        Through(InteractionSystem, Through(HumanActionSystem, Through(ToolSystem,
            Through(AutonomySystem, runs, in), in), in), in), in), in), in)

\* Fold one input: the runs it can lead to, of which there is exactly one.
Tick(w, in) ==
    TurnAdvance(BudgetCompaction(SettleResults(Intake(Lifecycle(
        {[w |-> w, out |-> {}]}, in), in), in), in), in)
=============================================================================
