------------------------------- MODULE World -------------------------------
(***************************************************************************)
(* The World value of the agent runtime (src/agent/world/world.rs): the    *)
(* entities with their components, the world gate, the id allocators, the  *)
(* requests raised to the operator and the peer envelopes already applied. *)
(* Every System reads one World and returns the next one.                  *)
(*                                                                         *)
(* A message is its role and the id of what produced it, a tool_use id is  *)
(* the pair of the model call that asked for it and its ordinal, and the   *)
(* result of a slot is whether it is an error.                             *)
(***************************************************************************)
EXTENDS Integers, FiniteSets, Sequences

CONSTANTS
    LoopCap,        \* Limits.loop_cap of the primary entity, 0 is unbounded
    FanoutCap,      \* Limits.fanout_cap, 0 is unbounded
    InboxCapacity,  \* Limits.inbox_capacity, 0 is unbounded
    SpendLimit,     \* Limits.spend_limit, 0 is unbounded
    ContextLimit,   \* Limits.context_limit, 0 is unbounded
    DepthCap        \* Resources.depth_cap

ASSUME LimitsAssumption ==
    /\ LoopCap \in Nat /\ FanoutCap \in Nat /\ InboxCapacity \in Nat
    /\ SpendLimit \in Nat /\ ContextLimit \in Nat /\ DepthCap \in Nat

-----------------------------------------------------------------------------

Root == 0
None == -1

Roles == {"user", "note", "summary", "answer", "uses", "results"}
Msgs == [role : Roles, id : Nat]
Msg(role, id) == [role |-> role, id |-> id]

\* "BadPeer" is a drive_peer call whose arguments do not parse.
SlotKinds == {"Local", "Human", "Child", "Peer", "BadPeer"}

\* Pending{cmd: None} is "fresh", Pending{HELD_CMD} "held", Pending{Some(c)} "sent".
SlotStates == {"fresh", "held", "sent", "done"}
ToolSlots == [kind : SlotKinds, st : SlotStates, cmd : Nat \cup {None},
              child : Nat \cup {None}, err : BOOLEAN]

Activities == {"Idle", "Thinking", "Resolving", "Compacting", "Cancelling"}

Trips == {"none", "budget-exhausted", "model-refusal"}

Components ==
    [parent : Nat \cup {None}, depth : Nat, hist : Seq(Msgs),
     act : Activities, awaits : SUBSET Nat, turn : Nat, slots : Seq(ToolSlots),
     halt : Trips, spend : Nat, context : Nat,
     inbox : Seq(Nat), turns : Nat, spawned : Nat]

Raised == [req : Nat, ent : Nat, turn : Nat, slot : Nat]

\* The components a genesis or spawned entity starts with, before its first turn.
Newborn(parent, depth, hist) ==
    [parent |-> parent, depth |-> depth, hist |-> hist,
     act |-> "Idle", awaits |-> {}, turn |-> 0, slots |-> <<>>,
     halt |-> "none", spend |-> 0, context |-> 0,
     inbox |-> <<>>, turns |-> 0, spawned |-> 0]

Genesis(ask) ==
    [ents |-> [e \in {Root} |-> Newborn(None, 0, <<>>)],
     holds |-> {}, ask |-> ask, raised |-> {}, applied |-> {},
     nextCmd |-> 0, nextReq |-> 0, nextEnt |-> 1]

-----------------------------------------------------------------------------
\* What the Systems read.

\* Mutation: the entity's own gate is not consulted.
GateOpenIgnoringHalt(w, e) == w.holds = {}

\* WorldGate::is_open and EntityGate::is_open.
GateOpen(w, e) == w.holds = {} /\ w.ents[e].halt = "none"

\* A spawned child has Budget::default(), whose limits are all 0.
LimitOf(e, cap) == IF e = Root THEN cap ELSE 0

Reached(used, limit) == limit # 0 /\ used >= limit
SaturatingAdd(a, b, limit) == IF a + b < limit THEN a + b ELSE limit

Pending(w, e) == {i \in DOMAIN w.ents[e].slots : w.ents[e].slots[i].st # "done"}

FreshSlots(w, e, kind) ==
    {i \in DOMAIN w.ents[e].slots :
        w.ents[e].slots[i].kind = kind /\ w.ents[e].slots[i].st = "fresh"}

SentAs(w, e, kind, cmd) ==
    {i \in DOMAIN w.ents[e].slots :
        /\ w.ents[e].slots[i].kind = kind
        /\ w.ents[e].slots[i].st = "sent"
        /\ w.ents[e].slots[i].cmd = cmd}

\* Mutation: the first id handed out is one the allocator has not reached yet.
RankOffByOne(i, I) == Cardinality({j \in I : j < i}) - 1

\* The position of i among I, from 0: ids are minted in ordinal order.
Rank(i, I) == Cardinality({j \in I : j < i})

-----------------------------------------------------------------------------
\* Commands, and the run of a tick: the World so far and the commands so far.

WorkTypes == {"CallModel", "RunTool", "RequestHumanAction", "SendPeer", "Compact"}
CancelTypes == {"CancelInference", "CancelTool", "AbortHumanAction"}

\* n is the prefix a Compact summarises; stop is set once the shell is told to cancel.
Commands == [type : WorkTypes \cup CancelTypes, cmd : Nat, ent : Nat, n : Nat, stop : BOOLEAN]
Command(type, cmd, ent, n) ==
    [type |-> type, cmd |-> cmd, ent |-> ent, n |-> n, stop |-> FALSE]

\* The four ways a System changes its run: replace the components of e, mint n command
\* ids, emit commands, replace the world-wide resources.
Put(r, e, c) == [r EXCEPT !.w.ents[e] = c]
Mint(r, n) == [r EXCEPT !.w.nextCmd = @ + n]
Emit(r, cmds) == [r EXCEPT !.out = @ \cup cmds]

\* Activity::Idle, and the activities that wait for one command.
ToIdle(c) == [c EXCEPT !.act = "Idle", !.awaits = {}, !.turn = 0, !.slots = <<>>]
ToWaiting(c, act, k) == [ToIdle(c) EXCEPT !.act = act, !.awaits = {k}]

\* Mint a CmdId, send e (with components c) to Thinking on it and emit CallModel.
Think(r, e, c) ==
    LET k == r.w.nextCmd
    IN  Emit(Put(Mint(r, 1), e, ToWaiting(c, "Thinking", k)), {Command("CallModel", k, e, 0)})

\* Mint one CmdId per slot of I, mark the slots sent and emit one command for each.
SendSlots(c, I, k) ==
    [c EXCEPT !.slots =
        [i \in DOMAIN @ |-> IF i \in I
                            THEN [@[i] EXCEPT !.st = "sent", !.cmd = k + Rank(i, I)]
                            ELSE @[i]]]
Dispatch(r, e, I, type) ==
    LET k == r.w.nextCmd
    IN  Emit(Put(Mint(r, Cardinality(I)), e, SendSlots(r.w.ents[e], I, k)),
             {Command(type, k + Rank(i, I), e, 0) : i \in I})

\* SlotState::Done with a tool_result, for every slot of I.
SettleSlots(c, I, err) ==
    [c EXCEPT !.slots =
        [i \in DOMAIN @ |-> IF i \in I
                            THEN [@[i] EXCEPT !.st = "done", !.cmd = None, !.err = err]
                            ELSE @[i]]]
Settle(r, e, I, err) == Put(r, e, SettleSlots(r.w.ents[e], I, err))

-----------------------------------------------------------------------------
\* Types.

WorldType(w) ==
    /\ w \in [ents : {w.ents}, holds : SUBSET {"User", "model-refusal"}, ask : BOOLEAN,
              raised : SUBSET Raised, applied : SUBSET Nat,
              nextCmd : Nat, nextReq : Nat, nextEnt : Nat]
    /\ w.ents \in [DOMAIN w.ents -> Components]
    /\ Root \in DOMAIN w.ents /\ DOMAIN w.ents \subseteq Nat
=============================================================================
