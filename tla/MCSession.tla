----------------------------- MODULE MCSession -----------------------------
(***************************************************************************)
(* The session over the real reducer: its constant operators are given the *)
(* Tick of Systems and the answers a model, a tool or a peer may give.     *)
(***************************************************************************)
EXTENDS Session, Systems

SX == INSTANCE SequencesExt

CONSTANTS
    Plans,            \* the tool_use plans a model may ask for
    MaxCmd,           \* bound: a model asks for tools only while this many commands suffice
    MayFail           \* whether a model call may fail

\* Commands in the order they were emitted, which is the order of their ids.
InOrder(out) == SX!SetToSortSeq(out, LAMBDA j, k : j.cmd < k.cmd)
Reducer(w, in) ==
    CHOOSE x \in {[w |-> r.w, out |-> InOrder({k \in r.out : k.type \in WorkTypes})] :
                    r \in Tick(w, in)} : TRUE

OutstandingCmds(w) ==
    UNION {w.ents[e].awaits \cup SentCmds(w.ents[e]) : e \in DOMAIN w.ents}

\* The request of a call is the history it was made over.
RequestOf(w, k) == [i \in DOMAIN w.ents[k.ent].hist |-> w.ents[k.ent].hist[i].role]

ModelAnswers(w, k) ==
    {[type |-> "ModelResponded", ent |-> k.ent, cmd |-> k.cmd, usage |-> 1, fp |-> RequestOf(w, k),
      stop |-> IF plan = <<>> THEN "EndTurn" ELSE "ToolUse", plan |-> plan] :
        plan \in {<<>>} \cup {p \in Plans : w.nextCmd + Len(p) < MaxCmd}}
    \cup IF MayFail THEN {[type |-> "ModelFailed", ent |-> k.ent, cmd |-> k.cmd,
                          fp |-> RequestOf(w, k)]} ELSE {}

AnswersTo(w, k) ==
    CASE k.type = "CallModel" -> ModelAnswers(w, k)
      [] k.type = "Compact" -> {[type |-> "Compacted", ent |-> k.ent, cmd |-> k.cmd, n |-> k.n,
                                 summary |-> TRUE]}
      [] k.type = "RunTool" -> {[type |-> "ToolReturned", ent |-> k.ent, cmd |-> k.cmd,
                                 err |-> FALSE]}
      [] k.type = "SendPeer" -> {[type |-> "PeerSendOutcome", ent |-> k.ent, cmd |-> k.cmd,
                                  err |-> FALSE]}

IsDriven(k) == k.type # "RequestHumanAction"

\* The compaction each compacting entity awaits, over the older half of its history.
RebuiltCompacts(w) ==
    InOrder(UNION {{Command("Compact", c, e, SplitPoint(w.ents[e].hist)) : c \in w.ents[e].awaits} :
                    e \in {x \in DOMAIN w.ents : w.ents[x].act = "Compacting"
                                                 /\ w.ents[x].hist # <<>>}})

\* A turn that also asks for tools may say something too; the reply is the turn's end.
RepliesFrom(w, n) ==
    LET h == SubSeq(w.ents[Root].hist, n + 1, Len(w.ents[Root].hist))
        said == SelectSeq(h, LAMBDA m : m.role = "answer")
    IN  [i \in DOMAIN said |-> said[i].id]
PrimaryHistoryLen(w) == Len(w.ents[Root].hist)

RequestFor(w, k) == IF k.type = "CallModel" THEN RequestOf(w, k) ELSE <<>>

NewSession == Genesis(FALSE)
\* A user message, and a peer's drive: redelivered, it is the same envelope.
SessionInputs ==
    {[type |-> "UserMessage", to |-> Root, msg |-> 1],
     [type |-> "DriveRequested", envelope |-> 1, auth |-> TRUE, prompt |-> 2]}

Replayer == INSTANCE Replay WITH Reduce <- Reducer, Fingerprint <- RequestOf

DrovePeer == \E i \in DOMAIN intents : intents[i].type = "SendPeer"

\* Whenever the driver is at rest and no append failed, a replay of its log, which takes
\* each model result when the call it answers is emitted and not where it was logged,
\* reuses all of them and ends in the World the driver holds (replay_world, Invariant 6).
ReplayIsFold ==
    Idle /\ count.fails = 0 /\ ~ DrovePeer =>
        LET s == Replayer!ReplayWorld(FirstWorld, [i \in DOMAIN log |-> log[i].in])
        IN  s.faithful /\ s.left = <<>> /\ s.w = LastOf(trail)

TwoTools == {<<"Local", "Local">>}
OneSlot == {<<k>> : k \in {"Local", "Child", "Peer", "Human"}}
=============================================================================
