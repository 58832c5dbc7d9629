------------------------------- MODULE Replay -------------------------------
(***************************************************************************)
(* Content-addressed replay (src/agent/world/replay.rs, drive_replay of    *)
(* effects.rs): the log is folded again, but the results of model calls    *)
(* are not folded where they stand.  Each is taken from a cursor when the  *)
(* replayed World emits the call it answers, and only if the request has   *)
(* the fingerprint that was recorded with it.                              *)
(***************************************************************************)
EXTENDS Sequences, Naturals

CONSTANTS
    Reduce(_, _),       \* tick: the next World and its commands, in order
    Fingerprint(_, _)   \* fingerprint_call: what a request hashes to in a World

LOCAL INSTANCE SequencesExt

\* Mutation: every derived result is taken from the cursor (is_derived_result).
IsDerivedResult(in) ==
    in.type \in {"ModelResponded", "ModelFailed", "InferenceCancelled", "ToolReturned",
                 "HumanActionDone", "Compacted", "PeerSendOutcome"}

\* is_model_call_result
IsModelCallResult(in) == in.type \in {"ModelResponded", "ModelFailed", "InferenceCancelled"}

\* The commands drive_replay consumes a recorded result for.
IsFingerprinted(k) == k.type \in {"CallModel", "Compact", "SendPeer"}

\* One more input through tick, with the commands emitted so far.
Step(r, in) == LET n == Reduce(r.w, in) IN [w |-> n.w, out |-> r.out \o n.out]

\* Every request finds its result next in the cursor, with its own fingerprint.
Reuses(w, calls, results) ==
    /\ Len(calls) <= Len(results)
    /\ \A i \in DOMAIN calls : results[i].fp = Fingerprint(w, calls[i])

\* Drive commands until no more are emitted: the World, the results left and whether every
\* request was matched.
RECURSIVE Drive(_, _, _)
Drive(w, cmds, results) ==
    LET calls == SelectSeq(cmds, IsFingerprinted)
        n == Len(calls)
        r == FoldLeft(Step, [w |-> w, out |-> <<>>], SubSeq(results, 1, n))
    IN  IF n = 0 THEN [w |-> w, left |-> results, faithful |-> TRUE]
        ELSE IF ~ Reuses(w, calls, results) THEN [w |-> w, left |-> results, faithful |-> FALSE]
        ELSE Drive(r.w, r.out, SubSeq(results, n + 1, Len(results)))

\* The next event that is no recorded result, and what it emits driven to quiescence.
ReplayEvent(s, in) ==
    LET n == Reduce(s.w, in)
        d == Drive(n.w, n.out, s.left)
    IN  IF s.faithful THEN d ELSE s

\* replay_world(genesis, inputs, is_model_call_result)
ReplayWorld(first, inputs) ==
    LET IsFree(in) == ~ IsModelCallResult(in)
    IN  FoldLeft(ReplayEvent,
                 [w |-> first, left |-> SelectSeq(inputs, IsModelCallResult), faithful |-> TRUE],
                 SelectSeq(inputs, IsFree))
=============================================================================
