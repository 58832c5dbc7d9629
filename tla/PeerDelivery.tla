---------------------------- MODULE PeerDelivery ----------------------------
(***************************************************************************)
(* Durable delivery to one App (src/host.rs, src/app/peer/mailbox.rs,      *)
(* drain_peer_inbox in src/app/runtime/local_supervisor.rs, and the        *)
(* receiving end of src/app/runtime/worker.rs).                            *)
(*                                                                         *)
(* A process is one tokio task of the host: a relay of an envelope, or a   *)
(* drain of the App's inbox.  The inbox is a file, read and rewritten by   *)
(* every process without a lock.  Frames reach the worker over a bounded   *)
(* channel, which the pump of the App's supervision task empties; a full   *)
(* one makes its sender wait, a drain with the lock on the runtimes held.  *)
(* The worker appends an envelope to its World log, folds it, works on it, *)
(* and then acknowledges it.                                               *)
(***************************************************************************)
EXTENDS Integers, FiniteSets, SequencesExt

CONSTANTS
    Procs,      \* the concurrent relays and drains
    MaxEnv,     \* bound on the envelopes sent to the App
    Cap,        \* peer_inbox_cap; 0 is no cap
    Left,       \* how many envelopes the inbox holds when the host starts
    FrameCap,   \* OUTBOUND_CAPACITY
    MaxOps,     \* bound on the relays and drains begun
    MaxFault    \* bound on the faults: stops, crashes, dropped frames, failed submits, questions

None == "none"
NoEnv == 0

ASSUME ProcsAssumption == None \notin Procs
ASSUME PeerAssumption ==
    /\ MaxEnv \in Nat \ {0} /\ Cap \in Nat /\ FrameCap \in Nat \ {0}
    /\ Left \in 0 .. MaxEnv /\ (Cap > 0 => Left <= Cap)
    /\ MaxOps \in Nat /\ MaxFault \in Nat

VARIABLES
    proc,       \* each process: where it is, its envelope, whether it drains, what it will write
    inbox,      \* inbox.jsonl
    waiters,    \* FoldRegistry.waiters: the process awaiting each envelope
    confirmed,  \* FoldRegistry.confirmed
    up,         \* whether the App has a worker's handle in runtimes
    sink,       \* whether the broker has the worker's sink
    pump,       \* "off", "on", or "asking" for the runtimes lock to record an interaction
    frames,     \* the channel to the pump
    queue,      \* the World's input queue
    busy,       \* the envelope the World has recorded and folded, and not acknowledged
    log,        \* how many entries of the App's World log carry each envelope
    parked,     \* how often the World in memory has put each envelope's message into its inbox
    outcome,    \* the outcome the sender recorded last for each envelope
    accepted,   \* the envelopes ever queued
    raced,      \* whether two processes were ever between reading and writing the inbox at once
    torn,       \* whether a rewrite of the inbox was ever cut by a crash of the host
    sent,       \* how many envelopes were sent; they are numbered in the order first sent
    ops, faults

brokerVars == <<waiters, confirmed>>
reach == <<up, sink>>
channel == <<pump, frames>>
world == <<queue, busy, log, parked>>
workerVars == <<reach, channel, world>>
ghosts == <<accepted, raced, torn>>
vars == <<proc, inbox, brokerVars, workerVars, outcome, ghosts, sent, ops, faults>>

Envelopes == 1 .. MaxEnv
AtRest == [pc |-> "idle", env |-> NoEnv, drain |-> FALSE, kept |-> <<>>]

\* The host starts; an earlier run of it may have left envelopes in the inbox.
Init ==
    /\ proc = [p \in Procs |-> AtRest] /\ inbox = [i \in 1 .. Left |-> i]
    /\ waiters = [e \in Envelopes |-> None] /\ confirmed = {}
    /\ up = FALSE /\ sink = FALSE /\ pump = "off" /\ frames = <<>> /\ queue = <<>>
    /\ busy = NoEnv /\ log = [e \in Envelopes |-> 0] /\ parked = [e \in Envelopes |-> 0]
    /\ outcome = [e \in Envelopes |-> IF e <= Left THEN "Queued" ELSE None]
    /\ accepted = 1 .. Left /\ raced = FALSE /\ torn = FALSE /\ sent = Left /\ ops = 0 /\ faults = 0

Env(p) == proc[p].env
At(p, pc) == proc[p].pc = pc
Goto(p, pc) == proc' = [proc EXCEPT ![p].pc = pc]

\* The processes that have read the inbox and are going to write it.
Writing(p) == proc[p].pc \in {"append", "truncate", "rewrite"}
Reads(p) == raced' = (raced \/ \E q \in Procs \ {p} : Writing(q))

-----------------------------------------------------------------------------
\* PeerBroker::relay_durable.

\* The cap rejects a new envelope, never a retry.
Full(e) == Cap > 0 /\ ~ Contains(inbox, e) /\ Len(inbox) >= Cap

\* The inbox is read, for the cap and then for enqueue_unique.
Relay(p) ==
    /\ At(p, "idle") /\ ops < MaxOps
    /\ p = CHOOSE q \in Procs : At(q, "idle")
    /\ ops' = ops + 1 /\ Reads(p)
    /\ \E e \in Envelopes :
          /\ e <= sent + 1
          /\ sent' = IF e > sent THEN e ELSE sent
          /\ IF Full(e)
             THEN outcome' = [outcome EXCEPT ![e] = "Rejected"] /\ UNCHANGED proc
             ELSE /\ proc' = [proc EXCEPT ![p].env = e,
                                ![p].pc = IF Contains(inbox, e) THEN "send" ELSE "append"]
                  /\ UNCHANGED outcome
    /\ UNCHANGED <<inbox, brokerVars, workerVars, accepted, torn, faults>>

Enqueue(p) ==
    /\ At(p, "append")
    /\ inbox' = Append(inbox, Env(p))
    /\ accepted' = accepted \cup {Env(p)}
    /\ Goto(p, "send")
    /\ UNCHANGED <<brokerVars, workerVars, outcome, raced, torn, sent, ops, faults>>

\* A drain sends its frame with the runtimes locked.
Locked == \E p \in Procs : At(p, "push") /\ proc[p].drain

\* A relay takes the App's sink, and without one leaves the envelope in the inbox; a drain
\* takes the worker's handle, and is over without one.
Send(p) ==
    /\ At(p, "send")
    /\ IF proc[p].drain
       THEN /\ ~ Locked
            /\ proc' = [proc EXCEPT ![p] = IF up THEN [@ EXCEPT !.pc = "push"] ELSE AtRest]
            /\ UNCHANGED outcome
       ELSE IF sink THEN Goto(p, "push") /\ UNCHANGED outcome
       ELSE Goto(p, "wake") /\ outcome' = [outcome EXCEPT ![Env(p)] = "Queued"]
    /\ UNCHANGED <<inbox, brokerVars, workerVars, ghosts, sent, ops, faults>>

\* The frame is put into the channel when there is room.
Push(p) ==
    /\ At(p, "push") /\ Len(frames) < FrameCap
    /\ frames' = Append(frames, Env(p)) /\ Goto(p, "await")
    /\ UNCHANGED <<inbox, brokerVars, reach, pump, world, outcome, ghosts, sent, ops, faults>>

\* The channel was closed under a relay: it unregisters the App's sink, whoever's it is.
Closed(p) ==
    /\ At(p, "closed") /\ Goto(p, "wake")
    /\ sink' = FALSE /\ outcome' = [outcome EXCEPT ![Env(p)] = "Queued"]
    /\ UNCHANGED <<inbox, brokerVars, up, channel, world, ghosts, sent, ops, faults>>

\* await_fold: a fold confirmed already, or a waiter, which replaces any other for the envelope.
Await(p) ==
    /\ At(p, "await")
    /\ IF Env(p) \in confirmed
       THEN confirmed' = confirmed \ {Env(p)} /\ Goto(p, "advance") /\ UNCHANGED waiters
       ELSE waiters' = [waiters EXCEPT ![Env(p)] = p] /\ Goto(p, "waiting") /\ UNCHANGED confirmed
    /\ UNCHANGED <<inbox, workerVars, outcome, ghosts, sent, ops, faults>>

\* The worker's submit returned, for a duplicate too, and the pump takes its PeerDeliverAck to
\* confirm_fold: the waiter is resolved unless it gave up; a confirmation nobody awaits is kept.
Resolves(e) == waiters[e] # None /\ At(waiters[e], "waiting")
ConfirmFold ==
    /\ pump = "on" /\ busy # NoEnv /\ busy' = NoEnv
    /\ LET e == busy
       IN  /\ waiters' = [waiters EXCEPT ![e] = None]
           /\ IF Resolves(e) THEN Goto(waiters[e], "advance") /\ UNCHANGED confirmed
              ELSE confirmed' = confirmed \cup {e} /\ UNCHANGED proc
    /\ UNCHANGED <<inbox, reach, channel, queue, log, parked, outcome, ghosts, sent, ops, faults>>

\* Mutation: only another waiter ends the wait.
GivesUpReplaced(p) == At(p, "waiting") /\ waiters[Env(p)] # p
GivesUp(p) == At(p, "waiting")

\* Mutation: the entry of a waiter that gave up is left behind.
ClearedNot(e) == waiters
Cleared(e) == [waiters EXCEPT ![e] = None]

\* The timeout passed, or another waiter for the envelope took the place of this one: the
\* entry for the envelope is removed, whoever's it is.
GiveUp(p) ==
    /\ GivesUp(p)
    /\ waiters' = Cleared(Env(p))
    /\ IF proc[p].drain THEN proc' = [proc EXCEPT ![p] = AtRest] /\ UNCHANGED outcome
       ELSE Goto(p, "wake") /\ outcome' = [outcome EXCEPT ![Env(p)] = "Queued"]
    /\ UNCHANGED <<inbox, confirmed, workerVars, ghosts, sent, ops, faults>>

-----------------------------------------------------------------------------
\* Mailbox::advance: the inbox is read, truncated, and written again.

\* Mutation: the inbox is advanced past its head, whichever envelope was confirmed.
KeptTail(e) == Tail(inbox)
Kept(e) == RemoveAt(inbox, CHOOSE i \in DOMAIN inbox : inbox[i] = e
                                /\ \A j \in 1 .. i - 1 : inbox[j] # e)

\* A relay reports Delivered; a drain goes on with the next envelope.
Advanced(p) ==
    IF proc[p].drain
    THEN /\ proc' = [proc EXCEPT ![p].pc = "head", ![p].kept = <<>>]
         /\ UNCHANGED outcome
    ELSE /\ proc' = [proc EXCEPT ![p] = AtRest]
         /\ outcome' = [outcome EXCEPT ![Env(p)] = "Delivered"]

Advance(p) ==
    /\ At(p, "advance") /\ Reads(p)
    /\ IF Contains(inbox, Env(p))
       THEN /\ proc' = [proc EXCEPT ![p].pc = "truncate", ![p].kept = Kept(Env(p))]
            /\ UNCHANGED outcome
       ELSE Advanced(p)
    /\ UNCHANGED <<inbox, waiters, confirmed, workerVars, accepted, torn, sent, ops, faults>>

Truncate(p) ==
    /\ At(p, "truncate") /\ inbox' = <<>>
    /\ IF proc[p].kept = <<>> THEN Advanced(p)
       ELSE Goto(p, "rewrite") /\ UNCHANGED outcome
    /\ UNCHANGED <<waiters, confirmed, workerVars, ghosts, sent, ops, faults>>

Rewrite(p) ==
    /\ At(p, "rewrite") /\ inbox' = proc[p].kept /\ Advanced(p)
    /\ UNCHANGED <<waiters, confirmed, workerVars, ghosts, sent, ops, faults>>

-----------------------------------------------------------------------------
\* ensure_active and drain_peer_inbox.

\* A start of the worker: its channel and sink, its handle, and then the drain, connected or not.
Starts(p) ==
    /\ up' = TRUE /\ sink' = TRUE
    /\ proc' = [proc EXCEPT ![p] = [AtRest EXCEPT !.pc = "head", !.drain = TRUE]]

\* A queued envelope wakes the App: with a worker's handle there is nothing to do.
Wake(p) ==
    /\ At(p, "wake") /\ ~ Locked
    /\ IF up THEN proc' = [proc EXCEPT ![p] = AtRest] /\ UNCHANGED reach ELSE Starts(p)
    /\ UNCHANGED <<inbox, brokerVars, channel, world, outcome, ghosts, sent, ops, faults>>

\* The App is restored, or a sender's outbox is retried against its running worker.
BeginDrain(p) ==
    /\ At(p, "idle") /\ ops < MaxOps /\ ~ Locked
    /\ p = CHOOSE q \in Procs : At(q, "idle")
    /\ \/ ~ up /\ Starts(p)
       \/ /\ \E e \in Envelopes : up /\ outcome[e] = "Queued"
          /\ proc' = [proc EXCEPT ![p] = [AtRest EXCEPT !.pc = "head", !.drain = TRUE]]
          /\ UNCHANGED reach
    /\ ops' = ops + 1
    /\ UNCHANGED <<inbox, brokerVars, channel, world, outcome, ghosts, sent, faults>>

\* The head of the inbox is read, not removed; with an empty inbox the drain is over.
HeadOf(p) == IF inbox = <<>> THEN AtRest
             ELSE [proc[p] EXCEPT !.pc = "send", !.env = Head(inbox)]

DrainHead(p) ==
    /\ At(p, "head")
    /\ proc' = [proc EXCEPT ![p] = HeadOf(p)]
    /\ UNCHANGED <<inbox, brokerVars, workerVars, outcome, ghosts, sent, ops, faults>>

-----------------------------------------------------------------------------
\* The pump of the App's supervision task.

\* The worker dialled back and said Hello.
Connect ==
    /\ up /\ pump = "off" /\ pump' = "on"
    /\ UNCHANGED <<proc, inbox, brokerVars, reach, frames, world, outcome, ghosts, sent, ops,
                   faults>>

\* A frame is written to the worker, whose bridge puts it into the World's input queue, or
\* drops it when that is full.
PumpWrite ==
    /\ pump = "on" /\ frames # <<>> /\ frames' = Tail(frames)
    /\ \/ queue' = Append(queue, Head(frames)) /\ UNCHANGED faults
       \/ faults < MaxFault /\ faults' = faults + 1 /\ UNCHANGED queue
    /\ UNCHANGED <<proc, inbox, brokerVars, reach, pump, busy, log, parked, outcome, ghosts, sent,
                   ops>>

\* The worker asks its user: capture_interaction locks the runtimes.
PumpAsks ==
    /\ pump = "on" /\ pump' = "asking" /\ faults < MaxFault /\ faults' = faults + 1
    /\ UNCHANGED <<proc, inbox, brokerVars, reach, frames, world, outcome, ghosts, sent, ops>>

Captured ==
    /\ pump = "asking" /\ ~ Locked /\ pump' = "on"
    /\ UNCHANGED <<proc, inbox, brokerVars, reach, frames, world, outcome, ghosts, sent, ops,
                   faults>>

-----------------------------------------------------------------------------
\* The worker (external to the broker): submit_with_peer_sender and run_world_driver.

\* Mutation: an envelope is applied whether or not it was before.
AppliedAgain(n) == n + 1
\* apply_drive puts the message into the agent's inbox, unless its envelope is among
\* applied_envelopes.
Applied(n) == IF n > 0 THEN n ELSE n + 1

\* The World log gets every peer input, a redelivered one too, and the World folds it.  A
\* crash between the two is one after both: the log is folded when it is opened again.
Fold ==
    /\ queue # <<>> /\ busy = NoEnv
    /\ queue' = Tail(queue) /\ busy' = Head(queue)
    /\ log' = [log EXCEPT ![Head(queue)] = @ + 1]
    /\ parked' = [parked EXCEPT ![Head(queue)] = Applied(@)]
    /\ UNCHANGED <<proc, inbox, brokerVars, reach, channel, outcome, ghosts, sent, ops, faults>>

\* The submit failed when it drove the turn: there is no acknowledgement.
SubmitFails ==
    /\ busy # NoEnv /\ faults < MaxFault
    /\ busy' = NoEnv /\ faults' = faults + 1
    /\ UNCHANGED <<proc, inbox, brokerVars, reach, channel, queue, log, parked, outcome,
                   ghosts, sent, ops>>

\* A World that is opened again folds every entry of the log from nothing.
Replayed(n) ==
    LET after[i \in 0 .. n] == IF i = 0 THEN 0 ELSE Applied(after[i - 1])
    IN  after[n]

\* The World in memory is lost, with its input queue, and replayed when it is opened again.
Loses ==
    /\ faults < MaxFault /\ faults' = faults + 1
    /\ pump' = "off" /\ queue' = <<>> /\ busy' = NoEnv
    /\ parked' = [e \in Envelopes |-> Replayed(log[e])]

\* The worker crashes, and is started again: the channel outlives it.
WorkerCrash ==
    /\ pump = "on" /\ Loses
    /\ UNCHANGED <<proc, inbox, brokerVars, reach, frames, log, outcome, ghosts, sent, ops>>

\* tombstone_app: the handle and the sink go, the channel is closed under those that wait.
Stop ==
    /\ up /\ ~ Locked /\ Len(frames) < FrameCap
    /\ Loses /\ up' = FALSE /\ sink' = FALSE /\ frames' = <<>>
    /\ proc' = [p \in Procs |-> IF At(p, "push") THEN [proc[p] EXCEPT !.pc = "closed"] ELSE proc[p]]
    /\ UNCHANGED <<inbox, brokerVars, log, outcome, ghosts, sent, ops>>

HostCrash ==
    /\ Loses /\ up' = FALSE /\ sink' = FALSE /\ frames' = <<>>
    /\ proc' = [p \in Procs |-> AtRest]
    /\ waiters' = [e \in Envelopes |-> None] /\ confirmed' = {}
    /\ torn' = (torn \/ \E p \in Procs : At(p, "rewrite"))
    /\ UNCHANGED <<inbox, log, outcome, accepted, raced, sent, ops>>

-----------------------------------------------------------------------------
Step(p) ==
    \/ Enqueue(p) \/ Send(p) \/ Push(p) \/ Closed(p) \/ Await(p) \/ GiveUp(p) \/ Advance(p)
    \/ Truncate(p) \/ Rewrite(p) \/ Wake(p) \/ DrainHead(p)

Next ==
    \/ \E p \in Procs : Relay(p) \/ BeginDrain(p) \/ Step(p)
    \/ ConfirmFold \/ Connect \/ PumpWrite \/ PumpAsks \/ Captured
    \/ Fold \/ SubmitFails \/ WorkerCrash \/ Stop \/ HostCrash

\* The host's tasks are scheduled, and a connected worker's bridge never stops reading; the
\* pump prefers what the worker sends, but that is not for ever ready.  A worker may never
\* connect, or never answer.
Spec ==
    /\ Init /\ [][Next]_vars
    /\ \A p \in Procs : WF_vars(Step(p))
    /\ SF_vars(PumpWrite) /\ WF_vars(Captured)

-----------------------------------------------------------------------------
\* Properties.

\* The processes, the inbox, the registry and the log have their types; a waiter awaits the
\* envelope it is registered for.
TypeOK ==
    /\ \A p \in Procs : /\ Env(p) \in Envelopes \cup {NoEnv}
                        /\ proc[p].kept \in Seq(Envelopes) /\ proc[p].drain \in BOOLEAN
    /\ {inbox, frames, queue} \subseteq Seq(Envelopes) /\ Len(frames) <= FrameCap
    /\ busy \in Envelopes \cup {NoEnv} /\ {log, parked} \subseteq [Envelopes -> Nat]
    /\ waiters \in [Envelopes -> Procs \cup {None}]
    /\ \A e \in Envelopes, p \in Procs : waiters[e] = p => Env(p) = e
    /\ confirmed \subseteq Envelopes
    /\ outcome \in [Envelopes -> {None, "Delivered", "Queued", "Rejected"}]
    /\ {up, sink, raced, torn} \subseteq BOOLEAN /\ pump \in {"off", "on", "asking"}
    /\ accepted \subseteq Envelopes

\* A message is put into the agent's inbox once, however often its envelope is redelivered,
\* logged and replayed; and one whose sender was told Delivered is in the World log and in the
\* World, through every crash (relay_durable, INV-3; apply_drive, INV-1).
DeliveredMeansFolded ==
    \A e \in Envelopes :
        /\ parked[e] <= 1
        /\ outcome[e] = "Delivered" => log[e] > 0 /\ parked[e] = 1

InHand == UNION {ToSet(proc[p].kept) : p \in Procs}
Logged == {e \in Envelopes : log[e] > 0}
Survives == accepted \subseteq ToSet(inbox) \cup Logged \cup InHand

\* It holds no envelope twice and no more than the cap (enqueue_unique, RejectNewest).
InboxIsBounded == IsInjective(inbox) /\ (Cap > 0 => Len(inbox) <= Cap)

\* Unless two processes were between reading and writing the inbox at once, it is bounded;
\* and unless a crash cut a rewrite too, an envelope once accepted is in the inbox, or being
\* written back to it, until the receiver has folded it (Mailbox::advance, INV-4).
AcceptedIsKept == raced \/ (InboxIsBounded /\ (torn \/ Survives))

\* The channel is full, and nothing empties it: no worker is connected, or its pump waits for
\* the lock that the drain which waits for room holds.
Stalled == Len(frames) = FrameCap /\ (pump = "off" \/ (pump = "asking" /\ Locked))

\* Every relay and every drain ends, whether or not the worker ever answers, unless the channel
\* is stalled for ever (drain_peer_inbox).
RelaysEnd == (\A p \in Procs : []<>At(p, "idle")) \/ <>[]Stalled

=============================================================================
