------------------------------ MODULE Surfaces ------------------------------
(***************************************************************************)
(* One surface of one App: its screen in the macOS client (external), the  *)
(* agent's World, which keeps the version it perceives, and the relay      *)
(* between them (src/host.rs SurfaceRouter, the supervisor's pump, the     *)
(* bridges of src/app/runtime/worker.rs).                                  *)
(*                                                                         *)
(* A person edits the screen and the model drives it with set_value.  The  *)
(* World's input queue and the queues of the relay are lossy; each client  *)
(* connection is numbered.                                                 *)
(***************************************************************************)
EXTENDS Integers, FiniteSets, Sequences, SequencesExt

CONSTANTS
    MaxEdits,   \* bound on a person's edits
    MaxAsks,    \* bound on the ops of all set_value calls
    MaxOps,     \* bound on the ops of one call
    Offsets,    \* the bases the model gives, relative to the version the World has
    MaxConn,    \* bound on the client connections
    MaxOther    \* bound on the frames lost, peer drives and changes perceived without an edit

ASSUME SurfacesAssumption ==
    /\ \A n \in {MaxEdits, MaxAsks, MaxOps, MaxConn, MaxOther} : n \in Nat
    /\ Offsets \subseteq Int

VARIABLES
    \* The client: its connection and whether it is open, what was written on its screen,
    conn, open, shown,
    applied,    \* SurfaceDriveController.versions
    reported,   \* SurfaceObservationReporter.version
    stale,      \* whether what is perceived differs from what was reported last
    scheduled,  \* emitScheduled
    \* The host: the connections whose Hello was read, the client drive sink, 0 if none,
    serving, sink,
    sent,       \* the frames each client connection carries to the host
    drives,     \* the drives on their way from the worker to the client, each a call's ops
    \* The World: the version it has of the surface, the writes its log records, by author, and
    \* the agent's among them that are not folded yet.
    version, facts, answers,
    refused,    \* history: the ops of the calls the model was told had failed
    \* History and bounds:
    lost, edits, asks, others

client == <<conn, open, shown, applied, reported, stale, scheduled>>
host == <<serving, sink>>
queues == <<sent, drives>>
world == <<version, facts, answers, refused>>
bounds == <<lost, edits, asks, others>>
vars == <<client, host, queues, world, bounds>>

Conns == 1 .. MaxConn
NoBase == -1       \* an op without base_version

\* A write: who made it, its number, its base_version, and the connection of an edit.
Edit(n) == [by |-> "human", no |-> n, base |-> NoBase, of |-> conn]
Drive(n, base) == [by |-> "agent", no |-> n, base |-> base, of |-> 0]
Mutation(w) == [kind |-> "mutation", write |-> w]
Observation(v) == [kind |-> "observation", version |-> v]

Init ==
    /\ conn = 0 /\ open = FALSE /\ shown = {} /\ applied = 0 /\ reported = 0
    /\ stale = FALSE /\ scheduled = FALSE /\ serving = {} /\ sink = 0
    /\ sent = [c \in Conns |-> <<>>] /\ drives = <<>>
    /\ version = 0 /\ facts = [by \in {"human", "agent"} |-> <<>>]
    /\ answers = <<>> /\ refused = {}
    /\ lost = {} /\ edits = 0 /\ asks = 0 /\ others = 0

-----------------------------------------------------------------------------
\* The client.

\* wireSurfaceClient: a fresh board, whose first snapshot is deferred.
Open ==
    /\ ~ open /\ conn < MaxConn
    /\ conn' = conn + 1 /\ open' = TRUE
    /\ applied' = 0 /\ reported' = 0 /\ stale' = TRUE /\ scheduled' = TRUE
    /\ UNCHANGED <<shown, host, queues, world, bounds>>

\* The client quits.
Quit ==
    /\ open /\ open' = FALSE
    /\ stale' = FALSE /\ scheduled' = FALSE
    /\ UNCHANGED <<conn, shown, applied, reported, host, queues, world, bounds>>

Send(frame) == sent' = [sent EXCEPT ![conn] = Append(@, frame)]

\* reportHumanEdit
HumanEdit ==
    /\ open /\ edits < MaxEdits
    /\ edits' = edits + 1
    /\ shown' = shown \cup {Edit(edits + 1)}
    /\ Send(Mutation(Edit(edits + 1)))
    /\ stale' = TRUE /\ scheduled' = TRUE
    /\ UNCHANGED <<conn, open, applied, reported, host, drives, world,
                   lost, asks, others>>

\* observeAXState: a window, the focus or the cursor changed.
Notice ==
    /\ open /\ others < MaxOther
    /\ others' = others + 1
    /\ stale' = TRUE /\ scheduled' = TRUE
    /\ UNCHANGED <<conn, open, shown, applied, reported, host, queues, world, lost, edits, asks>>

\* emitIfChanged
Emit ==
    /\ open /\ scheduled
    /\ scheduled' = FALSE /\ stale' = FALSE
    /\ IF stale
       THEN /\ reported' = reported + 1
            /\ Send(Observation(reported + 1))
       ELSE UNCHANGED <<reported, sent>>
    /\ UNCHANGED <<conn, open, shown, applied, host, drives, world, bounds>>

\* apply_surface_ops and SurfaceDriveController.apply take the ops of a list in order, each
\* against the version the ones taken before it led to; a stale one is skipped.
Stale(base, current) == base # NoBase /\ base # current
Takes(taken, ops, current) ==
    /\ \A i, j \in DOMAIN taken : i < j => taken[i].no < taken[j].no
    /\ \A op \in ToSet(ops) :
          op \in ToSet(taken) <=>
              ~ Stale(op.base, current + Cardinality({i \in DOMAIN taken : taken[i].no < op.no}))

\* SurfaceDriveController.apply; the element may not be realized, and is written then when
\* it is.  No notification follows: the change is reported with the next one.
Apply(ops) ==
    \E taken \in SeqOf(ToSet(ops), Len(ops)) :
        /\ Takes(taken, ops, applied)
        /\ applied' = applied + Len(taken)
        /\ shown' = shown \cup ToSet(taken)
        /\ sent' = [sent EXCEPT ![conn] = @ \o [i \in DOMAIN taken |-> Mutation(taken[i])]]
        /\ stale' = (stale \/ taken # <<>>)

-----------------------------------------------------------------------------
\* The host.

\* handle_surface_client: the Hello is read, and the client's sink registered.
Register(c) ==
    /\ c \notin serving
    /\ sent[c] # <<>> \/ (open /\ c = conn)
    /\ serving' = serving \cup {c} /\ sink' = c
    /\ UNCHANGED <<client, queues, world, bounds>>

\* The client disconnected: the App's sink is removed, whoever's it is.
Unregister(c) ==
    /\ c \in serving /\ sent[c] = <<>> /\ (c # conn \/ ~ open)
    /\ serving' = serving \ {c} /\ sink' = 0
    /\ UNCHANGED <<client, queues, world, bounds>>

\* The pump, route_drive and the writer of the connection: without an open client the drive
\* is dropped (a closed sink like an absent one), and a drive on the wire of a client that
\* quits is lost as well.
RouteDrive ==
    /\ drives # <<>>
    /\ drives' = Tail(drives)
    /\ IF sink = conn /\ open
       THEN Apply(Head(drives)) /\ UNCHANGED lost
       ELSE lost' = lost \cup ToSet(Head(drives)) /\ UNCHANGED <<applied, shown, sent, stale>>
    /\ UNCHANGED <<conn, open, reported, scheduled, host, world, edits, asks, others>>

\* A queue on the way is full: WorkerSurfaceDriver, forward_surface_drives and route_drive
\* all try_send, and drop.
DropDrive ==
    /\ drives # <<>> /\ others < MaxOther
    /\ others' = others + 1 /\ lost' = lost \cup ToSet(Head(drives)) /\ drives' = Tail(drives)
    /\ UNCHANGED <<client, host, sent, world, edits, asks>>

-----------------------------------------------------------------------------
\* The World.

\* Mutation: an echo of the agent's own write counts as a mutation.
IsMutationEcho(frame) == frame.kind = "mutation"
\* Mutation: so does only an edit whose connection is still the App's.
IsMutationOfLatest(frame) ==
    frame.kind = "mutation" /\ frame.write.by = "human" /\ frame.write.of = conn
\* classify_native_signal
IsMutation(frame) == frame.kind = "mutation" /\ frame.write.by = "human"

Fold(frame) ==
    \/ /\ IsMutation(frame)
       /\ version' = version + 1
       /\ facts' = [facts EXCEPT ![frame.write.by] = Append(@, frame.write)]
    \/ /\ frame.kind = "observation"
       /\ version' = frame.version
       /\ UNCHANGED facts
    \/ /\ frame.kind = "mutation" /\ ~ IsMutation(frame)
       /\ UNCHANGED <<version, facts>>

\* The inbound pump of a connection, the seam to the worker, and its bridge, which keeps what
\* classify_native_signal does not call an echo and puts it into the World's input queue.  The
\* World folds its own answers first.
RouteInbound(c) ==
    /\ c \in serving /\ sent[c] # <<>> /\ answers = <<>>
    /\ sent' = [sent EXCEPT ![c] = Tail(@)]
    /\ Fold(Head(sent[c]))
    /\ UNCHANGED <<client, host, drives, answers, refused, bounds>>

\* A queue on the way is full: each of them is filled by try_send, and the frame dropped.
DropInbound(c) ==
    /\ c \in serving /\ sent[c] # <<>> /\ others < MaxOther
    /\ others' = others + 1
    /\ sent' = [sent EXCEPT ![c] = Tail(@)]
    /\ LET frame == Head(sent[c])
       IN  lost' = IF frame.kind = "mutation" /\ frame.write.by = "human"
                   THEN lost \cup {frame.write} ELSE lost
    /\ UNCHANGED <<client, host, drives, world, edits, asks>>

\* A DriveRequested of a peer: its ops are folded, and go nowhere else.
PeerDrive ==
    /\ others < MaxOther /\ answers = <<>>
    /\ others' = others + 1
    /\ version' = version + 1
    /\ UNCHANGED <<client, host, queues, facts, answers, refused, lost, edits, asks>>

\* surface_tool_result: a call is judged against the version its response began with, and one
\* stale op rejects it whole.
Accepts(ops) == \A i \in DOMAIN ops : ~ Stale(ops[i].base, version + i - 1)

\* drive_live, for each set_value call of a response: its ops are forwarded, all of them, and
\* its answer is logged, which carries the ops or an error.
SetValue ==
    /\ \E n \in 1 .. MaxOps : \E bases \in [1 .. n -> {NoBase} \cup {version + k : k \in Offsets}] :
          LET ops == [i \in 1 .. n |-> Drive(asks + i, bases[i])]
          IN  /\ asks + n <= MaxAsks
              /\ asks' = asks + n
              /\ drives' = Append(drives, ops)
              /\ \/ /\ Accepts(ops)
                    /\ facts' = [facts EXCEPT !["agent"] = @ \o ops]
                    /\ answers' = answers \o ops
                    /\ UNCHANGED refused
                 \/ /\ ~ Accepts(ops)
                    /\ refused' = refused \cup ToSet(ops)
                    /\ UNCHANGED <<facts, answers>>
    /\ UNCHANGED <<client, host, sent, version, lost, edits, others>>

\* The response's calls are done: SurfaceSystem folds their answers.
FoldAnswers ==
    /\ answers # <<>> /\ answers' = <<>>
    /\ \E taken \in SeqOf(ToSet(answers), Len(answers)) :
          /\ Takes(taken, answers, version)
          /\ version' = version + Len(taken)
    /\ UNCHANGED <<client, host, queues, facts, refused, bounds>>

-----------------------------------------------------------------------------
Next ==
    \/ Open \/ Quit \/ HumanEdit \/ Notice \/ Emit
    \/ \E c \in Conns : Register(c) \/ Unregister(c) \/ RouteInbound(c) \/ DropInbound(c)
    \/ RouteDrive \/ DropDrive \/ PeerDrive \/ SetValue \/ FoldAnswers

Spec == Init /\ [][Next]_vars

-----------------------------------------------------------------------------
\* Properties.

\* Each write is one fact: neither an edit nor an agent's write is ever recorded twice,
\* although the screen echoes both; an edit recorded was made, and the edits of one client
\* are recorded in the order they were made (Cause, Inv 18).
OneFactPerWrite ==
    /\ IsInjective(facts["human"]) /\ IsInjective(facts["agent"])
    /\ LET heard == facts["human"]
       IN  /\ ToSet(heard) \subseteq shown
           /\ \A i, j \in DOMAIN heard :
                 i < j /\ heard[i].of = heard[j].of => heard[i].no < heard[j].no

\* When nothing is on its way, the writes without a precondition that are on the screen are
\* those the World recorded and those of calls the model was told had failed, never both, but
\* for the ones that were dropped: an edit the World has not heard of, or an answer the screen
\* does not bear out, was dropped.  A failed call's ops without a base are on the screen: they
\* are driven before the call is judged, and the client rejects op by op.
Underway == (UNION {ToSet(ops) : ops \in ToSet(drives)})
                \cup {f.write : f \in {g \in UNION {ToSet(sent[c]) : c \in Conns} :
                                         g.kind = "mutation"}}
Recorded == ToSet(facts["human"]) \cup ToSet(facts["agent"])
ScreenIsKnown ==
    \A w \in (shown \cup Recorded \cup refused) \ (Underway \cup lost) :
        w.base = NoBase => w \in shown /\ (w \in Recorded <=> w \notin refused)

=============================================================================
