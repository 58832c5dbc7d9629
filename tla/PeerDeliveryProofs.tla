-------------------------- MODULE PeerDeliveryProofs --------------------------
(***************************************************************************)
(* Durable delivery (PeerDelivery): a message is applied once, whatever is *)
(* redelivered, a sender told Delivered has its envelope in the receiver's *)
(* log and World, and an accepted envelope is kept, for any number of      *)
(* processes, envelopes and crashes, any cap and any channel.              *)
(***************************************************************************)
EXTENDS PeerDelivery, FiniteSetTheorems, SequenceTheorems, WellFoundedInduction, TLAPS

PCs == {"idle", "append", "send", "push", "closed", "await", "waiting", "advance", "truncate",
        "rewrite", "wake", "head"}
ProcStates == [pc : PCs, env : Envelopes \cup {NoEnv}, drain : BOOLEAN, kept : Seq(Envelopes)]

\* The types, and what a process holds where it stands.
Typed ==
    /\ proc \in [Procs -> ProcStates]
    /\ inbox \in Seq(Envelopes) /\ frames \in Seq(Envelopes) /\ queue \in Seq(Envelopes)
    /\ Len(frames) <= FrameCap
    /\ log \in [Envelopes -> Nat] /\ parked \in [Envelopes -> Nat]
    /\ busy \in Envelopes \cup {NoEnv}
    /\ waiters \in [Envelopes -> Procs \cup {None}]
    /\ confirmed \subseteq Envelopes
    /\ outcome \in [Envelopes -> {None, "Delivered", "Queued", "Rejected"}]
    /\ up \in BOOLEAN /\ sink \in BOOLEAN /\ pump \in {"off", "on", "asking"}
    /\ raced \in BOOLEAN /\ torn \in BOOLEAN /\ accepted \subseteq Envelopes

Holds ==
    \A p \in Procs : /\ proc[p].pc \notin {"idle", "head"} => Env(p) # NoEnv
                     /\ proc[p].pc \notin {"truncate", "rewrite"} => proc[p].kept = <<>>

\* Who is registered for an envelope waits for it.
WaitersWait ==
    \A e \in Envelopes :
        waiters[e] # None => At(waiters[e], "waiting") /\ Env(waiters[e]) = e

\* The World has applied what its log has, once, and the log has every envelope that was
\* acknowledged, or is about to be, or whose sender was told so.
Folds ==
    /\ \A e \in Envelopes : parked[e] = IF log[e] > 0 THEN 1 ELSE 0
    /\ busy # NoEnv => busy \in Logged
    /\ confirmed \subseteq Logged
    /\ \A p \in Procs : proc[p].pc \in {"advance", "truncate", "rewrite"} => Env(p) \in Logged
    /\ \A e \in Envelopes : outcome[e] = "Delivered" => e \in Logged

\* What Mailbox::advance writes back: the inbox without the envelope that was confirmed.
IsRest(s, t, e) ==
    /\ IsInjective(s) /\ (Cap > 0 => Len(s) <= Cap)
    /\ ToSet(s) \subseteq ToSet(t) /\ ToSet(t) \subseteq ToSet(s) \cup {e}

\* Unless processes raced, one at most is going to write the inbox, and it still is as that
\* one read it.
OneWriter ==
    /\ \A p, q \in Procs : Writing(p) /\ Writing(q) => p = q
    /\ \A p \in Procs :
          /\ At(p, "append") => ~ Contains(inbox, Env(p)) /\ (Cap > 0 => Len(inbox) < Cap)
          /\ At(p, "truncate") => IsRest(proc[p].kept, inbox, Env(p))
          /\ At(p, "rewrite") => /\ inbox = <<>> /\ IsInjective(proc[p].kept)
                                 /\ Cap > 0 => Len(proc[p].kept) <= Cap

MailKept == raced \/ (OneWriter /\ InboxIsBounded /\ (torn \/ Survives))

Base == Typed /\ Holds /\ WaitersWait /\ Folds
IInv == Base /\ MailKept
-----------------------------------------------------------------------------
\* Sequences of envelopes.

\* The order of the naturals is well-founded.
LEMMA LessIsWellFounded ==
    \E R : IsWellFoundedOn(R, Nat) /\ \A j, i \in Nat : j < i => <<j, i>> \in R
<1> WITNESS OpToRel(<, Nat)
<1>1. \A j, i \in Nat : j < i => <<j, i>> \in OpToRel(<, Nat)
  BY DEF OpToRel
<1>2. IsWellFoundedOn(OpToRel(<, Nat), Nat)
  BY NatLessThanWellFounded
<1> QED
  BY Zenon, <1>1, <1>2

\* A set of naturals has a least element.
LEMMA NatMin ==
    ASSUME NEW S \in SUBSET Nat, S # {}
    PROVE  \E i \in S : \A j \in S : i <= j
<1>1. PICK R : IsWellFoundedOn(R, Nat) /\ \A j, i \in Nat : j < i => <<j, i>> \in R
  BY LessIsWellFounded
<1>2. S \subseteq Nat
  OBVIOUS
<1>3. PICK i \in S : \A j \in S : ~ (<<j, i>> \in R)
  <2>1. IsWellFoundedOn(R, Nat)
    BY <1>1
  <2>2. \E x \in S : \A y \in S : ~ (<<y, x>> \in R)
    BY ONLY <2>1, <1>2, S # {}, WFMin
  <2> QED
    BY <2>2
<1>4. \A j \in S : ~ (j < i)
  BY Zenon, <1>1, <1>2, <1>3
<1> QED
  BY <1>2, <1>4

\* What is left of the inbox has its type; and of an inbox without duplicates, it is the
\* rest (Mailbox::advance).
LEMMA RestOfInbox ==
    ASSUME NEW T, inbox \in Seq(T), NEW e, Contains(inbox, e)
    PROVE  /\ Kept(e) \in Seq(T)
           /\ InboxIsBounded => IsRest(Kept(e), inbox, e)
<1> DEFINE n == Len(inbox)
           First(i) == inbox[i] = e /\ \A j \in 1 .. i - 1 : inbox[j] # e
           i == CHOOSE k \in DOMAIN inbox : First(k)
           s == SubSeq(inbox, 1, i - 1)
           t == SubSeq(inbox, i + 1, n)
<1>1. n \in Nat /\ DOMAIN inbox = 1 .. n /\ \A j \in 1 .. n : inbox[j] \in T
  OBVIOUS
<1>2. \E k \in DOMAIN inbox : First(k)
  <2> DEFINE S == {k \in 1 .. n : inbox[k] = e}
  <2>1. S # {} /\ S \subseteq Nat
    BY DEF Contains
  <2>2. PICK k \in S : \A j \in S : k <= j
    BY <2>1, NatMin
  <2> QED
    BY <1>1, <2>2
<1>3. i \in 1 .. n /\ inbox[i] = e
  BY <1>1, <1>2
<1>4. Kept(e) = s \o t
  BY <1>1 DEF Kept, RemoveAt
<1> HIDE DEF i, n
<1>5. /\ s \in Seq(T) /\ Len(s) = i - 1 /\ \A j \in 1 .. i - 1 : s[j] = inbox[j]
  BY <1>1, <1>3
<1>6. /\ t \in Seq(T) /\ Len(t) = n - i /\ \A j \in 1 .. n - i : t[j] = inbox[i + j]
  BY <1>1, <1>3
<1> HIDE DEF s, t
<1> DEFINE r == s \o t
<1>7. /\ r \in Seq(T) /\ Len(r) = n - 1 /\ DOMAIN r = 1 .. n - 1
      /\ \A j \in 1 .. n - 1 : r[j] = IF j <= i - 1 THEN inbox[j] ELSE inbox[j + 1]
  <2>1. /\ r \in Seq(T) /\ Len(r) = Len(s) + Len(t)
        /\ \A j \in 1 .. Len(s) + Len(t) : r[j] = IF j <= Len(s) THEN s[j] ELSE t[j - Len(s)]
    BY <1>5, <1>6, ConcatProperties
  <2>2. n \in Nat /\ i \in 1 .. n
    BY <1>1, <1>3
  <2>3. Len(r) = n - 1 /\ DOMAIN r = 1 .. n - 1
    BY <2>1, <2>2, <1>5, <1>6
  <2> HIDE DEF r
  <2>4. ASSUME NEW j \in 1 .. n - 1
        PROVE  r[j] = IF j <= i - 1 THEN inbox[j] ELSE inbox[j + 1]
    <3>0. j \in 1 .. Len(s) + Len(t)
      BY <1>5, <1>6, <2>2
    <3>1. CASE j <= i - 1
      <4>1. r[j] = s[j]
        BY <1>5, <2>1, <3>0, <3>1
      <4> QED
        BY <1>5, <2>2, <3>1, <4>1
    <3>2. CASE ~ (j <= i - 1)
      <4>1. r[j] = t[j - (i - 1)]
        BY <1>5, <2>1, <3>0, <3>2
      <4>2. j - (i - 1) \in 1 .. n - i /\ i + (j - (i - 1)) = j + 1
        BY <2>2, <3>2
      <4>3. t[j - (i - 1)] = inbox[i + (j - (i - 1))]
        BY <1>6, <4>2
      <4> QED
        BY <3>2, <4>1, <4>2, <4>3
    <3> QED
      BY <3>1, <3>2
  <2> QED
    BY <2>1, <2>3, <2>4
<1> HIDE DEF r
<1>8. ASSUME InboxIsBounded
      PROVE  IsRest(r, inbox, e)
  <2>1. IsInjective(inbox) /\ (Cap > 0 => n <= Cap)
    BY <1>8 DEF InboxIsBounded, n
  <2>2. IsInjective(r)
    <3> DEFINE at(j) == IF j <= i - 1 THEN j ELSE j + 1
    <3>1. \A j \in 1 .. n - 1 : at(j) \in 1 .. n /\ r[j] = inbox[at(j)]
      BY <1>1, <1>3, <1>7
    <3>2. \A j, k \in 1 .. n - 1 : at(j) = at(k) => j = k
      BY <1>1, <1>3
    <3> HIDE DEF at
    <3> QED
      BY <1>1, <1>7, <2>1, <3>1, <3>2 DEF IsInjective
  <2>3. Cap > 0 => Len(r) <= Cap
    BY <1>1, <1>3, <1>7, <2>1, PeerAssumption
  <2>4. ToSet(r) \subseteq ToSet(inbox)
    BY <1>1, <1>3, <1>7 DEF ToSet
  <2>5. ToSet(inbox) \subseteq ToSet(r) \cup {e}
    <3> SUFFICES ASSUME NEW j \in 1 .. n, j # i
                 PROVE  \E k \in 1 .. n - 1 : inbox[j] = r[k]
      BY <1>1, <1>3, <1>7 DEF ToSet
    <3>1. CASE j < i
      <4>1. j \in 1 .. n - 1 /\ r[j] = inbox[j]
        BY <1>1, <1>3, <1>7, <3>1
      <4> QED
        BY <4>1
    <3>2. CASE j > i
      <4>1. j - 1 \in 1 .. n - 1 /\ r[j - 1] = inbox[j]
        BY <1>1, <1>3, <1>7, <3>2
      <4> QED
        BY <4>1
    <3> QED
      BY <1>3, <3>1, <3>2
  <2> QED
    BY <2>2, <2>3, <2>4, <2>5 DEF IsRest
<1> QED
  BY <1>4, <1>7, <1>8 DEF r

\* An envelope that is appended is in the sequence, and the others stay.
LEMMA AppendContains ==
    ASSUME NEW T, NEW s \in Seq(T), NEW e \in T
    PROVE  /\ Append(s, e) \in Seq(T) /\ Len(Append(s, e)) = Len(s) + 1
           /\ Contains(Append(s, e), e)
           /\ \A f : Contains(s, f) => Contains(Append(s, e), f)
           /\ IsInjective(s) /\ ~ Contains(s, e) => IsInjective(Append(s, e))
           /\ ToSet(Append(s, e)) = ToSet(s) \cup {e}
<1> DEFINE r == Append(s, e)
           n == Len(s)
<1>1. /\ r \in Seq(T) /\ Len(r) = n + 1 /\ DOMAIN r = 1 .. n + 1 /\ DOMAIN s = 1 .. n
      /\ n \in Nat /\ r[n + 1] = e /\ \A i \in 1 .. n : r[i] = s[i]
  OBVIOUS
<1> HIDE DEF r
<1>2. Contains(r, e) /\ \A f : Contains(s, f) => Contains(r, f)
  BY <1>1 DEF Contains
<1>3. ASSUME IsInjective(s), ~ Contains(s, e)
      PROVE  IsInjective(r)
  BY <1>1, <1>3 DEF IsInjective, Contains
<1>4. ToSet(r) = ToSet(s) \cup {e}
  BY <1>1 DEF ToSet
<1> QED
  BY <1>1, <1>2, <1>3, <1>4 DEF r

\* A World that is opened again has applied an envelope once if its log has it at all
\* (apply_drive).
LEMMA ReplayedIs ==
    ASSUME NEW n \in Nat
    PROVE  Replayed(n) = IF n > 0 THEN 1 ELSE 0
<1> DEFINE Upto(f) == f = [i \in 0 .. n |-> IF i = 0 THEN 0 ELSE Applied(f[i - 1])]
           g == [i \in 0 .. n |-> IF i = 0 THEN 0 ELSE 1]
           f == CHOOSE h : Upto(h)
<1>1. Upto(g)
  <2>1. \A i \in 0 .. n : g[i] = IF i = 0 THEN 0 ELSE Applied(g[i - 1])
    BY DEF Applied
  <2> QED
    BY <2>1
<1>2. Upto(f)
  <2> HIDE DEF Upto
  <2> QED
    BY <1>1
<1>3. \A i \in 0 .. n : f[i] = IF i = 0 THEN 0 ELSE Applied(f[i - 1])
  <2> HIDE DEF f
  <2> QED
    BY <1>2
<1>4. Replayed(n) = f[n]
  BY DEF Replayed
<1> HIDE DEF f
<1> DEFINE Off == {i \in 0 .. n : f[i] # IF i = 0 THEN 0 ELSE 1}
<1>5. Off = {}
  <2> SUFFICES ASSUME Off # {} PROVE FALSE
    OBVIOUS
  <2>1. PICK i \in Off : \A j \in Off : i <= j
    <3>1. Off \in SUBSET Nat
      OBVIOUS
    <3> HIDE DEF Off
    <3> QED
      BY <3>1, NatMin
  <2>2. i \in 0 .. n /\ i # 0
    BY <1>3
  <2>3. i - 1 \in 0 .. n /\ i - 1 \notin Off
    BY <2>1, <2>2
  <2>4. f[i - 1] \in {0, 1}
    BY <2>3
  <2> QED
    BY <1>3, <2>2, <2>4 DEF Applied
<1> QED
  BY <1>4, <1>5
-----------------------------------------------------------------------------
\* A step of one process.

\* Process p becomes s, and no other process moves.
Moves(p, s) ==
    /\ s \in ProcStates /\ proc' \in [Procs -> ProcStates] /\ proc'[p] = s
    /\ \A q \in Procs : q # p => proc'[q] = proc[q]

\* An envelope's number is not the number of none.
LEMMA EnvelopeIsSome == NoEnv \notin Envelopes /\ Envelopes \subseteq Nat
BY PeerAssumption DEF NoEnv, Envelopes

\* The state of a process and its fields have their types.
LEMMA ProcTyped ==
    ASSUME Typed, NEW p \in Procs
    PROVE  /\ proc[p] \in ProcStates /\ proc[p].pc \in PCs
           /\ Env(p) \in Envelopes \cup {NoEnv}
           /\ proc[p].drain \in BOOLEAN /\ proc[p].kept \in Seq(Envelopes)
BY DEF Typed, ProcStates, Env

\* A process that is done is a process.
LEMMA AtRestTyped ==
    /\ AtRest \in ProcStates /\ AtRest.pc = "idle" /\ AtRest.kept = <<>>
    /\ \A d \in BOOLEAN : /\ [AtRest EXCEPT !.pc = "head", !.drain = d] \in ProcStates
                          /\ [AtRest EXCEPT !.pc = "head", !.drain = d].pc = "head"
                          /\ [AtRest EXCEPT !.pc = "head", !.drain = d].kept = <<>>
<1>1. <<>> \in Seq(Envelopes)
  OBVIOUS
<1> QED
  BY <1>1 DEF AtRest, ProcStates, PCs

\* A process that is replaced moves.
LEMMA BecomesMoves ==
    ASSUME Typed, NEW p \in Procs, NEW s \in ProcStates, proc' = [proc EXCEPT ![p] = s]
    PROVE  Moves(p, s)
BY DEF Typed, Moves

\* A process that goes on keeps its envelope.
LEMMA GotoMoves ==
    ASSUME Typed, NEW p \in Procs, NEW c \in PCs, Goto(p, c)
    PROVE  \E s \in ProcStates : /\ Moves(p, s) /\ s.pc = c /\ s.env = Env(p)
                                 /\ s.drain = proc[p].drain /\ s.kept = proc[p].kept
<1> DEFINE s == [proc[p] EXCEPT !.pc = c]
<1>1. proc[p] \in ProcStates
  BY ProcTyped
<1>2. /\ s \in ProcStates /\ s.pc = c /\ s.env = Env(p)
      /\ s.drain = proc[p].drain /\ s.kept = proc[p].kept
  BY <1>1 DEF ProcStates, Env
<1>3. proc' = [proc EXCEPT ![p] = s]
  BY DEF Goto
<1> HIDE DEF s
<1>4. Moves(p, s)
  BY <1>2, <1>3, BecomesMoves
<1> QED
  BY <1>2, <1>4

\* A delivery that is complete: the relay reports it, the drain goes on (Mailbox::advance).
LEMMA AdvancedMoves ==
    ASSUME Typed, NEW p \in Procs, Advanced(p), Env(p) # NoEnv
    PROVE  /\ \E s \in ProcStates : /\ Moves(p, s) /\ s.pc \in {"idle", "head"}
                                    /\ s.kept = <<>>
           /\ outcome' \in [Envelopes -> {None, "Delivered", "Queued", "Rejected"}]
           /\ \A e \in Envelopes : outcome'[e] = outcome[e] \/ e = Env(p)
<1>1. CASE proc[p].drain
  <2> DEFINE s == [proc[p] EXCEPT !.pc = "head", !.kept = <<>>]
  <2>1. proc' = [proc EXCEPT ![p] = s] /\ outcome' = outcome
    BY <1>1 DEF Advanced, Typed
  <2>2. s \in ProcStates /\ s.pc = "head" /\ s.kept = <<>>
    <3>1. proc[p] \in ProcStates /\ <<>> \in Seq(Envelopes)
      BY ProcTyped
    <3> QED
      BY <3>1 DEF ProcStates, PCs
  <2> HIDE DEF s
  <2>3. Moves(p, s)
    BY <2>1, <2>2, BecomesMoves
  <2> QED
    BY <2>1, <2>2, <2>3 DEF Typed
<1>2. CASE ~ proc[p].drain
  <2>1. proc' = [proc EXCEPT ![p] = AtRest] /\ outcome' = [outcome EXCEPT ![Env(p)] = "Delivered"]
    BY <1>2 DEF Advanced
  <2>2. Moves(p, AtRest)
    BY <2>1, AtRestTyped, BecomesMoves
  <2> QED
    BY <2>1, <2>2, AtRestTyped DEF Typed
<1> QED
  BY <1>1, <1>2
-----------------------------------------------------------------------------
\* What a step of one process leaves as it was.

\* A process still knows its envelope.
LEMMA HoldsStays ==
    ASSUME Holds, NEW p \in Procs, NEW s, Moves(p, s),
           s.pc \notin {"idle", "head"} => s.env # NoEnv,
           s.pc \notin {"truncate", "rewrite"} => s.kept = <<>>
    PROVE  Holds'
<1> SUFFICES ASSUME NEW q \in Procs
             PROVE  /\ proc'[q].pc \notin {"idle", "head"} => proc'[q].env # NoEnv
                    /\ proc'[q].pc \notin {"truncate", "rewrite"} => proc'[q].kept = <<>>
  BY DEF Holds, Env
<1>1. CASE q = p
  BY <1>1 DEF Moves
<1>2. CASE q # p
  BY <1>2 DEF Moves, Holds, Env
<1> QED
  BY <1>1, <1>2

\* A process that did not wait is registered for nothing.
LEMMA WaitersStay ==
    ASSUME Typed, WaitersWait, NEW p \in Procs, NEW s, Moves(p, s), waiters' = waiters,
           ~ At(p, "waiting")
    PROVE  WaitersWait'
<1> SUFFICES ASSUME NEW e \in Envelopes, waiters[e] # None
             PROVE  proc'[waiters[e]].pc = "waiting" /\ proc'[waiters[e]].env = e
  BY DEF WaitersWait, At, Env
<1>1. waiters[e] \in Procs /\ waiters[e] # p
  BY DEF WaitersWait, Typed
<1> QED
  BY <1>1 DEF Moves, WaitersWait, At, Env

\* The log is as it was, and what is acknowledged was in it.
LEMMA FoldsStays ==
    ASSUME Folds, NEW p \in Procs, NEW s, Moves(p, s), log' = log, parked' = parked,
           busy' \in {busy, NoEnv},
           s.pc \in {"advance", "truncate", "rewrite"} => s.env \in Logged,
           \A e \in confirmed' : e \in confirmed \/ e \in Logged,
           \A e \in Envelopes : outcome'[e] = "Delivered" =>
               outcome[e] = "Delivered" \/ e \in Logged
    PROVE  Folds'
<1>1. ASSUME NEW q \in Procs, proc'[q].pc \in {"advance", "truncate", "rewrite"}
      PROVE  proc'[q].env \in Logged
  <2>1. CASE q = p
    BY <1>1, <2>1 DEF Moves
  <2>2. CASE q # p
    BY <1>1, <2>2 DEF Moves, Folds, Env
  <2> QED
    BY <2>1, <2>2
<1>2. Logged' = Logged
  BY DEF Logged
<1>3. (busy # NoEnv => busy \in Logged)'
  BY <1>2 DEF Folds
<1> QED
  BY <1>1, <1>2, <1>3 DEF Folds, Env
-----------------------------------------------------------------------------
\* Every step keeps the types, the registry and the log.

\* relay_durable up to its answer.
LEMMA RelayKeepsBase ==
    ASSUME Base, NEW p \in Procs, Relay(p)
    PROVE  Base'
<1> USE EnvelopeIsSome
<1>1. Typed /\ Holds /\ WaitersWait /\ Folds /\ At(p, "idle")
  BY DEF Base, Relay
<1>2. PICK e \in Envelopes :
          IF Full(e)
          THEN outcome' = [outcome EXCEPT ![e] = "Rejected"] /\ UNCHANGED proc
          ELSE /\ proc' = [proc EXCEPT ![p].env = e,
                             ![p].pc = IF Contains(inbox, e) THEN "send" ELSE "append"]
               /\ UNCHANGED outcome
  BY DEF Relay
<1>3. /\ UNCHANGED <<inbox, waiters, confirmed, up, sink, pump, frames, queue, busy, log,
                     parked, accepted, torn>>
      /\ raced' \in BOOLEAN
  BY <1>1 DEF Relay, Reads, brokerVars, workerVars, reach, channel, world, Typed
<1>4. CASE Full(e)
  <2>1. Typed'
    BY <1>1, <1>2, <1>3, <1>4 DEF Typed
  <2>2. Holds' /\ WaitersWait'
    BY <1>1, <1>2, <1>3, <1>4 DEF Holds, WaitersWait, Env, At
  <2>3. Folds'
    BY <1>1, <1>2, <1>3, <1>4 DEF Folds, Env, Typed, Logged
  <2> QED
    BY <2>1, <2>2, <2>3 DEF Base
<1>5. CASE ~ Full(e)
  <2> DEFINE s == [proc[p] EXCEPT !.env = e, !.pc = IF Contains(inbox, e) THEN "send" ELSE "append"]
  <2>1. proc' = [proc EXCEPT ![p] = s] /\ outcome' = outcome
    BY <1>1, <1>2, <1>5 DEF Typed
  <2>2. /\ s \in ProcStates /\ s.pc \in {"send", "append"} /\ s.env = e
        /\ s.kept = proc[p].kept
    <3>1. proc[p] \in ProcStates
      BY <1>1, ProcTyped
    <3> QED
      BY <3>1 DEF ProcStates, PCs
  <2> HIDE DEF s
  <2>3. Moves(p, s)
    BY <1>1, <2>1, <2>2, BecomesMoves
  <2>4. proc[p].kept = <<>>
    BY <1>1 DEF Holds, At
  <2>5. Typed'
    BY <1>1, <1>3, <2>1, <2>3 DEF Typed, Moves
  <2>6. Holds'
    BY <1>1, <2>2, <2>3, <2>4, HoldsStays
  <2>7. WaitersWait'
    BY <1>1, <1>3, <2>3, WaitersStay DEF At
  <2>8. Folds'
    BY <1>1, <1>3, <2>1, <2>2, <2>3, FoldsStays
  <2> QED
    BY <2>5, <2>6, <2>7, <2>8 DEF Base
<1> QED
  BY <1>4, <1>5

\* enqueue_unique, and the frame to the sink and the channel.
LEMMA SendingKeepsBase ==
    ASSUME Base, NEW p \in Procs, Enqueue(p) \/ Send(p) \/ Push(p) \/ Closed(p)
    PROVE  /\ Base'
           /\ ~ Enqueue(p) => \E s \in ProcStates :
                                 /\ Moves(p, s) /\ s.kept = <<>>
                                 /\ s.pc \in {"push", "await", "wake", "idle"}
<1> USE EnvelopeIsSome
<1>1. /\ Typed /\ Holds /\ WaitersWait /\ Folds
      /\ Env(p) \in Envelopes /\ proc[p].kept = <<>>
  BY ProcTyped DEF Base, Holds, At, Enqueue, Send, Push, Closed
<1>2. CASE Enqueue(p)
  <2>1. PICK s \in ProcStates : /\ Moves(p, s) /\ s.pc = "send" /\ s.env = Env(p)
                                /\ s.kept = proc[p].kept
    BY <1>1, <1>2, GotoMoves DEF Enqueue, PCs
  <2>2. /\ UNCHANGED <<waiters, confirmed, up, sink, pump, frames, queue, busy, log,
                       parked, outcome, torn, raced>>
        /\ inbox' = Append(inbox, Env(p)) /\ accepted' = accepted \cup {Env(p)}
        /\ At(p, "append")
    BY <1>2 DEF Enqueue, brokerVars, workerVars, reach, channel, world
  <2>3. Typed'
    <3>1. inbox' \in Seq(Envelopes)
      BY <1>1, <2>2 DEF Typed
    <3> QED
      BY <1>1, <2>1, <2>2, <3>1 DEF Typed, Moves
  <2>4. Holds'
    BY <1>1, <2>1, HoldsStays
  <2>5. WaitersWait'
    BY <1>1, <2>1, <2>2, WaitersStay DEF At
  <2>6. Folds'
    BY <1>1, <2>1, <2>2, FoldsStays
  <2> QED
    BY <1>2, <2>3, <2>4, <2>5, <2>6 DEF Base
<1>3. CASE Send(p) \/ Push(p) \/ Closed(p)
  <2>1. /\ UNCHANGED <<inbox, waiters, confirmed, up, pump, queue, busy, log, parked, accepted,
                       raced, torn>>
        /\ ~ At(p, "waiting") /\ ~ Enqueue(p)
    BY <1>3 DEF Send, Push, Closed, Enqueue, At, brokerVars, workerVars, reach, channel, world,
                ghosts
  <2>2. /\ \E s \in ProcStates : /\ Moves(p, s) /\ s.pc \in {"push", "await", "wake", "idle"}
                                 /\ s.kept = <<>> /\ (s.pc # "idle" => s.env = Env(p))
        /\ frames' \in Seq(Envelopes) /\ Len(frames') <= FrameCap /\ sink' \in BOOLEAN
        /\ outcome' \in [Envelopes -> {None, "Delivered", "Queued", "Rejected"}]
        /\ \A e \in Envelopes : outcome'[e] = "Delivered" => outcome[e] = "Delivered"
    <3>1. \A c \in {"push", "await", "wake"} : Goto(p, c) =>
              \E s \in ProcStates : /\ Moves(p, s) /\ s.pc = c /\ s.env = Env(p)
                                    /\ s.kept = <<>>
      <4> SUFFICES ASSUME NEW c \in {"push", "await", "wake"}, Goto(p, c)
                   PROVE  \E s \in ProcStates : /\ Moves(p, s) /\ s.pc = c /\ s.env = Env(p)
                                                /\ s.kept = <<>>
        OBVIOUS
      <4>1. c \in PCs
        BY DEF PCs
      <4> QED
        BY <1>1, <4>1, GotoMoves
    <3>2. \/ Goto(p, "push") /\ UNCHANGED <<frames, sink, outcome>>
          \/ /\ Goto(p, "await") /\ UNCHANGED <<sink, outcome>>
             /\ frames' = Append(frames, Env(p)) /\ Len(frames) < FrameCap
          \/ /\ Goto(p, "wake") /\ frames' = frames /\ sink' \in {sink, FALSE}
             /\ outcome' = [outcome EXCEPT ![Env(p)] = "Queued"]
          \/ proc' = [proc EXCEPT ![p] = AtRest] /\ UNCHANGED <<frames, sink, outcome>>
      <4>1. ASSUME Send(p), up, proc[p].drain PROVE Goto(p, "push")
        BY <4>1 DEF Send, Goto
      <4> QED
        BY <1>3, <4>1 DEF Send, Push, Closed, workerVars, reach, channel
    <3>3. CASE Goto(p, "push") /\ UNCHANGED <<frames, sink, outcome>>
      BY <1>1, <3>1, <3>3 DEF Typed
    <3>4. CASE /\ Goto(p, "await") /\ UNCHANGED <<sink, outcome>>
               /\ frames' = Append(frames, Env(p)) /\ Len(frames) < FrameCap
      <4>1. frames \in Seq(Envelopes) /\ Len(frames) \in Nat /\ FrameCap \in Nat
        BY <1>1, PeerAssumption DEF Typed
      <4>2. frames' \in Seq(Envelopes) /\ Len(frames') = Len(frames) + 1
        BY <1>1, <3>4, <4>1
      <4>3. Len(frames') <= FrameCap
        BY <3>4, <4>1, <4>2
      <4> QED
        BY <1>1, <3>1, <3>4, <4>2, <4>3 DEF Typed
    <3>5. CASE /\ Goto(p, "wake") /\ frames' = frames /\ sink' \in {sink, FALSE}
               /\ outcome' = [outcome EXCEPT ![Env(p)] = "Queued"]
      <4>1. /\ outcome' \in [Envelopes -> {None, "Delivered", "Queued", "Rejected"}]
            /\ \A e \in Envelopes : outcome'[e] = "Delivered" => outcome[e] = "Delivered"
        BY <1>1, <3>5 DEF Typed
      <4> QED
        BY <1>1, <3>1, <3>5, <4>1 DEF Typed
    <3>6. CASE proc' = [proc EXCEPT ![p] = AtRest] /\ UNCHANGED <<frames, sink, outcome>>
      <4>1. Moves(p, AtRest)
        BY <1>1, <3>6, AtRestTyped, BecomesMoves
      <4> QED
        BY <1>1, <3>6, <4>1, AtRestTyped DEF Typed
    <3> QED
      BY <3>2, <3>3, <3>4, <3>5, <3>6
  <2>3. PICK s \in ProcStates : /\ Moves(p, s) /\ s.pc \in {"push", "await", "wake", "idle"}
                                /\ s.kept = <<>> /\ (s.pc # "idle" => s.env = Env(p))
    BY <2>2
  <2>4. Typed'
    BY <1>1, <2>1, <2>2, <2>3 DEF Typed, Moves
  <2>5. Holds'
    BY <1>1, <2>3, HoldsStays
  <2>6. WaitersWait'
    BY <1>1, <2>1, <2>3, WaitersStay
  <2>7. Folds'
    BY <1>1, <2>1, <2>2, <2>3, FoldsStays
  <2> QED
    BY <2>1, <2>3, <2>4, <2>5, <2>6, <2>7 DEF Base
<1> QED
  BY <1>2, <1>3

\* await_fold, and what ends a wait for want of an answer.
LEMMA WaitingKeepsBase ==
    ASSUME Base, NEW p \in Procs, Await(p) \/ GiveUp(p)
    PROVE  /\ Base'
           /\ \E s \in ProcStates : /\ Moves(p, s) /\ s.kept = <<>>
                                    /\ s.pc \in {"advance", "waiting", "wake", "idle"}
<1> USE EnvelopeIsSome
<1>1. /\ Typed /\ Holds /\ WaitersWait /\ Folds
      /\ Env(p) \in Envelopes /\ proc[p].kept = <<>> /\ p # None
  BY ProcTyped, ProcsAssumption DEF Base, Holds, At, Await, GiveUp, GivesUp
<1>2. CASE Await(p) /\ Env(p) \in confirmed
  <2>1. /\ UNCHANGED <<inbox, waiters, up, sink, pump, frames, queue, busy, log, parked,
                       outcome, accepted, torn, raced>>
        /\ confirmed' = confirmed \ {Env(p)} /\ Goto(p, "advance") /\ At(p, "await")
    BY <1>2 DEF Await, ghosts, workerVars, reach, channel, world
  <2>2. PICK s \in ProcStates : /\ Moves(p, s) /\ s.pc = "advance" /\ s.env = Env(p)
                                /\ s.kept = proc[p].kept
    BY <1>1, <2>1, GotoMoves DEF PCs
  <2>3. Typed'
    BY <1>1, <2>1, <2>2 DEF Typed, Moves
  <2>4. Holds'
    BY <1>1, <2>2, HoldsStays
  <2>5. WaitersWait'
    BY <1>1, <2>1, <2>2, WaitersStay DEF At
  <2>6. Folds'
    <3>1. Env(p) \in Logged
      BY <1>1, <1>2 DEF Folds
    <3> QED
      BY <1>1, <2>1, <2>2, <3>1, FoldsStays
  <2> QED
    BY <1>1, <2>2, <2>3, <2>4, <2>5, <2>6 DEF Base
<1>3. CASE Await(p) /\ Env(p) \notin confirmed
  <2>1. /\ UNCHANGED <<inbox, confirmed, up, sink, pump, frames, queue, busy, log, parked,
                       outcome, accepted, torn, raced>>
        /\ waiters' = [waiters EXCEPT ![Env(p)] = p] /\ Goto(p, "waiting") /\ At(p, "await")
    BY <1>3 DEF Await, ghosts, workerVars, reach, channel, world
  <2>2. PICK s \in ProcStates : /\ Moves(p, s) /\ s.pc = "waiting" /\ s.env = Env(p)
                                /\ s.kept = proc[p].kept
    BY <1>1, <2>1, GotoMoves DEF PCs
  <2>3. Typed'
    BY <1>1, <2>1, <2>2 DEF Typed, Moves
  <2>4. Holds'
    BY <1>1, <2>2, HoldsStays
  <2>5. WaitersWait'
    <3> SUFFICES ASSUME NEW e \in Envelopes, waiters'[e] # None
                 PROVE  proc'[waiters'[e]].pc = "waiting" /\ proc'[waiters'[e]].env = e
      BY DEF WaitersWait, At, Env
    <3>1. CASE e = Env(p)
      <4>1. waiters'[e] = p
        BY <1>1, <2>1, <3>1 DEF Typed
      <4> QED
        BY <2>2, <3>1, <4>1 DEF Moves
    <3>2. CASE e # Env(p)
      <4>1. waiters'[e] = waiters[e] /\ waiters[e] \in Procs
        BY <1>1, <2>1, <3>2 DEF Typed
      <4>2. waiters[e] # p
        BY <1>1, <3>2, <4>1 DEF WaitersWait
      <4> QED
        BY <1>1, <2>2, <4>1, <4>2 DEF Moves, WaitersWait, At, Env
    <3> QED
      BY <3>1, <3>2
  <2>6. Folds'
    BY <1>1, <2>1, <2>2, FoldsStays
  <2> QED
    BY <1>1, <2>2, <2>3, <2>4, <2>5, <2>6 DEF Base
<1>4. CASE GiveUp(p)
  <2>1. /\ UNCHANGED <<inbox, confirmed, up, sink, pump, frames, queue, busy, log, parked,
                       accepted, torn, raced>>
        /\ waiters' = [waiters EXCEPT ![Env(p)] = None] /\ At(p, "waiting")
    BY <1>4 DEF GiveUp, GivesUp, Cleared, ghosts, workerVars, reach, channel, world
  <2>2. /\ \E s \in ProcStates : /\ Moves(p, s) /\ s.pc \in {"wake", "idle"}
                                 /\ s.kept = <<>> /\ (s.pc # "idle" => s.env = Env(p))
        /\ outcome' \in [Envelopes -> {None, "Delivered", "Queued", "Rejected"}]
        /\ \A e \in Envelopes : outcome'[e] = "Delivered" => outcome[e] = "Delivered"
    <3>1. CASE proc[p].drain
      <4>1. proc' = [proc EXCEPT ![p] = AtRest] /\ outcome' = outcome
        BY <1>4, <3>1 DEF GiveUp
      <4>2. Moves(p, AtRest)
        BY <1>1, <4>1, AtRestTyped, BecomesMoves
      <4> QED
        BY <1>1, <4>1, <4>2, AtRestTyped DEF Typed
    <3>2. CASE ~ proc[p].drain
      <4>1. Goto(p, "wake") /\ outcome' = [outcome EXCEPT ![Env(p)] = "Queued"]
        BY <1>4, <3>2 DEF GiveUp
      <4>2. PICK s \in ProcStates : /\ Moves(p, s) /\ s.pc = "wake" /\ s.env = Env(p)
                                    /\ s.kept = proc[p].kept
        BY <1>1, <4>1, GotoMoves DEF PCs
      <4>3. /\ outcome' \in [Envelopes -> {None, "Delivered", "Queued", "Rejected"}]
            /\ \A e \in Envelopes : outcome'[e] = "Delivered" => outcome[e] = "Delivered"
        BY <1>1, <4>1 DEF Typed
      <4> QED
        BY <1>1, <4>2, <4>3
    <3> QED
      BY <3>1, <3>2
  <2>3. PICK s \in ProcStates : /\ Moves(p, s) /\ s.pc \in {"wake", "idle"}
                                /\ s.kept = <<>> /\ (s.pc # "idle" => s.env = Env(p))
    BY <2>2
  <2>4. Typed'
    BY <1>1, <2>1, <2>2, <2>3 DEF Typed, Moves
  <2>5. Holds'
    BY <1>1, <2>3, HoldsStays
  <2>6. WaitersWait'
    <3> SUFFICES ASSUME NEW e \in Envelopes, waiters'[e] # None
                 PROVE  proc'[waiters'[e]].pc = "waiting" /\ proc'[waiters'[e]].env = e
      BY DEF WaitersWait, At, Env
    <3>1. e # Env(p) /\ waiters'[e] = waiters[e] /\ waiters[e] \in Procs
      BY <1>1, <2>1 DEF Typed
    <3>2. waiters[e] # p
      BY <1>1, <3>1 DEF WaitersWait
    <3> QED
      BY <1>1, <2>3, <3>1, <3>2 DEF Moves, WaitersWait, At, Env
  <2>7. Folds'
    BY <1>1, <2>1, <2>2, <2>3, FoldsStays
  <2> QED
    BY <2>3, <2>4, <2>5, <2>6, <2>7 DEF Base
<1> QED
  BY <1>2, <1>3, <1>4

\* What Mailbox::advance does to the process: it is to truncate the inbox, to write the rest
\* back, or it is done, and its sender is told so.
LEMMA AdvancingMoves ==
    ASSUME Base, NEW p \in Procs, Advance(p) \/ Truncate(p) \/ Rewrite(p)
    PROVE  /\ Env(p) \in Envelopes /\ Env(p) \in Logged
           /\ outcome' \in [Envelopes -> {None, "Delivered", "Queued", "Rejected"}]
           /\ \A e \in Envelopes : outcome'[e] = outcome[e] \/ e = Env(p)
           /\ \E s \in ProcStates :
                 /\ Moves(p, s)
                 /\ \/ s.pc \in {"idle", "head"} /\ s.kept = <<>>
                    \/ /\ Advance(p) /\ Contains(inbox, Env(p))
                       /\ s.pc = "truncate" /\ s.env = Env(p) /\ s.kept = Kept(Env(p))
                    \/ /\ Truncate(p) /\ proc[p].kept # <<>>
                       /\ s.pc = "rewrite" /\ s.env = Env(p) /\ s.kept = proc[p].kept
                 /\ Truncate(p) /\ proc[p].kept # <<>> => s.pc = "rewrite"
<1> USE EnvelopeIsSome
<1>1. /\ Typed /\ Env(p) \in Envelopes /\ Env(p) \in Logged /\ Env(p) # NoEnv
      /\ outcome \in [Envelopes -> {None, "Delivered", "Queued", "Rejected"}]
      /\ proc[p].pc \in {"advance", "truncate", "rewrite"}
  <2>1. Typed /\ Holds /\ Folds /\ proc[p].pc \in {"advance", "truncate", "rewrite"}
    BY DEF Base, Advance, Truncate, Rewrite, At
  <2> QED
    BY <2>1, ProcTyped DEF Holds, Folds, Typed
<1>2. CASE Advanced(p) /\ ~ (Truncate(p) /\ proc[p].kept # <<>>)
  BY <1>1, <1>2, AdvancedMoves
<1>3. CASE Advance(p) /\ Contains(inbox, Env(p))
  <2> DEFINE s == [proc[p] EXCEPT !.pc = "truncate", !.kept = Kept(Env(p))]
  <2>1. proc' = [proc EXCEPT ![p] = s] /\ outcome' = outcome /\ proc[p].pc = "advance"
    BY <1>1, <1>3 DEF Advance, Typed, At
  <2>2. Kept(Env(p)) \in Seq(Envelopes) /\ proc[p] \in ProcStates
    BY <1>1, <1>3, RestOfInbox, ProcTyped DEF Typed
  <2>3. s \in ProcStates /\ s.pc = "truncate" /\ s.env = Env(p) /\ s.kept = Kept(Env(p))
    BY <2>2 DEF ProcStates, PCs, Env
  <2> HIDE DEF s
  <2>4. Moves(p, s)
    BY <1>1, <2>1, <2>3, BecomesMoves
  <2>5. ~ Truncate(p)
    BY <2>1 DEF Truncate, At
  <2> QED
    BY <1>1, <1>3, <2>1, <2>3, <2>4, <2>5
<1>4. CASE Truncate(p) /\ proc[p].kept # <<>>
  <2>1. Goto(p, "rewrite") /\ outcome' = outcome
    BY <1>4 DEF Truncate
  <2>2. PICK s \in ProcStates : /\ Moves(p, s) /\ s.pc = "rewrite" /\ s.env = Env(p)
                                /\ s.kept = proc[p].kept
    BY <1>1, <2>1, GotoMoves DEF PCs
  <2> QED
    BY <1>1, <1>4, <2>1, <2>2
<1>5. \/ Advanced(p) /\ ~ (Truncate(p) /\ proc[p].kept # <<>>)
      \/ Advance(p) /\ Contains(inbox, Env(p))
      \/ Truncate(p) /\ proc[p].kept # <<>>
  BY DEF Advance, Truncate, Rewrite, At
<1> QED
  BY <1>2, <1>3, <1>4, <1>5

\* Mailbox::advance.
LEMMA AdvancingKeepsBase ==
    ASSUME Base, NEW p \in Procs, Advance(p) \/ Truncate(p) \/ Rewrite(p)
    PROVE  Base'
<1> USE EnvelopeIsSome
<1>1. /\ Typed /\ Holds /\ WaitersWait /\ Folds /\ ~ At(p, "waiting")
  BY DEF Base, Advance, Truncate, Rewrite, At
<1>2. /\ UNCHANGED <<waiters, confirmed, up, sink, pump, frames, queue, busy, log, parked,
                     accepted, torn>>
  BY DEF Advance, Truncate, Rewrite, workerVars, reach, channel, world, ghosts
<1>3. PICK s \in ProcStates :
          /\ Moves(p, s)
          /\ \/ s.pc \in {"idle", "head"} /\ s.kept = <<>>
             \/ s.pc \in {"truncate", "rewrite"} /\ s.env = Env(p)
  BY AdvancingMoves
<1>4. Typed'
  <2>1. inbox' \in Seq(Envelopes) /\ raced' \in BOOLEAN
    <3>1. /\ proc[p].kept \in Seq(Envelopes) /\ inbox \in Seq(Envelopes)
          /\ raced \in BOOLEAN /\ <<>> \in Seq(Envelopes)
      BY <1>1, ProcTyped DEF Typed
    <3> QED
      BY <3>1 DEF Advance, Reads, Truncate, Rewrite, ghosts
  <2>2. outcome' \in [Envelopes -> {None, "Delivered", "Queued", "Rejected"}]
    BY AdvancingMoves
  <2> QED
    BY <1>1, <1>2, <1>3, <2>1, <2>2 DEF Typed, Moves
<1>5. Holds'
  <2>1. Env(p) # NoEnv
    BY AdvancingMoves
  <2> QED
    BY <1>1, <1>3, <2>1, HoldsStays
<1>6. WaitersWait'
  BY <1>1, <1>2, <1>3, WaitersStay
<1>7. Folds'
  <2>1. Env(p) \in Logged /\ \A e \in Envelopes : outcome'[e] = outcome[e] \/ e = Env(p)
    BY AdvancingMoves
  <2> QED
    BY <1>1, <1>2, <1>3, <2>1, FoldsStays
<1> QED
  BY <1>4, <1>5, <1>6, <1>7 DEF Base

\* ensure_active and drain_peer_inbox.
LEMMA DrainKeepsBase ==
    ASSUME Base, NEW p \in Procs, Wake(p) \/ BeginDrain(p) \/ DrainHead(p)
    PROVE  /\ Base'
           /\ ~ Writing(p) /\ UNCHANGED <<inbox, log, accepted, raced, torn>>
           /\ \E s \in ProcStates : /\ Moves(p, s) /\ s.pc \in {"idle", "head", "send"}
                                    /\ s.kept = <<>>
<1> USE EnvelopeIsSome
<1>1. /\ Typed /\ Holds /\ WaitersWait /\ Folds /\ ~ At(p, "waiting") /\ ~ Writing(p)
      /\ proc[p].kept = <<>> /\ proc[p] \in ProcStates
  BY ProcTyped DEF Base, Wake, BeginDrain, DrainHead, At, Writing, Holds
<1>2. /\ UNCHANGED <<inbox, waiters, confirmed, pump, frames, queue, busy, log, parked, outcome,
                     accepted, torn, raced>>
      /\ up' \in BOOLEAN /\ sink' \in BOOLEAN
  BY <1>1 DEF Wake, BeginDrain, DrainHead, Starts, workerVars, reach, channel, world,
              brokerVars, ghosts, Typed
<1>3. \E s \in ProcStates :
          /\ proc' = [proc EXCEPT ![p] = s]
          /\ s.pc \in {"idle", "head"} \/ (s.pc = "send" /\ s.env \in Envelopes)
          /\ s.kept = <<>>
  <2>1. CASE DrainHead(p) /\ inbox # <<>>
    <3> DEFINE s == [proc[p] EXCEPT !.pc = "send", !.env = Head(inbox)]
    <3>1. Head(inbox) \in Envelopes
      BY <1>1, <2>1 DEF Typed
    <3>2. s \in ProcStates /\ s.pc = "send" /\ s.env \in Envelopes /\ s.kept = <<>>
      BY <1>1, <3>1 DEF ProcStates, PCs
    <3>3. proc' = [proc EXCEPT ![p] = s]
      BY <2>1 DEF DrainHead, HeadOf
    <3> QED
      BY <3>2, <3>3
  <2>2. CASE ~ (DrainHead(p) /\ inbox # <<>>)
    <3>1. \/ proc' = [proc EXCEPT ![p] = AtRest]
          \/ proc' = [proc EXCEPT ![p] = [AtRest EXCEPT !.pc = "head", !.drain = TRUE]]
      BY <2>2 DEF Wake, BeginDrain, DrainHead, HeadOf, Starts
    <3>2. PICK s \in {AtRest, [AtRest EXCEPT !.pc = "head", !.drain = TRUE]} :
              proc' = [proc EXCEPT ![p] = s]
      BY <3>1
    <3>3. s \in ProcStates /\ s.pc \in {"idle", "head"} /\ s.kept = <<>>
      BY AtRestTyped
    <3> QED
      BY <3>2, <3>3
  <2> QED
    BY <2>1, <2>2
<1>4. PICK s \in ProcStates :
          /\ Moves(p, s)
          /\ s.pc \in {"idle", "head"} \/ (s.pc = "send" /\ s.env \in Envelopes)
          /\ s.kept = <<>>
  BY <1>1, <1>3, BecomesMoves
<1>5. Typed'
  BY <1>1, <1>2, <1>4 DEF Typed, Moves
<1>6. Holds'
  BY <1>1, <1>4, HoldsStays
<1>7. WaitersWait'
  BY <1>1, <1>2, <1>4, WaitersStay
<1>8. Folds'
  BY <1>1, <1>2, <1>4, FoldsStays
<1> QED
  BY <1>1, <1>2, <1>4, <1>5, <1>6, <1>7, <1>8 DEF Base

\* confirm_fold: the waiter goes on, or the confirmation is kept.
LEMMA ConfirmMoves ==
    ASSUME Base, ConfirmFold
    PROVE  /\ Base'
           /\ UNCHANGED <<inbox, log, accepted, raced, torn>>
           /\ \/ proc' = proc
              \/ \E p \in Procs, s \in ProcStates :
                    /\ Moves(p, s) /\ ~ Writing(p) /\ s.pc = "advance" /\ s.kept = <<>>
<1> USE EnvelopeIsSome
<1>1. /\ Typed /\ Holds /\ WaitersWait /\ Folds /\ busy \in Envelopes /\ busy \in Logged
  BY DEF Base, ConfirmFold, Folds, Typed
<1>2. /\ UNCHANGED <<inbox, up, sink, pump, frames, queue, log, parked, outcome, accepted, torn,
                     raced>>
      /\ busy' = NoEnv
      /\ waiters' = [waiters EXCEPT ![busy] = None]
  BY DEF ConfirmFold, reach, channel, ghosts
<1>3. CASE Resolves(busy)
  <2> DEFINE p == waiters[busy]
  <2>1. p \in Procs /\ At(p, "waiting") /\ Env(p) = busy /\ proc[p].kept = <<>> /\ ~ Writing(p)
    BY <1>1, <1>3 DEF Resolves, WaitersWait, Typed, Holds, At, Writing
  <2>2. Goto(p, "advance") /\ confirmed' = confirmed
    BY <1>3 DEF ConfirmFold
  <2> HIDE DEF p
  <2>3. PICK s \in ProcStates : /\ Moves(p, s) /\ s.pc = "advance" /\ s.env = Env(p)
                                /\ s.kept = proc[p].kept
    BY <1>1, <2>1, <2>2, GotoMoves DEF PCs
  <2>4. Typed'
    BY <1>1, <1>2, <2>2, <2>3 DEF Typed, Moves
  <2>5. Holds'
    BY <1>1, <2>1, <2>3, HoldsStays
  <2>6. WaitersWait'
    <3> SUFFICES ASSUME NEW e \in Envelopes, waiters'[e] # None
                 PROVE  proc'[waiters'[e]].pc = "waiting" /\ proc'[waiters'[e]].env = e
      BY DEF WaitersWait, At, Env
    <3>1. e # busy /\ waiters'[e] = waiters[e] /\ waiters[e] \in Procs
      BY <1>1, <1>2 DEF Typed
    <3>2. waiters[e] # p
      BY <1>1, <2>1, <3>1 DEF WaitersWait
    <3>3. proc'[waiters[e]] = proc[waiters[e]]
      BY <2>3, <3>1, <3>2 DEF Moves
    <3>4. At(waiters[e], "waiting") /\ Env(waiters[e]) = e
      BY <1>1, <3>1 DEF WaitersWait
    <3> QED
      BY <3>1, <3>3, <3>4 DEF At, Env
  <2>7. Folds'
    BY <1>1, <1>2, <2>1, <2>2, <2>3, FoldsStays
  <2> QED
    BY <1>2, <2>1, <2>3, <2>4, <2>5, <2>6, <2>7 DEF Base
<1>4. CASE ~ Resolves(busy)
  <2>1. proc' = proc /\ confirmed' = confirmed \cup {busy}
    BY <1>4 DEF ConfirmFold
  <2>2. Typed'
    BY <1>1, <1>2, <2>1 DEF Typed
  <2>3. Holds'
    BY <1>1, <2>1 DEF Holds, Env
  <2>4. WaitersWait'
    <3> SUFFICES ASSUME NEW e \in Envelopes, waiters'[e] # None
                 PROVE  proc'[waiters'[e]].pc = "waiting" /\ proc'[waiters'[e]].env = e
      BY DEF WaitersWait, At, Env
    <3>1. e # busy /\ waiters'[e] = waiters[e]
      BY <1>1, <1>2 DEF Typed
    <3> QED
      BY <1>1, <2>1, <3>1 DEF WaitersWait, At, Env
  <2>5. Folds'
    BY <1>1, <1>2, <2>1 DEF Folds, Env, Logged
  <2> QED
    BY <1>2, <2>1, <2>2, <2>3, <2>4, <2>5 DEF Base
<1> QED
  BY <1>3, <1>4

\* A World in memory that is lost has been replayed when it is opened again.
LEMMA ReplayedWorld ==
    ASSUME Typed, Folds, parked' = [e \in Envelopes |-> Replayed(log[e])]
    PROVE  parked' \in [Envelopes -> Nat] /\ parked' = parked
<1>1. \A e \in Envelopes : log[e] \in Nat /\ Replayed(log[e]) = parked[e]
  BY ReplayedIs DEF Typed, Folds
<1> QED
  BY <1>1 DEF Typed

\* The World records an envelope and folds it (apply_drive).
LEMMA FoldKeepsBase ==
    ASSUME Base, Fold
    PROVE  Base' /\ UNCHANGED <<proc, inbox, accepted, raced, torn>> /\ Logged \subseteq Logged'
<1> DEFINE e == Head(queue)
<1>1. /\ Typed /\ Holds /\ WaitersWait /\ Folds
      /\ e \in Envelopes /\ Tail(queue) \in Seq(Envelopes)
  BY DEF Base, Fold, Typed
<1>2. /\ UNCHANGED <<proc, inbox, waiters, confirmed, up, sink, pump, frames, outcome, accepted,
                     torn, raced>>
      /\ queue' = Tail(queue) /\ busy' = e /\ log' = [log EXCEPT ![e] = @ + 1]
      /\ parked' = [parked EXCEPT ![e] = Applied(@)]
  BY DEF Fold, ghosts, brokerVars, reach, channel
<1> HIDE DEF e
<1>3. /\ log' \in [Envelopes -> Nat] /\ parked' \in [Envelopes -> Nat]
      /\ \A f \in Envelopes : parked'[f] = IF log'[f] > 0 THEN 1 ELSE 0
      /\ e \in Logged' /\ Logged \subseteq Logged'
  BY <1>1, <1>2 DEF Typed, Folds, Applied, Logged
<1>4. Typed'
  BY <1>1, <1>2, <1>3 DEF Typed
<1>5. Holds' /\ WaitersWait'
  BY <1>1, <1>2 DEF Holds, WaitersWait, Env, At
<1>6. Folds'
  BY <1>1, <1>2, <1>3 DEF Folds, Env
<1> QED
  BY <1>2, <1>3, <1>4, <1>5, <1>6 DEF Base

\* The pump works, the submit fails, or the worker crashes: the log is as it was.
LEMMA WorkerKeepsBase ==
    ASSUME Base, Connect \/ PumpWrite \/ PumpAsks \/ Captured \/ SubmitFails \/ WorkerCrash
    PROVE  Base' /\ UNCHANGED <<proc, inbox, log, accepted, raced, torn>>
<1>1. /\ Typed /\ Holds /\ WaitersWait /\ Folds /\ <<>> \in Seq(Envelopes)
  BY DEF Base
<1>2. /\ UNCHANGED <<proc, inbox, waiters, confirmed, up, sink, log, outcome, accepted, torn,
                     raced>>
      /\ pump' \in {"off", "on", "asking"} /\ busy' \in {busy, NoEnv}
  BY <1>1 DEF Connect, PumpWrite, PumpAsks, Captured, SubmitFails, WorkerCrash, Loses, ghosts,
              brokerVars, reach, channel, world, Typed
<1>3. parked' = parked
  <2>1. CASE WorkerCrash
    BY <1>1, <2>1, ReplayedWorld DEF WorkerCrash, Loses
  <2>2. CASE ~ WorkerCrash
    BY <2>2 DEF Connect, PumpWrite, PumpAsks, Captured, SubmitFails, world
  <2> QED
    BY <2>1, <2>2
<1>4. frames' \in Seq(Envelopes) /\ Len(frames') <= FrameCap /\ queue' \in Seq(Envelopes)
  <2>1. CASE PumpWrite
    <3>1. /\ frames \in Seq(Envelopes) /\ queue \in Seq(Envelopes) /\ frames # <<>>
          /\ frames' = Tail(frames) /\ queue' \in {queue, Append(queue, Head(frames))}
      BY <1>1, <2>1 DEF PumpWrite, Typed
    <3>2. /\ Head(frames) \in Envelopes /\ Tail(frames) \in Seq(Envelopes)
          /\ Len(Tail(frames)) = Len(frames) - 1
      BY <3>1
    <3>3. Append(queue, Head(frames)) \in Seq(Envelopes)
      BY <3>1, <3>2
    <3>4. Len(frames) \in Nat /\ Len(frames) <= FrameCap /\ FrameCap \in Nat
      BY <1>1, <3>1, PeerAssumption DEF Typed
    <3> QED
      BY <3>1, <3>2, <3>3, <3>4
  <2>2. CASE ~ PumpWrite
    <3>1. frames' = frames /\ queue' \in {queue, <<>>}
      BY <2>2 DEF Connect, PumpAsks, Captured, SubmitFails, WorkerCrash, Loses, channel, world
    <3> QED
      BY <1>1, <3>1 DEF Typed
  <2> QED
    BY <2>1, <2>2
<1>5. Typed'
  BY <1>1, <1>2, <1>3, <1>4 DEF Typed
<1>6. Holds' /\ WaitersWait'
  BY <1>1, <1>2 DEF Holds, WaitersWait, Env, At
<1>7. Folds'
  BY <1>1, <1>2, <1>3 DEF Folds, Env, Logged
<1> QED
  BY <1>2, <1>5, <1>6, <1>7 DEF Base

\* tombstone_app: who waits for room finds the channel closed, and nothing else of a process
\* changes.
LEMMA StopKeepsBase ==
    ASSUME Base, Stop
    PROVE  /\ Base' /\ UNCHANGED <<inbox, log, accepted, raced, torn>>
           /\ \A p \in Procs : \/ proc'[p] = proc[p]
                               \/ /\ proc'[p].pc = "closed" /\ At(p, "push")
                                  /\ proc'[p].kept = proc[p].kept
<1>1. /\ Typed /\ Holds /\ WaitersWait /\ Folds /\ <<>> \in Seq(Envelopes)
  BY DEF Base
<1>2. /\ UNCHANGED <<inbox, waiters, confirmed, log, outcome, accepted, torn, raced>>
      /\ pump' = "off" /\ busy' = NoEnv /\ up' = FALSE /\ sink' = FALSE
      /\ frames' = <<>> /\ queue' = <<>>
  BY DEF Stop, Loses, ghosts, brokerVars
<1>3. parked' = parked
  BY <1>1, ReplayedWorld DEF Stop, Loses
<1>4. /\ proc' \in [Procs -> ProcStates]
      /\ \A p \in Procs : \/ proc'[p] = proc[p]
                          \/ /\ proc'[p].pc = "closed" /\ At(p, "push")
                             /\ proc'[p].kept = proc[p].kept /\ proc'[p].env = proc[p].env
  <2>1. proc' = [p \in Procs |-> IF At(p, "push") THEN [proc[p] EXCEPT !.pc = "closed"]
                                 ELSE proc[p]]
    BY DEF Stop
  <2>2. ASSUME NEW p \in Procs
        PROVE  /\ [proc[p] EXCEPT !.pc = "closed"] \in ProcStates
               /\ [proc[p] EXCEPT !.pc = "closed"].pc = "closed"
               /\ [proc[p] EXCEPT !.pc = "closed"].kept = proc[p].kept
               /\ [proc[p] EXCEPT !.pc = "closed"].env = proc[p].env
    <3>1. proc[p] \in ProcStates
      BY <1>1, ProcTyped
    <3> QED
      BY <3>1 DEF ProcStates, PCs
  <2> QED
    BY <1>1, <2>1, <2>2, ProcTyped
<1>5. Typed'
  <2>1. Len(frames') <= FrameCap
    BY <1>2, PeerAssumption
  <2> QED
    BY <1>1, <1>2, <1>3, <1>4, <2>1 DEF Typed
<1>6. Holds'
  BY <1>1, <1>4 DEF Holds, Env, At
<1>7. WaitersWait'
  <2> SUFFICES ASSUME NEW e \in Envelopes, waiters[e] # None
               PROVE  proc'[waiters[e]].pc = "waiting" /\ proc'[waiters[e]].env = e
    BY <1>2 DEF WaitersWait, At, Env
  <2>1. waiters[e] \in Procs /\ At(waiters[e], "waiting") /\ Env(waiters[e]) = e
    BY <1>1 DEF WaitersWait, Typed
  <2>2. proc'[waiters[e]] = proc[waiters[e]]
    BY <1>4, <2>1 DEF At
  <2> QED
    BY <2>1, <2>2 DEF At, Env
<1>8. Folds'
  <2>1. Logged' = Logged
    BY <1>2 DEF Logged
  <2>2. \A p \in Procs : proc'[p].pc \in {"advance", "truncate", "rewrite"} => proc'[p] = proc[p]
    BY <1>4
  <2> QED
    BY <1>1, <1>2, <1>3, <2>1, <2>2 DEF Folds, Env
<1> QED
  BY <1>2, <1>4, <1>5, <1>6, <1>7, <1>8 DEF Base

\* The host crashes: the processes, the frames and the registry are gone, the files stay.
LEMMA HostCrashKeepsBase ==
    ASSUME Base, HostCrash
    PROVE  Base'
<1> USE EnvelopeIsSome
<1>1. Typed /\ Folds /\ <<>> \in Seq(Envelopes)
  BY DEF Base
<1>2. /\ proc' = [p \in Procs |-> AtRest] /\ frames' = <<>> /\ queue' = <<>> /\ pump' = "off"
      /\ busy' = NoEnv /\ up' = FALSE /\ sink' = FALSE /\ parked' = parked
      /\ waiters' = [e \in Envelopes |-> None] /\ confirmed' = {} /\ torn' \in BOOLEAN
      /\ UNCHANGED <<inbox, log, outcome, accepted, raced>>
  BY <1>1, ReplayedWorld DEF HostCrash, Loses, Typed
<1>3. Typed'
  <2>1. Len(frames') <= FrameCap
    BY <1>2, PeerAssumption
  <2> QED
    BY <1>1, <1>2, <2>1, AtRestTyped DEF Typed
<1>4. Holds' /\ WaitersWait'
  BY <1>2, AtRestTyped DEF Holds, WaitersWait
<1>5. Folds'
  BY <1>1, <1>2, AtRestTyped DEF Folds, Logged
<1> QED
  BY <1>3, <1>4, <1>5 DEF Base
-----------------------------------------------------------------------------
\* Every step keeps the mail.

\* What a step of one process does to what the processes hold.
LEMMA InHandMoves ==
    ASSUME NEW p \in Procs, NEW s, Moves(p, s)
    PROVE  /\ ToSet(s.kept) \subseteq InHand'
           /\ InHand \subseteq InHand' \cup ToSet(proc[p].kept)
           /\ s.kept = proc[p].kept => InHand \subseteq InHand'
<1>1. \A q \in Procs : q # p => proc'[q].kept = proc[q].kept
  BY DEF Moves
<1>2. proc'[p].kept = s.kept
  BY DEF Moves
<1> QED
  BY <1>1, <1>2 DEF InHand

\* A step that neither reads nor writes the inbox.
LEMMA MailStays ==
    ASSUME MailKept, Holds, NEW p \in Procs, NEW s, Moves(p, s),
           ~ Writing(p), s.pc \notin {"append", "truncate", "rewrite"}, s.kept = <<>>,
           UNCHANGED <<inbox, accepted, torn>>, raced' = FALSE => raced = FALSE,
           raced' \in BOOLEAN, raced \in BOOLEAN,
           Logged \subseteq Logged'
    PROVE  MailKept'
<1> SUFFICES ASSUME ~ raced, ~ raced'
             PROVE  OneWriter' /\ InboxIsBounded' /\ (torn \/ Survives)'
  BY DEF MailKept
<1>1. OneWriter /\ InboxIsBounded /\ (torn \/ Survives)
  BY DEF MailKept
<1>2. /\ \A q \in Procs : Writing(q)' => q # p /\ Writing(q) /\ proc'[q] = proc[q]
      /\ \A q \in Procs : proc'[q].pc = "append" \/ proc'[q].pc = "truncate"
                          \/ proc'[q].pc = "rewrite" => Writing(q)'
  BY DEF Moves, Writing
<1>3. OneWriter'
  BY <1>1, <1>2 DEF OneWriter, At, Env, IsRest
<1>4. InboxIsBounded'
  BY <1>1 DEF InboxIsBounded
<1>5. (torn \/ Survives)'
  <2>1. proc[p].kept = s.kept
    BY DEF Holds, Writing
  <2>2. InHand \subseteq InHand'
    BY <2>1, InHandMoves
  <2> QED
    BY <1>1, <2>2 DEF Survives
<1> QED
  BY <1>3, <1>4, <1>5

\* relay_durable reads the inbox, and appends the envelope it did not find there.
LEMMA RelayKeepsMail ==
    ASSUME IInv, NEW p \in Procs, Relay(p)
    PROVE  MailKept'
<1>1. /\ Base /\ MailKept /\ Typed /\ Holds /\ ~ Writing(p)
      /\ UNCHANGED <<inbox, log, accepted, torn>>
      /\ raced' = (raced \/ \E q \in Procs \ {p} : Writing(q))
      /\ raced \in BOOLEAN /\ raced' \in BOOLEAN
  BY DEF IInv, Base, Relay, Reads, workerVars, reach, channel, world, At, Writing, Typed
<1> SUFFICES ASSUME ~ raced, ~ raced'
             PROVE  OneWriter' /\ InboxIsBounded' /\ (torn \/ Survives)'
  BY <1>1 DEF MailKept
<1>2. /\ OneWriter /\ InboxIsBounded /\ (torn \/ Survives)
      /\ \A q \in Procs : ~ Writing(q)
  BY <1>1 DEF MailKept
<1>3. PICK e \in Envelopes :
          IF Full(e)
          THEN UNCHANGED proc
          ELSE proc' = [proc EXCEPT ![p].env = e,
                            ![p].pc = IF Contains(inbox, e) THEN "send" ELSE "append"]
  BY DEF Relay
<1>4. CASE Full(e)
  BY <1>1, <1>2, <1>3, <1>4
     DEF OneWriter, InboxIsBounded, Survives, Logged, InHand, At, Env, Writing, IsRest
<1>5. CASE ~ Full(e)
  <2> DEFINE s == [proc[p] EXCEPT !.env = e, !.pc = IF Contains(inbox, e) THEN "send" ELSE "append"]
  <2>1. proc' = [proc EXCEPT ![p] = s]
    BY <1>1, <1>3, <1>5 DEF Typed
  <2>2. /\ s \in ProcStates /\ s.pc = (IF Contains(inbox, e) THEN "send" ELSE "append")
        /\ s.env = e /\ s.kept = proc[p].kept
    <3>1. proc[p] \in ProcStates
      BY <1>1, ProcTyped
    <3> QED
      BY <3>1 DEF ProcStates, PCs
  <2> HIDE DEF s
  <2>3. Moves(p, s)
    BY <1>1, <2>1, <2>2, BecomesMoves
  <2>4. OneWriter'
    <3>1. \A q \in Procs : proc'[q].pc \in {"append", "truncate", "rewrite"} =>
              /\ q = p /\ proc'[q].pc = "append" /\ proc'[q].env = e /\ ~ Contains(inbox, e)
      BY <1>2, <2>2, <2>3 DEF Moves, Writing
    <3>2. ~ Contains(inbox, e) => (Cap > 0 => Len(inbox) < Cap)
      BY <1>1, <1>5, PeerAssumption DEF Full, Typed
    <3> QED
      BY <1>1, <3>1, <3>2 DEF OneWriter, At, Env, Writing
  <2>5. InboxIsBounded'
    BY <1>1, <1>2 DEF InboxIsBounded
  <2>6. (torn \/ Survives)'
    BY <1>1, <1>2, <2>2, <2>3, InHandMoves DEF Survives, Logged
  <2> QED
    BY <2>4, <2>5, <2>6
<1> QED
  BY <1>4, <1>5

\* enqueue_unique appends to the inbox it read.
LEMMA EnqueueKeepsMail ==
    ASSUME IInv, NEW p \in Procs, Enqueue(p)
    PROVE  MailKept'
<1>1. /\ Base /\ MailKept /\ Typed /\ Holds /\ Writing(p) /\ At(p, "append")
      /\ UNCHANGED <<log, torn, raced>> /\ accepted' = accepted \cup {Env(p)}
      /\ inbox' = Append(inbox, Env(p)) /\ Goto(p, "send")
  BY DEF IInv, Base, Enqueue, workerVars, reach, channel, world, At, Writing
<1> SUFFICES ASSUME ~ raced
             PROVE  OneWriter' /\ InboxIsBounded' /\ (torn \/ Survives)'
  BY <1>1 DEF MailKept
<1>2. /\ OneWriter /\ InboxIsBounded /\ (torn \/ Survives)
  BY <1>1 DEF MailKept
<1>3. Env(p) \in Envelopes
  BY <1>1, ProcTyped DEF Holds, At
<1>4. PICK s \in ProcStates : Moves(p, s) /\ s.pc = "send" /\ s.kept = proc[p].kept
  BY <1>1, GotoMoves DEF PCs
<1>5. OneWriter'
  <2>1. \A q \in Procs : proc'[q].pc \notin {"append", "truncate", "rewrite"}
    BY <1>1, <1>2, <1>4 DEF Moves, OneWriter, Writing
  <2> QED
    BY <2>1 DEF OneWriter, At, Writing
<1>6. InboxIsBounded'
  <2>1. ~ Contains(inbox, Env(p)) /\ (Cap > 0 => Len(inbox) < Cap)
    BY <1>1, <1>2 DEF OneWriter
  <2>2. IsInjective(inbox') /\ Len(inbox') = Len(inbox) + 1 /\ Len(inbox) \in Nat
    BY <1>1, <1>2, <1>3, <2>1, AppendContains DEF InboxIsBounded, Typed
  <2> QED
    BY <2>1, <2>2, PeerAssumption DEF InboxIsBounded
<1>7. (torn \/ Survives)'
  <2>1. ToSet(inbox') = ToSet(inbox) \cup {Env(p)}
    BY <1>1, <1>3, AppendContains DEF Typed
  <2> QED
    BY <1>1, <1>2, <1>4, <2>1, InHandMoves DEF Survives, Logged
<1> QED
  BY <1>5, <1>6, <1>7

\* Mailbox::advance reads the inbox, and writes back what it read but the envelope the log
\* holds.
LEMMA AdvancingKeepsMail ==
    ASSUME IInv, Base', NEW p \in Procs, Advance(p) \/ Truncate(p) \/ Rewrite(p)
    PROVE  MailKept'
<1>1. /\ Base /\ MailKept /\ Typed /\ Holds /\ Env(p) \in Envelopes
      /\ UNCHANGED <<log, torn, accepted>>
      /\ raced \in BOOLEAN /\ raced' \in BOOLEAN
      /\ inbox \in Seq(Envelopes)
      /\ Env(p) \in Logged /\ (raced => raced')
  BY AdvancingMoves 
     DEF IInv, Base, Advance, Truncate, Rewrite, workerVars, reach, channel, world, ghosts, Typed,
         Reads
<1> SUFFICES ASSUME ~ raced, ~ raced'
             PROVE  OneWriter' /\ InboxIsBounded' /\ (torn \/ Survives)'
  BY <1>1 DEF MailKept
<1>2. OneWriter /\ InboxIsBounded /\ (torn \/ Survives)
  BY <1>1 DEF MailKept
<1>3. \A q \in Procs : Writing(q) => q = p
  BY <1>1, <1>2 DEF Advance, Reads, Truncate, Rewrite, At, Writing, OneWriter
<1>4. PICK s \in ProcStates :
          /\ Moves(p, s)
          /\ \/ s.pc \in {"idle", "head"} /\ s.kept = <<>>
             \/ /\ Advance(p) /\ Contains(inbox, Env(p))
                /\ s.pc = "truncate" /\ s.env = Env(p) /\ s.kept = Kept(Env(p))
             \/ /\ Truncate(p) /\ proc[p].kept # <<>>
                /\ s.pc = "rewrite" /\ s.env = Env(p) /\ s.kept = proc[p].kept
          /\ Truncate(p) /\ proc[p].kept # <<>> => s.pc = "rewrite"
  BY <1>1, AdvancingMoves
<1>5. \A q \in Procs : proc'[q].pc \in {"append", "truncate", "rewrite"} => q = p
  BY <1>3, <1>4 DEF Moves, Writing
<1>6. CASE Advance(p)
  <2>1. inbox' = inbox /\ proc[p].kept = <<>>
    BY <1>1, <1>6 DEF Advance, Holds, At
  <2>2. InboxIsBounded'
    BY <1>2, <2>1 DEF InboxIsBounded
  <2>3. (torn \/ Survives)'
    <3>1. ToSet(proc[p].kept) = {}
      BY <2>1 DEF ToSet
    <3> QED
      BY <1>1, <1>2, <1>4, <2>1, <3>1, InHandMoves DEF Survives, Logged
  <2>4. OneWriter'
    <3>1. /\ s.pc \notin {"append", "rewrite"}
          /\ s.pc = "truncate" => IsRest(s.kept, inbox, s.env)
      BY <1>1, <1>2, <1>4, <1>6, RestOfInbox DEF Advance, Truncate, At
    <3>2. proc'[p] = s
      BY <1>4 DEF Moves
    <3>3. IsRest(s.kept, inbox, s.env) => IsRest(s.kept, inbox, s.env)'
      BY <2>1 DEF IsRest
    <3> QED
      BY <1>5, <2>1, <3>1, <3>2 DEF OneWriter, At, Env, Writing, IsRest
  <2> QED
    BY <2>2, <2>3, <2>4
<1>7. CASE Truncate(p)
  <2>1. inbox' = <<>> /\ IsRest(proc[p].kept, inbox, Env(p))
    BY <1>2, <1>7 DEF Truncate, OneWriter
  <2>2. InboxIsBounded'
    BY <2>1, PeerAssumption DEF InboxIsBounded, IsInjective
  <2>3. s.kept = proc[p].kept
    BY <1>4, <1>7 DEF Advance, Truncate, At
  <2>4. (torn \/ Survives)'
    <3>1. ToSet(inbox) \subseteq ToSet(s.kept) \cup {Env(p)}
      BY <2>1, <2>3 DEF IsRest
    <3>2. ToSet(s.kept) \subseteq InHand' /\ InHand \subseteq InHand'
      BY <1>4, <2>3, InHandMoves
    <3> QED
      BY <1>1, <1>2, <3>1, <3>2 DEF Survives, Logged
  <2>5. OneWriter'
    <3>1. proc'[p] = s /\ s.pc \notin {"append", "truncate"}
      BY <1>4, <1>7 DEF Moves, Advance, Truncate, At
    <3>2. IsInjective(s.kept) /\ (Cap > 0 => Len(s.kept) <= Cap)
      BY <2>1, <2>3 DEF IsRest
    <3> QED
      BY <1>5, <2>1, <3>1, <3>2 DEF OneWriter, At, Env, Writing
  <2> QED
    BY <2>2, <2>4, <2>5
<1>8. CASE Rewrite(p)
  <2>1. /\ inbox' = proc[p].kept /\ inbox = <<>> /\ IsInjective(proc[p].kept)
        /\ Cap > 0 => Len(proc[p].kept) <= Cap
    BY <1>2, <1>8 DEF Rewrite, OneWriter
  <2>2. InboxIsBounded'
    BY <2>1 DEF InboxIsBounded
  <2>3. (torn \/ Survives)'
    <3>1. ToSet(inbox) = {}
      BY <2>1 DEF ToSet
    <3> QED
      BY <1>1, <1>2, <1>4, <2>1, <3>1, InHandMoves DEF Survives, Logged
  <2>4. OneWriter'
    <3>1. proc'[p] = s /\ s.pc \in {"idle", "head"}
      BY <1>4, <1>8 DEF Moves, Advance, Rewrite, Truncate, At
    <3> QED
      BY <1>5, <3>1 DEF OneWriter, At, Writing
  <2> QED
    BY <2>2, <2>3, <2>4
<1> QED
  BY <1>6, <1>7, <1>8

\* A crash of the host that cuts a rewrite is recorded; any other leaves in the inbox what
\* the processes held.
LEMMA HostCrashKeepsMail ==
    ASSUME IInv, HostCrash
    PROVE  MailKept'
<1>1. /\ Base /\ MailKept /\ Holds /\ proc' = [p \in Procs |-> AtRest]
      /\ UNCHANGED <<inbox, log, raced, accepted>>
      /\ torn' = (torn \/ \E p \in Procs : At(p, "rewrite"))
  BY DEF IInv, Base, HostCrash
<1> SUFFICES ASSUME ~ raced
             PROVE  OneWriter' /\ InboxIsBounded' /\ (torn \/ Survives)'
  BY <1>1 DEF MailKept
<1>2. OneWriter /\ InboxIsBounded /\ (torn \/ Survives)
  BY <1>1 DEF MailKept
<1>3. OneWriter'
  BY <1>1, AtRestTyped DEF OneWriter, At, Writing
<1>4. InboxIsBounded'
  BY <1>1, <1>2 DEF InboxIsBounded
<1>5. (torn \/ Survives)'
  <2> SUFFICES ASSUME ~ torn'
               PROVE  Survives'
    OBVIOUS
  <2>1. ASSUME NEW p \in Procs
        PROVE  ToSet(proc[p].kept) \subseteq ToSet(inbox)
    <3>1. CASE At(p, "truncate")
      BY <1>2, <3>1 DEF OneWriter, IsRest
    <3>2. CASE ~ At(p, "truncate")
      <4>1. proc[p].kept = <<>>
        BY <1>1, <3>2 DEF Holds, At
      <4> QED
        BY <4>1 DEF ToSet
    <3> QED
      BY <3>1, <3>2
  <2>2. InHand \subseteq ToSet(inbox)
    BY <2>1 DEF InHand
  <2> QED
    BY <1>1, <1>2, <2>2 DEF Survives, Logged
<1> QED
  BY <1>3, <1>4, <1>5
-----------------------------------------------------------------------------
\* The specification.

\* A host that starts has nothing in hand.
LEMMA InitHolds == Init => IInv
<1> SUFFICES ASSUME Init
             PROVE  IInv
  OBVIOUS
<1> USE EnvelopeIsSome DEF Init
<1>1. <<>> \in Seq(Envelopes) /\ Left \in Nat /\ 1 .. Left \subseteq Envelopes /\ Cap \in Nat
  BY PeerAssumption DEF Envelopes
<1>2. inbox \in Seq(1 .. Left) /\ Len(inbox) = Left /\ \A i \in 1 .. Left : inbox[i] = i
  BY <1>1
<1>3. Typed
  <2>1. inbox \in Seq(Envelopes)
    BY <1>1, <1>2
  <2>2. Len(frames) <= FrameCap
    BY PeerAssumption
  <2> QED
    BY <1>1, <2>1, <2>2, AtRestTyped DEF Typed
<1>4. Holds /\ WaitersWait
  BY AtRestTyped DEF Holds, WaitersWait
<1>5. Folds
  <2>1. \A e \in Envelopes : outcome[e] # "Delivered"
    BY DEF None
  <2>2. \A p \in Procs : proc[p].pc = "idle"
    BY AtRestTyped
  <2> QED
    BY <2>1, <2>2 DEF Folds
<1>6. MailKept
  <2>1. OneWriter
    BY AtRestTyped DEF OneWriter, At, Writing
  <2>2. InboxIsBounded
    BY <1>1, <1>2, PeerAssumption DEF InboxIsBounded, IsInjective
  <2>3. accepted \subseteq ToSet(inbox)
    BY <1>1, <1>2 DEF ToSet
  <2> QED
    BY <2>1, <2>2, <2>3 DEF MailKept, Survives
<1> QED
  BY <1>3, <1>4, <1>5, <1>6 DEF IInv, Base

\* Every step of the host, its tasks and the worker keeps the invariant.
LEMMA NextKeeps == IInv /\ [Next]_vars => IInv'
<1> SUFFICES ASSUME IInv, [Next]_vars
             PROVE  IInv'
  OBVIOUS
<1>1. /\ Base /\ MailKept /\ Typed /\ Holds
      /\ raced \in BOOLEAN
  BY DEF IInv, Base, Typed
<1>2. ASSUME NEW p \in Procs, Relay(p)
      PROVE  IInv'
  BY <1>1, <1>2, RelayKeepsBase, RelayKeepsMail DEF IInv
<1>3. ASSUME NEW p \in Procs, Enqueue(p)
      PROVE  IInv'
  BY <1>1, <1>3, SendingKeepsBase, EnqueueKeepsMail DEF IInv
<1>4. ASSUME NEW p \in Procs, Send(p) \/ Push(p) \/ Closed(p) \/ Await(p) \/ GiveUp(p)
      PROVE  IInv'
  <2>1. PICK s \in ProcStates : /\ Moves(p, s) /\ s.kept = <<>>
                                /\ s.pc \in {"push", "await", "advance", "waiting", "wake", "idle"}
    <3>1. ~ Enqueue(p)
      BY <1>4 DEF Enqueue, Send, Push, Closed, Await, GiveUp, GivesUp, At
    <3> QED
      BY <1>1, <1>4, <3>1, SendingKeepsBase, WaitingKeepsBase
  <2>2. Base'
    BY <1>1, <1>4, SendingKeepsBase, WaitingKeepsBase
  <2>3. ~ Writing(p) /\ UNCHANGED <<inbox, log, accepted, raced, torn>>
    BY <1>4 DEF Send, Push, Closed, Await, GiveUp, GivesUp, workerVars, reach, channel, world,
                ghosts, At, Writing
  <2>4. MailKept'
    BY <1>1, <2>1, <2>3, MailStays DEF Logged
  <2> QED
    BY <2>2, <2>4 DEF IInv
<1>5. ASSUME NEW p \in Procs, Advance(p) \/ Truncate(p) \/ Rewrite(p)
      PROVE  IInv'
  BY <1>1, <1>5, AdvancingKeepsBase, AdvancingKeepsMail DEF IInv
<1>6. ASSUME NEW p \in Procs, Wake(p) \/ BeginDrain(p) \/ DrainHead(p)
      PROVE  IInv'
  <2>1. PICK s \in ProcStates : /\ Moves(p, s) /\ s.pc \in {"idle", "head", "send"}
                                /\ s.kept = <<>>
    BY <1>1, <1>6, DrainKeepsBase
  <2>2. Base' /\ ~ Writing(p) /\ UNCHANGED <<inbox, log, accepted, raced, torn>>
    BY <1>1, <1>6, DrainKeepsBase
  <2>3. MailKept'
    BY <1>1, <2>1, <2>2, MailStays DEF Logged
  <2> QED
    BY <2>2, <2>3 DEF IInv
<1>7. ASSUME ConfirmFold
      PROVE  IInv'
  <2>1. Base' /\ UNCHANGED <<inbox, log, accepted, raced, torn>>
    BY <1>1, <1>7, ConfirmMoves
  <2>2. CASE proc' = proc
    BY <1>1, <2>1, <2>2 DEF IInv, MailKept, OneWriter, InboxIsBounded, Survives, Logged, InHand,
                            At, Env, Writing, IsRest
  <2>3. CASE proc' # proc
    <3>1. PICK p \in Procs, s \in ProcStates :
              /\ Moves(p, s) /\ ~ Writing(p) /\ s.pc = "advance" /\ s.kept = <<>>
      BY <1>1, <1>7, <2>3, ConfirmMoves
    <3>2. MailKept'
      BY <1>1, <2>1, <3>1, MailStays DEF Logged
    <3> QED
      BY <2>1, <3>2 DEF IInv
  <2> QED
    BY <2>2, <2>3
<1>8. ASSUME \/ Fold \/ Connect \/ PumpWrite \/ PumpAsks \/ Captured \/ SubmitFails
              \/ WorkerCrash
      PROVE  IInv'
  <2>1. Base' /\ UNCHANGED <<proc, inbox, accepted, raced, torn>> /\ Logged \subseteq Logged'
    BY <1>1, <1>8, FoldKeepsBase, WorkerKeepsBase DEF Logged
  <2>2. MailKept'
    BY <1>1, <2>1 DEF MailKept, OneWriter, InboxIsBounded, Survives, InHand, At, Env, Writing,
                      IsRest
  <2> QED
    BY <2>1, <2>2 DEF IInv
<1>11. ASSUME Stop
       PROVE  IInv'
  <2>1. /\ Base' /\ UNCHANGED <<inbox, log, accepted, raced, torn>>
        /\ \A p \in Procs : \/ proc'[p] = proc[p]
                            \/ /\ proc'[p].pc = "closed" /\ At(p, "push")
                               /\ proc'[p].kept = proc[p].kept
    BY <1>1, <1>11, StopKeepsBase
  <2>2. /\ \A p \in Procs : proc'[p].kept = proc[p].kept /\ Writing(p)' = Writing(p)
        /\ \A p \in Procs : proc'[p].pc \in {"append", "truncate", "rewrite"} =>
                                proc'[p] = proc[p]
    BY <2>1 DEF Writing, At
  <2>3. InHand' = InHand /\ Logged' = Logged
    BY <2>1, <2>2 DEF InHand, Logged
  <2>4. MailKept'
    BY <1>1, <2>1, <2>2, <2>3 DEF MailKept, OneWriter, InboxIsBounded, Survives, At, Env,
                                  Writing, IsRest
  <2> QED
    BY <2>1, <2>4 DEF IInv
<1>9. ASSUME HostCrash
       PROVE  IInv'
  BY <1>1, <1>9, HostCrashKeepsBase, HostCrashKeepsMail DEF IInv
<1>10. CASE UNCHANGED vars
  BY <1>10 DEF vars, brokerVars, workerVars, reach, channel, world, ghosts, IInv, Base, Typed,
               Holds, WaitersWait, Folds, MailKept, OneWriter, InboxIsBounded, Survives,
               InHand, Logged, At, Env, Writing, IsRest
<1> QED
  BY <1>2, <1>3, <1>4, <1>5, <1>6, <1>7, <1>8, <1>9, <1>10, <1>11 DEF Next,
     Step

\* The invariant is that of the specification.
LEMMA IInvHolds == Spec => []IInv
BY InitHolds, NextKeeps, PTL DEF Spec

\* The processes, the inbox, the registry and the log have their types, and a waiter awaits
\* the envelope it is registered for (FoldRegistry).
THEOREM TypesAreKept == Spec => []TypeOK
<1>1. IInv => TypeOK
  <2> SUFFICES ASSUME IInv
               PROVE  TypeOK
    OBVIOUS
  <2>1. Typed /\ WaitersWait
    BY DEF IInv, Base
  <2>2. \A p \in Procs : /\ Env(p) \in Envelopes \cup {NoEnv}
                         /\ proc[p].kept \in Seq(Envelopes) /\ proc[p].drain \in BOOLEAN
    BY <2>1, ProcTyped
  <2>3. \A e \in Envelopes, p \in Procs : waiters[e] = p => Env(p) = e
    BY <2>1, ProcsAssumption DEF WaitersWait
  <2> QED
    BY <2>1, <2>2, <2>3 DEF TypeOK, Typed
<1> QED
  BY <1>1, IInvHolds, PTL

\* A message is applied once, however often its envelope is redelivered, recorded and replayed,
\* and a sender that was told Delivered has its envelope in the receiver's World log and in its
\* World (relay_durable, INV-3; apply_drive, INV-1).
THEOREM DeliveryIsFolded == Spec => []DeliveredMeansFolded
<1>1. IInv => DeliveredMeansFolded
  BY DEF IInv, Base, Folds, Logged, DeliveredMeansFolded
<1> QED
  BY <1>1, IInvHolds, PTL

\* An accepted envelope is in the inbox, in a process's hand, or in the receiver's log,
\* unless processes raced over the inbox or a crash cut a rewrite (Mailbox::advance, INV-4).
THEOREM AcceptanceIsKept == Spec => []AcceptedIsKept
<1>1. IInv => AcceptedIsKept
  BY DEF IInv, MailKept, AcceptedIsKept
<1> QED
  BY <1>1, IInvHolds, PTL
=============================================================================
