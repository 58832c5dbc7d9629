------------------------- MODULE TurnMachineProofs -------------------------
(***************************************************************************)
(* Proofs about TurnMachine for every value of its constants.              *)
(* First types and ids (IInv), then who waits for whom (Waits): every owed *)
(* command is awaited, every wait is owed, every held slot has its request.*)
(* Last, what a closed gate and an approval policy hold back.              *)
(***************************************************************************)
EXTENDS TurnMachine, FiniteSetTheorems, SequenceTheorems, TLAPS

\* The components c are typed and use only ids the World w has minted.
GoodEnt(w, c) ==
    /\ c \in Components
    /\ c.parent \in DOMAIN w.ents \cup {None}
    /\ \A k \in c.awaits : k < w.nextCmd
    /\ \A i \in DOMAIN c.slots : /\ c.slots[i].cmd < w.nextCmd /\ c.slots[i].child < w.nextEnt
                                 /\ c.slots[i].st = "sent" => c.slots[i].cmd \in Nat
                                 /\ c.slots[i].kind = "Child" => c.slots[i].child \in Nat

\* What every System preserves of a run.
GoodRun(r) ==
    /\ r \in [w : {r.w}, out : SUBSET Commands]
    /\ WorldType(r.w)
    /\ \A k \in r.out : k.cmd < r.w.nextCmd /\ k.ent \in DOMAIN r.w.ents
    /\ \A e \in DOMAIN r.w.ents : e < r.w.nextEnt /\ GoodEnt(r.w, r.w.ents[e])
    /\ \A q \in r.w.raised : q.req < r.w.nextReq /\ q.ent \in DOMAIN r.w.ents

\* The fields of typed components.
LEMMA EntFields ==
    ASSUME NEW c \in Components
    PROVE  /\ c.slots \in Seq(ToolSlots) /\ c.hist \in Seq(Msgs) /\ c.inbox \in Seq(Nat)
           /\ DOMAIN c.slots = 1 .. Len(c.slots) /\ Len(c.slots) \in Nat
           /\ \A i \in DOMAIN c.slots :
                 c.slots[i] \in ToolSlots /\ c.slots[i].cmd \in Int /\ c.slots[i].child \in Int
           /\ c.awaits \subseteq Nat /\ c.turn \in Nat /\ c.depth \in Nat
<1>1. c.slots \in Seq(ToolSlots)
  BY DEF Components
<1>2. /\ DOMAIN c.slots = 1 .. Len(c.slots) /\ Len(c.slots) \in Nat
      /\ \A i \in DOMAIN c.slots : c.slots[i] \in ToolSlots
  BY <1>1
<1>3. \A s \in ToolSlots : s.cmd \in Int /\ s.child \in Int
  BY DEF ToolSlots, None
<1> QED BY <1>1, <1>2, <1>3 DEF Components

\* A Put replaces the components of one entity and nothing else.
LEMMA PutFields ==
    ASSUME NEW r, GoodRun(r), NEW e \in DOMAIN r.w.ents, NEW c
    PROVE  /\ DOMAIN Put(r, e, c).w.ents = DOMAIN r.w.ents
           /\ Put(r, e, c).w.ents[e] = c
           /\ \A f \in DOMAIN r.w.ents \ {e} : Put(r, e, c).w.ents[f] = r.w.ents[f]
           /\ Put(r, e, c).w.nextCmd = r.w.nextCmd
           /\ Put(r, e, c).w.nextEnt = r.w.nextEnt
           /\ Put(r, e, c).w.nextReq = r.w.nextReq
           /\ Put(r, e, c).w.raised = r.w.raised
           /\ Put(r, e, c).out = r.out
<1> DEFINE s == Put(r, e, c)
<1>1. s.out = r.out /\ s.w = [r.w EXCEPT !.ents[e] = c]
  BY DEF GoodRun, Put
<1>2. /\ s.w.ents = [r.w.ents EXCEPT ![e] = c]
      /\ s.w.nextCmd = r.w.nextCmd /\ s.w.nextEnt = r.w.nextEnt /\ s.w.raised = r.w.raised
      /\ s.w.nextReq = r.w.nextReq
  BY <1>1 DEF GoodRun, WorldType
<1>3. \A f \in DOMAIN r.w.ents : s.w.ents[f] = IF f = e THEN c ELSE r.w.ents[f]
  BY <1>2 DEF GoodRun, WorldType
<1>4. DOMAIN s.w.ents = DOMAIN r.w.ents
  BY <1>2 DEF GoodRun, WorldType
<1> HIDE DEF s
<1> QED BY <1>1, <1>2, <1>3, <1>4 DEF s

\* Good components may replace those of any entity.
LEMMA PutGood ==
    ASSUME NEW r, GoodRun(r), NEW e \in DOMAIN r.w.ents, NEW c, GoodEnt(r.w, c)
    PROVE  GoodRun(Put(r, e, c))
<1> DEFINE s == Put(r, e, c)
<1>1. /\ s \in [w : {s.w}, out : SUBSET Commands]
      /\ s.out = r.out
      /\ s.w = [r.w EXCEPT !.ents[e] = c]
  BY DEF GoodRun, Put
<1>2. /\ s.w.ents = [r.w.ents EXCEPT ![e] = c]
      /\ s.w.nextCmd = r.w.nextCmd /\ s.w.nextEnt = r.w.nextEnt /\ s.w.raised = r.w.raised
      /\ s.w.nextReq = r.w.nextReq /\ s.w.holds = r.w.holds /\ s.w.ask = r.w.ask
      /\ s.w.applied = r.w.applied
  BY <1>1 DEF GoodRun, WorldType
<1>3. /\ DOMAIN s.w.ents = DOMAIN r.w.ents /\ s.w.ents[e] = c
      /\ s.w.ents \in [DOMAIN s.w.ents -> Components]
  <2>1. r.w.ents \in [DOMAIN r.w.ents -> Components]
    BY DEF GoodRun, WorldType
  <2>2. c \in Components
    BY DEF GoodEnt
  <2> HIDE DEF s
  <2> QED BY <1>2, <2>1, <2>2
<1>4. WorldType(s.w)
  BY <1>1, <1>2, <1>3 DEF GoodRun, WorldType
<1> HIDE DEF s
<1>5. ASSUME NEW f \in DOMAIN s.w.ents
      PROVE  f < s.w.nextEnt /\ GoodEnt(s.w, s.w.ents[f])
  <2>1. f \in DOMAIN r.w.ents /\ f < r.w.nextEnt /\ GoodEnt(r.w, r.w.ents[f])
    BY <1>3 DEF GoodRun
  <2>2. s.w.ents[f] \in {c, r.w.ents[f]}
    BY <1>2, <2>1
  <2>3. GoodEnt(r.w, s.w.ents[f])
    BY <2>1, <2>2
  <2> QED BY <1>2, <1>3, <2>1, <2>3 DEF GoodEnt
<1>6. GoodRun(s)
  BY <1>1, <1>2, <1>3, <1>4, <1>5 DEF GoodRun
<1> QED BY <1>6 DEF s

\* Allocators that move on keep the ids of an entity minted (IdAlloc).
LEMMA MoreIdsGood ==
    ASSUME NEW w, NEW v, NEW c, GoodEnt(w, c), DOMAIN v.ents = DOMAIN w.ents,
           w.nextCmd \in Nat, v.nextCmd \in Nat, w.nextCmd <= v.nextCmd,
           w.nextEnt \in Nat, v.nextEnt \in Nat, w.nextEnt <= v.nextEnt
    PROVE  GoodEnt(v, c)
<1>1. c \in Components
  BY DEF GoodEnt
<1>2. ASSUME NEW k \in c.awaits
      PROVE  k < v.nextCmd
  <2>1. k \in Nat
    BY <1>1, EntFields
  <2>2. k < w.nextCmd
    BY DEF GoodEnt
  <2> QED BY <2>1, <2>2
<1>3. ASSUME NEW i \in DOMAIN c.slots
      PROVE  c.slots[i].cmd < v.nextCmd /\ c.slots[i].child < v.nextEnt
  <2>1. c.slots[i].cmd \in Int /\ c.slots[i].child \in Int
    BY <1>1, EntFields
  <2>2. c.slots[i].cmd < w.nextCmd /\ c.slots[i].child < w.nextEnt
    BY DEF GoodEnt
  <2> QED BY <2>1, <2>2
<1> QED BY <1>2, <1>3 DEF GoodEnt

\* Minting command ids keeps a run good and its entities as they are (IdAlloc::mint_cmd).
LEMMA MintGood ==
    ASSUME NEW r, GoodRun(r), NEW n \in Nat
    PROVE  /\ GoodRun(Mint(r, n))
           /\ Mint(r, n).w.ents = r.w.ents
           /\ Mint(r, n).w.nextCmd = r.w.nextCmd + n
           /\ Mint(r, n).w.nextEnt = r.w.nextEnt
           /\ Mint(r, n).w.raised = r.w.raised
           /\ Mint(r, n).out = r.out
<1> DEFINE s == Mint(r, n)
<1>1. /\ s \in [w : {s.w}, out : SUBSET Commands]
      /\ s.out = r.out
      /\ s.w = [r.w EXCEPT !.nextCmd = @ + n]
  BY DEF GoodRun, Mint
<1>2. /\ s.w.ents = r.w.ents
      /\ s.w.nextCmd = r.w.nextCmd + n /\ s.w.nextEnt = r.w.nextEnt /\ s.w.raised = r.w.raised
      /\ s.w.nextReq = r.w.nextReq /\ s.w.nextCmd \in Nat
  BY <1>1 DEF GoodRun, WorldType
<1>3. WorldType(s.w)
  BY <1>1, <1>2 DEF GoodRun, WorldType
<1>4. \A f \in DOMAIN s.w.ents : f < s.w.nextEnt /\ GoodEnt(s.w, s.w.ents[f])
  <2> SUFFICES ASSUME NEW f \in DOMAIN r.w.ents
               PROVE  f < s.w.nextEnt /\ GoodEnt(s.w, r.w.ents[f])
    BY <1>2
  <2>1. f < r.w.nextEnt /\ GoodEnt(r.w, r.w.ents[f])
    BY DEF GoodRun
  <2>2. r.w.nextCmd \in Nat /\ r.w.nextEnt \in Nat
    BY DEF GoodRun, WorldType
  <2> HIDE DEF s
  <2>3. s.w.nextCmd >= r.w.nextCmd /\ DOMAIN s.w.ents = DOMAIN r.w.ents
    BY <1>2, <2>2
  <2> QED BY <1>2, <2>1, <2>2, <2>3, MoreIdsGood
<1>5. \A k \in s.out : k.cmd < s.w.nextCmd /\ k.ent \in DOMAIN s.w.ents
  <2> SUFFICES ASSUME NEW k \in r.out
               PROVE  k.cmd < s.w.nextCmd /\ k.ent \in DOMAIN s.w.ents
    BY <1>1
  <2>1. k \in Commands /\ k.cmd < r.w.nextCmd /\ k.ent \in DOMAIN r.w.ents
    BY DEF GoodRun
  <2>2. k.cmd \in Nat /\ r.w.nextCmd \in Nat
    BY <2>1 DEF GoodRun, WorldType, Commands
  <2> HIDE DEF s
  <2> QED BY <1>2, <2>1, <2>2
<1> QED BY <1>1, <1>2, <1>3, <1>4, <1>5 DEF GoodRun

\* Commands may be emitted when their ids are minted and their entities exist.
LEMMA EmitGood ==
    ASSUME NEW r, GoodRun(r), NEW cmds \in SUBSET Commands,
           \A k \in cmds : k.cmd < r.w.nextCmd /\ k.ent \in DOMAIN r.w.ents
    PROVE  GoodRun(Emit(r, cmds)) /\ Emit(r, cmds).w = r.w
<1>1. /\ Emit(r, cmds) \in [w : {r.w}, out : SUBSET Commands]
      /\ Emit(r, cmds).w = r.w /\ Emit(r, cmds).out = r.out \cup cmds
  BY DEF GoodRun, Emit
<1> QED BY <1>1 DEF GoodRun

\* A Command is typed and carries the id and entity it was made with.
LEMMA CommandType ==
    ASSUME NEW type \in WorkTypes \cup CancelTypes, NEW cmd \in Nat, NEW e \in Nat, NEW n \in Nat
    PROVE  /\ Command(type, cmd, e, n) \in Commands
           /\ Command(type, cmd, e, n).cmd = cmd /\ Command(type, cmd, e, n).ent = e
BY DEF Command, Commands

\* The ids minted for the slots of I are the next Cardinality(I) ones.
LEMMA RankType ==
    ASSUME NEW n \in Nat, NEW I \in SUBSET (1 .. n)
    PROVE  /\ Cardinality(I) \in Nat
           /\ \A i \in I : Rank(i, I) \in Nat /\ Rank(i, I) < Cardinality(I)
<1>1. IsFiniteSet(I) /\ Cardinality(I) \in Nat
  <2>1. IsFiniteSet(1 .. n)
    BY FS_Interval
  <2>2. IsFiniteSet(I)
    BY <2>1, FS_Subset
  <2> QED BY <2>2, FS_CardinalityType
<1>2. ASSUME NEW i \in I
      PROVE  Rank(i, I) \in Nat /\ Rank(i, I) < Cardinality(I)
  <2> DEFINE below == {j \in I : j < i}
  <2>1. below \subseteq I /\ i \notin below OBVIOUS
  <2>2. below # I
    BY <2>1
  <2>3. IsFiniteSet(below) /\ Cardinality(below) \in Nat
    BY <1>1, <2>1, FS_Subset, FS_CardinalityType
  <2>4. Cardinality(below) <= Cardinality(I) /\ Cardinality(below) # Cardinality(I)
    BY <1>1, <2>1, <2>2, FS_Subset
  <2> QED BY <1>1, <2>3, <2>4 DEF Rank
<1> QED BY <1>1, <1>2

\* The command ids the World w has minted.
Minted(w) == {k \in Nat : k < w.nextCmd}

\* What a System may do to a run: keep it good, forget no entity and reuse no command id.
Leads(r, s) ==
    /\ GoodRun(s)
    /\ DOMAIN r.w.ents \subseteq DOMAIN s.w.ents
    /\ Minted(r.w) \subseteq Minted(s.w)

\* Minting one more id keeps those minted.
LEMMA MintedMore ==
    ASSUME NEW v, NEW w, v.nextCmd \in Nat, w.nextCmd = v.nextCmd + 1
    PROVE  Minted(v) \subseteq Minted(w)
BY DEF Minted

\* A Put of good components leads on.
LEMMA PutLeads ==
    ASSUME NEW r, GoodRun(r), NEW e \in DOMAIN r.w.ents, NEW c, GoodEnt(r.w, c)
    PROVE  Leads(r, Put(r, e, c))
BY PutGood, PutFields DEF Leads, Minted

\* A System that ignores its input leaves the run as it was.
LEMMA LeadsSelf == ASSUME NEW r, GoodRun(r) PROVE Leads(r, r)
BY DEF Leads

\* Systems compose.
LEMMA LeadsOn ==
    ASSUME NEW r, NEW s, NEW t, Leads(r, s), Leads(s, t)
    PROVE  Leads(r, t)
BY DEF Leads

\* Slots rewritten in place keep the components good.
LEMMA SlotsGood ==
    ASSUME NEW w, NEW c, GoodEnt(w, c), NEW X, DOMAIN X = DOMAIN c.slots, X \in [DOMAIN X -> ToolSlots],
           \A i \in DOMAIN X : /\ X[i].cmd < w.nextCmd /\ X[i].child < w.nextEnt
                               /\ X[i].st = "sent" => X[i].cmd \in Nat
                               /\ X[i].kind = "Child" => X[i].child \in Nat
    PROVE  GoodEnt(w, [c EXCEPT !.slots = X])
<1> DEFINE d == [c EXCEPT !.slots = X]
<1>1. c \in Components /\ DOMAIN c.slots = 1 .. Len(c.slots) /\ Len(c.slots) \in Nat
  BY EntFields DEF GoodEnt
<1>2. X \in Seq(ToolSlots)
  BY <1>1
<1>3. /\ d \in Components /\ d.slots = X
      /\ d.parent = c.parent /\ d.awaits = c.awaits
  BY <1>1, <1>2 DEF Components
<1> HIDE DEF d
<1>4. /\ d.parent \in DOMAIN w.ents \cup {None}
      /\ \A k \in d.awaits : k < w.nextCmd
  BY <1>3 DEF GoodEnt
<1>5. GoodEnt(w, d)
  BY <1>3, <1>4 DEF GoodEnt
<1> QED BY <1>5 DEF d

\* An entity that goes Idle drops its slots and waits and keeps its messages.
LEMMA IdleGood ==
    ASSUME NEW w, NEW c, GoodEnt(w, c)
    PROVE  GoodEnt(w, ToIdle(c)) /\ ToIdle(c).hist = c.hist /\ ToIdle(c).inbox = c.inbox
<1>1. <<>> \in Seq(ToolSlots) /\ DOMAIN <<>> = {} OBVIOUS
<1>2. /\ ToIdle(c) \in Components
      /\ ToIdle(c).parent = c.parent /\ ToIdle(c).awaits = {} /\ ToIdle(c).slots = <<>>
      /\ ToIdle(c).hist = c.hist /\ ToIdle(c).inbox = c.inbox
  BY <1>1 DEF GoodEnt, Components, ToIdle, Activities
<1> QED BY <1>1, <1>2 DEF GoodEnt

\* An entity may wait for a command that was minted (Activity::Thinking, Compacting).
LEMMA WaitingGood ==
    ASSUME NEW w, NEW c, GoodEnt(w, c), NEW act \in {"Thinking", "Compacting"},
           NEW k \in Nat, k < w.nextCmd
    PROVE  GoodEnt(w, ToWaiting(c, act, k))
<1>1. GoodEnt(w, ToIdle(c)) /\ ToIdle(c).slots = <<>>
  BY IdleGood DEF ToIdle, GoodEnt, Components
<1>2. /\ ToWaiting(c, act, k) \in Components
      /\ ToWaiting(c, act, k).parent = c.parent /\ ToWaiting(c, act, k).awaits = {k}
      /\ ToWaiting(c, act, k).slots = <<>>
  BY <1>1 DEF ToWaiting, ToIdle, GoodEnt, Components, Activities
<1> QED BY <1>1, <1>2 DEF GoodEnt

\* Components stay good when more ids are minted.
LEMMA GoodAfterMint ==
    ASSUME NEW r, GoodRun(r), NEW n \in Nat, NEW c, GoodEnt(r.w, c)
    PROVE  GoodEnt(Mint(r, n).w, c)
<1>1. /\ DOMAIN Mint(r, n).w.ents = DOMAIN r.w.ents
      /\ Mint(r, n).w.nextCmd = r.w.nextCmd + n /\ Mint(r, n).w.nextEnt = r.w.nextEnt
      /\ r.w.nextCmd \in Nat
  BY MintGood DEF GoodRun, WorldType
<1>2. c \in Components /\ c.awaits \subseteq Nat /\ \A i \in DOMAIN c.slots : c.slots[i].cmd \in Int
  BY EntFields DEF GoodEnt
<1> QED BY <1>1, <1>2 DEF GoodEnt

\* A CallModel is emitted on a command minted for it, which its entity then awaits.
LEMMA ThinkGood ==
    ASSUME NEW r, GoodRun(r), NEW e \in DOMAIN r.w.ents, NEW c, GoodEnt(r.w, c)
    PROVE  Leads(r, Think(r, e, c))
<1> DEFINE k == r.w.nextCmd
           m == Mint(r, 1)
           d == ToWaiting(c, "Thinking", k)
           p == Put(m, e, d)
           x == Command("CallModel", k, e, 0)
<1>1. k \in Nat /\ e \in Nat
  BY DEF GoodRun, WorldType
<1>2. GoodRun(m) /\ m.w.ents = r.w.ents /\ m.w.nextCmd = k + 1
  BY MintGood
<1>3. GoodEnt(m.w, d)
  BY <1>1, <1>2, GoodAfterMint, WaitingGood
<1>4. x \in Commands /\ x.cmd < k + 1 /\ x.ent = e
  <2>1. "CallModel" \in WorkTypes \cup CancelTypes
    BY DEF WorkTypes
  <2>2. x \in Commands /\ x.cmd = k /\ x.ent = e
    BY <1>1, <2>1, CommandType
  <2> HIDE DEF x
  <2> QED BY <1>1, <2>2
<1>5. Think(r, e, c) = Emit(p, {x})
  BY DEF Think
<1> HIDE DEF d, m, x
<1>6. GoodRun(p) /\ DOMAIN p.w.ents = DOMAIN r.w.ents /\ p.w.nextCmd = k + 1
  <2>1. e \in DOMAIN m.w.ents
    BY <1>2
  <2>2. GoodRun(p) 
    BY <1>2, <1>3, <2>1, PutGood
  <2>3. p.w.nextCmd = m.w.nextCmd /\ DOMAIN p.w.ents = DOMAIN m.w.ents
    BY <1>2, <2>1, PutFields
  <2> QED BY <1>2, <2>2, <2>3
<1> HIDE DEF p
<1>7. GoodRun(Emit(p, {x})) /\ Emit(p, {x}).w = p.w
  BY <1>4, <1>6, EmitGood
<1> QED
  <2>1. Minted(r.w) \subseteq Minted(p.w)
    BY <1>1, <1>6, MintedMore
  <2> QED BY <1>5, <1>6, <1>7, <2>1 DEF Leads

\* A settled slot gives its command back (SlotState::Done).
LEMMA SettleSlotsGood ==
    ASSUME NEW w, w.nextCmd \in Nat, NEW c, GoodEnt(w, c), NEW I, NEW err \in BOOLEAN
    PROVE  GoodEnt(w, SettleSlots(c, I, err))
<1> DEFINE X == [i \in DOMAIN c.slots |->
                   IF i \in I THEN [c.slots[i] EXCEPT !.st = "done", !.cmd = None, !.err = err]
                              ELSE c.slots[i]]
<1>1. c \in Components
  BY DEF GoodEnt
<1>2. ASSUME NEW i \in DOMAIN c.slots
      PROVE  /\ X[i] \in ToolSlots /\ X[i].cmd < w.nextCmd /\ X[i].child < w.nextEnt
             /\ X[i].st = "sent" => X[i].cmd \in Nat
             /\ X[i].kind = "Child" => X[i].child \in Nat
  <2>1. /\ c.slots[i] \in ToolSlots /\ c.slots[i].cmd < w.nextCmd
        /\ c.slots[i].child < w.nextEnt
        /\ c.slots[i].st = "sent" => c.slots[i].cmd \in Nat
        /\ c.slots[i].kind = "Child" => c.slots[i].child \in Nat
    BY <1>1, EntFields DEF GoodEnt
  <2>2. CASE i \in I
    <3>1. X[i] = [c.slots[i] EXCEPT !.st = "done", !.cmd = None, !.err = err]
      BY <2>2
    <3> HIDE DEF X
    <3>2. /\ X[i] \in ToolSlots /\ X[i].cmd = -1 /\ X[i].child = c.slots[i].child
          /\ X[i].st = "done" /\ X[i].kind = c.slots[i].kind
      BY <2>1, <3>1 DEF ToolSlots, SlotStates, None
    <3> QED BY <2>1, <3>2
  <2>3. CASE i \notin I
    BY <2>1, <2>3
  <2> QED BY <2>2, <2>3
<1>3. DOMAIN X = DOMAIN c.slots /\ X \in [DOMAIN X -> ToolSlots]
  BY <1>2
<1>4. SettleSlots(c, I, err) = [c EXCEPT !.slots = X]
  BY DEF SettleSlots
<1> HIDE DEF X
<1> QED BY <1>2, <1>3, <1>4, SlotsGood

\* Settling slots of an entity keeps a run good.
LEMMA SettleGood ==
    ASSUME NEW r, GoodRun(r), NEW e \in DOMAIN r.w.ents, NEW I, NEW err \in BOOLEAN
    PROVE  /\ Leads(r, Settle(r, e, I, err))
           /\ DOMAIN Settle(r, e, I, err).w.ents = DOMAIN r.w.ents
<1> DEFINE d == SettleSlots(r.w.ents[e], I, err)
<1>1. GoodEnt(r.w, d)
  BY SettleSlotsGood DEF GoodRun, WorldType
<1>2. Settle(r, e, I, err) = Put(r, e, d)
  BY DEF Settle
<1> HIDE DEF d
<1> QED BY <1>1, <1>2, PutLeads, PutFields

\* A slot is held, or given back, without a command (HELD_CMD).
LEMMA MarkGood ==
    ASSUME NEW w, NEW c, GoodEnt(w, c), NEW I, NEW st \in {"fresh", "held"}
    PROVE  GoodEnt(w, MarkSlots(c, I, st))
<1> DEFINE X == [i \in DOMAIN c.slots |->
                   IF i \in I THEN [c.slots[i] EXCEPT !.st = st] ELSE c.slots[i]]
<1>1. c \in Components
  BY DEF GoodEnt
<1>2. ASSUME NEW i \in DOMAIN c.slots
      PROVE  /\ X[i] \in ToolSlots /\ X[i].cmd < w.nextCmd /\ X[i].child < w.nextEnt
             /\ X[i].st = "sent" => X[i].cmd \in Nat
             /\ X[i].kind = "Child" => X[i].child \in Nat
  <2>1. /\ c.slots[i] \in ToolSlots /\ c.slots[i].cmd < w.nextCmd /\ c.slots[i].child < w.nextEnt
        /\ c.slots[i].st = "sent" => c.slots[i].cmd \in Nat
        /\ c.slots[i].kind = "Child" => c.slots[i].child \in Nat
    BY <1>1, EntFields DEF GoodEnt
  <2>2. X[i] = IF i \in I THEN [c.slots[i] EXCEPT !.st = st] ELSE c.slots[i] OBVIOUS
  <2> HIDE DEF X
  <2>3. CASE i \in I
    <3>1. /\ X[i] \in ToolSlots /\ X[i].cmd = c.slots[i].cmd /\ X[i].child = c.slots[i].child
          /\ X[i].st # "sent" /\ X[i].kind = c.slots[i].kind
      BY <2>1, <2>2, <2>3 DEF ToolSlots, SlotStates
    <3> QED BY <2>1, <3>1
  <2>4. CASE i \notin I
    BY <2>1, <2>2, <2>4
  <2> QED BY <2>3, <2>4
<1>3. DOMAIN X = DOMAIN c.slots /\ X \in [DOMAIN X -> ToolSlots]
  BY <1>2
<1>4. MarkSlots(c, I, st) = [c EXCEPT !.slots = X]
  BY DEF MarkSlots
<1> HIDE DEF X
<1> QED BY <1>2, <1>3, <1>4, SlotsGood

\* Each dispatched slot gets a command minted for it, and the command is emitted.
LEMMA DispatchGood ==
    ASSUME NEW r, GoodRun(r), NEW e \in DOMAIN r.w.ents,
           NEW I \in SUBSET DOMAIN r.w.ents[e].slots, NEW type \in WorkTypes
    PROVE  /\ Leads(r, Dispatch(r, e, I, type))
           /\ DOMAIN Dispatch(r, e, I, type).w.ents = DOMAIN r.w.ents
<1> DEFINE k == r.w.nextCmd
           n == Cardinality(I)
           c == r.w.ents[e]
           m == Mint(r, n)
           X == [i \in DOMAIN c.slots |->
                   IF i \in I THEN [c.slots[i] EXCEPT !.st = "sent", !.cmd = k + Rank(i, I)]
                              ELSE c.slots[i]]
           d == SendSlots(c, I, k)
           p == Put(m, e, d)
           out == {Command(type, k + Rank(i, I), e, 0) : i \in I}
<1>1. k \in Nat /\ e \in Nat /\ GoodEnt(r.w, c) /\ c \in Components
  BY DEF GoodRun, WorldType, GoodEnt
<1>2. n \in Nat /\ \A i \in I : Rank(i, I) \in Nat /\ Rank(i, I) < n
  BY <1>1, EntFields, RankType
<1>3. /\ GoodRun(m) /\ m.w.ents = r.w.ents /\ m.w.nextCmd = k + n
      /\ m.w.nextEnt = r.w.nextEnt
  BY <1>2, MintGood
<1>4. GoodEnt(m.w, c)
  BY <1>1, <1>2, GoodAfterMint
<1>5. Dispatch(r, e, I, type) = Emit(p, out)
  BY DEF Dispatch
<1>6. ASSUME NEW i \in DOMAIN c.slots
      PROVE  /\ X[i] \in ToolSlots /\ X[i].cmd < m.w.nextCmd /\ X[i].child < m.w.nextEnt
             /\ X[i].st = "sent" => X[i].cmd \in Nat
             /\ X[i].kind = "Child" => X[i].child \in Nat
  <2>1. /\ c.slots[i] \in ToolSlots /\ c.slots[i].cmd < m.w.nextCmd
        /\ c.slots[i].child < m.w.nextEnt
        /\ c.slots[i].st = "sent" => c.slots[i].cmd \in Nat
        /\ c.slots[i].kind = "Child" => c.slots[i].child \in Nat
    BY <1>1, <1>4, EntFields DEF GoodEnt
  <2>2. X[i] = IF i \in I THEN [c.slots[i] EXCEPT !.st = "sent", !.cmd = k + Rank(i, I)]
                          ELSE c.slots[i]
    OBVIOUS
  <2> HIDE DEF X, m
  <2>3. CASE i \in I
    <3>1. k + Rank(i, I) \in Nat /\ k + Rank(i, I) < k + n
      BY <1>1, <1>2, <2>3
    <3>2. /\ X[i] \in ToolSlots /\ X[i].cmd = k + Rank(i, I)
          /\ X[i].child = c.slots[i].child /\ X[i].kind = c.slots[i].kind
      <4> DEFINE y == c.slots[i]
                 z == k + Rank(i, I)
      <4>1. y \in ToolSlots /\ X[i] = [y EXCEPT !.st = "sent", !.cmd = z] /\ z \in Nat
        BY <2>1, <2>2, <2>3, <3>1
      <4> HIDE DEF y, z
      <4>2. X[i] \in ToolSlots /\ X[i].cmd = z /\ X[i].child = y.child /\ X[i].kind = y.kind
        BY ONLY <4>1 DEF ToolSlots, SlotStates
      <4> QED BY <4>2 DEF y, z
    <3> QED BY <1>3, <2>1, <3>1, <3>2
  <2>4. CASE i \notin I
    BY <2>1, <2>2, <2>4
  <2> QED BY <2>3, <2>4
<1>7. DOMAIN X = DOMAIN c.slots /\ X \in [DOMAIN X -> ToolSlots]
  BY <1>6
<1>8. d = [c EXCEPT !.slots = X]
  BY DEF SendSlots
<1>9. ASSUME NEW x \in out
      PROVE  x \in Commands /\ x.cmd < k + n /\ x.ent = e
  <2>1. PICK i \in I : x = Command(type, k + Rank(i, I), e, 0) OBVIOUS
  <2>2. k + Rank(i, I) \in Nat /\ k + Rank(i, I) < k + n
    BY <1>1, <1>2
  <2> QED BY <1>1, <2>1, <2>2, CommandType
<1> HIDE DEF X, m, d, out, n
<1>10. GoodEnt(m.w, d)
  BY <1>4, <1>6, <1>7, <1>8, SlotsGood
<1>11. GoodRun(p) /\ DOMAIN p.w.ents = DOMAIN r.w.ents /\ p.w.nextCmd = k + n
  <2>1. e \in DOMAIN m.w.ents
    BY <1>3
  <2>2. GoodRun(p)
    BY <1>3, <1>10, <2>1, PutGood
  <2>3. p.w.nextCmd = m.w.nextCmd /\ DOMAIN p.w.ents = DOMAIN m.w.ents
    BY <1>3, <2>1, PutFields
  <2> QED BY <1>3, <2>2, <2>3
<1> HIDE DEF p
<1>12. GoodRun(Emit(p, out)) /\ Emit(p, out).w = p.w
  <2>1. out \in SUBSET Commands /\ \A x \in out : x.cmd < p.w.nextCmd /\ x.ent \in DOMAIN p.w.ents
    BY <1>9, <1>11
  <2> QED BY <1>11, <2>1, EmitGood
<1> QED BY <1>1, <1>2, <1>5, <1>11, <1>12 DEF Leads, Minted

\* The slots of a kind, fresh or sent on a command, are slots.
LEMMA SomeSlots ==
    ASSUME NEW w, NEW e, NEW kind, NEW cmd
    PROVE  /\ FreshSlots(w, e, kind) \subseteq DOMAIN w.ents[e].slots
           /\ SentAs(w, e, kind, cmd) \subseteq DOMAIN w.ents[e].slots
           /\ Pending(w, e) \subseteq DOMAIN w.ents[e].slots
BY DEF FreshSlots, SentAs, Pending

\* Dispatching the fresh Local slots and continuing a settled turn (advance).
LEMMA AdvanceGood ==
    ASSUME NEW r, GoodRun(r), NEW e \in DOMAIN r.w.ents
    PROVE  Leads(r, Advance(r, e))
<1> DEFINE s == Dispatch(r, e, FreshSlots(r.w, e, "Local"), "RunTool")
           c == s.w.ents[e]
<1>1. Leads(r, s) /\ DOMAIN s.w.ents = DOMAIN r.w.ents
  <2> DEFINE I == FreshSlots(r.w, e, "Local")
  <2>1. I \in SUBSET DOMAIN r.w.ents[e].slots
    BY SomeSlots
  <2> HIDE DEF I
  <2>2. "RunTool" \in WorkTypes
    BY DEF WorkTypes
  <2> QED BY <2>1, <2>2, DispatchGood DEF I
<1>2. Advance(r, e) \in {r, Think(s, e, WithResults(c)), s}
  BY DEF Advance
<1> HIDE DEF s
<1>3. GoodRun(s) /\ e \in DOMAIN s.w.ents /\ GoodEnt(s.w, c)
  BY <1>1 DEF Leads, GoodRun
<1>4. GoodEnt(s.w, WithResults(c))
  <2>1. c \in Components
    BY <1>3 DEF GoodEnt
  <2>2. Append(c.hist, Msg("results", c.turn)) \in Seq(Msgs)
    BY <2>1, EntFields DEF Msg, Msgs, Roles
  <2> HIDE DEF c
  <2>3. /\ WithResults(c) \in Components /\ WithResults(c).parent = c.parent
        /\ WithResults(c).awaits = c.awaits /\ WithResults(c).slots = c.slots
    BY <2>1, <2>2 DEF WithResults, Components
  <2> QED BY <1>3, <2>3 DEF GoodEnt
<1>5. Leads(s, Think(s, e, WithResults(c)))
  BY <1>3, <1>4, ThinkGood
<1> QED BY <1>1, <1>2, <1>5, LeadsSelf, LeadsOn

-----------------------------------------------------------------------------
\* The Systems.

EntInputs == {"ModelResponded", "ModelFailed", "InferenceCancelled", "Compacted",
              "ToolReturned", "ToolAborted", "HumanActionDone", "HumanActionAborted",
              "PeerSendOutcome", "ChildReturned", "Cancel"}

\* An input is addressed to an entity of the World w and its data are typed.
GoodIn(w, in) ==
    /\ in.type \in EntInputs => in.ent \in DOMAIN w.ents
    /\ in.type \in {"ToolReturned", "HumanActionDone", "PeerSendOutcome", "ChildReturned"} =>
          in.err \in BOOLEAN
    /\ in.type = "ModelResponded" =>
          in.cmd \in Nat /\ in.usage \in Nat /\ in.plan \in Seq(SlotKinds)
    /\ in.type = "Compacted" => in.cmd \in Nat /\ in.n \in Nat
    /\ in.type = "UserMessage" => in.to \in DOMAIN w.ents /\ in.msg \in Nat
    /\ in.type = "SetAutonomy" => in.ask \in BOOLEAN
    /\ in.type = "DriveRequested" => in.envelope \in Nat /\ in.prompt \in Nat
    /\ in.type = "PeerDelivered" => in.envelope \in Nat

\* An input addressed to an entity stays so: no System forgets one.
LEMMA GoodInStays ==
    ASSUME NEW r, NEW s, Leads(r, s), NEW in, GoodIn(r.w, in)
    PROVE  GoodIn(s.w, in)
BY DEF Leads, GoodIn

\* Components with the same parent, slots and (or fewer) awaited commands stay good.
LEMMA SameIdsGood ==
    ASSUME NEW w, NEW c, GoodEnt(w, c), NEW d \in Components,
           d.parent = c.parent, d.slots = c.slots, d.awaits \subseteq c.awaits
    PROVE  GoodEnt(w, d)
BY DEF GoodEnt

\* The entities of a good run are good.
LEMMA EntGood ==
    ASSUME NEW r, GoodRun(r), NEW e \in DOMAIN r.w.ents
    PROVE  GoodEnt(r.w, r.w.ents[e]) /\ r.w.ents[e] \in Components /\ e \in Nat
BY DEF GoodRun, GoodEnt, WorldType

\* The fields of a run.
LEMMA RunFields ==
    ASSUME NEW r, GoodRun(r)
    PROVE  /\ r = [w |-> r.w, out |-> r.out]
           /\ r.w = [ents |-> r.w.ents, holds |-> r.w.holds, ask |-> r.w.ask,
                     raised |-> r.w.raised, applied |-> r.w.applied, nextCmd |-> r.w.nextCmd,
                     nextReq |-> r.w.nextReq, nextEnt |-> r.w.nextEnt]
           /\ r.out \in SUBSET Commands /\ r.w.raised \in SUBSET Raised
           /\ r.w.nextCmd \in Nat /\ r.w.nextReq \in Nat /\ r.w.nextEnt \in Nat
BY DEF GoodRun, WorldType

\* A run whose World differs only in what no id of an entity or a command depends on.
LEMMA ResourcesGood ==
    ASSUME NEW r, GoodRun(r), NEW s, s \in [w : {s.w}, out : {r.out}],
           WorldType(s.w), s.w.ents = r.w.ents, s.w.nextCmd = r.w.nextCmd,
           s.w.nextEnt = r.w.nextEnt,
           \A q \in s.w.raised : q.req < s.w.nextReq /\ q.ent \in DOMAIN r.w.ents
    PROVE  Leads(r, s)
<1>1. \A e \in DOMAIN s.w.ents : e < s.w.nextEnt /\ GoodEnt(s.w, s.w.ents[e])
  BY DEF GoodRun, GoodEnt
<1>2. s.out = r.out /\ s \in [w : {s.w}, out : SUBSET Commands]
  BY DEF GoodRun
<1> QED BY <1>1, <1>2 DEF GoodRun, Leads, Minted

\* The world gate may be held or released in any state (WorldGate).
LEMMA HoldsGood ==
    ASSUME NEW r, GoodRun(r), NEW H \in SUBSET {"User", "model-refusal"}
    PROVE  Leads(r, [r EXCEPT !.w.holds = H])
<1> DEFINE s == [r EXCEPT !.w.holds = H]
<1>1. s \in [w : {s.w}, out : {r.out}] /\ s.w = [r.w EXCEPT !.holds = H]
  BY DEF GoodRun
<1>2. /\ s.w.ents = r.w.ents /\ s.w.nextCmd = r.w.nextCmd /\ s.w.nextEnt = r.w.nextEnt
      /\ s.w.raised = r.w.raised /\ s.w.nextReq = r.w.nextReq
  BY <1>1 DEF GoodRun, WorldType
<1>3. WorldType(s.w)
  BY <1>1, <1>2 DEF GoodRun, WorldType
<1>4. \A q \in s.w.raised : q.req < s.w.nextReq /\ q.ent \in DOMAIN r.w.ents
  BY <1>2 DEF GoodRun
<1> HIDE DEF s
<1>5. Leads(r, s)
  BY <1>1, <1>2, <1>3, <1>4, ResourcesGood
<1> QED BY <1>5 DEF s

\* Clearing a trip opens the gates it closed and touches no id.
LEMMA ClearGood ==
    ASSUME NEW r, GoodRun(r), NEW trip
    PROVE  Leads(r, [r EXCEPT !.w.holds = @ \ {trip},
                              !.w.ents = [e \in DOMAIN @ |->
                                            IF @[e].halt = trip
                                            THEN [@[e] EXCEPT !.halt = "none"]
                                            ELSE @[e]]])
<1> DEFINE H == r.w.holds \ {trip}
           E == [e \in DOMAIN r.w.ents |-> IF r.w.ents[e].halt = trip
                                           THEN [r.w.ents[e] EXCEPT !.halt = "none"]
                                           ELSE r.w.ents[e]]
           s == [[r EXCEPT !.w.holds = H] EXCEPT !.w.ents = E]
<1>1. ASSUME NEW e \in DOMAIN r.w.ents
      PROVE  /\ E[e] \in Components /\ E[e].parent = r.w.ents[e].parent
             /\ E[e].slots = r.w.ents[e].slots /\ E[e].awaits = r.w.ents[e].awaits
  <2>1. r.w.ents[e] \in Components
    BY EntGood
  <2>2. E[e] = IF r.w.ents[e].halt = trip THEN [r.w.ents[e] EXCEPT !.halt = "none"]
               ELSE r.w.ents[e]
    OBVIOUS
  <2> HIDE DEF E
  <2>3. ASSUME NEW c \in Components
        PROVE  LET d == [c EXCEPT !.halt = "none"]
               IN  /\ d \in Components /\ d.parent = c.parent
                   /\ d.slots = c.slots /\ d.awaits = c.awaits
    BY DEF Components, Trips
  <2> QED BY <2>1, <2>2, <2>3
<1>2. DOMAIN E = DOMAIN r.w.ents OBVIOUS
<1> HIDE DEF E
<1>3. s \in [w : {s.w}, out : {r.out}] /\ s.w = [[r.w EXCEPT !.holds = H] EXCEPT !.ents = E]
  BY DEF GoodRun
<1>4. /\ s.w.ents = E /\ s.w.nextCmd = r.w.nextCmd /\ s.w.nextEnt = r.w.nextEnt
      /\ s.w.raised = r.w.raised /\ s.w.nextReq = r.w.nextReq /\ s.w.holds = H
      /\ s.w.ask = r.w.ask /\ s.w.applied = r.w.applied /\ s.out = r.out
  BY <1>3 DEF GoodRun, WorldType
<1>5. E \in [DOMAIN E -> Components]
  <2>1. E \in [DOMAIN r.w.ents -> Components]
    BY <1>1, <1>2 DEF E
  <2> QED BY <1>2, <2>1
<1>6. WorldType(s.w)
  BY <1>2, <1>3, <1>4, <1>5 DEF GoodRun, WorldType
<1>7. ASSUME NEW e \in DOMAIN E
      PROVE  e < s.w.nextEnt /\ GoodEnt(s.w, E[e])
  <2>1. GoodEnt(r.w, r.w.ents[e]) /\ e < r.w.nextEnt
    BY <1>2 DEF GoodRun
  <2>2. GoodEnt(r.w, E[e])
    BY <1>1, <1>2, <2>1, SameIdsGood
  <2> QED BY <1>2, <1>4, <2>1, <2>2 DEF GoodEnt
<1>8. GoodRun(s) /\ DOMAIN s.w.ents = DOMAIN r.w.ents
  BY <1>2, <1>3, <1>4, <1>6, <1>7 DEF GoodRun
<1>9. s = [r EXCEPT !.w.holds = @ \ {trip},
                    !.w.ents = [e \in DOMAIN @ |-> IF @[e].halt = trip
                                                   THEN [@[e] EXCEPT !.halt = "none"]
                                                   ELSE @[e]]]
  BY RunFields DEF E
<1> HIDE DEF s
<1> QED BY <1>4, <1>8, <1>9 DEF Leads, Minted

\* Pause, Resume and ClearPolicyHalt (systems/gate.rs).
LEMMA GateGood ==
    ASSUME NEW r, GoodRun(r), NEW in, GoodIn(r.w, in)
    PROVE  Leads(r, GateSystem(r, in))
<1>1. r.w.holds \in SUBSET {"User", "model-refusal"}
  BY DEF GoodRun, WorldType
<1>2. CASE in.type = "Pause"
  <2>1. GateSystem(r, in) = [r EXCEPT !.w.holds = r.w.holds \cup {"User"}]
    BY <1>2 DEF GateSystem
  <2>2. r.w.holds \cup {"User"} \in SUBSET {"User", "model-refusal"}
    BY <1>1
  <2> QED BY <2>1, <2>2, HoldsGood
<1>3. CASE in.type = "Resume"
  <2>1. GateSystem(r, in) = [r EXCEPT !.w.holds = r.w.holds \ {"User"}]
    BY <1>3 DEF GateSystem
  <2>2. r.w.holds \ {"User"} \in SUBSET {"User", "model-refusal"}
    BY <1>1
  <2> QED BY <2>1, <2>2, HoldsGood
<1>4. CASE in.type = "ClearPolicyHalt" /\ in.auth
  <2>1. GateSystem(r, in) =
           [r EXCEPT !.w.holds = @ \ {in.trip},
                     !.w.ents = [e \in DOMAIN @ |-> IF @[e].halt = in.trip
                                                    THEN [@[e] EXCEPT !.halt = "none"]
                                                    ELSE @[e]]]
    BY <1>4 DEF GateSystem
  <2> DEFINE trip == in.trip
  <2> HIDE DEF trip
  <2>2. Leads(r, [r EXCEPT !.w.holds = @ \ {trip},
                           !.w.ents = [e \in DOMAIN @ |-> IF @[e].halt = trip
                                                          THEN [@[e] EXCEPT !.halt = "none"]
                                                          ELSE @[e]]])
    BY ClearGood
  <2> QED BY <2>1, <2>2 DEF trip
<1>5. CASE ~ (in.type = "Pause" \/ in.type = "Resume" \/ (in.type = "ClearPolicyHalt" /\ in.auth))
  <2>1. GateSystem(r, in) = r
    BY <1>5 DEF GateSystem
  <2> QED BY <2>1, LeadsSelf
<1> QED BY <1>2, <1>3, <1>4, <1>5

\* A refusal holds the world gate (systems/guardrail.rs).
LEMMA GuardrailGood ==
    ASSUME NEW r, GoodRun(r), NEW in
    PROVE  Leads(r, GuardrailSystem(r, in))
<1>1. r.w.holds \cup {"model-refusal"} \in SUBSET {"User", "model-refusal"}
  BY DEF GoodRun, WorldType
<1>2. GuardrailSystem(r, in) \in {r, [r EXCEPT !.w.holds = r.w.holds \cup {"model-refusal"}]}
  BY DEF GuardrailSystem
<1> QED BY <1>1, <1>2, HoldsGood, LeadsSelf

\* Requests may be taken back in any state (AwaitingInteractions).
LEMMA RaisedGood ==
    ASSUME NEW r, GoodRun(r), NEW Q \in SUBSET r.w.raised
    PROVE  /\ Leads(r, [r EXCEPT !.w.raised = Q])
           /\ [r EXCEPT !.w.raised = Q].w.ents = r.w.ents
           /\ [r EXCEPT !.w.raised = Q].w.nextCmd = r.w.nextCmd
<1> DEFINE s == [r EXCEPT !.w.raised = Q]
<1>1. s \in [w : {s.w}, out : {r.out}] /\ s.w = [r.w EXCEPT !.raised = Q]
  BY DEF GoodRun
<1>2. /\ s.w.ents = r.w.ents /\ s.w.nextCmd = r.w.nextCmd /\ s.w.nextEnt = r.w.nextEnt
      /\ s.w.raised = Q /\ s.w.nextReq = r.w.nextReq
  BY <1>1 DEF GoodRun, WorldType
<1>3. WorldType(s.w)
  BY <1>1, <1>2 DEF GoodRun, WorldType
<1>4. \A q \in s.w.raised : q.req < s.w.nextReq /\ q.ent \in DOMAIN r.w.ents
  BY <1>2 DEF GoodRun
<1> HIDE DEF s
<1>5. Leads(r, s)
  BY <1>1, <1>2, <1>3, <1>4, ResourcesGood
<1> QED BY <1>2, <1>5 DEF s

\* A cancelled entity awaits, and cancels, only commands it was waiting for.
LEMMA CancelGood ==
    ASSUME NEW r, GoodRun(r), NEW e \in DOMAIN r.w.ents
    PROVE  Leads(r, Cancel(r, e))
<1> DEFINE c == r.w.ents[e]
           A == IF c.act = "Resolving" THEN SentCmds(c) ELSE c.awaits
           Q == r.w.raised \ HeldRequests(r.w, e)
           s == [r EXCEPT !.w.raised = Q]
           d == [ToIdle(c) EXCEPT !.act = IF A = {} THEN "Idle" ELSE "Cancelling", !.awaits = A]
           p == Put(s, e, d)
           out == CancelCommands(c, e)
<1>1. c \in Components /\ GoodEnt(r.w, c) /\ e \in Nat /\ r.w.nextCmd \in Nat
  BY EntGood, RunFields
<1>2. Cancel(r, e) \in {r, Emit(p, out)}
  BY DEF Cancel
<1>3. Leads(r, s) /\ s.w.ents = r.w.ents /\ s.w.nextCmd = r.w.nextCmd
  BY RaisedGood
<1>4. ASSUME NEW i \in DOMAIN c.slots, c.slots[i].st = "sent"
      PROVE  c.slots[i].cmd \in Nat /\ c.slots[i].cmd < r.w.nextCmd
  BY <1>1, <1>4 DEF GoodEnt
<1>5. \A k \in SentCmds(c) \cup c.awaits : k \in Nat /\ k < r.w.nextCmd
  <2>1. \A k \in c.awaits : k \in Nat /\ k < r.w.nextCmd
    BY <1>1, EntFields DEF GoodEnt
  <2>2. \A k \in SentCmds(c) : k \in Nat /\ k < r.w.nextCmd
    BY <1>4 DEF SentCmds
  <2> QED BY <2>1, <2>2
<1>6. GoodEnt(s.w, d)
  <2>1. GoodEnt(r.w, ToIdle(c))
    BY <1>1, IdleGood
  <2>2. A \in SUBSET Nat /\ \A k \in A : k < r.w.nextCmd
    BY <1>5
  <2> HIDE DEF A, c
  <2>3. /\ d \in Components /\ d.parent = ToIdle(c).parent /\ d.awaits = A
        /\ d.slots = ToIdle(c).slots
    BY <2>1, <2>2 DEF GoodEnt, Components, Activities
  <2> HIDE DEF d, s
  <2>4. GoodEnt(r.w, d)
    BY <2>1, <2>2, <2>3 DEF GoodEnt
  <2>5. s.w.nextEnt = r.w.nextEnt
    BY DEF s, GoodRun, WorldType
  <2> QED BY <1>3, <2>4, <2>5 DEF GoodEnt
<1>7. \A x \in out : x \in Commands /\ x.cmd < r.w.nextCmd /\ x.ent = e
  <2> SUFFICES ASSUME NEW x \in out
               PROVE  x \in Commands /\ x.cmd < r.w.nextCmd /\ x.ent = e
    OBVIOUS
  <2>1. \E type \in CancelTypes : \E k \in SentCmds(c) \cup c.awaits : x = Command(type, k, e, 0)
    BY DEF CancelCommands, SentCmds, CancelTypes
  <2>2. PICK type \in CancelTypes, k \in SentCmds(c) \cup c.awaits : x = Command(type, k, e, 0)
    BY <2>1
  <2>3. k \in Nat /\ k < r.w.nextCmd
    BY <1>5
  <2> QED BY <1>1, <2>2, <2>3, CommandType
<1> HIDE DEF s, d, out, c
<1>8. GoodRun(s) /\ e \in DOMAIN s.w.ents
  BY <1>3 DEF Leads
<1>9. GoodRun(p) /\ p.w.nextCmd = r.w.nextCmd /\ DOMAIN p.w.ents = DOMAIN r.w.ents
  <2>1. GoodRun(p)
    BY <1>6, <1>8, PutGood
  <2>2. p.w.nextCmd = s.w.nextCmd /\ DOMAIN p.w.ents = DOMAIN s.w.ents
    BY <1>8, PutFields
  <2> QED BY <1>3, <2>1, <2>2
<1> HIDE DEF p
<1>10. Leads(r, Emit(p, out))
  <2>1. out \in SUBSET Commands /\ \A x \in out : x.cmd < p.w.nextCmd /\ x.ent \in DOMAIN p.w.ents
    BY <1>7, <1>9
  <2>2. GoodRun(Emit(p, out)) /\ Emit(p, out).w = p.w
    BY <1>9, <2>1, EmitGood
  <2> QED BY <1>9, <2>2 DEF Leads, Minted
<1> QED BY <1>2, <1>10, LeadsSelf

\* A late result is absorbed by the entity that was cancelled.
LEMMA AbsorbGood ==
    ASSUME NEW r, GoodRun(r), NEW e \in DOMAIN r.w.ents, NEW cmd
    PROVE  Leads(r, Absorb(r, e, cmd))
<1> DEFINE c == r.w.ents[e]
           d == [c EXCEPT !.awaits = @ \ {cmd}, !.act = IF c.awaits = {cmd} THEN "Idle" ELSE @]
<1>1. c \in Components /\ GoodEnt(r.w, c)
  BY EntGood
<1>2. Absorb(r, e, cmd) \in {r, Put(r, e, d)}
  BY DEF Absorb
<1>3. GoodEnt(r.w, d)
  <2> HIDE DEF c
  <2>1. /\ d \in Components /\ d.parent = c.parent /\ d.slots = c.slots
        /\ d.awaits \subseteq c.awaits
    BY <1>1 DEF Components, Activities
  <2> HIDE DEF d
  <2> QED BY <1>1, <2>1, SameIdsGood
<1> QED BY <1>2, <1>3, PutLeads, LeadsSelf

\* A cancellation and the results that arrive after it (systems/cancel.rs).
LEMMA CancelSystemGood ==
    ASSUME NEW r, GoodRun(r), NEW in, GoodIn(r.w, in)
    PROVE  Leads(r, CancelSystem(r, in))
<1>1. CASE in.type = "Cancel"
  <2>1. CancelSystem(r, in) = Cancel(r, in.ent) /\ in.ent \in DOMAIN r.w.ents
    BY <1>1 DEF CancelSystem, AbsorbedInputs, GoodIn, EntInputs
  <2> QED BY <2>1, CancelGood
<1>2. CASE in.type \in AbsorbedInputs
  <2>1. CancelSystem(r, in) = Absorb(r, in.ent, in.cmd) /\ in.ent \in DOMAIN r.w.ents
    BY <1>2 DEF CancelSystem, AbsorbedInputs, GoodIn, EntInputs
  <2> QED BY <2>1, AbsorbGood
<1>3. CASE in.type # "Cancel" /\ in.type \notin AbsorbedInputs
  BY <1>3, LeadsSelf DEF CancelSystem
<1> QED BY <1>1, <1>2, <1>3

\* The limits of an entity are natural numbers, for a child all 0.
LEMMA LimitType ==
    ASSUME NEW e
    PROVE  /\ LimitOf(e, LoopCap) \in Nat /\ LimitOf(e, FanoutCap) \in Nat
           /\ LimitOf(e, InboxCapacity) \in Nat /\ LimitOf(e, SpendLimit) \in Nat
           /\ LimitOf(e, ContextLimit) \in Nat
BY LimitsAssumption DEF LimitOf

\* Messages taken from an inbox, and messages appended to a history.
LEMMA UserMsgsType ==
    ASSUME NEW ids \in Seq(Nat)
    PROVE  UserMsgs(ids) \in Seq(Msgs)
<1>1. \A i \in DOMAIN ids : Msg("user", ids[i]) \in Msgs
  BY DEF Msg, Msgs, Roles
<1> QED BY <1>1 DEF UserMsgs

\* The inbox stays a sequence of messages when its oldest are dropped (bounded_enqueue).
LEMMA BoundedEnqueueType ==
    ASSUME NEW inbox \in Seq(Nat), NEW m \in Nat, NEW capacity \in Nat
    PROVE  BoundedEnqueue(inbox, m, capacity) \in Seq(Nat)
<1> DEFINE lo == Len(inbox) - capacity + 2
           hi == Len(inbox)
<1>1. CASE capacity # 0 /\ Len(inbox) >= capacity
  <2>1. lo \in Int /\ hi \in Int /\ \A i \in lo .. hi : inbox[i] \in Nat
    BY <1>1
  <2> HIDE DEF lo, hi
  <2>2. SubSeq(inbox, lo, hi) \in Seq(Nat)
    BY <2>1, SubSeqProperties
  <2>3. BoundedEnqueue(inbox, m, capacity) = Append(SubSeq(inbox, lo, hi), m)
    BY <1>1 DEF BoundedEnqueue, lo, hi
  <2> QED BY <2>2, <2>3, AppendProperties
<1>2. CASE ~ (capacity # 0 /\ Len(inbox) >= capacity)
  <2>1. BoundedEnqueue(inbox, m, capacity) = Append(inbox, m)
    BY <1>2 DEF BoundedEnqueue
  <2> QED BY <2>1, AppendProperties
<1> QED BY <1>1, <1>2

\* A message to a busy entity is parked (systems/steering.rs).
LEMMA SteeringGood ==
    ASSUME NEW r, GoodRun(r), NEW in, GoodIn(r.w, in)
    PROVE  Leads(r, SteeringSystem(r, in))
<1> DEFINE e == in.to
           c == r.w.ents[e]
           x == BoundedEnqueue(c.inbox, in.msg, LimitOf(e, InboxCapacity))
           d == [c EXCEPT !.inbox = x]
<1>1. CASE in.type = "UserMessage" /\ c.act # "Idle"
  <2>1. e \in DOMAIN r.w.ents /\ in.msg \in Nat
    BY <1>1 DEF GoodIn
  <2>2. c \in Components /\ GoodEnt(r.w, c)
    BY <2>1, EntGood
  <2>3. x \in Seq(Nat)
    <3>1. c.inbox \in Seq(Nat)
      BY <2>2, EntFields
    <3> HIDE DEF c
    <3> QED BY <2>1, <3>1, LimitType, BoundedEnqueueType
  <2>4. SteeringSystem(r, in) = Put(r, e, d)
    BY <1>1 DEF SteeringSystem
  <2> HIDE DEF c, x
  <2>5. d \in Components /\ d.parent = c.parent /\ d.slots = c.slots /\ d.awaits = c.awaits
    BY <2>2, <2>3 DEF Components
  <2> HIDE DEF d
  <2>6. GoodEnt(r.w, d)
    BY <2>2, <2>5, SameIdsGood
  <2> QED BY <2>1, <2>4, <2>6, PutLeads
<1>2. CASE ~ (in.type = "UserMessage" /\ c.act # "Idle")
  BY <1>2, LeadsSelf DEF SteeringSystem
<1> QED BY <1>1, <1>2

\* A message to an idle entity starts its turn (systems/intake.rs).
LEMMA IntakeGood ==
    ASSUME NEW r, GoodRun(r), NEW in, GoodIn(r.w, in)
    PROVE  Leads(r, IntakeSystem(r, in))
<1> DEFINE e == in.to
           c == r.w.ents[e]
           cap == LimitOf(e, LoopCap)
           wrapUp == IF Reached(c.turns + 1, cap) THEN <<Msg("note", 0)>> ELSE <<>>
           h == c.hist \o UserMsgs(c.inbox) \o <<Msg("user", in.msg)>> \o wrapUp
           d == [c EXCEPT !.hist = h, !.inbox = <<>>, !.turns = @ + 1]
<1>1. CASE in.type = "UserMessage"
  <2>1. e \in DOMAIN r.w.ents /\ in.msg \in Nat
    BY <1>1 DEF GoodIn
  <2>2. c \in Components /\ GoodEnt(r.w, c)
    BY <2>1, EntGood
  <2>3. IntakeSystem(r, in) \in {r, Think(r, e, d)}
    BY DEF IntakeSystem
  <2>4. h \in Seq(Msgs)
    <3>1. c.hist \in Seq(Msgs) /\ UserMsgs(c.inbox) \in Seq(Msgs)
      BY <2>2, EntFields, UserMsgsType
    <3>2. Msg("user", in.msg) \in Msgs /\ Msg("note", 0) \in Msgs
      BY <2>1 DEF Msg, Msgs, Roles
    <3>3. <<Msg("user", in.msg)>> \in Seq(Msgs) /\ wrapUp \in Seq(Msgs)
      BY <3>2
    <3> HIDE DEF c, wrapUp
    <3> QED BY <3>1, <3>3
  <2> HIDE DEF c, h
  <2>5. <<>> \in Seq(Nat) /\ c.turns + 1 \in Nat
    BY <2>2 DEF Components
  <2>6. d \in Components /\ d.parent = c.parent /\ d.slots = c.slots /\ d.awaits = c.awaits
    BY <2>2, <2>4, <2>5 DEF Components
  <2> HIDE DEF d
  <2>7. GoodEnt(r.w, d)
    BY <2>2, <2>6, SameIdsGood
  <2> QED BY <2>1, <2>3, <2>7, ThinkGood, LeadsSelf
<1>2. CASE in.type # "UserMessage"
  BY <1>2, LeadsSelf DEF IntakeSystem
<1> QED BY <1>1, <1>2

\* A turn closes: its last message joins the history and the entity goes Idle.
LEMMA CloseTurnGood ==
    ASSUME NEW r, GoodRun(r), NEW e \in DOMAIN r.w.ents, NEW said \in Seq(Msgs)
    PROVE  Leads(r, CloseTurn(r, e, said))
<1> DEFINE c == ToIdle(r.w.ents[e])
           d == [c EXCEPT !.hist = @ \o said]
<1>1. GoodEnt(r.w, c) /\ c \in Components
  BY EntGood, IdleGood DEF GoodEnt
<1>2. CloseTurn(r, e, said) = Put(r, e, d)
  BY DEF CloseTurn
<1> HIDE DEF c
<1>3. c.hist \o said \in Seq(Msgs)
  BY <1>1, EntFields
<1>4. d \in Components /\ d.parent = c.parent /\ d.slots = c.slots /\ d.awaits = c.awaits
  BY <1>1, <1>3 DEF Components
<1> HIDE DEF d
<1>5. GoodEnt(r.w, d)
  BY <1>1, <1>4, SameIdsGood
<1> QED BY <1>2, <1>5, PutLeads

\* Minting child ids keeps a run good and its entities as they are (IdAlloc::mint_entity).
LEMMA MintEntsGood ==
    ASSUME NEW r, GoodRun(r), NEW n \in Nat
    PROVE  /\ GoodRun(MintEnts(r, n))
           /\ MintEnts(r, n).w.ents = r.w.ents
           /\ MintEnts(r, n).w.nextCmd = r.w.nextCmd
           /\ MintEnts(r, n).w.nextEnt = r.w.nextEnt + n
<1> DEFINE s == MintEnts(r, n)
<1>1. /\ s \in [w : {s.w}, out : SUBSET Commands]
      /\ s.out = r.out
      /\ s.w = [r.w EXCEPT !.nextEnt = @ + n]
  BY DEF GoodRun, MintEnts
<1>2. /\ s.w.ents = r.w.ents /\ s.w.nextCmd = r.w.nextCmd
      /\ s.w.nextEnt = r.w.nextEnt + n /\ s.w.raised = r.w.raised
      /\ s.w.nextReq = r.w.nextReq /\ s.w.nextEnt \in Nat
  BY <1>1 DEF GoodRun, WorldType
<1>3. WorldType(s.w)
  BY <1>1, <1>2 DEF GoodRun, WorldType
<1>4. ASSUME NEW f \in DOMAIN r.w.ents
      PROVE  f < s.w.nextEnt /\ GoodEnt(s.w, r.w.ents[f])
  <2>1. f < r.w.nextEnt /\ GoodEnt(r.w, r.w.ents[f]) /\ f \in Nat /\ r.w.nextEnt \in Nat
    BY EntGood DEF GoodRun, WorldType
  <2>2. r.w.nextCmd \in Nat
    BY DEF GoodRun, WorldType
  <2> HIDE DEF s
  <2>3. s.w.nextEnt >= r.w.nextEnt /\ DOMAIN s.w.ents = DOMAIN r.w.ents
    BY <1>2, <2>1
  <2> QED BY <1>2, <2>1, <2>2, <2>3, MoreIdsGood
<1> HIDE DEF s
<1>5. GoodRun(s)
  BY <1>1, <1>2, <1>3, <1>4 DEF GoodRun
<1> QED BY <1>2, <1>5 DEF s

\* The slots of a response: none has a command yet, each spawn has a child id of its own.
LEMMA NewSlotsType ==
    ASSUME NEW plan \in Seq(SlotKinds), NEW ent \in Nat
    PROVE  LET n == Cardinality({i \in DOMAIN plan : plan[i] = "Child"})
               X == NewSlots(plan, ent)
           IN  /\ n \in Nat /\ X \in Seq(ToolSlots)
               /\ \A i \in DOMAIN X : /\ X[i].cmd = -1 /\ X[i].child < ent + n /\ X[i].st = "fresh"
                                      /\ X[i].kind = "Child" => X[i].child \in Nat
<1> DEFINE spawns == {i \in DOMAIN plan : plan[i] = "Child"}
           n == Cardinality(spawns)
           X == NewSlots(plan, ent)
<1>1. spawns \in SUBSET (1 .. Len(plan)) /\ Len(plan) \in Nat /\ DOMAIN plan = 1 .. Len(plan)
  OBVIOUS
<1>2. n \in Nat /\ \A i \in spawns : Rank(i, spawns) \in Nat /\ Rank(i, spawns) < n
  BY <1>1, RankType
<1>3. DOMAIN X = 1 .. Len(plan) /\ \A i \in 1 .. Len(plan) :
         X[i] = [kind |-> plan[i], st |-> "fresh", cmd |-> None, err |-> FALSE,
                 child |-> IF i \in spawns THEN ent + Rank(i, spawns) ELSE None]
  BY <1>1 DEF NewSlots
<1> HIDE DEF X, n
<1>4. ASSUME NEW i \in 1 .. Len(plan)
      PROVE  /\ X[i] \in ToolSlots /\ X[i].cmd = -1 /\ X[i].child < ent + n
             /\ X[i].st = "fresh" /\ (X[i].kind = "Child" => X[i].child \in Nat)
  <2> DEFINE k == IF i \in spawns THEN ent + Rank(i, spawns) ELSE None
  <2>1. k \in Nat \cup {None} /\ k < ent + n /\ (plan[i] = "Child" => k \in Nat)
    BY <1>2 DEF None
  <2>2. plan[i] \in SlotKinds
    BY <1>1
  <2> HIDE DEF k
  <2>3. X[i] = [kind |-> plan[i], st |-> "fresh", cmd |-> None, err |-> FALSE, child |-> k]
    BY <1>3 DEF k
  <2> QED BY <2>1, <2>2, <2>3 DEF ToolSlots, SlotStates, None
<1>5. X \in [1 .. Len(plan) -> ToolSlots]
  <2>1. X = [i \in 1 .. Len(plan) |-> X[i]]
    BY <1>3 DEF X, NewSlots
  <2> QED BY <1>4, <2>1
<1> QED BY <1>1, <1>2, <1>3, <1>4, <1>5 DEF X, n

\* A response with tool uses opens one slot for each (begin_resolving_tool_uses).
LEMMA BeginResolvingGood ==
    ASSUME NEW r, GoodRun(r), NEW e \in DOMAIN r.w.ents, NEW turn \in Nat,
           NEW plan \in Seq(SlotKinds)
    PROVE  Leads(r, BeginResolving(r, e, turn, plan))
<1> DEFINE n == Cardinality({i \in DOMAIN plan : plan[i] = "Child"})
           m == MintEnts(r, n)
           c == ToIdle(r.w.ents[e])
           X == NewSlots(plan, r.w.nextEnt)
           h == Append(c.hist, Msg("uses", turn))
           d == [c EXCEPT !.hist = h, !.act = "Resolving", !.turn = turn, !.slots = X]
<1>1. GoodEnt(r.w, c) /\ c \in Components /\ r.w.nextEnt \in Nat /\ r.w.nextCmd \in Nat
  BY EntGood, IdleGood, RunFields DEF GoodEnt
<1>2. /\ n \in Nat /\ X \in Seq(ToolSlots)
      /\ \A i \in DOMAIN X : /\ X[i].cmd = -1 /\ X[i].child < r.w.nextEnt + n
                             /\ X[i].st = "fresh" /\ (X[i].kind = "Child" => X[i].child \in Nat)
  BY <1>1, NewSlotsType
<1>3. BeginResolving(r, e, turn, plan) = Put(m, e, d)
  <2>1. m.w.ents = r.w.ents
    BY <1>2, MintEntsGood
  <2> QED BY DEF BeginResolving
<1> HIDE DEF n, X
<1>4. /\ GoodRun(m) /\ m.w.ents = r.w.ents /\ m.w.nextCmd = r.w.nextCmd
      /\ m.w.nextEnt = r.w.nextEnt + n
  BY <1>2, MintEntsGood
<1>5. h \in Seq(Msgs)
  <2>1. Msg("uses", turn) \in Msgs
    BY DEF Msg, Msgs, Roles
  <2> QED BY <1>1, <2>1, EntFields
<1> HIDE DEF c, h, m
<1>6. d \in Components /\ d.parent = c.parent /\ d.slots = X /\ d.awaits = c.awaits
  BY <1>1, <1>2, <1>5 DEF Components, Activities
<1> HIDE DEF d
<1>7. GoodEnt(m.w, d)
  <2>1. \A k \in d.awaits : k < m.w.nextCmd
    BY <1>1, <1>4, <1>6 DEF GoodEnt
  <2>2. d.parent \in DOMAIN m.w.ents \cup {None}
    BY <1>1, <1>4, <1>6 DEF GoodEnt
  <2>3. \A i \in DOMAIN X : /\ X[i].cmd < m.w.nextCmd /\ X[i].child < m.w.nextEnt
                             /\ X[i].st # "sent" /\ (X[i].kind = "Child" => X[i].child \in Nat)
    BY <1>1, <1>2, <1>4
  <2> QED BY <1>6, <2>1, <2>2, <2>3 DEF GoodEnt
<1>8. Leads(m, Put(m, e, d))
  BY <1>4, <1>7, PutLeads
<1> QED BY <1>3, <1>4, <1>8 DEF Leads, Minted

\* A response, failure or cancellation of the awaited call settles the turn (systems/turn.rs).
LEMMA TurnSystemGood ==
    ASSUME NEW r, GoodRun(r), NEW in, GoodIn(r.w, in)
    PROVE  Leads(r, TurnSystem(r, in))
<1>1. CASE in.type = "ModelResponded"
  <2>1. in.ent \in DOMAIN r.w.ents /\ in.cmd \in Nat /\ in.plan \in Seq(SlotKinds)
    BY <1>1 DEF GoodIn, EntInputs
  <2>2. Said(in) \in Seq(Msgs)
    <3>1. Msg("answer", in.cmd) \in Msgs /\ Msg("uses", in.cmd) \in Msgs
      BY <2>1 DEF Msg, Msgs, Roles
    <3> QED BY <3>1 DEF Said
  <2>3. TurnSystem(r, in) \in {r, BeginResolving(r, in.ent, in.cmd, in.plan),
                               CloseTurn(r, in.ent, Said(in))}
    BY <1>1 DEF TurnSystem
  <2> QED BY <2>1, <2>2, <2>3, LeadsSelf, BeginResolvingGood, CloseTurnGood
<1>2. CASE in.type \in {"ModelFailed", "InferenceCancelled"}
  <2>1. in.ent \in DOMAIN r.w.ents /\ <<>> \in Seq(Msgs)
    BY <1>2 DEF GoodIn, EntInputs
  <2>2. TurnSystem(r, in) \in {r, CloseTurn(r, in.ent, <<>>)}
    BY <1>2 DEF TurnSystem
  <2> QED BY <2>1, <2>2, LeadsSelf, CloseTurnGood
<1>3. CASE in.type \notin {"ModelResponded", "ModelFailed", "InferenceCancelled"}
  BY <1>3, LeadsSelf DEF TurnSystem
<1> QED BY <1>1, <1>2, <1>3

\* A response folds its usage, and at the spend limit fails every slot (systems/budget.rs).
LEMMA BudgetGood ==
    ASSUME NEW r, GoodRun(r), NEW in, GoodIn(r.w, in)
    PROVE  Leads(r, BudgetSystem(r, in))
<1> DEFINE e == in.ent
           c == r.w.ents[e]
           spend == SaturatingAdd(c.spend, in.usage, LimitOf(e, SpendLimit))
           context == SaturatingAdd(0, in.usage, LimitOf(e, ContextLimit))
           folded == [c EXCEPT !.spend = spend, !.context = context]
           halted == [folded EXCEPT !.halt = "budget-exhausted"]
           d == SettleSlots(halted, Pending(r.w, e), TRUE)
<1>1. CASE in.type = "ModelResponded"
  <2>1. e \in DOMAIN r.w.ents /\ in.usage \in Nat
    BY <1>1 DEF GoodIn, EntInputs
  <2>2. c \in Components /\ GoodEnt(r.w, c) /\ c.spend \in Nat /\ r.w.nextCmd \in Nat
    BY <2>1, EntGood, RunFields DEF Components
  <2>3. BudgetSystem(r, in) \in {Put(r, e, d), Put(r, e, folded)}
    BY <1>1 DEF BudgetSystem
  <2>4. spend \in Nat /\ context \in Nat
    BY <2>1, <2>2, LimitType DEF SaturatingAdd
  <2> HIDE DEF spend, context, c
  <2>5. /\ folded \in Components /\ folded.parent = c.parent /\ folded.slots = c.slots
        /\ folded.awaits = c.awaits
    BY <2>2, <2>4 DEF Components
  <2>6. /\ halted \in Components /\ halted.parent = c.parent /\ halted.slots = c.slots
        /\ halted.awaits = c.awaits
    BY <2>2, <2>4 DEF Components, Trips
  <2> HIDE DEF folded, halted
  <2>7. GoodEnt(r.w, folded) /\ GoodEnt(r.w, halted)
    BY <2>2, <2>5, <2>6, SameIdsGood
  <2>8. GoodEnt(r.w, d)
    BY <2>2, <2>7, SettleSlotsGood
  <2> HIDE DEF d
  <2> QED BY <2>1, <2>3, <2>7, <2>8, PutLeads
<1>2. CASE in.type # "ModelResponded"
  BY <1>2, LeadsSelf DEF BudgetSystem
<1> QED BY <1>1, <1>2

\* A compaction starts on a command of its own, over a prefix of the history.
LEMMA StartCompactionGood ==
    ASSUME NEW r, GoodRun(r), NEW e \in DOMAIN r.w.ents
    PROVE  Leads(r, StartCompaction(r, e))
<1> DEFINE c == r.w.ents[e]
           k == r.w.nextCmd
           m == Mint(r, 1)
           d == ToWaiting(c, "Compacting", k)
           p == Put(m, e, d)
           n == SplitPoint(c.hist)
           x == Command("Compact", k, e, n)
<1>1. k \in Nat /\ e \in Nat /\ GoodEnt(r.w, c) /\ c \in Components
  BY EntGood, RunFields
<1>2. GoodRun(m) /\ m.w.ents = r.w.ents /\ m.w.nextCmd = k + 1
  BY MintGood
<1>3. GoodEnt(m.w, d)
  BY <1>1, <1>2, GoodAfterMint, WaitingGood
<1>4. n \in Nat
  <2> DEFINE l == Len(c.hist)
  <2>1. l \in Nat
    BY <1>1, EntFields
  <2>2. n = IF l \div 2 > 1 THEN l \div 2 ELSE IF l > 0 THEN 1 ELSE 0
    BY DEF SplitPoint
  <2> HIDE DEF l, n
  <2>3. l \div 2 \in Int
    BY <2>1
  <2> QED BY <2>1, <2>2, <2>3
<1> HIDE DEF n
<1>5. x \in Commands /\ x.cmd < k + 1 /\ x.ent = e
  <2>1. "Compact" \in WorkTypes \cup CancelTypes
    BY DEF WorkTypes
  <2>2. x \in Commands /\ x.cmd = k /\ x.ent = e
    BY <1>1, <1>4, <2>1, CommandType
  <2> HIDE DEF x
  <2> QED BY <1>1, <2>2
<1>6. StartCompaction(r, e) \in {r, Emit(p, {x})}
  BY DEF StartCompaction, n
<1> HIDE DEF d, m, x
<1>7. GoodRun(p) /\ DOMAIN p.w.ents = DOMAIN r.w.ents /\ p.w.nextCmd = k + 1
  <2>1. e \in DOMAIN m.w.ents
    BY <1>2
  <2>2. GoodRun(p)
    BY <1>2, <1>3, <2>1, PutGood
  <2>3. p.w.nextCmd = m.w.nextCmd /\ DOMAIN p.w.ents = DOMAIN m.w.ents
    BY <1>2, <2>1, PutFields
  <2> QED BY <1>2, <2>2, <2>3
<1> HIDE DEF p
<1>8. GoodRun(Emit(p, {x})) /\ Emit(p, {x}).w = p.w
  BY <1>5, <1>7, EmitGood
<1>9. Leads(r, Emit(p, {x}))
  <2>1. Minted(r.w) \subseteq Minted(p.w)
    BY <1>1, <1>7, MintedMore
  <2> QED BY <1>7, <1>8, <2>1 DEF Leads
<1> QED BY <1>6, <1>9, LeadsSelf

\* The continuation of a compaction drains the inbox behind the history it is given.
LEMMA ContinueGood ==
    ASSUME NEW r, GoodRun(r), NEW e \in DOMAIN r.w.ents, NEW hist \in Seq(Msgs)
    PROVE  Leads(r, Continue(r, e, hist))
<1> DEFINE c == r.w.ents[e]
           h == hist \o UserMsgs(c.inbox)
           d == [c EXCEPT !.hist = h, !.inbox = <<>>]
<1>1. c \in Components /\ GoodEnt(r.w, c)
  BY EntGood
<1>2. h \in Seq(Msgs)
  <2>1. UserMsgs(c.inbox) \in Seq(Msgs)
    BY <1>1, EntFields, UserMsgsType
  <2> QED BY <2>1
<1>3. Continue(r, e, hist) = Think(r, e, d)
  BY DEF Continue
<1> HIDE DEF c, h
<1>4. <<>> \in Seq(Nat) OBVIOUS
<1>5. d \in Components /\ d.parent = c.parent /\ d.slots = c.slots /\ d.awaits = c.awaits
  BY <1>1, <1>2, <1>4 DEF Components
<1> HIDE DEF d
<1>6. GoodEnt(r.w, d)
  BY <1>1, <1>5, SameIdsGood
<1> QED BY <1>3, <1>6, ThinkGood

\* A summary takes the place of the prefix it summarises.
LEMMA SummarisedType ==
    ASSUME NEW hist \in Seq(Msgs), NEW in, in.n \in Nat, in.cmd \in Nat
    PROVE  Summarised(hist, in) \in Seq(Msgs)
<1> DEFINE lo == in.n + 1
           hi == Len(hist)
           rest == SubSeq(hist, lo, hi)
<1>1. lo \in Nat /\ hi \in Nat /\ \A i \in lo .. hi : hist[i] \in Msgs OBVIOUS
<1> HIDE DEF lo, hi
<1>2. rest \in Seq(Msgs)
  BY <1>1, SubSeqProperties
<1>3. <<Msg("summary", in.cmd)>> \in Seq(Msgs)
  BY DEF Msg, Msgs, Roles
<1>4. Summarised(hist, in) \in {hist, <<Msg("summary", in.cmd)>> \o rest}
  BY DEF Summarised, lo, hi
<1> DEFINE first == <<Msg("summary", in.cmd)>>
<1> HIDE DEF rest, first
<1>5. first \o rest \in Seq(Msgs)
  BY <1>2, <1>3 DEF first
<1> QED BY <1>4, <1>5 DEF first

\* A compaction starts after a response and continues on its answer (systems/compaction.rs).
LEMMA CompactionSystemGood ==
    ASSUME NEW r, GoodRun(r), NEW in, GoodIn(r.w, in)
    PROVE  Leads(r, CompactionSystem(r, in))
<1> DEFINE c == r.w.ents[in.ent]
<1>1. CASE in.type = "ModelResponded"
  <2>1. CompactionSystem(r, in) = StartCompaction(r, in.ent) /\ in.ent \in DOMAIN r.w.ents
    BY <1>1 DEF CompactionSystem, GoodIn, EntInputs
  <2> QED BY <2>1, StartCompactionGood
<1>2. CASE in.type = "Compacted"
  <2>1. in.ent \in DOMAIN r.w.ents /\ in.n \in Nat /\ in.cmd \in Nat
    BY <1>2 DEF GoodIn, EntInputs
  <2>2. c.hist \in Seq(Msgs)
    BY <2>1, EntGood, EntFields
  <2>3. CompactionSystem(r, in) \in {r, Continue(r, in.ent, Summarised(c.hist, in))}
    BY <1>2 DEF CompactionSystem
  <2> HIDE DEF c
  <2> QED BY <2>1, <2>2, <2>3, SummarisedType, ContinueGood, LeadsSelf
<1>3. CASE in.type = "ModelFailed"
  <2>1. in.ent \in DOMAIN r.w.ents
    BY <1>3 DEF GoodIn, EntInputs
  <2>2. c.hist \in Seq(Msgs)
    BY <2>1, EntGood, EntFields
  <2>3. CompactionSystem(r, in) \in {r, Continue(r, in.ent, c.hist)}
    BY <1>3 DEF CompactionSystem
  <2> HIDE DEF c
  <2> QED BY <2>1, <2>2, <2>3, ContinueGood, LeadsSelf
<1>4. CASE in.type \notin {"ModelResponded", "Compacted", "ModelFailed"}
  BY <1>4, LeadsSelf DEF CompactionSystem
<1> QED BY <1>1, <1>2, <1>3, <1>4

\* Minting requests for an entity and raising them (IdAlloc::mint_request).
LEMMA RequestsGood ==
    ASSUME NEW r, GoodRun(r), NEW n \in Nat, NEW R \in SUBSET Raised,
           \A q \in R : q.req < r.w.nextReq + n /\ q.ent \in DOMAIN r.w.ents
    PROVE  /\ Leads(r, [r EXCEPT !.w.nextReq = @ + n, !.w.raised = @ \cup R])
           /\ [r EXCEPT !.w.nextReq = @ + n, !.w.raised = @ \cup R].w.ents = r.w.ents
<1> DEFINE s == [[r EXCEPT !.w.nextReq = @ + n] EXCEPT !.w.raised = @ \cup R]
<1>1. /\ s \in [w : {s.w}, out : {r.out}]
      /\ s.w = [[r.w EXCEPT !.nextReq = @ + n] EXCEPT !.raised = @ \cup R]
  BY DEF GoodRun
<1>2. /\ s.w.ents = r.w.ents /\ s.w.nextCmd = r.w.nextCmd /\ s.w.nextEnt = r.w.nextEnt
      /\ s.w.raised = r.w.raised \cup R /\ s.w.nextReq = r.w.nextReq + n
      /\ s.w.holds = r.w.holds /\ s.w.ask = r.w.ask /\ s.w.applied = r.w.applied
  BY <1>1 DEF GoodRun, WorldType
<1>3. r.w.nextReq \in Nat /\ r.w.raised \in SUBSET Raised
  BY RunFields
<1>4. WorldType(s.w)
  <2> DEFINE v == [r.w EXCEPT !.nextReq = @ + n]
  <2> HIDE DEF s
  <2>3. /\ v \in [ents : {v.ents}, holds : SUBSET {"User", "model-refusal"}, ask : BOOLEAN,
                  raised : SUBSET Raised, applied : SUBSET Nat,
                  nextCmd : Nat, nextReq : Nat, nextEnt : Nat]
        /\ v.ents = r.w.ents
    BY <1>3 DEF GoodRun, WorldType
  <2>4. s.w = [v EXCEPT !.raised = @ \cup R]
    BY <1>1
  <2> HIDE DEF v
  <2>1. s.w \in [ents : {s.w.ents}, holds : SUBSET {"User", "model-refusal"}, ask : BOOLEAN,
                 raised : SUBSET Raised, applied : SUBSET Nat,
                 nextCmd : Nat, nextReq : Nat, nextEnt : Nat]
    BY <2>3, <2>4
  <2>2. s.w.raised \in SUBSET Raised /\ s.w.nextReq \in Nat
    BY <1>2, <1>3
  <2> QED BY <1>2, <2>1, <2>2 DEF GoodRun, WorldType
<1>5. \A q \in s.w.raised : q.req < s.w.nextReq /\ q.ent \in DOMAIN r.w.ents
  <2>1. \A q \in r.w.raised : q.req \in Nat /\ q.req < r.w.nextReq /\ q.ent \in DOMAIN r.w.ents
    BY <1>3 DEF GoodRun, Raised
  <2> QED BY <1>2, <1>3, <2>1
<1>6. s = [r EXCEPT !.w.nextReq = @ + n, !.w.raised = @ \cup R] OBVIOUS
<1> HIDE DEF s
<1>7. Leads(r, s)
  BY <1>1, <1>2, <1>4, <1>5, ResourcesGood
<1> QED BY <1>2, <1>6, <1>7

\* Slots of an entity marked held, or fresh again.
LEMMA MarkLeads ==
    ASSUME NEW r, GoodRun(r), NEW e \in DOMAIN r.w.ents, NEW I, NEW st \in {"fresh", "held"}
    PROVE  Leads(r, Put(r, e, MarkSlots(r.w.ents[e], I, st)))
BY EntGood, MarkGood, PutLeads

\* Under an approval policy each fresh Local slot is held by a request of its own
\* (AutonomySystem::gate_new_slots).
LEMMA GateNewSlotsGood ==
    ASSUME NEW r, GoodRun(r), NEW e \in DOMAIN r.w.ents
    PROVE  Leads(r, GateNewSlots(r, e))
<1> DEFINE c == r.w.ents[e]
           I == FreshSlots(r.w, e, "Local")
           n == Cardinality(I)
           request(i) == [req |-> r.w.nextReq + Rank(i, I), ent |-> e,
                          turn |-> r.w.ents[e].turn, slot |-> i]
           R == {request(i) : i \in I}
           s == [r EXCEPT !.w.nextReq = @ + n, !.w.raised = @ \cup R]
           d == MarkSlots(c, I, "held")
<1>1. c \in Components /\ e \in Nat /\ c.turn \in Nat /\ r.w.nextReq \in Nat
  BY EntGood, EntFields, RunFields
<1>2. I \in SUBSET (1 .. Len(c.slots)) /\ Len(c.slots) \in Nat
  BY <1>1, EntFields, SomeSlots
<1> HIDE DEF I
<1>3. n \in Nat /\ \A i \in I : i \in Nat /\ Rank(i, I) \in Nat /\ Rank(i, I) < n
  <2> DEFINE l == Len(c.slots)
  <2>1. I \in SUBSET (1 .. l) /\ l \in Nat
    BY <1>2
  <2> HIDE DEF l
  <2>2. Cardinality(I) \in Nat /\ \A i \in I : Rank(i, I) \in Nat /\ Rank(i, I) < Cardinality(I)
    BY <2>1, RankType
  <2> QED BY <2>1, <2>2
<1> HIDE DEF n
<1>4. \A q \in R : q \in Raised /\ q.req < r.w.nextReq + n /\ q.ent = e
  <2> SUFFICES ASSUME NEW i \in I
               PROVE  /\ request(i) \in Raised /\ request(i).req < r.w.nextReq + n
                      /\ request(i).ent = e
    OBVIOUS
  <2>1. r.w.nextReq + Rank(i, I) \in Nat /\ r.w.nextReq + Rank(i, I) < r.w.nextReq + n
    BY <1>1, <1>3
  <2> QED BY <1>1, <1>3, <2>1 DEF Raised
<1>5. GateNewSlots(r, e) \in {r, Put(s, e, d)}
  BY DEF GateNewSlots, I, n
<1> HIDE DEF R
<1>6. Leads(r, s) /\ s.w.ents = r.w.ents
  <2>1. R \in SUBSET Raised /\ \A q \in R : q.req < r.w.nextReq + n /\ q.ent \in DOMAIN r.w.ents
    BY <1>4
  <2> QED BY <1>3, <2>1, RequestsGood
<1> HIDE DEF s
<1>7. GoodRun(s) /\ e \in DOMAIN s.w.ents /\ d = MarkSlots(s.w.ents[e], I, "held")
  BY <1>6 DEF Leads
<1>8. Leads(s, Put(s, e, d))
  BY <1>7, MarkLeads
<1> QED BY <1>5, <1>6, <1>8, LeadsSelf, LeadsOn

\* The request an answer names is one of those raised, for an entity that exists.
LEMMA RequestGood ==
    ASSUME NEW r, GoodRun(r), NEW in, IsRaised(r, in)
    PROVE  Request(r, in) \in r.w.raised /\ Request(r, in).ent \in DOMAIN r.w.ents
<1>1. Request(r, in) \in r.w.raised
  BY DEF IsRaised, Request
<1> QED BY <1>1 DEF GoodRun

\* The approval policy changes, gates a response, or gives a held slot back
\* (systems/autonomy.rs).
LEMMA AutonomySystemGood ==
    ASSUME NEW r, GoodRun(r), NEW in, GoodIn(r.w, in)
    PROVE  Leads(r, AutonomySystem(r, in))
<1>1. CASE in.type = "SetAutonomy"
  <2> DEFINE ask == in.ask
             s == [r EXCEPT !.w.ask = ask]
  <2>1. ask \in BOOLEAN
    BY <1>1 DEF GoodIn
  <2>2. AutonomySystem(r, in) = s
    BY <1>1 DEF AutonomySystem
  <2> HIDE DEF ask
  <2>3. s \in [w : {s.w}, out : {r.out}] /\ s.w = [r.w EXCEPT !.ask = ask]
    BY DEF GoodRun
  <2>4. /\ s.w.ents = r.w.ents /\ s.w.nextCmd = r.w.nextCmd /\ s.w.nextEnt = r.w.nextEnt
        /\ s.w.raised = r.w.raised /\ s.w.nextReq = r.w.nextReq
    BY <2>3 DEF GoodRun, WorldType
  <2>5. WorldType(s.w)
    BY <2>1, <2>3, <2>4 DEF GoodRun, WorldType
  <2>6. \A q \in s.w.raised : q.req < s.w.nextReq /\ q.ent \in DOMAIN r.w.ents
    BY <2>4 DEF GoodRun
  <2> HIDE DEF s
  <2> QED BY <2>2, <2>3, <2>4, <2>5, <2>6, ResourcesGood
<1>2. CASE in.type = "ModelResponded"
  <2>1. AutonomySystem(r, in) = GateNewSlots(r, in.ent) /\ in.ent \in DOMAIN r.w.ents
    BY <1>2 DEF AutonomySystem, GoodIn, EntInputs
  <2> QED BY <2>1, GateNewSlotsGood
<1>3. CASE in.type = "InteractionAnswer" /\ IsRaised(r, in)
  <2> DEFINE q == Request(r, in)
  <2>1. q.ent \in DOMAIN r.w.ents
    BY <1>3, RequestGood
  <2>2. AutonomySystem(r, in) = RestoreHeldSlot(r, q)
    BY <1>3 DEF AutonomySystem
  <2> HIDE DEF q
  <2> QED BY <2>1, <2>2, MarkLeads DEF RestoreHeldSlot
<1>4. CASE ~ (\/ in.type = "SetAutonomy" \/ in.type = "ModelResponded"
              \/ in.type = "InteractionAnswer" /\ IsRaised(r, in))
  BY <1>4, LeadsSelf DEF AutonomySystem
<1> QED BY <1>1, <1>2, <1>3, <1>4

\* An entity settles slots and goes on with its turn.
LEMMA SettleAdvance ==
    ASSUME NEW r, GoodRun(r), NEW e \in DOMAIN r.w.ents, NEW I, NEW err \in BOOLEAN
    PROVE  Leads(r, Advance(Settle(r, e, I, err), e))
<1> DEFINE s == Settle(r, e, I, err)
<1>1. Leads(r, s)
  BY SettleGood
<1> HIDE DEF s
<1>2. GoodRun(s) /\ e \in DOMAIN s.w.ents
  BY <1>1 DEF Leads
<1>3. Leads(r, Advance(s, e))
  BY <1>1, <1>2, AdvanceGood, LeadsOn
<1> QED BY <1>3 DEF s

\* An entity sends slots off and goes on with its turn.
LEMMA DispatchAdvance ==
    ASSUME NEW r, GoodRun(r), NEW e \in DOMAIN r.w.ents,
           NEW I \in SUBSET DOMAIN r.w.ents[e].slots, NEW type \in WorkTypes
    PROVE  Leads(r, Advance(Dispatch(r, e, I, type), e))
<1> DEFINE s == Dispatch(r, e, I, type)
<1>1. Leads(r, s)
  BY DispatchGood
<1> HIDE DEF s
<1>2. GoodRun(s) /\ e \in DOMAIN s.w.ents
  BY <1>1 DEF Leads
<1>3. Leads(r, Advance(s, e))
  BY <1>1, <1>2, AdvanceGood, LeadsOn
<1> QED BY <1>3 DEF s

\* Local tools: a result settles its slot, a response dispatches (systems/tool.rs).
LEMMA ToolSystemGood ==
    ASSUME NEW r, GoodRun(r), NEW in, GoodIn(r.w, in)
    PROVE  Leads(r, ToolSystem(r, in))
<1> DEFINE I == SentAs(r.w, in.ent, "Local", in.cmd)
<1>1. CASE in.type = "ToolReturned"
  <2>1. in.ent \in DOMAIN r.w.ents /\ in.err \in BOOLEAN
    BY <1>1 DEF GoodIn, EntInputs
  <2>2. ToolSystem(r, in) = Advance(Settle(r, in.ent, I, in.err), in.ent)
    BY <1>1 DEF ToolSystem
  <2> HIDE DEF I
  <2> QED BY <2>1, <2>2, SettleAdvance
<1>2. CASE in.type = "ModelResponded"
  <2>1. ToolSystem(r, in) = Advance(r, in.ent) /\ in.ent \in DOMAIN r.w.ents
    BY <1>2 DEF ToolSystem, GoodIn, EntInputs
  <2> QED BY <2>1, AdvanceGood
<1>3. CASE in.type \notin {"ToolReturned", "ModelResponded"}
  BY <1>3, LeadsSelf DEF ToolSystem
<1> QED BY <1>1, <1>2, <1>3

\* Human actions: dispatched by a response, settled by their outcome
\* (systems/human_action.rs).
LEMMA HumanActionSystemGood ==
    ASSUME NEW r, GoodRun(r), NEW in, GoodIn(r.w, in)
    PROVE  Leads(r, HumanActionSystem(r, in))
<1> DEFINE I == SentAs(r.w, in.ent, "Human", in.cmd)
           F == FreshSlots(r.w, in.ent, "Human")
<1>1. CASE in.type = "ModelResponded"
  <2>1. in.ent \in DOMAIN r.w.ents
    BY <1>1 DEF GoodIn, EntInputs
  <2>2. HumanActionSystem(r, in) \in
           {r, Advance(Dispatch(r, in.ent, F, "RequestHumanAction"), in.ent)}
    BY <1>1 DEF HumanActionSystem
  <2>3. F \in SUBSET DOMAIN r.w.ents[in.ent].slots
    BY SomeSlots
  <2>4. "RequestHumanAction" \in WorkTypes
    BY DEF WorkTypes
  <2> HIDE DEF F
  <2> QED BY <2>1, <2>2, <2>3, <2>4, DispatchAdvance, LeadsSelf
<1>2. CASE in.type = "HumanActionDone"
  <2>1. in.ent \in DOMAIN r.w.ents /\ in.err \in BOOLEAN
    BY <1>2 DEF GoodIn, EntInputs
  <2>2. HumanActionSystem(r, in) = Advance(Settle(r, in.ent, I, in.err), in.ent)
    BY <1>2 DEF HumanActionSystem
  <2> HIDE DEF I
  <2> QED BY <2>1, <2>2, SettleAdvance
<1>3. CASE in.type = "HumanActionAborted"
  <2>1. in.ent \in DOMAIN r.w.ents
    BY <1>3 DEF GoodIn, EntInputs
  <2>2. HumanActionSystem(r, in) = Advance(Settle(r, in.ent, I, TRUE), in.ent)
    BY <1>3 DEF HumanActionSystem
  <2> HIDE DEF I
  <2> QED BY <2>1, <2>2, SettleAdvance
<1>4. CASE in.type \notin {"ModelResponded", "HumanActionDone", "HumanActionAborted"}
  BY <1>4, LeadsSelf DEF HumanActionSystem
<1> QED BY <1>1, <1>2, <1>3, <1>4

\* The answer to an approval request dispatches its slot or fails it
\* (systems/interaction.rs).
LEMMA InteractionSystemGood ==
    ASSUME NEW r, GoodRun(r), NEW in
    PROVE  Leads(r, InteractionSystem(r, in))
<1> DEFINE q == Request(r, in)
           s == [r EXCEPT !.w.raised = @ \ {q}]
           F == Asked(r.w, q, {"fresh"})
           G == Asked(r.w, q, {"fresh", "held", "sent"})
<1>1. CASE in.type = "InteractionAnswer" /\ IsRaised(r, in)
  <2>1. q.ent \in DOMAIN r.w.ents
    BY <1>1, RequestGood
  <2>2. InteractionSystem(r, in) \in
           {Advance(Dispatch(s, q.ent, F, "RunTool"), q.ent),
            Advance(Settle(s, q.ent, G, TRUE), q.ent)}
    BY <1>1 DEF InteractionSystem, ApplyAnswer
  <2>3. F \in SUBSET DOMAIN r.w.ents[q.ent].slots
    BY DEF Asked
  <2> HIDE DEF q, F, G
  <2>4. Leads(r, s) /\ s.w.ents = r.w.ents
    <3>1. s = [r EXCEPT !.w.raised = r.w.raised \ {q}] /\ r.w.raised \ {q} \in SUBSET r.w.raised
      OBVIOUS
    <3> QED BY <3>1, RaisedGood
  <2> HIDE DEF s
  <2>5. GoodRun(s) /\ q.ent \in DOMAIN s.w.ents /\ F \in SUBSET DOMAIN s.w.ents[q.ent].slots
    BY <2>1, <2>3, <2>4 DEF Leads
  <2>6. Leads(s, Advance(Dispatch(s, q.ent, F, "RunTool"), q.ent))
    BY <2>5, DispatchAdvance DEF WorkTypes
  <2>7. Leads(s, Advance(Settle(s, q.ent, G, TRUE), q.ent))
    BY <2>5, SettleAdvance
  <2> DEFINE t == Advance(Dispatch(s, q.ent, F, "RunTool"), q.ent)
             u == Advance(Settle(s, q.ent, G, TRUE), q.ent)
  <2>8. InteractionSystem(r, in) \in {t, u}
    BY <2>2
  <2>9. Leads(s, t) /\ Leads(s, u)
    BY <2>6, <2>7
  <2> HIDE DEF t, u
  <2> QED BY <2>4, <2>8, <2>9, LeadsOn
<1>2. CASE ~ (in.type = "InteractionAnswer" /\ IsRaised(r, in))
  <2> HIDE DEF F, G, s, q
  <2>1. InteractionSystem(r, in) = r
    BY <1>2 DEF InteractionSystem
  <2> QED BY <2>1, LeadsSelf
<1> QED BY <1>1, <1>2

\* Entities join the World: each is new or unchanged, and good.
LEMMA GrowGood ==
    ASSUME NEW r, GoodRun(r), NEW E, E \in [DOMAIN E -> Components],
           DOMAIN r.w.ents \subseteq DOMAIN E,
           \A e \in DOMAIN E : e \in Nat /\ e < r.w.nextEnt /\ GoodEnt(r.w, E[e])
    PROVE  /\ Leads(r, [r EXCEPT !.w.ents = E])
           /\ [r EXCEPT !.w.ents = E].w.ents = E
           /\ [r EXCEPT !.w.ents = E].w.nextCmd = r.w.nextCmd
           /\ [r EXCEPT !.w.ents = E].w.nextEnt = r.w.nextEnt
<1> DEFINE s == [r EXCEPT !.w.ents = E]
<1>1. s \in [w : {s.w}, out : {r.out}] /\ s.w = [r.w EXCEPT !.ents = E]
  BY DEF GoodRun
<1>2. /\ s.w.ents = E /\ s.w.nextCmd = r.w.nextCmd /\ s.w.nextEnt = r.w.nextEnt
      /\ s.w.raised = r.w.raised /\ s.w.nextReq = r.w.nextReq /\ s.out = r.out
  BY <1>1 DEF GoodRun, WorldType
<1>3. WorldType(s.w)
  BY <1>1, <1>2 DEF GoodRun, WorldType
<1>4. \A e \in DOMAIN E : e < s.w.nextEnt /\ GoodEnt(s.w, E[e])
  BY <1>2 DEF GoodEnt
<1> HIDE DEF s
<1>5. /\ \A k \in s.out : k.cmd < s.w.nextCmd /\ k.ent \in DOMAIN s.w.ents
      /\ \A q \in s.w.raised : q.req < s.w.nextReq /\ q.ent \in DOMAIN s.w.ents
  BY <1>2 DEF GoodRun
<1>6. s \in [w : {s.w}, out : SUBSET Commands]
  BY <1>1 DEF GoodRun
<1>7. Leads(r, s)
  BY <1>2, <1>3, <1>4, <1>5, <1>6 DEF GoodRun, Leads, Minted
<1> QED BY <1>2, <1>7 DEF s

\* A spawned entity waits for the call it was spawned with.
LEMMA NewbornGood ==
    ASSUME NEW w, w.nextCmd \in Nat, NEW p \in DOMAIN w.ents, p \in Nat, NEW depth \in Nat,
           NEW k \in Nat, k < w.nextCmd
    PROVE  GoodEnt(w, ToWaiting(Newborn(p, depth, <<Msg("user", 0)>>), "Thinking", k))
<1> DEFINE h == <<Msg("user", 0)>>
           b == Newborn(p, depth, h)
<1>1. h \in Seq(Msgs) /\ <<>> \in Seq(ToolSlots) /\ <<>> \in Seq(Nat) /\ DOMAIN <<>> = {}
  BY DEF Msg, Msgs, Roles
<1> HIDE DEF h
<1>2. /\ b \in Components
      /\ b.parent = p /\ b.awaits = {} /\ b.slots = <<>>
  BY <1>1 DEF Newborn, Components, Activities, Trips
<1> HIDE DEF b
<1>3. GoodEnt(w, b)
  BY <1>1, <1>2 DEF GoodEnt
<1>4. GoodEnt(w, ToWaiting(b, "Thinking", k))
  BY <1>3, WaitingGood
<1> QED BY <1>4 DEF b, h

\* Each admitted spawn adds a child entity whose id its slot was given, on a command of
\* its own (SubagentSystem::spawn_or_deny).
LEMMA SpawnGood ==
    ASSUME NEW r, GoodRun(r), NEW p \in DOMAIN r.w.ents, NEW A \in SUBSET NewChildren(r.w, p)
    PROVE  Leads(r, Spawn(r, p, A))
<1> DEFINE c == r.w.ents[p]
           n == Cardinality(A)
           cmd(i) == r.w.nextCmd + Rank(i, A)
           children == {c.slots[i].child : i \in A}
           slotOf(e) == CHOOSE i \in A : c.slots[i].child = e
           born(e) == ToWaiting(Newborn(p, c.depth + 1, <<Msg("user", 0)>>), "Thinking",
                                cmd(slotOf(e)))
           m == Mint(r, n)
           E == [e \in DOMAIN r.w.ents \cup children |->
                   IF e \in children THEN born(e) ELSE r.w.ents[e]]
           grown == [m EXCEPT !.w.ents = E]
           d == [c EXCEPT !.spawned = @ + n]
           s == Put(grown, p, d)
           out == {Command("CallModel", cmd(i), c.slots[i].child, 0) : i \in A}
<1>1. /\ c \in Components /\ GoodEnt(r.w, c) /\ p \in Nat /\ r.w.nextCmd \in Nat
      /\ r.w.nextEnt \in Nat /\ c.depth + 1 \in Nat /\ c.spawned \in Nat
  <2>1. c \in Components /\ GoodEnt(r.w, c) /\ p \in Nat
    BY EntGood
  <2> HIDE DEF c
  <2>2. c.depth \in Nat /\ c.spawned \in Nat
    BY <2>1 DEF Components
  <2>3. c.depth + 1 \in Nat
    BY <2>2
  <2>4. r.w.nextCmd \in Nat /\ r.w.nextEnt \in Nat
    BY RunFields
  <2> QED BY <2>1, <2>2, <2>3, <2>4
<1>2. A \in SUBSET DOMAIN c.slots /\ \A i \in A : c.slots[i].kind = "Child"
  BY DEF NewChildren, FreshSlots
<1>3. n \in Nat /\ \A i \in A : Rank(i, A) \in Nat /\ Rank(i, A) < n
  <2> DEFINE l == Len(c.slots)
  <2>1. A \in SUBSET (1 .. l) /\ l \in Nat
    BY <1>1, <1>2, EntFields
  <2> HIDE DEF l
  <2>2. Cardinality(A) \in Nat /\ \A i \in A : Rank(i, A) \in Nat /\ Rank(i, A) < Cardinality(A)
    BY <2>1, RankType
  <2> QED BY <2>2
<1> HIDE DEF n
<1>4. \A i \in A : cmd(i) \in Nat /\ cmd(i) < r.w.nextCmd + n
  BY <1>1, <1>3
<1>5. \A i \in A : c.slots[i].child \in Nat /\ c.slots[i].child < r.w.nextEnt
  BY <1>1, <1>2 DEF GoodEnt
<1>6. /\ GoodRun(m) /\ m.w.ents = r.w.ents /\ m.w.nextCmd = r.w.nextCmd + n
      /\ m.w.nextEnt = r.w.nextEnt
  BY <1>3, MintGood
<1> HIDE DEF c, m, cmd
<1>7. ASSUME NEW e \in children
      PROVE  GoodEnt(m.w, born(e))
  <2>1. slotOf(e) \in A OBVIOUS
  <2> DEFINE k == cmd(slotOf(e))
             depth == c.depth + 1
  <2>2. k \in Nat /\ k < m.w.nextCmd
    BY <1>4, <1>6, <2>1
  <2>3. p \in DOMAIN m.w.ents /\ m.w.nextCmd \in Nat /\ depth \in Nat
    BY <1>1, <1>3, <1>6
  <2> HIDE DEF k, depth
  <2>4. GoodEnt(m.w, ToWaiting(Newborn(p, depth, <<Msg("user", 0)>>), "Thinking", k))
    BY <1>1, <2>2, <2>3, NewbornGood
  <2> QED BY <2>4 DEF k, depth
<1> HIDE DEF slotOf, born
<1>8. \A e \in children : e \in Nat /\ e < r.w.nextEnt
  BY <1>5
<1>9. \A e \in DOMAIN r.w.ents : e \in Nat /\ e < r.w.nextEnt /\ GoodEnt(m.w, r.w.ents[e])
  BY <1>6 DEF GoodRun, WorldType
<1> HIDE DEF children
<1>10. DOMAIN E = DOMAIN r.w.ents \cup children OBVIOUS
<1>11. \A e \in DOMAIN E : e \in Nat /\ e < m.w.nextEnt /\ GoodEnt(m.w, E[e])
  BY <1>6, <1>7, <1>8, <1>9
<1>12. E \in [DOMAIN E -> Components]
  BY <1>11 DEF GoodEnt
<1> HIDE DEF E
<1>13. /\ Leads(m, grown) /\ grown.w.ents = E /\ grown.w.nextCmd = r.w.nextCmd + n
       /\ grown.w.nextEnt = r.w.nextEnt
  BY <1>6, <1>10, <1>11, <1>12, GrowGood
<1> HIDE DEF grown
<1>14. GoodEnt(grown.w, d)
  <2> DEFINE spawned == c.spawned + n
  <2>4. spawned \in Nat /\ d = [c EXCEPT !.spawned = spawned]
    BY <1>1, <1>3
  <2> HIDE DEF spawned, d
  <2>1. /\ d \in Components /\ d.parent = c.parent /\ d.slots = c.slots /\ d.awaits = c.awaits
    BY <1>1, <2>4 DEF Components
  <2>2. GoodEnt(r.w, d)
    BY <1>1, <2>1, SameIdsGood
  <2>3. GoodEnt(m.w, d)
    BY <1>3, <2>2, GoodAfterMint DEF m
  <2> QED BY <1>6, <1>10, <1>13, <2>3 DEF GoodEnt
<1> HIDE DEF d
<1>15. /\ GoodRun(s) /\ s.w.nextCmd = r.w.nextCmd + n /\ DOMAIN s.w.ents = DOMAIN E
  <2>1. GoodRun(grown) /\ p \in DOMAIN grown.w.ents
    BY <1>10, <1>13 DEF Leads
  <2>2. GoodRun(s)
    BY <1>14, <2>1, PutGood
  <2>3. s.w.nextCmd = grown.w.nextCmd /\ DOMAIN s.w.ents = DOMAIN grown.w.ents
    BY <2>1, PutFields
  <2> QED BY <1>13, <2>2, <2>3
<1>16. Spawn(r, p, A) = Emit(s, out)
  BY <1>6 DEF Spawn, E, grown, d, m, c, cmd, born, slotOf, children, n
<1>17. out \in SUBSET Commands /\ \A x \in out : x.cmd < s.w.nextCmd /\ x.ent \in DOMAIN s.w.ents
  <2> SUFFICES ASSUME NEW i \in A
               PROVE  LET x == Command("CallModel", cmd(i), c.slots[i].child, 0)
                      IN  x \in Commands /\ x.cmd < s.w.nextCmd /\ x.ent \in DOMAIN s.w.ents
    OBVIOUS
  <2>1. c.slots[i].child \in DOMAIN E
    BY <1>10 DEF children
  <2>2. c.slots[i].child \in Nat /\ cmd(i) \in Nat /\ cmd(i) < s.w.nextCmd
    BY <1>4, <1>5, <1>15
  <2> QED BY <1>15, <2>1, <2>2, CommandType DEF WorkTypes
<1> HIDE DEF s, out
<1>18. GoodRun(Emit(s, out)) /\ Emit(s, out).w = s.w
  BY <1>15, <1>17, EmitGood
<1> QED BY <1>1, <1>3, <1>10, <1>15, <1>16, <1>18 DEF Leads, Minted

\* The spawns of a response start or are denied (SubagentSystem).
LEMMA SpawnOrDenyGood ==
    ASSUME NEW r, GoodRun(r), NEW p \in DOMAIN r.w.ents
    PROVE  Leads(r, SpawnOrDeny(r, p))
<1> DEFINE A == Admitted(r.w, p)
           s == Spawn(r, p, A)
           I == NewChildren(r.w, p) \ A
           t == Advance(Settle(s, p, I, TRUE), p)
<1>1. A \in SUBSET NewChildren(r.w, p)
  BY DEF Admitted
<1>2. SpawnOrDeny(r, p) \in {r, t}
  BY DEF SpawnOrDeny
<1> HIDE DEF A, I
<1>3. Leads(r, s)
  BY <1>1, SpawnGood
<1> HIDE DEF s
<1>4. GoodRun(s) /\ p \in DOMAIN s.w.ents
  BY <1>3 DEF Leads
<1>5. Leads(s, t)
  BY <1>4, SettleAdvance
<1> HIDE DEF t
<1> QED BY <1>2, <1>3, <1>5, LeadsSelf, LeadsOn

\* The slots that wait for a child settle together.
LEMMA SettleChildGood ==
    ASSUME NEW r, GoodRun(r), NEW p \in DOMAIN r.w.ents, NEW e, NEW err \in BOOLEAN
    PROVE  Leads(r, SettleChild(r, p, e, err))
<1> DEFINE I == ChildSlots(r.w, p, e)
<1>1. SettleChild(r, p, e, err) \in {r, Advance(Settle(r, p, I, err), p)}
  BY DEF SettleChild
<1> HIDE DEF I
<1> QED BY <1>1, SettleAdvance, LeadsSelf

\* Spawns of a response, and children that return (systems/subagent.rs).
LEMMA SubagentSystemGood ==
    ASSUME NEW r, GoodRun(r), NEW in, GoodIn(r.w, in)
    PROVE  Leads(r, SubagentSystem(r, in))
<1>1. CASE in.type = "ModelResponded"
  <2>1. SubagentSystem(r, in) = SpawnOrDeny(r, in.ent) /\ in.ent \in DOMAIN r.w.ents
    BY <1>1 DEF SubagentSystem, GoodIn, EntInputs
  <2> QED BY <2>1, SpawnOrDenyGood
<1>2. CASE in.type = "ChildReturned"
  <2>1. /\ SubagentSystem(r, in) = SettleChild(r, in.ent, in.child, in.err)
        /\ in.ent \in DOMAIN r.w.ents /\ in.err \in BOOLEAN
    BY <1>2 DEF SubagentSystem, GoodIn, EntInputs
  <2> QED BY <2>1, SettleChildGood
<1>3. CASE in.type \notin {"ModelResponded", "ChildReturned"}
  BY <1>3, LeadsSelf DEF SubagentSystem
<1> QED BY <1>1, <1>2, <1>3

\* The failed call of a child settles the slot of its parent (systems/supervision.rs).
LEMMA SupervisionSystemGood ==
    ASSUME NEW r, GoodRun(r), NEW in, GoodIn(r.w, in)
    PROVE  Leads(r, SupervisionSystem(r, in))
<1> DEFINE p == r.w.ents[in.ent].parent
<1>1. CASE in.type = "ModelFailed" /\ p # None
  <2>1. in.ent \in DOMAIN r.w.ents
    BY <1>1 DEF GoodIn, EntInputs
  <2>2. p \in DOMAIN r.w.ents
    BY <1>1, <2>1 DEF GoodRun, GoodEnt
  <2>3. SupervisionSystem(r, in) = SettleChild(r, p, in.ent, TRUE)
    BY <1>1 DEF SupervisionSystem
  <2> HIDE DEF p
  <2> QED BY <2>2, <2>3, SettleChildGood
<1>2. CASE ~ (in.type = "ModelFailed" /\ p # None)
  BY <1>2, LeadsSelf DEF SupervisionSystem
<1> QED BY <1>1, <1>2

\* The peer drives of a response are sent, or denied when their arguments do not parse.
LEMMA EmitOrDenyGood ==
    ASSUME NEW r, GoodRun(r), NEW e \in DOMAIN r.w.ents
    PROVE  Leads(r, EmitOrDeny(r, e))
<1> DEFINE I == FreshSlots(r.w, e, "Peer")
           bad == FreshSlots(r.w, e, "BadPeer")
           d == SettleSlots(r.w.ents[e], bad, TRUE)
           s == Settle(r, e, bad, TRUE)
           t == Advance(Dispatch(s, e, I, "SendPeer"), e)
<1>1. EmitOrDeny(r, e) \in {r, t}
  BY DEF EmitOrDeny
<1>2. Leads(r, s)
  BY SettleGood
<1>3. I \in SUBSET DOMAIN s.w.ents[e].slots
  <2>1. I \in SUBSET DOMAIN r.w.ents[e].slots
    BY SomeSlots
  <2>2. r.w.ents[e] \in Components
    BY EntGood
  <2>4. DOMAIN d.slots = DOMAIN r.w.ents[e].slots
    BY <2>2 DEF SettleSlots, Components
  <2>5. s = Put(r, e, d)
    BY DEF Settle
  <2> HIDE DEF s, d
  <2>3. s.w.ents[e] = d
    BY <2>5, PutFields
  <2> QED BY <2>1, <2>3, <2>4
<1> HIDE DEF I, s
<1>4. GoodRun(s) /\ e \in DOMAIN s.w.ents
  BY <1>2 DEF Leads
<1>5. Leads(s, t)
  BY <1>3, <1>4, DispatchAdvance DEF WorkTypes
<1> HIDE DEF t
<1> QED BY <1>1, <1>2, <1>5, LeadsSelf, LeadsOn

\* An envelope is applied at most once, and its prompt parked with it.
LEMMA AppliedGood ==
    ASSUME NEW r, GoodRun(r), NEW envelope \in Nat
    PROVE  Leads(r, [r EXCEPT !.w.applied = @ \cup {envelope}])
<1> DEFINE s == [r EXCEPT !.w.applied = @ \cup {envelope}]
<1>1. s \in [w : {s.w}, out : {r.out}] /\ s.w = [r.w EXCEPT !.applied = @ \cup {envelope}]
  BY DEF GoodRun
<1>2. /\ s.w.ents = r.w.ents /\ s.w.nextCmd = r.w.nextCmd /\ s.w.nextEnt = r.w.nextEnt
      /\ s.w.raised = r.w.raised /\ s.w.nextReq = r.w.nextReq
  BY <1>1 DEF GoodRun, WorldType
<1>3. WorldType(s.w)
  BY <1>1, <1>2 DEF GoodRun, WorldType
<1>4. \A q \in s.w.raised : q.req < s.w.nextReq /\ q.ent \in DOMAIN r.w.ents
  BY <1>2 DEF GoodRun
<1> HIDE DEF s
<1>5. Leads(r, s)
  BY <1>1, <1>2, <1>3, <1>4, ResourcesGood
<1> QED BY <1>5 DEF s

\* A drive parks its prompt in the primary's inbox (apply_drive).
LEMMA ApplyDriveGood ==
    ASSUME NEW r, GoodRun(r), NEW in, in.envelope \in Nat, in.prompt \in Nat
    PROVE  Leads(r, ApplyDrive(r, in))
<1> DEFINE c == r.w.ents[Root]
           d == [c EXCEPT !.inbox = Append(@, in.prompt)]
           s == Put(r, Root, d)
           envelope == in.envelope
           t == [s EXCEPT !.w.applied = @ \cup {envelope}]
<1>1. Root \in DOMAIN r.w.ents
  BY DEF GoodRun, WorldType
<1>2. c \in Components /\ GoodEnt(r.w, c)
  BY <1>1, EntGood
<1>3. ApplyDrive(r, in) \in {r, t}
  BY DEF ApplyDrive
<1>4. Append(c.inbox, in.prompt) \in Seq(Nat)
  BY <1>2, EntFields, AppendProperties
<1> HIDE DEF c
<1>5. d \in Components /\ d.parent = c.parent /\ d.slots = c.slots /\ d.awaits = c.awaits
  BY <1>2, <1>4 DEF Components
<1> HIDE DEF d
<1>6. GoodEnt(r.w, d)
  BY <1>2, <1>5, SameIdsGood
<1>7. Leads(r, s)
  BY <1>1, <1>6, PutLeads
<1> HIDE DEF s
<1>8. envelope \in Nat OBVIOUS
<1> HIDE DEF envelope
<1>9. Leads(s, t)
  BY <1>7, <1>8, AppliedGood DEF Leads
<1> HIDE DEF t
<1> QED BY <1>3, <1>7, <1>9, LeadsSelf, LeadsOn

\* Drives sent, answered and received (systems/peer_drive.rs).
LEMMA PeerDriveSystemGood ==
    ASSUME NEW r, GoodRun(r), NEW in, GoodIn(r.w, in)
    PROVE  Leads(r, PeerDriveSystem(r, in))
<1>1. CASE in.type = "ModelResponded"
  <2>1. PeerDriveSystem(r, in) = EmitOrDeny(r, in.ent) /\ in.ent \in DOMAIN r.w.ents
    BY <1>1 DEF PeerDriveSystem, GoodIn, EntInputs
  <2> QED BY <2>1, EmitOrDenyGood
<1>2. CASE in.type = "PeerSendOutcome"
  <2> DEFINE I == SentAs(r.w, in.ent, "Peer", in.cmd)
  <2>1. in.ent \in DOMAIN r.w.ents /\ in.err \in BOOLEAN
    BY <1>2 DEF GoodIn, EntInputs
  <2>2. PeerDriveSystem(r, in) \in {r, Advance(Settle(r, in.ent, I, in.err), in.ent)}
    BY <1>2 DEF PeerDriveSystem, SettlePeerOutcome
  <2> HIDE DEF I
  <2> QED BY <2>1, <2>2, SettleAdvance, LeadsSelf
<1>3. CASE in.type = "DriveRequested"
  <2>1. PeerDriveSystem(r, in) = ApplyDrive(r, in) /\ in.envelope \in Nat /\ in.prompt \in Nat
    BY <1>3 DEF PeerDriveSystem, GoodIn
  <2> QED BY <2>1, ApplyDriveGood
<1>4. CASE in.type = "PeerDelivered"
  <2> DEFINE envelope == in.envelope
  <2>1. PeerDriveSystem(r, in) = [r EXCEPT !.w.applied = @ \cup {envelope}] /\ envelope \in Nat
    BY <1>4 DEF PeerDriveSystem, GoodIn
  <2> HIDE DEF envelope
  <2> QED BY <2>1, AppliedGood
<1>5. CASE in.type \notin {"ModelResponded", "PeerSendOutcome", "DriveRequested", "PeerDelivered"}
  BY <1>5, LeadsSelf DEF PeerDriveSystem
<1> QED BY <1>1, <1>2, <1>3, <1>4, <1>5

-----------------------------------------------------------------------------
\* The tick.

\* Phase Lifecycle keeps what the gates, the cancellation and the guardrail keep.
LEMMA LifecyclePhaseGood ==
    ASSUME NEW r, GoodRun(r), NEW in, GoodIn(r.w, in)
    PROVE  \A s \in Lifecycle({r}, in) : Leads(r, s)
<1> DEFINE r1 == GateSystem(r, in)
           r2 == CancelSystem(r1, in)
           r3 == GuardrailSystem(r2, in)
<1>1. Lifecycle({r}, in) = {r3}
  BY DEF Lifecycle, Through
<1>2. Leads(r, r1) /\ GoodRun(r1) /\ GoodIn(r1.w, in)
  BY GateGood, GoodInStays DEF Leads
<1> HIDE DEF r1
<1>3. Leads(r1, r2) /\ GoodRun(r2) /\ GoodIn(r2.w, in)
  BY <1>2, CancelSystemGood, GoodInStays DEF Leads
<1> HIDE DEF r2
<1>4. Leads(r2, r3) /\ GoodRun(r3) /\ GoodIn(r3.w, in)
  BY <1>3, GuardrailGood, GoodInStays DEF Leads
<1> HIDE DEF r3
<1> QED BY <1>1, <1>2, <1>3, <1>4, LeadsOn

\* Phase Intake parks or takes a message.
LEMMA IntakePhaseGood ==
    ASSUME NEW r, GoodRun(r), NEW in, GoodIn(r.w, in)
    PROVE  \A s \in Intake({r}, in) : Leads(r, s)
<1> DEFINE r1 == SteeringSystem(r, in)
           r2 == IntakeSystem(r1, in)
<1>1. Intake({r}, in) = {r2}
  BY DEF Intake, Through
<1>2. Leads(r, r1) /\ GoodRun(r1) /\ GoodIn(r1.w, in)
  BY SteeringGood, GoodInStays DEF Leads
<1> HIDE DEF r1
<1>3. Leads(r1, r2) /\ GoodRun(r2) /\ GoodIn(r2.w, in)
  BY <1>2, IntakeGood, GoodInStays DEF Leads
<1> HIDE DEF r2
<1> QED BY <1>1, <1>2, <1>3, LeadsOn

\* Phase SettleResults closes a turn or opens its slots.
LEMMA SettleResultsPhaseGood ==
    ASSUME NEW r, GoodRun(r), NEW in, GoodIn(r.w, in)
    PROVE  \A s \in SettleResults({r}, in) : Leads(r, s)
<1> DEFINE r1 == TurnSystem(r, in)
<1>1. SettleResults({r}, in) = {r1}
  BY DEF SettleResults, Through
<1>2. Leads(r, r1) /\ GoodRun(r1) /\ GoodIn(r1.w, in)
  BY TurnSystemGood, GoodInStays DEF Leads
<1> HIDE DEF r1
<1> QED BY <1>1, <1>2, LeadsOn

\* Phase BudgetCompaction folds usage and compacts.
LEMMA BudgetCompactionPhaseGood ==
    ASSUME NEW r, GoodRun(r), NEW in, GoodIn(r.w, in)
    PROVE  \A s \in BudgetCompaction({r}, in) : Leads(r, s)
<1> DEFINE r1 == BudgetSystem(r, in)
           r2 == CompactionSystem(r1, in)
<1>1. BudgetCompaction({r}, in) = {r2}
  BY DEF BudgetCompaction, Through
<1>2. Leads(r, r1) /\ GoodRun(r1) /\ GoodIn(r1.w, in)
  BY BudgetGood, GoodInStays DEF Leads
<1> HIDE DEF r1
<1>3. Leads(r1, r2) /\ GoodRun(r2) /\ GoodIn(r2.w, in)
  BY <1>2, CompactionSystemGood, GoodInStays DEF Leads
<1> HIDE DEF r2
<1> QED BY <1>1, <1>2, <1>3, LeadsOn

\* Phase TurnAdvance settles, dispatches and continues.
LEMMA TurnAdvancePhaseGood ==
    ASSUME NEW r, GoodRun(r), NEW in, GoodIn(r.w, in)
    PROVE  \A s \in TurnAdvance({r}, in) : Leads(r, s)
<1> DEFINE r1 == AutonomySystem(r, in)
           r2 == ToolSystem(r1, in)
           r3 == HumanActionSystem(r2, in)
           r4 == InteractionSystem(r3, in)
           r5 == SubagentSystem(r4, in)
           r6 == SupervisionSystem(r5, in)
           r7 == PeerDriveSystem(r6, in)
<1>1. TurnAdvance({r}, in) = {r7}
  BY DEF TurnAdvance, Through
<1>2. Leads(r, r1) /\ GoodRun(r1) /\ GoodIn(r1.w, in)
  BY AutonomySystemGood, GoodInStays DEF Leads
<1> HIDE DEF r1
<1>3. Leads(r1, r2) /\ GoodRun(r2) /\ GoodIn(r2.w, in)
  BY <1>2, ToolSystemGood, GoodInStays DEF Leads
<1> HIDE DEF r2
<1>4. Leads(r2, r3) /\ GoodRun(r3) /\ GoodIn(r3.w, in)
  BY <1>3, HumanActionSystemGood, GoodInStays DEF Leads
<1> HIDE DEF r3
<1>5. Leads(r3, r4) /\ GoodRun(r4) /\ GoodIn(r4.w, in)
  BY <1>4, InteractionSystemGood, GoodInStays DEF Leads
<1> HIDE DEF r4
<1>6. Leads(r4, r5) /\ GoodRun(r5) /\ GoodIn(r5.w, in)
  BY <1>5, SubagentSystemGood, GoodInStays DEF Leads
<1> HIDE DEF r5
<1>7. Leads(r5, r6) /\ GoodRun(r6) /\ GoodIn(r6.w, in)
  BY <1>6, SupervisionSystemGood, GoodInStays DEF Leads
<1> HIDE DEF r6
<1>8. Leads(r6, r7) /\ GoodRun(r7) /\ GoodIn(r7.w, in)
  BY <1>7, PeerDriveSystemGood, GoodInStays DEF Leads
<1> HIDE DEF r7
<1>9. Leads(r, r2)
  BY <1>2, <1>3, LeadsOn
<1>10. Leads(r, r3)
  BY <1>9, <1>4, LeadsOn
<1>11. Leads(r, r4)
  BY <1>10, <1>5, LeadsOn
<1>12. Leads(r, r5)
  BY <1>11, <1>6, LeadsOn
<1>13. Leads(r, r6)
  BY <1>12, <1>7, LeadsOn
<1>14. Leads(r, r7)
  BY <1>13, <1>8, LeadsOn
<1> QED BY <1>1, <1>14

\* Folding one input keeps the World good and forgets no entity (systems::tick).
LEMMA TickGood ==
    ASSUME NEW w, GoodRun([w |-> w, out |-> {}]), NEW in, GoodIn(w, in)
    PROVE  \A r \in Tick(w, in) : Leads([w |-> w, out |-> {}], r)
<1> DEFINE r0 == [w |-> w, out |-> {}]
<1>0. GoodRun(r0) /\ GoodIn(r0.w, in) OBVIOUS
<1> HIDE DEF r0
<1>1. PICK r1 : Lifecycle({r0}, in) = {r1}
  BY DEF Lifecycle, Through
<1>2. Leads(r0, r1) /\ GoodRun(r1) /\ GoodIn(r1.w, in)
  BY <1>0, <1>1, LifecyclePhaseGood, GoodInStays DEF Leads
<1>3. PICK r2 : Intake({r1}, in) = {r2}
  BY DEF Intake, Through
<1>4. Leads(r1, r2) /\ GoodRun(r2) /\ GoodIn(r2.w, in)
  BY <1>2, <1>3, IntakePhaseGood, GoodInStays DEF Leads
<1>5. PICK r3 : SettleResults({r2}, in) = {r3}
  BY DEF SettleResults, Through
<1>6. Leads(r2, r3) /\ GoodRun(r3) /\ GoodIn(r3.w, in)
  BY <1>4, <1>5, SettleResultsPhaseGood, GoodInStays DEF Leads
<1>7. PICK r4 : BudgetCompaction({r3}, in) = {r4}
  BY DEF BudgetCompaction, Through
<1>8. Leads(r3, r4) /\ GoodRun(r4) /\ GoodIn(r4.w, in)
  BY <1>6, <1>7, BudgetCompactionPhaseGood, GoodInStays DEF Leads
<1>9. PICK r5 : TurnAdvance({r4}, in) = {r5}
  BY DEF TurnAdvance, Through
<1>10. Leads(r4, r5) /\ GoodRun(r5) /\ GoodIn(r5.w, in)
  BY <1>8, <1>9, TurnAdvancePhaseGood, GoodInStays DEF Leads
<1>11. Tick(w, in) = {r5}
  BY <1>1, <1>3, <1>5, <1>7, <1>9 DEF Tick, r0
<1>12. Leads(r0, r5)
  BY <1>2, <1>4, <1>6, <1>8, <1>10 DEF Leads
<1> QED BY <1>11, <1>12 DEF r0

-----------------------------------------------------------------------------
\* The inductive invariant: the World is good, and the shell owes only commands it minted,
\* to entities it holds.
IInv ==
    /\ GoodRun([w |-> world, out |-> owed])
    /\ msgs \in 0 .. MaxMsg /\ controls \in 0 .. MaxControl

\* A fresh session is good: one idle entity, nothing owed (WorldDriver::open's genesis).
LEMMA InitGood == Init => IInv
<1> SUFFICES ASSUME Init
             PROVE  IInv
  OBVIOUS
<1> DEFINE c == Newborn(None, 0, <<>>)
           w == Genesis(Ask)
<1>1. /\ <<>> \in Seq(Msgs) /\ <<>> \in Seq(ToolSlots) /\ <<>> \in Seq(Nat) /\ DOMAIN <<>> = {}
  OBVIOUS
<1>2. /\ c \in Components
      /\ c.parent = None /\ c.awaits = {} /\ c.slots = <<>>
  BY <1>1 DEF Newborn, Components, Activities, Trips
<1> HIDE DEF c
<1>3. GoodEnt(w, c)
  BY <1>1, <1>2 DEF GoodEnt
<1>4. /\ w.ents = [e \in {Root} |-> c] /\ w.raised = {} /\ w.nextEnt = 1
      /\ w \in [ents : {w.ents}, holds : SUBSET {"User", "model-refusal"}, ask : BOOLEAN,
                raised : SUBSET Raised, applied : SUBSET Nat,
                nextCmd : Nat, nextReq : Nat, nextEnt : Nat]
  BY AlphabetAssumption DEF Genesis, c
<1>5. DOMAIN w.ents = {0} /\ w.ents[0] = c
  BY <1>4 DEF Root
<1> HIDE DEF w
<1>6. WorldType(w)
  BY <1>2, <1>4, <1>5 DEF WorldType, Root
<1>7. GoodRun([w |-> w, out |-> {}])
  BY <1>3, <1>4, <1>5, <1>6 DEF GoodRun
<1>8. world = w /\ owed = {} /\ msgs \in 0 .. MaxMsg /\ controls \in 0 .. MaxControl
  BY AlphabetAssumption DEF Init, w
<1> QED BY <1>7, <1>8 DEF IInv

\* The shell owes only commands the World minted, to entities it holds.
LEMMA ShellGood ==
    ASSUME NEW w, NEW owing, GoodRun([w |-> w, out |-> owing]), NEW s,
           Leads([w |-> w, out |-> {}], s), NEW open \in SUBSET owing
    PROVE  GoodRun([w |-> s.w, out |-> Shell(open, s.out)])
<1> DEFINE marked(k) == [k EXCEPT !.stop = @ \/ \E x \in s.out : x.type \in CancelTypes /\ x.cmd = k.cmd]
           out == Shell(open, s.out)
<1>1. GoodRun(s) /\ DOMAIN w.ents \subseteq DOMAIN s.w.ents /\ Minted(w) \subseteq Minted(s.w)
  BY DEF Leads
<1>2. ASSUME NEW k \in owing
      PROVE  k \in Commands /\ k.cmd \in Minted(s.w) /\ k.ent \in DOMAIN s.w.ents
  <2>1. k \in Commands /\ k.cmd < w.nextCmd /\ k.ent \in DOMAIN w.ents
    BY DEF GoodRun
  <2>2. k.cmd \in Minted(w)
    BY <2>1 DEF Commands, Minted
  <2> QED BY <1>1, <2>1, <2>2
<1>3. ASSUME NEW k \in owing
      PROVE  marked(k) \in Commands /\ marked(k).cmd = k.cmd /\ marked(k).ent = k.ent
  <2> DEFINE b == k.stop \/ \E x \in s.out : x.type \in CancelTypes /\ x.cmd = k.cmd
  <2>1. b \in BOOLEAN /\ marked(k) = [k EXCEPT !.stop = b] OBVIOUS
  <2> HIDE DEF b, marked
  <2> QED BY <1>2, <2>1 DEF Commands
<1>4. \A x \in out : x \in Commands /\ x.cmd < s.w.nextCmd /\ x.ent \in DOMAIN s.w.ents
  <2>1. \A x \in s.out : x \in Commands /\ x.cmd < s.w.nextCmd /\ x.ent \in DOMAIN s.w.ents
    BY <1>1 DEF GoodRun
  <2>2. \A k \in open : /\ marked(k) \in Commands /\ marked(k).cmd < s.w.nextCmd
                        /\ marked(k).ent \in DOMAIN s.w.ents
    BY <1>2, <1>3 DEF Minted
  <2>3. out = {marked(k) : k \in open} \cup {x \in s.out : x.type \in WorkTypes}
    BY DEF Shell
  <2> HIDE DEF marked, out
  <2> QED BY <2>1, <2>2, <2>3
<1> HIDE DEF out
<1> DEFINE t == [w |-> s.w, out |-> out]
<1>5. t \in [w : {t.w}, out : SUBSET Commands] /\ t.w = s.w /\ t.out = out
  BY <1>4
<1> HIDE DEF t
<1>6. GoodRun(t)
  BY <1>1, <1>4, <1>5 DEF GoodRun
<1> QED BY <1>6 DEF t, out

\* Folding one input keeps the inductive invariant.
LEMMA FoldGood ==
    ASSUME GoodRun([w |-> world, out |-> owed]), NEW in, GoodIn(world, in),
           NEW answered, Fold(in, answered)
    PROVE  GoodRun([w |-> world', out |-> owed'])
<1>1. GoodRun([w |-> world, out |-> {}])
  BY DEF GoodRun
<1>2. PICK r \in Tick(world, in) : world' = r.w /\ owed' = Shell(owed \ answered, r.out)
  BY DEF Fold
<1>3. Leads([w |-> world, out |-> {}], r)
  BY <1>1, TickGood
<1>4. owed \ answered \in SUBSET owed OBVIOUS
<1>5. GoodRun([w |-> r.w, out |-> Shell(owed \ answered, r.out)])
  BY <1>3, <1>4, ShellGood
<1> QED BY <1>2, <1>5

\* What an owed command carries, and what its answers are therefore good for.
LEMMA OwedGood ==
    ASSUME GoodRun([w |-> world, out |-> owed]), NEW k \in owed
    PROVE  /\ k \in Commands /\ k.ent \in DOMAIN world.ents /\ k.cmd \in Nat /\ k.n \in Nat
           /\ k.cmd < world.nextCmd
BY DEF GoodRun, Commands

\* Whether a plan may drive a peer, and whether such a turn may be cancelled.
PeersPlanned == \E plan \in Plans : \E i \in DOMAIN plan : plan[i] = "Peer"
PeersCancelled == PeersPlanned /\ "Cancel" \in Controls

\* The plan of a response is one of the plans.
Planned(in) ==
    in.type = "ModelResponded" => \A i \in DOMAIN in.plan : in.plan[i] = "Peer" => PeersPlanned

\* The answers the shell gives to a command, by its type (drive_live, spawn_tool).
Fits(in, k) ==
    \/ k.type = "CallModel"
       /\ in.type \in {"ModelResponded", "ModelFailed", "InferenceCancelled"}
    \/ k.type = "Compact" /\ in.type \in {"Compacted", "ModelFailed"}
    \/ k.type = "RunTool" /\ (in.type = "ToolReturned" \/ (in.type = "ToolAborted" /\ k.stop))
    \/ k.type = "RequestHumanAction" /\ in.type \in {"HumanActionDone", "HumanActionAborted"}
    \/ k.type = "SendPeer" /\ in.type = "PeerSendOutcome"

\* The inputs that answer no command and cancel nothing.
Calls == {"Pause", "Resume", "ClearPolicyHalt", "SetAutonomy", "UserMessage",
          "InteractionAnswer", "ChildReturned", "DriveRequested", "PeerDelivered"}

\* The inputs a step may fold, and the commands they answer.
Comes(in, answered) ==
    /\ GoodIn(world, in)
    /\ Fold(in, answered)
    /\ \/ \E k \in owed : /\ answered = {k} /\ in.ent = k.ent /\ in.cmd = k.cmd
                         /\ Planned(in) /\ Fits(in, k)
       \/ answered = {} /\ in.type \in Calls
          /\ (in.type = "ChildReturned" => in \in ChildReturns(world))
       \/ answered = {} /\ in.type = "Cancel" /\ "Cancel" \in Controls

\* The shell folds answers that fit.
LEMMA AnswerComes ==
    ASSUME GoodRun([w |-> world, out |-> owed]), ShellAnswers
    PROVE  \E x, a : Comes(x, a)
<1>1. PICK k \in owed : AnswerModel(k) \/ AnswerCompact(k) \/ AnswerTool(k)
                           \/ AnswerHuman(k) \/ AnswerPeer(k)
  BY DEF ShellAnswers
<1>2. k.ent \in DOMAIN world.ents /\ k.cmd \in Nat /\ k.n \in Nat
  BY OwedGood
<1>3. ASSUME NEW in, GoodIn(world, in), Answer(in, k), in.ent = k.ent, in.cmd = k.cmd,
             Planned(in), Fits(in, k)
      PROVE  \E x, a : Comes(x, a)
  BY <1>3 DEF Answer, Comes
<1>4. CASE k.type = "CallModel" /\ ModelResponded(k)
  <2>1. PICK usage \in Usages, stop \in Stops \cup {"ToolUse"}, plan \in Plans \cup {<<>>} :
           Answer([type |-> "ModelResponded", ent |-> k.ent, cmd |-> k.cmd, usage |-> usage,
                   stop |-> stop, plan |-> plan], k)
    BY <1>4 DEF ModelResponded
  <2> DEFINE in == [type |-> "ModelResponded", ent |-> k.ent, cmd |-> k.cmd, usage |-> usage,
                    stop |-> stop, plan |-> plan]
  <2>2. usage \in Nat /\ plan \in Seq(SlotKinds)
    <3>1. Plans \subseteq Seq(SlotKinds) /\ <<>> \in Seq(SlotKinds) /\ Usages \subseteq Nat
      BY AlphabetAssumption
    <3> HIDE DEF in
    <3>2. plan \in Plans \/ plan = <<>> OBVIOUS
    <3> QED BY <3>1, <3>2
  <2>3. \A i \in DOMAIN plan : plan[i] = "Peer" => PeersPlanned
    <3> HIDE DEF in
    <3>1. CASE plan \in Plans
      BY <3>1 DEF PeersPlanned
    <3>2. CASE plan = <<>>
      BY <3>2
    <3> QED BY <3>1, <3>2
  <2>4. GoodIn(world, in) /\ in.ent = k.ent /\ in.cmd = k.cmd
    BY <1>2, <2>2 DEF GoodIn
  <2>5. Planned(in) /\ Fits(in, k)
    BY <1>4, <2>3 DEF Planned, Fits
  <2> HIDE DEF in
  <2> QED BY <1>3, <2>1, <2>4, <2>5 DEF in
<1>5. CASE k.type \in {"CallModel", "Compact"} /\ ModelFailed(k)
  <2> DEFINE in == [type |-> "ModelFailed", ent |-> k.ent, cmd |-> k.cmd]
  <2>1. /\ GoodIn(world, in) /\ Answer(in, k) /\ in.ent = k.ent /\ in.cmd = k.cmd
        /\ Planned(in) /\ Fits(in, k)
    BY <1>2, <1>5 DEF GoodIn, ModelFailed, Planned, Fits
  <2> HIDE DEF in
  <2> QED BY <1>3, <2>1
<1>6. CASE k.type = "CallModel" /\ InferenceCancelled(k)
  <2> DEFINE in == [type |-> "InferenceCancelled", ent |-> k.ent, cmd |-> k.cmd]
  <2>1. /\ GoodIn(world, in) /\ Answer(in, k) /\ in.ent = k.ent /\ in.cmd = k.cmd
        /\ Planned(in) /\ Fits(in, k)
    BY <1>2, <1>6 DEF GoodIn, InferenceCancelled, Planned, Fits
  <2> HIDE DEF in
  <2> QED BY <1>3, <2>1
<1>7. CASE k.type = "Compact" /\ Compacted(k)
  <2>1. PICK summary \in BOOLEAN :
           Answer([type |-> "Compacted", ent |-> k.ent, cmd |-> k.cmd, n |-> k.n,
                   summary |-> summary], k)
    BY <1>7 DEF Compacted
  <2> DEFINE in == [type |-> "Compacted", ent |-> k.ent, cmd |-> k.cmd, n |-> k.n,
                    summary |-> summary]
  <2>2. /\ GoodIn(world, in) /\ Answer(in, k) /\ in.ent = k.ent /\ in.cmd = k.cmd
        /\ Planned(in) /\ Fits(in, k)
    BY <1>2, <1>7, <2>1 DEF GoodIn, Planned, Fits
  <2> HIDE DEF in
  <2> QED BY <1>3, <2>2
<1>8. CASE k.type = "RunTool" /\ ToolReturned(k)
  <2>1. PICK err \in BOOLEAN :
           Answer([type |-> "ToolReturned", ent |-> k.ent, cmd |-> k.cmd, err |-> err], k)
    BY <1>8 DEF ToolReturned
  <2> DEFINE in == [type |-> "ToolReturned", ent |-> k.ent, cmd |-> k.cmd, err |-> err]
  <2>2. /\ GoodIn(world, in) /\ Answer(in, k) /\ in.ent = k.ent /\ in.cmd = k.cmd
        /\ Planned(in) /\ Fits(in, k)
    BY <1>2, <1>8, <2>1 DEF GoodIn, Planned, Fits
  <2> HIDE DEF in
  <2> QED BY <1>3, <2>2
<1>9. CASE k.type = "RunTool" /\ ToolAborted(k)
  <2> DEFINE in == [type |-> "ToolAborted", ent |-> k.ent, cmd |-> k.cmd]
  <2>1. /\ GoodIn(world, in) /\ Answer(in, k) /\ in.ent = k.ent /\ in.cmd = k.cmd
        /\ Planned(in) /\ Fits(in, k)
    BY <1>2, <1>9 DEF GoodIn, ToolAborted, Planned, Fits
  <2> HIDE DEF in
  <2> QED BY <1>3, <2>1
<1>10. CASE k.type = "RequestHumanAction" /\ HumanActionDone(k)
  <2>1. PICK err \in BOOLEAN :
           Answer([type |-> "HumanActionDone", ent |-> k.ent, cmd |-> k.cmd, err |-> err], k)
    BY <1>10 DEF HumanActionDone
  <2> DEFINE in == [type |-> "HumanActionDone", ent |-> k.ent, cmd |-> k.cmd, err |-> err]
  <2>2. /\ GoodIn(world, in) /\ Answer(in, k) /\ in.ent = k.ent /\ in.cmd = k.cmd
        /\ Planned(in) /\ Fits(in, k)
    BY <1>2, <1>10, <2>1 DEF GoodIn, Planned, Fits
  <2> HIDE DEF in
  <2> QED BY <1>3, <2>2
<1>11. CASE k.type = "RequestHumanAction" /\ HumanActionAborted(k)
  <2> DEFINE in == [type |-> "HumanActionAborted", ent |-> k.ent, cmd |-> k.cmd]
  <2>1. /\ GoodIn(world, in) /\ Answer(in, k) /\ in.ent = k.ent /\ in.cmd = k.cmd
        /\ Planned(in) /\ Fits(in, k)
    BY <1>2, <1>11 DEF GoodIn, HumanActionAborted, Planned, Fits
  <2> HIDE DEF in
  <2> QED BY <1>3, <2>1
<1>12. CASE k.type = "SendPeer" /\ PeerSendOutcome(k)
  <2>1. PICK err \in BOOLEAN :
           Answer([type |-> "PeerSendOutcome", ent |-> k.ent, cmd |-> k.cmd, err |-> err], k)
    BY <1>12 DEF PeerSendOutcome
  <2> DEFINE in == [type |-> "PeerSendOutcome", ent |-> k.ent, cmd |-> k.cmd, err |-> err]
  <2>2. /\ GoodIn(world, in) /\ Answer(in, k) /\ in.ent = k.ent /\ in.cmd = k.cmd
        /\ Planned(in) /\ Fits(in, k)
    BY <1>2, <1>12, <2>1 DEF GoodIn, Planned, Fits
  <2> HIDE DEF in
  <2> QED BY <1>3, <2>2
<1> QED
  BY <1>1, <1>4, <1>5, <1>6, <1>7, <1>8, <1>9, <1>10, <1>11, <1>12
  DEF AnswerModel, AnswerCompact, AnswerTool, AnswerHuman, AnswerPeer

\* So do the children that return, the messages, the drives and the controls.
LEMMA OthersCome ==
    ASSUME GoodRun([w |-> world, out |-> owed]), msgs \in Nat, Next, ~ ShellAnswers
    PROVE  \E x, a : Comes(x, a)
<1>1. MaxMsg \in Nat
  BY AlphabetAssumption
<1>2. ASSUME NEW in, GoodIn(world, in), Fold(in, {}), in.type \in Calls,
             in.type = "ChildReturned" => in \in ChildReturns(world)
      PROVE  \E x, a : Comes(x, a)
  BY <1>2 DEF Comes
<1>3. CASE ChildReturned
  <2>1. PICK in \in ChildReturns(world) : Fold(in, {})
    BY <1>3 DEF ChildReturned
  <2>2. PICK x \in DOMAIN world.ents :
           /\ world.ents[x].parent \in DOMAIN world.ents
           /\ in = [type |-> "ChildReturned", ent |-> world.ents[x].parent, child |-> x,
                    err |-> FALSE]
    BY DEF ChildReturns
  <2>3. GoodIn(world, in) /\ in.type \in Calls
    BY <2>2 DEF GoodIn, Calls
  <2> QED BY <1>2, <2>1, <2>3
<1>4. CASE InteractionAnswer
  <2>1. PICK req \in 0 .. world.nextReq - 1, accepted \in BOOLEAN :
           Fold([type |-> "InteractionAnswer", req |-> req, accepted |-> accepted], {})
    BY <1>4 DEF InteractionAnswer
  <2> DEFINE in == [type |-> "InteractionAnswer", req |-> req, accepted |-> accepted]
  <2>2. GoodIn(world, in) /\ in.type \in Calls /\ in.type # "ChildReturned"
    BY DEF GoodIn, EntInputs, Calls
  <2> QED BY <1>2, <2>1, <2>2
<1>5. CASE UserMessage
  <2> DEFINE in == [type |-> "UserMessage", to |-> Root, msg |-> msgs + 1]
  <2>1. Fold(in, {})
    BY <1>5 DEF UserMessage
  <2>2. Root \in DOMAIN world.ents
    BY DEF GoodRun, WorldType
  <2>3. GoodIn(world, in) /\ in.type \in Calls /\ in.type # "ChildReturned"
    BY <1>1, <2>2 DEF GoodIn, EntInputs, Calls
  <2> HIDE DEF in
  <2> QED BY <1>2, <2>1, <2>3
<1>6. CASE DriveRequested
  <2>1. PICK envelope \in Envelopes, auth \in BOOLEAN :
           Fold([type |-> "DriveRequested", envelope |-> envelope, auth |-> auth,
                 prompt |-> PromptOf(envelope)], {})
    BY <1>6 DEF DriveRequested
  <2> DEFINE in == [type |-> "DriveRequested", envelope |-> envelope, auth |-> auth,
                    prompt |-> PromptOf(envelope)]
  <2>2. envelope \in Nat /\ PromptOf(envelope) \in Nat
    BY <1>1, AlphabetAssumption DEF PromptOf
  <2>3. GoodIn(world, in) /\ in.type \in Calls /\ in.type # "ChildReturned"
    BY <2>2 DEF GoodIn, EntInputs, Calls
  <2> QED BY <1>2, <2>1, <2>3
<1>7. CASE PeerDelivered
  <2>1. PICK envelope \in Envelopes : Fold([type |-> "PeerDelivered", envelope |-> envelope], {})
    BY <1>7 DEF PeerDelivered
  <2> DEFINE in == [type |-> "PeerDelivered", envelope |-> envelope]
  <2>2. envelope \in Nat
    BY AlphabetAssumption
  <2>3. GoodIn(world, in) /\ in.type \in Calls /\ in.type # "ChildReturned"
    BY <2>2 DEF GoodIn, EntInputs, Calls
  <2> QED BY <1>2, <2>1, <2>3
<1>8. CASE CancelEntity
  <2>1. PICK e \in DOMAIN world.ents : Control([type |-> "Cancel", ent |-> e])
    BY <1>8 DEF CancelEntity
  <2> DEFINE in == [type |-> "Cancel", ent |-> e]
  <2>2. Fold(in, {}) /\ "Cancel" \in Controls
    BY <2>1 DEF Control
  <2>3. GoodIn(world, in) /\ in.type = "Cancel"
    BY DEF GoodIn
  <2> HIDE DEF in
  <2> QED BY <2>2, <2>3 DEF Comes
<1>9. CASE Pause \/ Resume
  <2> DEFINE p == [type |-> "Pause"]
             q == [type |-> "Resume"]
  <2>1. Fold(p, {}) \/ Fold(q, {})
    BY <1>9 DEF Pause, Resume, Control
  <2>2. /\ GoodIn(world, p) /\ p.type \in Calls /\ p.type # "ChildReturned"
        /\ GoodIn(world, q) /\ q.type \in Calls /\ q.type # "ChildReturned"
    BY DEF GoodIn, EntInputs, Calls
  <2> HIDE DEF p, q
  <2> QED BY <1>2, <2>1, <2>2
<1>10. CASE ClearPolicyHalt
  <2>1. PICK trip \in Trips \ {"none"}, auth \in BOOLEAN :
           Control([type |-> "ClearPolicyHalt", trip |-> trip, auth |-> auth])
    BY <1>10 DEF ClearPolicyHalt
  <2> DEFINE in == [type |-> "ClearPolicyHalt", trip |-> trip, auth |-> auth]
  <2>2. Fold(in, {})
    BY <2>1 DEF Control
  <2>3. GoodIn(world, in) /\ in.type \in Calls /\ in.type # "ChildReturned"
    BY DEF GoodIn, EntInputs, Calls
  <2> HIDE DEF in
  <2> QED BY <1>2, <2>2, <2>3
<1>11. CASE SetAutonomy
  <2>1. PICK ask \in BOOLEAN : Control([type |-> "SetAutonomy", ask |-> ask])
    BY <1>11 DEF SetAutonomy
  <2> DEFINE in == [type |-> "SetAutonomy", ask |-> ask]
  <2>2. Fold(in, {})
    BY <2>1 DEF Control
  <2>3. GoodIn(world, in) /\ in.type \in Calls /\ in.type # "ChildReturned"
    BY DEF GoodIn, EntInputs, Calls
  <2> HIDE DEF in
  <2> QED BY <1>2, <2>2, <2>3
<1> QED BY <1>3, <1>4, <1>5, <1>6, <1>7, <1>8, <1>9, <1>10, <1>11 DEF Next

\* Every step folds an input that may come.
LEMMA NextComes ==
    ASSUME GoodRun([w |-> world, out |-> owed]), msgs \in Nat, Next
    PROVE  \E x, a : Comes(x, a)
BY AnswerComes, OthersCome

\* Every step keeps the counters within their bounds.
LEMMA NextCounts ==
    ASSUME msgs \in 0 .. MaxMsg, controls \in 0 .. MaxControl, Next
    PROVE  msgs' \in 0 .. MaxMsg /\ controls' \in 0 .. MaxControl
<1>1. MaxMsg \in Nat /\ MaxControl \in Nat
  BY AlphabetAssumption
<1>2. \A in : Control(in) => msgs' = msgs /\ controls' \in 0 .. MaxControl
  BY <1>1 DEF Control
<1>3. CASE ShellAnswers
  <2>1. \A in, k : Answer(in, k) => UNCHANGED <<msgs, controls>>
    BY DEF Answer
  <2>2. PICK k \in owed : AnswerModel(k) \/ AnswerCompact(k) \/ AnswerTool(k)
                             \/ AnswerHuman(k) \/ AnswerPeer(k)
    BY <1>3 DEF ShellAnswers
  <2>3. UNCHANGED <<msgs, controls>>
    BY <2>1, <2>2 DEF AnswerModel, AnswerCompact, AnswerTool, AnswerHuman, AnswerPeer,
       ModelResponded, ModelFailed, InferenceCancelled, Compacted, ToolReturned, ToolAborted,
       HumanActionDone, HumanActionAborted, PeerSendOutcome
  <2> QED BY <2>3
<1>4. CASE ChildReturned \/ InteractionAnswer \/ DriveRequested \/ PeerDelivered
  BY <1>4 DEF ChildReturned, InteractionAnswer, DriveRequested, PeerDelivered
<1>5. CASE UserMessage
  BY <1>1, <1>5 DEF UserMessage
<1>6. CASE CancelEntity \/ Pause \/ Resume \/ ClearPolicyHalt \/ SetAutonomy
  BY <1>2, <1>6 DEF CancelEntity, Pause, Resume, ClearPolicyHalt, SetAutonomy
<1> QED BY <1>3, <1>4, <1>5, <1>6 DEF Next

\* Every step keeps the inductive invariant.
LEMMA NextGood == IInv /\ [Next]_vars => IInv'
<1> SUFFICES ASSUME IInv, [Next]_vars
             PROVE  IInv'
  OBVIOUS
<1>1. GoodRun([w |-> world, out |-> owed]) /\ msgs \in Nat
  BY DEF IInv
<1>2. CASE Next
  <2>1. PICK in, a : Comes(in, a)
    BY <1>1, <1>2, NextComes
  <2>2. GoodRun([w |-> world', out |-> owed'])
    BY <1>1, <2>1, FoldGood DEF Comes
  <2> QED BY <1>2, <2>2, NextCounts DEF IInv
<1>3. CASE UNCHANGED vars
  BY <1>3 DEF IInv, vars
<1> QED BY <1>2, <1>3

\* What the inductive invariant says of types and of ids.
LEMMA GoodTypes == IInv => TypeOK
BY DEF IInv, GoodRun, TypeOK

\* In a good World every id in use was minted.
LEMMA GoodIds == IInv => IdsAreMinted
<1> SUFFICES ASSUME IInv
             PROVE  IdsAreMinted
  OBVIOUS
<1>1. GoodRun([w |-> world, out |-> owed])
  BY DEF IInv
<1>2. \A k \in owed : k.cmd < world.nextCmd
  BY <1>1, OwedGood
<1>3. ASSUME NEW e \in Ents
      PROVE  /\ e < world.nextEnt
             /\ \A c \in Awaited(e) : c < world.nextCmd
             /\ \A i \in DOMAIN Slots(e) : Slots(e)[i].child < world.nextEnt
  <2>1. e < world.nextEnt /\ GoodEnt(world, world.ents[e])
    BY <1>1, <1>3 DEF GoodRun, Ents
  <2>2. \A c \in SentCmds(world.ents[e]) : c < world.nextCmd
    BY <2>1 DEF SentCmds, GoodEnt
  <2> QED BY <2>1, <2>2 DEF Awaited, Slots, GoodEnt
<1>4. \A q \in world.raised : q.req < world.nextReq
  BY <1>1 DEF GoodRun
<1> QED BY <1>2, <1>3, <1>4 DEF IdsAreMinted

-----------------------------------------------------------------------------
\* In every reachable state, for all limits, plans, controls and bounds, the World, the
\* components of its entities and the owed commands have their types (World, Components,
\* ToolSlot, Command in src/agent/world).
THEOREM TypeCorrect == Spec => []TypeOK
BY InitGood, NextGood, GoodTypes, PTL DEF Spec

\* In every reachable state the ids in use are behind the allocators: no command, child or
\* request minted next can be taken for one that is in flight (IdAlloc, Invariant 8).
THEOREM IdsMinted == Spec => []IdsAreMinted
BY InitGood, NextGood, GoodIds, PTL DEF Spec

-----------------------------------------------------------------------------
\* Who waits for what.  K are the commands owed, R the requests raised.

\* The command a slot of a kind is dispatched by.
WorkOf(kind) == IF kind = "Local" THEN "RunTool"
                ELSE IF kind = "Human" THEN "RequestHumanAction"
                ELSE IF kind = "Peer" THEN "SendPeer" ELSE "none"

\* The components c wait for the command k: cancelled, they wait for whatever is in flight.
WaitsFor(c, k) ==
    \/ /\ c.act = "Cancelling" /\ k.cmd \in c.awaits
       /\ k.type = "SendPeer" => PeersCancelled
    \/ /\ ~ k.stop
       /\ \/ k.type = "CallModel" /\ c.act = "Thinking" /\ k.cmd \in c.awaits
          \/ k.type = "Compact" /\ c.act = "Compacting" /\ k.cmd \in c.awaits
          \/ /\ c.act = "Resolving"
             /\ \E i \in DOMAIN c.slots : /\ c.slots[i].st = "sent" /\ c.slots[i].cmd = k.cmd
                                          /\ k.type = WorkOf(c.slots[i].kind)

\* Only a turn that is being resolved has slots, of the planned kinds; only Local ones are
\* held, and each child has one.
Shape(c) ==
    /\ c.act # "Resolving" => DOMAIN c.slots = {}
    /\ c.act \in {"Idle", "Resolving"} => c.awaits = {}
    /\ c.act \in {"Thinking", "Compacting"} => \A m, n \in c.awaits : m = n
    /\ \A i \in DOMAIN c.slots :
          /\ c.slots[i].st = "held" => c.slots[i].kind = "Local"
          /\ c.slots[i].kind # "Child" => c.slots[i].child = None
          /\ c.slots[i].kind = "Child" => c.slots[i].st \in {"fresh", "done"}
          /\ c.slots[i].kind = "Peer" => PeersPlanned
    /\ \A i, j \in DOMAIN c.slots :
          c.slots[i].kind = "Child" /\ c.slots[j].child = c.slots[i].child => i = j

\* The requests of e are those of its held slots, one each.
HeldFor(R, e, c) ==
    /\ \A q \in R : q.ent = e => /\ q.turn = c.turn /\ q.slot \in DOMAIN c.slots
                                 /\ c.slots[q.slot].st = "held"
    /\ \A i \in DOMAIN c.slots :
          c.slots[i].st = "held" => \E q \in R : q.ent = e /\ q.slot = i
    /\ \A p, q \in R : p.ent = e /\ q.ent = e /\ p.slot = q.slot => p = q

EntSound(e, c, K, R) ==
    Shape(c) /\ HeldFor(R, e, c) /\ \A k \in K : k.ent = e => WaitsFor(c, k)

Sound(w, K, R) ==
    /\ \A k \in K : k \in Commands /\ k.ent \in DOMAIN w.ents /\ k.cmd < w.nextCmd
    /\ \A k, l \in K : k.cmd = l.cmd => k = l
    /\ \A q \in R : q.ent \in DOMAIN w.ents
    /\ \A e \in DOMAIN w.ents : EntSound(e, w.ents[e], K, R)

\* What e waits for is owed; but a cancelled entity ignores the outcomes of its peer drives.
Heeds(c) == c.act = "Cancelling" => ~ PeersCancelled
EntServed(e, c, L) ==
    Heeds(c) =>
      /\ \A n \in c.awaits : \E k \in L : k.ent = e /\ k.cmd = n
      /\ \A i \in DOMAIN c.slots : c.slots[i].st = "sent" =>
            \E k \in L : k.ent = e /\ k.cmd = c.slots[i].cmd /\ k.type = WorkOf(c.slots[i].kind)
Served(w, L) == \A e \in DOMAIN w.ents : EntServed(e, w.ents[e], L)

\* Nothing is owed to e and nothing of it is raised.
Free(e, K, R) == (\A k \in K : k.ent # e) /\ (\A q \in R : q.ent # e)

\* What one entity is changed to does not concern the others.
LEMMA ChangeSound ==
    ASSUME NEW w, NEW v, NEW K, NEW R, NEW N, NEW Q, Sound(w, K, R),
           NEW e \in DOMAIN w.ents, DOMAIN v.ents = DOMAIN w.ents,
           \A f \in DOMAIN w.ents \ {e} : v.ents[f] = w.ents[f],
           w.nextCmd \in Nat, v.nextCmd \in Nat, w.nextCmd <= v.nextCmd,
           \A k \in N : /\ k \in Commands /\ k.ent = e
                        /\ w.nextCmd <= k.cmd /\ k.cmd < v.nextCmd,
           \A k, l \in N : k.cmd = l.cmd => k = l,
           \A q \in Q : q.ent # e => q \in R,
           \A q \in R : q.ent # e => q \in Q,
           EntSound(e, v.ents[e], K \cup N, Q)
    PROVE  Sound(v, K \cup N, Q)
<1>1. ASSUME NEW k \in K \cup N
      PROVE  k \in Commands /\ k.ent \in DOMAIN v.ents /\ k.cmd < v.nextCmd
  <2>1. CASE k \in K
    <3>1. k \in Commands /\ k.ent \in DOMAIN w.ents /\ k.cmd < w.nextCmd
      BY <2>1 DEF Sound
    <3>2. k.cmd \in Nat
      BY <3>1 DEF Commands
    <3> QED BY <3>1, <3>2
  <2>2. CASE k \in N
    BY <2>2
  <2> QED BY <2>1, <2>2
<1>2. ASSUME NEW k \in K \cup N, NEW l \in K \cup N, k.cmd = l.cmd
      PROVE  k = l
  <2>1. \A x \in K : x.cmd < w.nextCmd /\ x.cmd \in Nat
    BY DEF Sound, Commands
  <2>2. \A x \in N : w.nextCmd <= x.cmd /\ x.cmd \in Nat
    BY DEF Commands
  <2>3. \A x, y \in K : x.cmd = y.cmd => x = y
    BY DEF Sound
  <2> QED BY <1>2, <2>1, <2>2, <2>3
<1>3. \A q \in Q : q.ent \in DOMAIN v.ents
  BY DEF Sound
<1>4. ASSUME NEW f \in DOMAIN v.ents
      PROVE  EntSound(f, v.ents[f], K \cup N, Q)
  <2>1. CASE f = e
    BY <2>1
  <2>2. CASE f # e
    <3>1. EntSound(f, w.ents[f], K, R) /\ v.ents[f] = w.ents[f]
      BY <2>2 DEF Sound
    <3>2. \A k \in K \cup N : k.ent = f => k \in K
      BY <2>2
    <3>3. \A q \in Q : q.ent = f => q \in R
      BY <2>2
    <3>4. \A q \in R : q.ent = f => q \in Q
      BY <2>2
    <3>5. HeldFor(Q, f, w.ents[f])
      BY <3>1, <3>3, <3>4 DEF EntSound, HeldFor
    <3> QED BY <3>1, <3>2, <3>5 DEF EntSound
  <2> QED BY <2>1, <2>2
<1> QED BY <1>1, <1>2, <1>3, <1>4 DEF Sound

\* What one entity waits for, the others do not answer.
LEMMA ChangeServed ==
    ASSUME NEW w, NEW v, NEW L, NEW N, Served(w, L), NEW e, DOMAIN v.ents = DOMAIN w.ents,
           \A f \in DOMAIN w.ents \ {e} : v.ents[f] = w.ents[f],
           EntServed(e, v.ents[e], L \cup N)
    PROVE  Served(v, L \cup N)
BY DEF Served, EntServed

\* An entity at rest, and one whose slots are all done, waits for nothing.
LEMMA RestIsFree ==
    ASSUME NEW w, NEW K, NEW R, Sound(w, K, R), NEW e \in DOMAIN w.ents,
           \/ w.ents[e].act = "Idle"
           \/ w.ents[e].act = "Resolving" /\ Pending(w, e) = {}
    PROVE  Free(e, K, R)
<1> DEFINE c == w.ents[e]
<1>1. Shape(c) /\ HeldFor(R, e, c) /\ \A k \in K : k.ent = e => WaitsFor(c, k)
  BY DEF Sound, EntSound
<1>2. \A i \in DOMAIN c.slots : c.slots[i].st = "done"
  BY <1>1 DEF Shape, Pending
<1> HIDE DEF c
<1>3. c.act = "Idle" \/ c.act = "Resolving"
  BY DEF c
<1>4. \A k \in K : k.ent # e
  BY <1>1, <1>2, <1>3 DEF WaitsFor
<1>5. \A q \in R : q.ent # e
  BY <1>1, <1>2 DEF HeldFor
<1> QED BY <1>4, <1>5 DEF Free

\* So does one that waits for a single command, once that is answered.
LEMMA AnsweredIsFree ==
    ASSUME NEW w, NEW K, NEW R, Sound(w, K, R), NEW e \in DOMAIN w.ents,
           w.ents[e].act \in {"Thinking", "Compacting"},
           NEW n \in w.ents[e].awaits, \A k \in K : k.cmd # n
    PROVE  Free(e, K, R)
<1> DEFINE c == w.ents[e]
<1>1. Shape(c) /\ HeldFor(R, e, c) /\ \A k \in K : k.ent = e => WaitsFor(c, k)
  BY DEF Sound, EntSound
<1>2. c.act \in {"Thinking", "Compacting"} /\ n \in c.awaits OBVIOUS
<1> HIDE DEF c
<1>3. DOMAIN c.slots = {} /\ \A m \in c.awaits : m = n
  BY <1>1, <1>2 DEF Shape
<1>4. \A k \in K : k.ent # e
  BY <1>1, <1>2, <1>3 DEF WaitsFor
<1>5. \A q \in R : q.ent # e
  BY <1>1, <1>3 DEF HeldFor
<1> QED BY <1>4, <1>5 DEF Free

-----------------------------------------------------------------------------
\* Runs.  O are the commands owed before the tick, but for the one it answers.

RunSound(r, O) ==
    Sound(r.w, O \cup r.out, r.w.raised) /\ \A x \in r.out : x.type \in WorkTypes

\* What a System does to who waits for what: nobody is forgotten and nobody waits in vain.
Flows(r, s, O) ==
    RunSound(s, O) /\ \A L : Served(r.w, L \cup r.out) => Served(s.w, L \cup s.out)

\* s differs from r in the components d of e, the allocator and the commands X.
Changed(r, s, e, d, X) ==
    /\ DOMAIN s.w.ents = DOMAIN r.w.ents /\ s.w.ents[e] = d
    /\ \A f \in DOMAIN r.w.ents \ {e} : s.w.ents[f] = r.w.ents[f]
    /\ s.w.raised = r.w.raised /\ s.out = r.out \cup X
    /\ r.w.nextCmd \in Nat /\ s.w.nextCmd \in Nat /\ r.w.nextCmd <= s.w.nextCmd
    /\ \A x \in X : /\ x \in Commands /\ x.type \in WorkTypes /\ x.ent = e
                    /\ r.w.nextCmd <= x.cmd /\ x.cmd < s.w.nextCmd
    /\ \A x, y \in X : x.cmd = y.cmd => x = y

\* A change is sound when it is so for the entity it concerns.
LEMMA ChangedFlows ==
    ASSUME NEW r, NEW s, NEW O, RunSound(r, O), NEW e \in DOMAIN r.w.ents, NEW d, NEW X,
           Changed(r, s, e, d, X),
           EntSound(e, d, (O \cup r.out) \cup X, r.w.raised),
           \A L : EntServed(e, r.w.ents[e], L) => EntServed(e, d, L \cup X)
    PROVE  Flows(r, s, O)
<1> DEFINE K == O \cup r.out
           R == r.w.raised
<1>1. /\ DOMAIN s.w.ents = DOMAIN r.w.ents /\ s.w.ents[e] = d
      /\ \A f \in DOMAIN r.w.ents \ {e} : s.w.ents[f] = r.w.ents[f]
      /\ s.w.raised = r.w.raised /\ s.out = r.out \cup X
      /\ r.w.nextCmd \in Nat /\ s.w.nextCmd \in Nat /\ r.w.nextCmd <= s.w.nextCmd
      /\ \A x \in X : /\ x \in Commands /\ x.type \in WorkTypes /\ x.ent = e
                      /\ r.w.nextCmd <= x.cmd /\ x.cmd < s.w.nextCmd
      /\ \A x, y \in X : x.cmd = y.cmd => x = y
  BY DEF Changed
<1>2. Sound(r.w, K, R) /\ \A x \in r.out : x.type \in WorkTypes
  BY DEF RunSound
<1>3. O \cup s.out = K \cup X /\ EntSound(e, s.w.ents[e], K \cup X, R)
  BY <1>1
<1> HIDE DEF K, R
<1>4. Sound(s.w, K \cup X, R)
  <2> DEFINE w == r.w
             v == s.w
  <2>1. /\ Sound(w, K, R) /\ e \in DOMAIN w.ents /\ DOMAIN v.ents = DOMAIN w.ents
        /\ \A f \in DOMAIN w.ents \ {e} : v.ents[f] = w.ents[f]
        /\ w.nextCmd \in Nat /\ v.nextCmd \in Nat /\ w.nextCmd <= v.nextCmd
        /\ \A k \in X : /\ k \in Commands /\ k.ent = e
                        /\ w.nextCmd <= k.cmd /\ k.cmd < v.nextCmd
        /\ \A k, l \in X : k.cmd = l.cmd => k = l
        /\ EntSound(e, v.ents[e], K \cup X, R)
    BY <1>1, <1>2, <1>3
  <2> HIDE DEF w, v
  <2>2. Sound(v, K \cup X, R)
    BY <2>1, ChangeSound
  <2> QED BY <2>2 DEF v
<1>5. RunSound(s, O)
  BY <1>1, <1>2, <1>3, <1>4 DEF RunSound, R
<1>6. ASSUME NEW L, Served(r.w, L \cup r.out)
      PROVE  Served(s.w, L \cup s.out)
  <2> DEFINE M == L \cup r.out
  <2>1. L \cup s.out = M \cup X
    BY <1>1
  <2>2. Served(r.w, M)
    BY <1>6
  <2> HIDE DEF M
  <2>3. EntServed(e, s.w.ents[e], M \cup X)
    BY <1>1, <2>2 DEF Served
  <2>4. Served(s.w, M \cup X)
    BY <1>1, <2>2, <2>3, ChangeServed
  <2> QED BY <2>1, <2>4
<1> QED BY <1>5, <1>6 DEF Flows

\* Systems compose, and one that ignores its input changes nothing.
LEMMA FlowsOn ==
    ASSUME NEW r, NEW s, NEW t, NEW O, Flows(r, s, O), Flows(s, t, O)
    PROVE  Flows(r, t, O)
BY DEF Flows

\* A run flows to itself.
LEMMA FlowsSelf == ASSUME NEW r, NEW O, RunSound(r, O) PROVE Flows(r, r, O)
BY DEF Flows

\* A Put changes one entity and emits nothing.
LEMMA PutChanged ==
    ASSUME NEW r, GoodRun(r), NEW e \in DOMAIN r.w.ents, NEW d
    PROVE  Changed(r, Put(r, e, d), e, d, {})
<1> DEFINE s == Put(r, e, d)
<1>1. /\ DOMAIN s.w.ents = DOMAIN r.w.ents /\ s.w.ents[e] = d
      /\ \A f \in DOMAIN r.w.ents \ {e} : s.w.ents[f] = r.w.ents[f]
      /\ s.w.raised = r.w.raised /\ s.out = r.out /\ s.w.nextCmd = r.w.nextCmd
  BY PutFields
<1>2. r.w.nextCmd \in Nat
  BY RunFields
<1> HIDE DEF s
<1> QED BY <1>1, <1>2 DEF Changed, s

\* An entity that emits the commands X it minted ids for is changed by that.
LEMMA SentChanged ==
    ASSUME NEW r, GoodRun(r), NEW e \in DOMAIN r.w.ents, NEW n \in Nat, NEW d, NEW X,
           \A x \in X : /\ x \in Commands /\ x.type \in WorkTypes /\ x.ent = e
                        /\ r.w.nextCmd <= x.cmd /\ x.cmd < r.w.nextCmd + n,
           \A x, y \in X : x.cmd = y.cmd => x = y
    PROVE  Changed(r, Emit(Put(Mint(r, n), e, d), X), e, d, X)
<1> DEFINE m == Mint(r, n)
           p == Put(m, e, d)
           s == Emit(p, X)
<1>1. /\ GoodRun(m) /\ m.w.ents = r.w.ents /\ m.w.nextCmd = r.w.nextCmd + n
      /\ m.w.raised = r.w.raised /\ m.out = r.out
  BY MintGood
<1>2. r.w.nextCmd \in Nat
  BY RunFields
<1> HIDE DEF m
<1>3. /\ DOMAIN p.w.ents = DOMAIN m.w.ents /\ p.w.ents[e] = d
      /\ \A f \in DOMAIN m.w.ents \ {e} : p.w.ents[f] = m.w.ents[f]
      /\ p.w.raised = m.w.raised /\ p.out = m.out /\ p.w.nextCmd = m.w.nextCmd
  BY <1>1, PutFields
<1>4. s.w = p.w /\ s.out = p.out \cup X
  <2>1. p \in [w : {p.w}, out : {p.out}]
    BY <1>1 DEF Put, GoodRun
  <2> HIDE DEF p
  <2> QED BY <2>1 DEF Emit
<1> HIDE DEF p, s
<1>5. /\ DOMAIN s.w.ents = DOMAIN r.w.ents /\ s.w.ents[e] = d
      /\ \A f \in DOMAIN r.w.ents \ {e} : s.w.ents[f] = r.w.ents[f]
      /\ s.w.raised = r.w.raised /\ s.out = r.out \cup X
      /\ s.w.nextCmd = r.w.nextCmd + n
  BY <1>1, <1>3, <1>4
<1>6. s.w.nextCmd \in Nat /\ r.w.nextCmd <= s.w.nextCmd
  BY <1>2, <1>5
<1>7. Changed(r, s, e, d, X)
  BY <1>2, <1>5, <1>6 DEF Changed
<1> QED BY <1>7 DEF s, p, m

-----------------------------------------------------------------------------
\* What is done to the components of one entity.

\* A change of what nobody waits for: inbox, history, gate, budget, counters.
LEMMA AlikeFlows ==
    ASSUME NEW r, GoodRun(r), NEW O, RunSound(r, O), NEW e \in DOMAIN r.w.ents, NEW d,
           d.act = r.w.ents[e].act, d.awaits = r.w.ents[e].awaits,
           d.slots = r.w.ents[e].slots, d.turn = r.w.ents[e].turn
    PROVE  Flows(r, Put(r, e, d), O)
<1> DEFINE c == r.w.ents[e]
           K == O \cup r.out
           R == r.w.raised
<1>1. EntSound(e, c, K, R) /\ Changed(r, Put(r, e, d), e, d, {})
  BY PutChanged DEF RunSound, Sound
<1>2. d.act = c.act /\ d.awaits = c.awaits /\ d.slots = c.slots /\ d.turn = c.turn
  OBVIOUS
<1> HIDE DEF c, K, R
<1>3. Shape(d) /\ HeldFor(R, e, d)
  BY <1>1, <1>2 DEF EntSound, Shape, HeldFor
<1>4. \A k \in K : k.ent = e => WaitsFor(d, k)
  BY <1>1, <1>2 DEF EntSound, WaitsFor
<1>5. EntSound(e, d, K \cup {}, R)
  BY <1>3, <1>4 DEF EntSound
<1>6. \A L : EntServed(e, c, L) => EntServed(e, d, L \cup {})
  BY <1>2 DEF EntServed, Heeds
<1> QED BY <1>1, <1>5, <1>6, ChangedFlows DEF c, K, R

\* A Put is sound when it is so for the entity it changes.
LEMMA PutFlows ==
    ASSUME NEW r, GoodRun(r), NEW O, RunSound(r, O), NEW e \in DOMAIN r.w.ents, NEW d,
           EntSound(e, d, O \cup r.out, r.w.raised),
           \A L : EntServed(e, r.w.ents[e], L) => EntServed(e, d, L)
    PROVE  Flows(r, Put(r, e, d), O)
<1> DEFINE X == {}
           s == Put(r, e, d)
<1>1. Changed(r, s, e, d, X)
  BY PutChanged
<1>2. (O \cup r.out) \cup X = O \cup r.out /\ \A L : L \cup X = L OBVIOUS
<1> HIDE DEF X, s
<1>3. EntSound(e, d, (O \cup r.out) \cup X, r.w.raised)
  BY <1>2
<1>4. ASSUME NEW L, EntServed(e, r.w.ents[e], L)
      PROVE  EntServed(e, d, L \cup X)
  BY <1>2, <1>4
<1>5. Flows(r, s, O)
  BY <1>1, <1>3, <1>4, ChangedFlows
<1> QED BY <1>5 DEF s

\* An entity without slots that waits, if for anything, for the commands X it sends.
LEMMA StartsOver ==
    ASSUME NEW e, NEW K, NEW R, Free(e, K, R), NEW d, NEW X, d.slots = <<>>,
           d.act \in {"Idle", "Thinking", "Compacting"}, \A m, n \in d.awaits : m = n,
           d.act = "Idle" => d.awaits = {}, \A x \in X : WaitsFor(d, x),
           \A n \in d.awaits : \E x \in X : x.ent = e /\ x.cmd = n
    PROVE  /\ EntSound(e, d, K \cup X, R)
           /\ \A L : EntServed(e, d, L \cup X)
<1>1. DOMAIN d.slots = {} OBVIOUS
<1>2. Shape(d)
  BY <1>1 DEF Shape
<1>3. HeldFor(R, e, d)
  BY <1>1 DEF HeldFor, Free
<1>4. \A k \in K \cup X : k.ent = e => WaitsFor(d, k)
  BY DEF Free
<1> QED BY <1>1, <1>2, <1>3, <1>4 DEF EntSound, EntServed

\* A turn that starts or goes on waits for its call alone.
LEMMA ThinkFlows ==
    ASSUME NEW r, GoodRun(r), NEW O, RunSound(r, O), NEW e \in DOMAIN r.w.ents,
           Free(e, O \cup r.out, r.w.raised), NEW c \in Components
    PROVE  Flows(r, Think(r, e, c), O)
<1> DEFINE k == r.w.nextCmd
           d == ToWaiting(c, "Thinking", k)
           x == Command("CallModel", k, e, 0)
           s == Emit(Put(Mint(r, 1), e, d), {x})
<1>1. k \in Nat /\ e \in Nat
  BY RunFields, EntGood
<1>2. d.act = "Thinking" /\ d.awaits = {k} /\ d.slots = <<>>
  BY DEF ToWaiting, ToIdle, Components
<1>3. x \in Commands /\ x.type = "CallModel" /\ x.ent = e /\ x.cmd = k /\ ~ x.stop
  BY <1>1 DEF Command, Commands, WorkTypes
<1>4. s = Think(r, e, c)
  BY DEF Think
<1> HIDE DEF d, x, s
<1>5. Changed(r, s, e, d, {x})
  <2>1. x.type \in WorkTypes /\ r.w.nextCmd <= x.cmd /\ x.cmd < r.w.nextCmd + 1
    BY <1>1, <1>3 DEF WorkTypes
  <2> QED BY <1>3, <2>1, SentChanged DEF s
<1>6. WaitsFor(d, x)
  BY <1>2, <1>3 DEF WaitsFor
<1>7. /\ EntSound(e, d, (O \cup r.out) \cup {x}, r.w.raised)
      /\ \A L : EntServed(e, d, L \cup {x})
  BY <1>2, <1>3, <1>6, StartsOver
<1>8. Flows(r, s, O)
  BY <1>5, <1>7, ChangedFlows
<1> QED BY <1>4, <1>8

-----------------------------------------------------------------------------
\* Slots.

\* Slots settle when no answer to them is owed and no request of theirs is raised.
LEMMA SettleEnt ==
    ASSUME NEW e, NEW c \in Components, NEW K, NEW R, EntSound(e, c, K, R), NEW I, NEW err,
           \A i \in DOMAIN c.slots : i \in I =>
              /\ c.slots[i].st # "held"
              /\ c.slots[i].st = "sent" => \A k \in K : k.cmd # c.slots[i].cmd
    PROVE  /\ EntSound(e, SettleSlots(c, I, err), K, R)
           /\ \A L : EntServed(e, c, L) => EntServed(e, SettleSlots(c, I, err), L)
<1> DEFINE d == SettleSlots(c, I, err)
<1>1. /\ d.act = c.act /\ d.awaits = c.awaits /\ d.turn = c.turn
      /\ DOMAIN d.slots = DOMAIN c.slots
      /\ \A i \in DOMAIN c.slots : i \notin I => d.slots[i] = c.slots[i]
      /\ \A i \in DOMAIN c.slots : i \in I =>
            /\ d.slots[i].st = "done" /\ d.slots[i].kind = c.slots[i].kind
            /\ d.slots[i].child = c.slots[i].child
  <2>1. /\ d.act = c.act /\ d.awaits = c.awaits /\ d.turn = c.turn
        /\ d.slots = [i \in DOMAIN c.slots |->
                        IF i \in I THEN [c.slots[i] EXCEPT !.st = "done", !.cmd = None, !.err = err]
                        ELSE c.slots[i]]
    BY DEF SettleSlots, Components
  <2>2. \A i \in DOMAIN c.slots : c.slots[i] \in ToolSlots
    BY EntFields
  <2> DEFINE done(x) == [x EXCEPT !.st = "done", !.cmd = None, !.err = err]
  <2>3. \A x \in ToolSlots :
           done(x).st = "done" /\ done(x).kind = x.kind /\ done(x).child = x.child
    BY DEF ToolSlots
  <2>4. \A i \in DOMAIN c.slots : d.slots[i] = IF i \in I THEN done(c.slots[i]) ELSE c.slots[i]
    BY <2>1
  <2>5. /\ DOMAIN d.slots = DOMAIN c.slots
        /\ d.act = c.act /\ d.awaits = c.awaits /\ d.turn = c.turn
    BY <2>1
  <2> HIDE DEF d, done
  <2> QED BY <2>2, <2>3, <2>4, <2>5
<1> HIDE DEF d
<1>2. Shape(d)
  <2>1. DOMAIN d.slots = DOMAIN c.slots
    BY <1>1
  <2>2. Shape(c)
    BY DEF EntSound
  <2>3. \A i \in DOMAIN c.slots : d.slots[i].st \in {"done", c.slots[i].st}
                                  /\ d.slots[i].kind = c.slots[i].kind
                                  /\ d.slots[i].child = c.slots[i].child
    BY <1>1
  <2> QED BY <1>1, <2>1, <2>2, <2>3 DEF Shape
<1>3. HeldFor(R, e, d)
  <2>1. \A i \in DOMAIN c.slots : d.slots[i].st = "held" <=> c.slots[i].st = "held"
    BY <1>1
  <2> QED BY <1>1, <2>1 DEF EntSound, HeldFor
<1>4. ASSUME NEW k \in K, k.ent = e
      PROVE  WaitsFor(d, k)
  <2>1. WaitsFor(c, k)
    BY <1>4 DEF EntSound
  <2>2. \A i \in DOMAIN c.slots : c.slots[i].st = "sent" /\ c.slots[i].cmd = k.cmd =>
           d.slots[i] = c.slots[i]
    BY <1>1
  <2> QED BY <1>1, <2>1, <2>2 DEF WaitsFor
<1>5. ASSUME NEW L, EntServed(e, c, L)
      PROVE  EntServed(e, d, L)
  <2>1. \A i \in DOMAIN c.slots : d.slots[i].st = "sent" => d.slots[i] = c.slots[i]
    BY <1>1
  <2> QED BY <1>1, <1>5, <2>1 DEF EntServed, Heeds
<1> QED BY <1>2, <1>3, <1>4, <1>5 DEF EntSound, d

\* So they do in a run.
LEMMA SettleFlows ==
    ASSUME NEW r, GoodRun(r), NEW O, RunSound(r, O), NEW e \in DOMAIN r.w.ents, NEW I, NEW err,
           \A i \in DOMAIN r.w.ents[e].slots : i \in I =>
              /\ r.w.ents[e].slots[i].st # "held"
              /\ r.w.ents[e].slots[i].st = "sent" =>
                    \A k \in O \cup r.out : k.cmd # r.w.ents[e].slots[i].cmd
    PROVE  Flows(r, Settle(r, e, I, err), O)
<1> DEFINE c == r.w.ents[e]
           d == SettleSlots(c, I, err)
           K == O \cup r.out
<1>1. EntSound(e, c, K, r.w.raised) /\ c \in Components
  BY EntGood DEF RunSound, Sound
<1>2. \A i \in DOMAIN c.slots : i \in I =>
         /\ c.slots[i].st # "held"
         /\ c.slots[i].st = "sent" => \A k \in K : k.cmd # c.slots[i].cmd
  OBVIOUS
<1>3. Settle(r, e, I, err) = Put(r, e, d)
  BY DEF Settle
<1> HIDE DEF c, K
<1>4. /\ EntSound(e, d, K, r.w.raised)
      /\ \A L : EntServed(e, c, L) => EntServed(e, d, L)
  BY <1>1, <1>2, SettleEnt
<1> HIDE DEF d
<1> QED BY <1>3, <1>4, PutFlows DEF c, K

\* The slots dispatched are waited for by the entity that sent them.
LEMMA SendEnt ==
    ASSUME NEW e \in Nat, NEW c \in Components, NEW K, NEW R, EntSound(e, c, K, R),
           NEW I \in SUBSET DOMAIN c.slots, NEW type, NEW k \in Nat,
           \A i \in I : c.slots[i].st = "fresh" /\ WorkOf(c.slots[i].kind) = type,
           type \in WorkTypes, NEW d, d = SendSlots(c, I, k),
           NEW X, \A x \in X : \E i \in I : x = Command(type, k + Rank(i, I), e, 0),
           \A i \in I : Command(type, k + Rank(i, I), e, 0) \in X
    PROVE  /\ EntSound(e, d, K \cup X, R)
           /\ \A L : EntServed(e, c, L) => EntServed(e, d, L \cup X)
<1>1. /\ d.act = c.act /\ d.awaits = c.awaits /\ d.turn = c.turn
      /\ DOMAIN d.slots = DOMAIN c.slots
      /\ \A i \in DOMAIN c.slots : i \notin I => d.slots[i] = c.slots[i]
      /\ \A i \in I :
            /\ d.slots[i].st = "sent" /\ d.slots[i].kind = c.slots[i].kind
            /\ d.slots[i].child = c.slots[i].child /\ d.slots[i].cmd = k + Rank(i, I)
  <2>1. /\ d.act = c.act /\ d.awaits = c.awaits /\ d.turn = c.turn
        /\ d.slots = [i \in DOMAIN c.slots |->
                        IF i \in I THEN [c.slots[i] EXCEPT !.st = "sent", !.cmd = k + Rank(i, I)]
                        ELSE c.slots[i]]
    BY DEF SendSlots, Components
  <2>2. \A i \in DOMAIN c.slots : c.slots[i] \in ToolSlots
    BY EntFields
  <2> DEFINE sent(x, n) == [x EXCEPT !.st = "sent", !.cmd = n]
  <2>3. ASSUME NEW x \in ToolSlots, NEW n
        PROVE  /\ sent(x, n).st = "sent" /\ sent(x, n).kind = x.kind
               /\ sent(x, n).child = x.child /\ sent(x, n).cmd = n
    BY DEF ToolSlots
  <2>4. \A i \in DOMAIN c.slots :
           d.slots[i] = IF i \in I THEN sent(c.slots[i], k + Rank(i, I)) ELSE c.slots[i]
    BY <2>1
  <2>5. /\ DOMAIN d.slots = DOMAIN c.slots
        /\ d.act = c.act /\ d.awaits = c.awaits /\ d.turn = c.turn
    BY <2>1
  <2> HIDE DEF sent
  <2> QED BY <2>2, <2>3, <2>4, <2>5
<1>2. \A x \in X : \E i \in I : x = Command(type, k + Rank(i, I), e, 0) OBVIOUS
<1>3. \A i \in I : \E x \in X : x.ent = e /\ x.cmd = k + Rank(i, I) /\ x.type = type
  <2> SUFFICES ASSUME NEW i \in I
               PROVE  \E x \in X : x.ent = e /\ x.cmd = k + Rank(i, I) /\ x.type = type
    OBVIOUS
  <2>1. Command(type, k + Rank(i, I), e, 0) \in X OBVIOUS
  <2> QED BY <2>1 DEF Command
<1>4. Shape(c) /\ HeldFor(R, e, c) /\ \A l \in K : l.ent = e => WaitsFor(c, l)
  BY DEF EntSound
<1>5. \A i \in I : /\ c.slots[i].kind # "Child" /\ c.slots[i].st = "fresh"
                   /\ type = WorkOf(c.slots[i].kind)
  BY DEF WorkOf, WorkTypes
<1>6. Shape(d)
  <2>1. DOMAIN d.slots = DOMAIN c.slots
    BY <1>1
  <2>2. \A i \in DOMAIN c.slots : d.slots[i].kind = c.slots[i].kind
                                  /\ d.slots[i].child = c.slots[i].child
    BY <1>1
  <2>3. \A i \in DOMAIN c.slots :
           /\ d.slots[i].st = "held" => c.slots[i].st = "held"
           /\ c.slots[i].kind = "Child" => d.slots[i].st = c.slots[i].st
    BY <1>1, <1>5
  <2> QED BY <1>1, <1>4, <2>1, <2>2, <2>3 DEF Shape
<1>7. HeldFor(R, e, d)
  <2>1. \A i \in DOMAIN c.slots : d.slots[i].st = "held" <=> c.slots[i].st = "held"
    BY <1>1, <1>5
  <2> QED BY <1>1, <1>4, <2>1 DEF HeldFor
<1>8. ASSUME NEW l \in K, l.ent = e
      PROVE  WaitsFor(d, l)
  <2>1. WaitsFor(c, l)
    BY <1>4, <1>8
  <2>2. \A i \in DOMAIN c.slots : c.slots[i].st = "sent" => d.slots[i] = c.slots[i]
    BY <1>1, <1>5
  <2> QED BY <1>1, <2>1, <2>2 DEF WaitsFor
<1>9. ASSUME NEW x \in X
      PROVE  WaitsFor(d, x)
  <2>1. PICK i \in I : x = Command(type, k + Rank(i, I), e, 0)
    BY <1>2
  <2>2. ~ x.stop /\ x.cmd = k + Rank(i, I) /\ x.type = type
    BY <2>1 DEF Command
  <2>3. c.act = "Resolving"
    BY <1>4 DEF Shape
  <2>4. /\ i \in DOMAIN d.slots /\ d.slots[i].st = "sent" /\ d.slots[i].cmd = x.cmd
        /\ x.type = WorkOf(d.slots[i].kind)
    BY <1>1, <1>5, <2>2
  <2> QED BY <1>1, <2>2, <2>3, <2>4 DEF WaitsFor
<1>10. ASSUME NEW L, EntServed(e, c, L)
       PROVE  EntServed(e, d, L \cup X)
  <2> SUFFICES ASSUME Heeds(d)
               PROVE  EntServed(e, d, L \cup X)
    BY DEF EntServed
  <2>0. Heeds(c)
    BY <1>1 DEF Heeds
  <2>1. \A n \in d.awaits : \E l \in L : l.ent = e /\ l.cmd = n
    BY <1>1, <1>10, <2>0 DEF EntServed
  <2>2. ASSUME NEW i \in DOMAIN d.slots, d.slots[i].st = "sent"
        PROVE  \E l \in L \cup X : l.ent = e /\ l.cmd = d.slots[i].cmd
                                   /\ l.type = WorkOf(d.slots[i].kind)
    <3>1. CASE i \in I
      BY <1>1, <1>3, <1>5, <3>1
    <3>2. CASE i \notin I
      BY <1>1, <1>10, <2>0, <2>2, <3>2 DEF EntServed
    <3> QED BY <3>1, <3>2
  <2> QED BY <2>1, <2>2 DEF EntServed
<1>11. EntSound(e, d, K \cup X, R)
  BY <1>6, <1>7, <1>8, <1>9 DEF EntSound
<1> QED BY <1>10, <1>11

-----------------------------------------------------------------------------
\* Dispatching, and going on with a turn.

\* A System goes on with a run: it leads on and forgets nobody.
Goes(r, s, O) == Leads(r, s) /\ Flows(r, s, O)

\* Nothing is done to a run that is good and sound.
LEMMA GoesSelf == ASSUME NEW r, GoodRun(r), NEW O, RunSound(r, O) PROVE Goes(r, r, O)
BY LeadsSelf, FlowsSelf DEF Goes

\* Systems compose.
LEMMA GoesOn ==
    ASSUME NEW r, NEW s, NEW t, NEW O, Goes(r, s, O), Goes(s, t, O)
    PROVE  Goes(r, t, O)
BY LeadsOn, FlowsOn DEF Goes

\* What a System leaves is good and sound again.
LEMMA GoesSound ==
    ASSUME NEW r, NEW s, NEW O, Goes(r, s, O)
    PROVE  GoodRun(s) /\ RunSound(s, O) /\ DOMAIN r.w.ents \subseteq DOMAIN s.w.ents
BY DEF Goes, Leads, Flows

\* Fresh slots are dispatched by the command of their kind.
LEMMA DispatchGoes ==
    ASSUME NEW r, GoodRun(r), NEW O, RunSound(r, O), NEW e \in DOMAIN r.w.ents,
           NEW I \in SUBSET DOMAIN r.w.ents[e].slots, NEW type \in WorkTypes,
           \A i \in I : /\ r.w.ents[e].slots[i].st = "fresh"
                        /\ WorkOf(r.w.ents[e].slots[i].kind) = type
    PROVE  /\ Goes(r, Dispatch(r, e, I, type), O)
           /\ DOMAIN Dispatch(r, e, I, type).w.ents = DOMAIN r.w.ents
           /\ Dispatch(r, e, I, type).w.ents[e].act = r.w.ents[e].act
<1> DEFINE k == r.w.nextCmd
           n == Cardinality(I)
           c == r.w.ents[e]
           d == SendSlots(c, I, k)
           X == {Command(type, k + Rank(i, I), e, 0) : i \in I}
           s == Emit(Put(Mint(r, n), e, d), X)
<1>1. k \in Nat /\ e \in Nat /\ c \in Components /\ EntSound(e, c, O \cup r.out, r.w.raised)
  BY RunFields, EntGood DEF RunSound, Sound
<1>2. n \in Nat /\ \A i \in I : Rank(i, I) \in Nat /\ Rank(i, I) < n
  BY <1>1, EntFields, RankType
<1>3. s = Dispatch(r, e, I, type)
  BY DEF Dispatch
<1>4. \A x \in X : /\ x \in Commands /\ x.type \in WorkTypes /\ x.ent = e
                   /\ k <= x.cmd /\ x.cmd < k + n
  <2> SUFFICES ASSUME NEW i \in I
               PROVE  LET x == Command(type, k + Rank(i, I), e, 0)
                      IN  /\ x \in Commands /\ x.type \in WorkTypes /\ x.ent = e
                          /\ k <= x.cmd /\ x.cmd < k + n
    OBVIOUS
  <2> DEFINE x == Command(type, k + Rank(i, I), e, 0)
  <2>1. k + Rank(i, I) \in Nat /\ k <= k + Rank(i, I) /\ k + Rank(i, I) < k + n
    BY <1>1, <1>2
  <2>2. x \in Commands /\ x.cmd = k + Rank(i, I) /\ x.ent = e
    BY <1>1, <2>1, CommandType
  <2>3. x.type = type
    BY DEF Command
  <2> HIDE DEF x, n
  <2> QED BY <2>1, <2>2, <2>3 DEF x
<1>5. \A x, y \in X : x.cmd = y.cmd => x = y
  <2> SUFFICES ASSUME NEW i \in I, NEW j \in I,
                      Command(type, k + Rank(i, I), e, 0).cmd = Command(type, k + Rank(j, I), e, 0).cmd
               PROVE  Command(type, k + Rank(i, I), e, 0) = Command(type, k + Rank(j, I), e, 0)
    OBVIOUS
  <2>1. k + Rank(i, I) = k + Rank(j, I)
    BY DEF Command
  <2> QED BY <2>1
<1>6. /\ EntSound(e, d, (O \cup r.out) \cup X, r.w.raised)
      /\ \A L : EntServed(e, c, L) => EntServed(e, d, L \cup X)
  <2>1. I \in SUBSET DOMAIN c.slots /\ \A i \in I : c.slots[i].st = "fresh" /\ WorkOf(c.slots[i].kind) = type
    OBVIOUS
  <2>2. /\ d = SendSlots(c, I, k)
        /\ \A x \in X : \E i \in I : x = Command(type, k + Rank(i, I), e, 0)
        /\ \A i \in I : Command(type, k + Rank(i, I), e, 0) \in X
    OBVIOUS
  <2> DEFINE K == O \cup r.out
             R == r.w.raised
  <2>3. EntSound(e, c, K, R)
    BY <1>1
  <2> HIDE DEF c, k, d, X, n, K, R, s
  <2>4. /\ EntSound(e, d, K \cup X, R)
        /\ \A L : EntServed(e, c, L) => EntServed(e, d, L \cup X)
    BY <1>1, <2>1, <2>2, <2>3, SendEnt
  <2> QED BY <2>4 DEF K, R
<1>7. d.act = c.act
  BY <1>1 DEF SendSlots, Components
<1> HIDE DEF X, d, s, n
<1>8. Changed(r, s, e, d, X)
  BY <1>2, <1>4, <1>5, SentChanged DEF s
<1>9. Flows(r, s, O)
  BY <1>6, <1>8, ChangedFlows
<1>10. Leads(r, s)
  BY <1>3, DispatchGood
<1>11. DOMAIN s.w.ents = DOMAIN r.w.ents /\ s.w.ents[e].act = c.act
  BY <1>7, <1>8 DEF Changed
<1> QED BY <1>3, <1>9, <1>10, <1>11 DEF Goes

\* A settled turn goes on with a call, one that is not waits for its slots (advance).
LEMMA AdvanceGoes ==
    ASSUME NEW r, GoodRun(r), NEW O, RunSound(r, O), NEW e \in DOMAIN r.w.ents
    PROVE  Goes(r, Advance(r, e), O)
<1> DEFINE I == FreshSlots(r.w, e, "Local")
           s == Dispatch(r, e, I, "RunTool")
           c == s.w.ents[e]
           t == Think(s, e, WithResults(c))
<1>1. Goes(r, s, O) /\ DOMAIN s.w.ents = DOMAIN r.w.ents
  <2>1. /\ I \in SUBSET DOMAIN r.w.ents[e].slots /\ "RunTool" \in WorkTypes
        /\ \A i \in I : /\ r.w.ents[e].slots[i].st = "fresh"
                        /\ WorkOf(r.w.ents[e].slots[i].kind) = "RunTool"
    BY DEF FreshSlots, WorkTypes, WorkOf
  <2> HIDE DEF I
  <2> QED BY <2>1, DispatchGoes
<1>2. /\ Advance(r, e) \in {r, t, s}
      /\ Advance(r, e) \notin {r, s} => c.slots # <<>> /\ Pending(s.w, e) = {}
  BY DEF Advance
<1> HIDE DEF s
<1>3. GoodRun(s) /\ RunSound(s, O) /\ e \in DOMAIN s.w.ents /\ c \in Components
  BY <1>1, GoesSound, EntGood
<1>4. ASSUME c.slots # <<>>, Pending(s.w, e) = {}
      PROVE  Flows(s, t, O)
  <2> DEFINE K == O \cup s.out
             w == s.w
  <2>1. Sound(w, K, w.raised)
    BY <1>3 DEF RunSound
  <2>2. c.act = "Resolving"
    <3>1. Shape(c)
      BY <1>3, <2>1 DEF Sound, EntSound
    <3>2. DOMAIN c.slots # {}
      <4>1. c.slots \in Seq(ToolSlots)
        BY <1>3, EntFields
      <4> HIDE DEF c
      <4> QED BY <1>4, <4>1
    <3> QED BY <3>1, <3>2 DEF Shape
  <2>3. Free(e, K, w.raised)
    <3>1. e \in DOMAIN w.ents /\ w.ents[e].act = "Resolving" /\ Pending(w, e) = {}
      BY <1>3, <1>4, <2>2
    <3> HIDE DEF w, K
    <3> QED BY <2>1, <3>1, RestIsFree
  <2>4. WithResults(c) \in Components
    <3>1. Append(c.hist, Msg("results", c.turn)) \in Seq(Msgs)
      BY <1>3, EntFields DEF Msg, Msgs, Roles
    <3> HIDE DEF c
    <3> QED BY <1>3, <3>1 DEF WithResults, Components
  <2> QED BY <1>3, <2>3, <2>4, ThinkFlows
<1>5. CASE Advance(r, e) \in {r, s}
  BY <1>1, <1>5, GoesSelf
<1>6. CASE Advance(r, e) \notin {r, s}
  <2>1. Flows(s, t, O) /\ Advance(r, e) = t
    BY <1>2, <1>4, <1>6
  <2>2. Flows(r, t, O)
    BY <1>1, <2>1, FlowsOn DEF Goes
  <2> QED BY <2>1, <2>2, AdvanceGood DEF Goes
<1> QED BY <1>5, <1>6

-----------------------------------------------------------------------------
\* Answers.

\* The answer k is taken: nobody waits for it any more.
Takes(r, s, O, k) ==
    Served(r.w, {k} \cup (O \cup r.out)) => Served(s.w, O \cup s.out)

\* Another command owed does no harm to those that are served.
LEMMA TakesLater ==
    ASSUME NEW r, NEW s, NEW t, NEW O, NEW k, Takes(r, s, O, k), Flows(s, t, O)
    PROVE  Takes(r, t, O, k)
BY DEF Takes, Flows

\* What goes on before an answer is taken serves those that wait for it.
LEMMA TakesAfter ==
    ASSUME NEW r, NEW s, NEW t, NEW O, NEW k, Flows(r, s, O), Takes(s, t, O, k)
    PROVE  Takes(r, t, O, k)
<1>1. {k} \cup (O \cup r.out) = ({k} \cup O) \cup r.out OBVIOUS
<1>2. {k} \cup (O \cup s.out) = ({k} \cup O) \cup s.out OBVIOUS
<1> QED BY <1>1, <1>2 DEF Takes, Flows

\* An answer is taken by a change after which its entity does not wait for it.
LEMMA TakenBy ==
    ASSUME NEW r, NEW s, NEW O, NEW k, Flows(r, s, O), NEW c, c = s.w.ents[k.ent],
           k.cmd \notin c.awaits,
           Served(r.w, {k} \cup (O \cup r.out)) =>
              \A i \in DOMAIN c.slots : c.slots[i].st = "sent" => c.slots[i].cmd # k.cmd
    PROVE  Takes(r, s, O, k)
<1> SUFFICES ASSUME Served(r.w, {k} \cup (O \cup r.out))
             PROVE  Served(s.w, O \cup s.out)
  BY DEF Takes
<1>1. {k} \cup (O \cup r.out) = ({k} \cup O) \cup r.out OBVIOUS
<1>2. Served(s.w, ({k} \cup O) \cup s.out)
  BY <1>1 DEF Flows
<1>3. ASSUME NEW e \in DOMAIN s.w.ents
      PROVE  EntServed(e, s.w.ents[e], O \cup s.out)
  <2> DEFINE d == s.w.ents[e]
  <2>1. EntServed(e, d, ({k} \cup O) \cup s.out)
    BY <1>2 DEF Served
  <2>2. e = k.ent => d = c OBVIOUS
  <2> HIDE DEF d
  <2>3. \A n \in d.awaits : e = k.ent => n # k.cmd
    BY <2>2
  <2>4. \A i \in DOMAIN d.slots : d.slots[i].st = "sent" /\ e = k.ent => d.slots[i].cmd # k.cmd
    BY <2>2
  <2>5. \A l \in ({k} \cup O) \cup s.out : l = k \/ l \in O \cup s.out OBVIOUS
  <2>6. EntServed(e, d, O \cup s.out)
    BY <2>1, <2>3, <2>4, <2>5 DEF EntServed
  <2> QED BY <2>6 DEF d
<1> QED BY <1>3 DEF Served

\* Fresh and done slots settle without anybody waiting for them, and the turn goes on.
LEMMA DenyGoes ==
    ASSUME NEW r, GoodRun(r), NEW O, RunSound(r, O), NEW e \in DOMAIN r.w.ents, NEW I,
           NEW err \in BOOLEAN,
           \A i \in DOMAIN r.w.ents[e].slots : i \in I =>
              r.w.ents[e].slots[i].st \in {"fresh", "done"}
    PROVE  /\ Goes(r, Settle(r, e, I, err), O)
           /\ DOMAIN Settle(r, e, I, err).w.ents = DOMAIN r.w.ents
           /\ Goes(r, Advance(Settle(r, e, I, err), e), O)
<1> DEFINE s == Settle(r, e, I, err)
<1>1. Goes(r, s, O) /\ DOMAIN s.w.ents = DOMAIN r.w.ents
  BY SettleFlows, SettleGood DEF Goes
<1> HIDE DEF s
<1>2. Goes(s, Advance(s, e), O)
  BY <1>1, GoesSound, AdvanceGoes
<1>3. Goes(r, Advance(s, e), O)
  BY <1>1, <1>2, GoesOn
<1> QED BY <1>1, <1>3 DEF s

\* The result of a dispatched slot settles it, is taken by it, and the turn goes on.
LEMMA ResultGoes ==
    ASSUME NEW r, GoodRun(r), NEW O, RunSound(r, O), NEW e \in DOMAIN r.w.ents,
           NEW kind \in {"Local", "Human", "Peer"}, NEW k, k.ent = e, k.type = WorkOf(kind),
           \A l \in O \cup r.out : l.cmd # k.cmd, NEW err \in BOOLEAN, NEW t,
           t = Advance(Settle(r, e, SentAs(r.w, e, kind, k.cmd), err), e)
    PROVE  /\ Goes(r, t, O)
           /\ r.w.ents[e].act = "Resolving" => Takes(r, t, O, k)
<1> DEFINE I == SentAs(r.w, e, kind, k.cmd)
           c == r.w.ents[e]
           d == SettleSlots(c, I, err)
           s == Settle(r, e, I, err)
<1>1. /\ c \in Components /\ EntSound(e, c, O \cup r.out, r.w.raised)
      /\ I = {i \in DOMAIN c.slots : /\ c.slots[i].kind = kind /\ c.slots[i].st = "sent"
                                     /\ c.slots[i].cmd = k.cmd}
  BY EntGood DEF RunSound, Sound, SentAs
<1>2. Goes(r, s, O) /\ DOMAIN s.w.ents = DOMAIN r.w.ents
  <2>1. \A i \in DOMAIN r.w.ents[e].slots : i \in I =>
           /\ r.w.ents[e].slots[i].st # "held"
           /\ r.w.ents[e].slots[i].st = "sent" =>
                 \A l \in O \cup r.out : l.cmd # r.w.ents[e].slots[i].cmd
    BY DEF SentAs
  <2> HIDE DEF I
  <2> QED BY <2>1, SettleFlows, SettleGood DEF Goes
<1>3. Goes(s, t, O)
  <2> HIDE DEF s
  <2>1. Goes(s, Advance(s, e), O)
    BY <1>2, GoesSound, AdvanceGoes
  <2> QED BY <2>1 DEF s
<1>4. s.w.ents[e] = d
  BY PutFields DEF Settle
<1>5. /\ d.awaits = c.awaits /\ DOMAIN d.slots = DOMAIN c.slots
      /\ \A i \in DOMAIN c.slots : i \notin I => d.slots[i] = c.slots[i]
      /\ \A i \in DOMAIN c.slots : i \in I => d.slots[i].st = "done"
  <2>1. /\ d.awaits = c.awaits
        /\ d.slots = [i \in DOMAIN c.slots |->
                        IF i \in I THEN [c.slots[i] EXCEPT !.st = "done", !.cmd = None, !.err = err]
                        ELSE c.slots[i]]
    BY <1>1 DEF SettleSlots, Components
  <2>2. \A i \in DOMAIN c.slots : c.slots[i] \in ToolSlots
    BY <1>1, EntFields
  <2> DEFINE done(x) == [x EXCEPT !.st = "done", !.cmd = None, !.err = err]
  <2>3. \A x \in ToolSlots : done(x).st = "done"
    BY DEF ToolSlots
  <2>4. \A i \in DOMAIN c.slots : d.slots[i] = IF i \in I THEN done(c.slots[i]) ELSE c.slots[i]
    BY <2>1
  <2>5. DOMAIN d.slots = DOMAIN c.slots
    BY <2>1
  <2> HIDE DEF c, d, I, done
  <2> QED BY <2>1, <2>2, <2>3, <2>4, <2>5
<1> HIDE DEF I, d, s
<1>6. ASSUME c.act = "Resolving"
      PROVE  Takes(r, s, O, k)
  <2>1. c.awaits = {}
    BY <1>1, <1>6 DEF EntSound, Shape
  <2>2. ASSUME Served(r.w, {k} \cup (O \cup r.out))
        PROVE  \A i \in DOMAIN d.slots : d.slots[i].st = "sent" => d.slots[i].cmd # k.cmd
    <3> SUFFICES ASSUME NEW i \in DOMAIN c.slots, i \notin I, c.slots[i].st = "sent",
                        c.slots[i].cmd = k.cmd
                 PROVE  FALSE
      BY <1>5
    <3>1. EntServed(e, c, {k} \cup (O \cup r.out))
      BY <2>2 DEF Served
    <3>2. PICK l \in {k} \cup (O \cup r.out) : l.cmd = k.cmd /\ l.type = WorkOf(c.slots[i].kind)
      BY <1>6, <3>1 DEF EntServed, Heeds
    <3>3. l = k
      BY <3>2
    <3>4. c.slots[i].kind = kind
      BY <3>2, <3>3 DEF WorkOf
    <3> QED BY <1>1, <3>4
  <2>3. k.cmd \notin d.awaits
    BY <1>5, <2>1
  <2>4. d = s.w.ents[k.ent] /\ Flows(r, s, O)
    BY <1>2, <1>4 DEF Goes
  <2> QED BY <2>2, <2>3, <2>4, TakenBy
<1>7. c.act = "Resolving" => Takes(r, t, O, k)
  BY <1>3, <1>6, TakesLater DEF Goes
<1> QED BY <1>2, <1>3, <1>7, GoesOn

-----------------------------------------------------------------------------
\* The Systems that end a wait.

\* Two positions of a set are different ranks, so two mints are different ids.
LEMMA RankApart ==
    ASSUME NEW n \in Nat, NEW I \in SUBSET (1 .. n), NEW i \in I, NEW j \in I,
           Rank(i, I) = Rank(j, I)
    PROVE  i = j
<1>0. I \subseteq Nat OBVIOUS
<1>1. IsFiniteSet(I)
  <2>1. IsFiniteSet(1 .. n)
    BY FS_Interval
  <2> QED BY <2>1, FS_Subset
<1>2. ASSUME NEW x \in I, NEW y \in I, x < y
      PROVE  Rank(x, I) < Rank(y, I)
  <2> DEFINE X == {z \in I : z < x}
             Y == {z \in I : z < y}
  <2>1. IsFiniteSet(X) /\ IsFiniteSet(Y) /\ Cardinality(X) \in Nat /\ Cardinality(Y) \in Nat
    BY <1>1, FS_Subset, FS_CardinalityType
  <2>2. X \subseteq Y
    <3>1. \A z \in I : z < x => z < y
      BY <1>0, <1>2
    <3> QED BY <3>1
  <2>3. x \in Y /\ x \notin X
    BY <1>0, <1>2
  <2> HIDE DEF X, Y
  <2>4. Cardinality(X) <= Cardinality(Y) /\ Cardinality(X) # Cardinality(Y)
    BY <2>1, <2>2, <2>3, FS_Subset
  <2>5. Cardinality(X) < Cardinality(Y)
    BY <2>1, <2>4
  <2> QED BY <2>5 DEF Rank, X, Y
<1>3. Rank(i, I) \in Nat /\ Rank(j, I) \in Nat
  BY RankType
<1>4. i < j \/ j < i \/ i = j OBVIOUS
<1> QED BY <1>2, <1>3, <1>4

\* A late result of a cancelled command is absorbed, and nothing else (absorb_late_result).
LEMMA AbsorbGoes ==
    ASSUME NEW r, GoodRun(r), NEW O, RunSound(r, O), NEW k, k.ent \in DOMAIN r.w.ents,
           \A l \in O \cup r.out : l.cmd # k.cmd,
           NEW s, s = Absorb(r, k.ent, k.cmd)
    PROVE  /\ Goes(r, s, O)
           /\ r.w.ents[k.ent].act # "Cancelling" => s = r
           /\ r.w.ents[k.ent].act = "Cancelling" /\ k.cmd \in r.w.ents[k.ent].awaits =>
                 Takes(r, s, O, k)
<1> DEFINE e == k.ent
           c == r.w.ents[e]
           d == [c EXCEPT !.awaits = @ \ {k.cmd}, !.act = IF c.awaits = {k.cmd} THEN "Idle" ELSE @]
           K == O \cup r.out
           R == r.w.raised
<1>1. c \in Components /\ EntSound(e, c, K, R)
  BY EntGood DEF RunSound, Sound
<1>2. \A l \in K : l.cmd # k.cmd OBVIOUS
<1>3. CASE ~ (c.act = "Cancelling" /\ k.cmd \in c.awaits)
  BY <1>3, GoesSelf DEF Absorb
<1>4. CASE c.act = "Cancelling" /\ k.cmd \in c.awaits
  <2>1. s = Put(r, e, d)
    BY <1>4 DEF Absorb
  <2>2. /\ d.awaits = c.awaits \ {k.cmd} /\ d.slots = c.slots /\ d.turn = c.turn
        /\ d.act = IF c.awaits = {k.cmd} THEN "Idle" ELSE "Cancelling"
    BY <1>1, <1>4 DEF Components
  <2> HIDE DEF c, d, K, R
  <2>3. DOMAIN c.slots = {}
    BY <1>1, <1>4 DEF EntSound, Shape
  <2>4. Shape(d)
    BY <2>2, <2>3 DEF Shape
  <2>5. HeldFor(R, e, d)
    BY <1>1, <2>2, <2>3 DEF EntSound, HeldFor
  <2>6. ASSUME NEW l \in K, l.ent = e
        PROVE  WaitsFor(d, l)
    <3>1. WaitsFor(c, l)
      BY <1>1, <2>6 DEF EntSound
    <3>2. l.cmd # k.cmd /\ l.cmd \in c.awaits /\ (l.type = "SendPeer" => PeersCancelled)
      BY <1>2, <1>4, <3>1 DEF WaitsFor
    <3> QED BY <2>2, <3>2 DEF WaitsFor
  <2>7. EntSound(e, d, K, R)
    BY <2>4, <2>5, <2>6 DEF EntSound
  <2>8. \A L : EntServed(e, c, L) => EntServed(e, d, L)
    <3>1. \A n \in d.awaits : Heeds(d) => n \in c.awaits /\ Heeds(c)
      BY <1>4, <2>2 DEF Heeds
    <3> QED BY <2>3, <2>2, <3>1 DEF EntServed
  <2>9. Flows(r, Put(r, e, d), O)
    BY <2>7, <2>8, PutFlows DEF c, K, R
  <2>10. Goes(r, s, O)
    BY <2>1, <2>9, AbsorbGood DEF Goes
  <2>11. Takes(r, s, O, k)
    <3>1. d = s.w.ents[k.ent]
      BY <2>1, PutFields
    <3>2. k.cmd \notin d.awaits /\ DOMAIN d.slots = {}
      BY <2>2, <2>3
    <3> QED BY <2>10, <3>1, <3>2, TakenBy DEF Goes
  <2> QED BY <1>4, <2>10, <2>11 DEF c
<1> QED BY <1>3, <1>4

\* A turn that waits for nothing any more may close.
LEMMA CloseTurnGoes ==
    ASSUME NEW r, GoodRun(r), NEW O, RunSound(r, O), NEW e \in DOMAIN r.w.ents,
           Free(e, O \cup r.out, r.w.raised), NEW said \in Seq(Msgs)
    PROVE  /\ Goes(r, CloseTurn(r, e, said), O)
           /\ CloseTurn(r, e, said).w.ents[e].awaits = {}
           /\ DOMAIN CloseTurn(r, e, said).w.ents[e].slots = {}
<1> DEFINE c == r.w.ents[e]
           d == [ToIdle(c) EXCEPT !.hist = @ \o said]
           K == O \cup r.out
           R == r.w.raised
           X == {}
<1>1. c \in Components /\ Free(e, K, R)
  BY EntGood
<1>2. d.act = "Idle" /\ d.awaits = {} /\ d.slots = <<>>
  BY <1>1 DEF ToIdle, Components
<1>3. CloseTurn(r, e, said) = Put(r, e, d)
  BY DEF CloseTurn
<1> HIDE DEF d, K, R, X
<1>4. /\ EntSound(e, d, K \cup X, R)
      /\ \A L : EntServed(e, d, L \cup X)
  BY <1>1, <1>2, StartsOver DEF X
<1>5. K \cup X = K /\ \A L : L \cup X = L
  BY DEF X
<1>6. EntSound(e, d, K, R) /\ \A L : EntServed(e, d, L)
  BY <1>4, <1>5
<1>7. Flows(r, Put(r, e, d), O)
  BY <1>6, PutFlows DEF K, R
<1>8. Goes(r, Put(r, e, d), O)
  BY <1>3, <1>7, CloseTurnGood DEF Goes
<1>9. Put(r, e, d).w.ents[e] = d
  BY PutFields
<1> QED BY <1>2, <1>3, <1>8, <1>9

\* No slot of e is dispatched or held.
Unsent(w, e) == \A i \in DOMAIN w.ents[e].slots : w.ents[e].slots[i].st \in {"fresh", "done"}

\* New slots wait for nobody: they are fresh, and each spawn names a child of its own.
LEMMA NewSlotsShape ==
    ASSUME NEW plan \in Seq(SlotKinds), NEW ent \in Nat, NEW c, c.slots = NewSlots(plan, ent),
           c.act = "Resolving", c.awaits = {},
           \A i \in DOMAIN plan : plan[i] = "Peer" => PeersPlanned
    PROVE  /\ Shape(c)
           /\ \A i \in DOMAIN c.slots : c.slots[i].st = "fresh"
<1> DEFINE spawns == {i \in DOMAIN plan : plan[i] = "Child"}
           X == NewSlots(plan, ent)
           child(i) == IF i \in spawns THEN ent + Rank(i, spawns) ELSE None
<1>1. spawns \in SUBSET (1 .. Len(plan)) /\ Len(plan) \in Nat /\ DOMAIN plan = 1 .. Len(plan)
  OBVIOUS
<1>2. /\ \A i \in spawns : Rank(i, spawns) \in Nat
      /\ \A i, j \in spawns : Rank(i, spawns) = Rank(j, spawns) => i = j
  <2> HIDE DEF spawns
  <2> QED BY <1>1, RankType, RankApart
<1>3. DOMAIN X = DOMAIN plan /\ \A i \in DOMAIN plan :
         X[i].kind = plan[i] /\ X[i].st = "fresh" /\ X[i].child = child(i)
  BY DEF NewSlots
<1>4. \A i \in DOMAIN plan : i \in spawns <=> plan[i] = "Child" OBVIOUS
<1> HIDE DEF X, spawns
<1>5. \A i, j \in DOMAIN plan : plan[i] = "Child" /\ child(j) = child(i) => i = j
  <2> SUFFICES ASSUME NEW i \in DOMAIN plan, NEW j \in DOMAIN plan,
                      plan[i] = "Child", child(j) = child(i)
               PROVE  i = j
    OBVIOUS
  <2>1. i \in spawns /\ child(i) = ent + Rank(i, spawns) /\ Rank(i, spawns) \in Nat
    BY <1>2, <1>4
  <2>2. j \in spawns
    BY <2>1 DEF None
  <2>3. Rank(j, spawns) = Rank(i, spawns)
    BY <1>2, <2>1, <2>2
  <2> QED BY <1>2, <2>1, <2>2, <2>3
<1>6. \A i \in DOMAIN plan : plan[i] # "Child" => child(i) = None
  BY <1>4
<1> HIDE DEF child
<1>7. c.slots = X
  BY DEF X
<1> QED BY <1>3, <1>5, <1>6, <1>7 DEF Shape

\* A turn that waits for nothing any more may open its slots (begin_resolving_tool_uses).
LEMMA BeginResolvingGoes ==
    ASSUME NEW r, GoodRun(r), NEW O, RunSound(r, O), NEW e \in DOMAIN r.w.ents,
           Free(e, O \cup r.out, r.w.raised), NEW turn \in Nat, NEW plan \in Seq(SlotKinds),
           \A i \in DOMAIN plan : plan[i] = "Peer" => PeersPlanned,
           NEW s, s = BeginResolving(r, e, turn, plan)
    PROVE  /\ Goes(r, s, O)
           /\ s.w.ents[e].awaits = {} /\ Unsent(s.w, e)
<1> DEFINE n == Cardinality({i \in DOMAIN plan : plan[i] = "Child"})
           m == MintEnts(r, n)
           c == ToIdle(r.w.ents[e])
           Y == NewSlots(plan, r.w.nextEnt)
           h == Append(c.hist, Msg("uses", turn))
           d == [c EXCEPT !.hist = h, !.act = "Resolving", !.turn = turn, !.slots = Y]
           K == O \cup r.out
           R == r.w.raised
           X == {}
<1>1. r.w.ents[e] \in Components /\ r.w.nextEnt \in Nat
  BY EntGood, RunFields
<1>2. n \in Nat /\ DOMAIN Y = DOMAIN plan
  BY <1>1, NewSlotsType DEF NewSlots
<1>3. /\ GoodRun(m) /\ m.w.ents = r.w.ents /\ m.w.nextCmd = r.w.nextCmd
      /\ m.w.raised = r.w.raised /\ m.out = r.out
  <2>1. GoodRun(m) /\ m.w.ents = r.w.ents /\ m.w.nextCmd = r.w.nextCmd
    BY <1>2, MintEntsGood
  <2>2. m.w.raised = r.w.raised /\ m.out = r.out
    <3>1. m.out = r.out /\ m.w = [r.w EXCEPT !.nextEnt = @ + n]
      BY DEF GoodRun, MintEnts
    <3> QED BY <3>1 DEF GoodRun, WorldType
  <2> QED BY <2>1, <2>2
<1>4. s = Put(m, e, d)
  BY <1>3 DEF BeginResolving
<1>5. d.act = "Resolving" /\ d.awaits = {} /\ d.slots = Y
  BY <1>1 DEF ToIdle, Components
<1> HIDE DEF n, m, d, Y, K, R, X
<1>6. Changed(r, s, e, d, X)
  <2>1. Changed(m, s, e, d, {})
    BY <1>3, <1>4, PutChanged
  <2> QED BY <1>3, <2>1 DEF Changed, X
<1>7. Shape(d) /\ \A i \in DOMAIN d.slots : d.slots[i].st = "fresh"
  BY <1>1, <1>5, NewSlotsShape DEF Y
<1>8. Free(e, K, R)
  BY DEF K, R
<1>9. EntSound(e, d, K \cup X, R)
  <2>1. HeldFor(R, e, d)
    BY <1>7, <1>8 DEF HeldFor, Free
  <2>2. \A k \in K \cup X : k.ent = e => WaitsFor(d, k)
    BY <1>8 DEF Free, X
  <2> QED BY <1>7, <2>1, <2>2 DEF EntSound
<1>10. \A L : EntServed(e, d, L \cup X)
  BY <1>5, <1>7 DEF EntServed
<1>11. Flows(r, s, O)
  BY <1>6, <1>9, <1>10, ChangedFlows DEF K, R
<1>12. s.w.ents[e] = d
  BY <1>6 DEF Changed
<1> QED BY <1>5, <1>7, <1>11, <1>12, BeginResolvingGood DEF Goes, Unsent

\* The input in answers the command k, which nobody answers again.
Answers(r, O, in, k) ==
    /\ k.ent = in.ent /\ k.cmd = in.cmd /\ k.cmd \in Minted(r.w) /\ Planned(in)
    /\ \A l \in O \cup r.out : l.cmd # k.cmd

\* What a call came to is taken by the turn that awaits it (systems/turn.rs).
LEMMA TurnSystemGoes ==
    ASSUME NEW r, GoodRun(r), NEW O, RunSound(r, O), NEW in, GoodIn(r.w, in),
           in.type \in {"ModelResponded", "ModelFailed", "InferenceCancelled"},
           NEW k, Answers(r, O, in, k), NEW s, s = TurnSystem(r, in)
    PROVE  /\ Goes(r, s, O)
           /\ r.w.ents[k.ent].act # "Thinking" => s = r
           /\ r.w.ents[k.ent].act = "Thinking" /\ k.cmd \in r.w.ents[k.ent].awaits =>
                 Takes(r, s, O, k)
           /\ Unsent(r.w, k.ent) => Unsent(s.w, k.ent)
<1> DEFINE e == k.ent
           c == r.w.ents[e]
<1>1. /\ e \in DOMAIN r.w.ents /\ e = in.ent /\ k.cmd = in.cmd
      /\ \A l \in O \cup r.out : l.cmd # k.cmd
  BY DEF GoodIn, EntInputs, Answers
<1>2. CASE ~ (c.act = "Thinking" /\ k.cmd \in c.awaits)
  <2>1. s = r
    BY <1>1, <1>2 DEF TurnSystem
  <2> QED BY <1>2, <2>1, GoesSelf
<1>3. CASE c.act = "Thinking" /\ k.cmd \in c.awaits
  <2> DEFINE w == r.w
             K == O \cup r.out
             R == r.w.raised
             n == k.cmd
  <2>1. Free(e, K, R)
    <3>1. /\ Sound(w, K, R) /\ e \in DOMAIN w.ents /\ w.ents[e].act \in {"Thinking", "Compacting"}
          /\ n \in w.ents[e].awaits /\ \A l \in K : l.cmd # n
      BY <1>1, <1>3 DEF RunSound
    <3> HIDE DEF e, w, K, R, n
    <3> QED BY <3>1, AnsweredIsFree
  <2>0. e \in DOMAIN r.w.ents /\ Free(e, O \cup r.out, r.w.raised)
    BY <1>1, <2>1
  <2> HIDE DEF K, R
  <2> SUFFICES Goes(r, s, O) /\ s.w.ents[e].awaits = {} /\ Unsent(s.w, e)
    <3>1. ASSUME Goes(r, s, O), s.w.ents[e].awaits = {}, Unsent(s.w, e)
          PROVE  Takes(r, s, O, k)
      <4> DEFINE d == s.w.ents[k.ent]
      <4>1. /\ Flows(r, s, O) /\ d = s.w.ents[k.ent] /\ k.cmd \notin d.awaits
            /\ \A i \in DOMAIN d.slots : d.slots[i].st # "sent"
        BY <3>1 DEF Goes, Unsent
      <4> HIDE DEF d
      <4> QED BY <4>1, TakenBy
    <3> QED BY <1>3, <3>1
  <2>2. CASE in.type # "ModelResponded"
    <3>1. s = CloseTurn(r, e, <<>>) /\ <<>> \in Seq(Msgs)
      BY <1>1, <1>3, <2>2 DEF TurnSystem
    <3> DEFINE u == CloseTurn(r, e, <<>>)
    <3>2. Goes(r, u, O) /\ u.w.ents[e].awaits = {} /\ DOMAIN u.w.ents[e].slots = {}
      BY <2>0, <3>1, CloseTurnGoes
    <3> HIDE DEF u
    <3>3. s = u
      BY <3>1 DEF u
    <3> QED BY <3>2, <3>3 DEF Unsent
  <2>3. CASE in.type = "ModelResponded" /\ in.stop = "ToolUse"
    <3>1. s = BeginResolving(r, e, in.cmd, in.plan)
      BY <1>1, <1>3, <2>3 DEF TurnSystem
    <3>2. in.cmd \in Nat /\ in.plan \in Seq(SlotKinds)
      BY <2>3 DEF GoodIn
    <3>3. \A i \in DOMAIN in.plan : in.plan[i] = "Peer" => PeersPlanned
      BY <2>3 DEF Answers, Planned
    <3> DEFINE u == BeginResolving(r, e, in.cmd, in.plan)
               turn == in.cmd
               plan == in.plan
    <3>4. /\ turn \in Nat /\ plan \in Seq(SlotKinds) /\ u = BeginResolving(r, e, turn, plan)
          /\ \A i \in DOMAIN plan : plan[i] = "Peer" => PeersPlanned
      BY <3>2, <3>3
    <3>5. s = u
      BY <3>1
    <3> HIDE DEF u, e, turn, plan
    <3>6. Goes(r, u, O) /\ u.w.ents[e].awaits = {} /\ Unsent(u.w, e)
      BY <2>0, <3>4, BeginResolvingGoes
    <3> QED BY <3>5, <3>6
  <2>4. CASE in.type = "ModelResponded" /\ in.stop # "ToolUse"
    <3>1. s = CloseTurn(r, e, Said(in))
      BY <1>1, <1>3, <2>4 DEF TurnSystem
    <3>2. Said(in) \in Seq(Msgs)
      <4>1. in.cmd \in Nat
        BY <2>4 DEF GoodIn
      <4>2. Msg("answer", in.cmd) \in Msgs /\ Msg("uses", in.cmd) \in Msgs
        BY <4>1 DEF Msg, Msgs, Roles
      <4> QED BY <4>2 DEF Said
    <3> DEFINE u == CloseTurn(r, e, Said(in))
    <3>3. Goes(r, u, O) /\ u.w.ents[e].awaits = {} /\ DOMAIN u.w.ents[e].slots = {}
      BY <2>0, <3>2, CloseTurnGoes
    <3> HIDE DEF u
    <3>4. s = u
      BY <3>1 DEF u
    <3> QED BY <3>3, <3>4 DEF Unsent
  <2> QED BY <2>2, <2>3, <2>4
<1> QED BY <1>2, <1>3

\* A change of what nobody waits for, in every entity.
LEMMA EveryAlikeFlows ==
    ASSUME NEW r, NEW O, RunSound(r, O), NEW s, DOMAIN s.w.ents = DOMAIN r.w.ents,
           s.w.nextCmd = r.w.nextCmd, s.w.raised = r.w.raised, s.out = r.out,
           \A e \in DOMAIN r.w.ents :
              /\ s.w.ents[e].act = r.w.ents[e].act /\ s.w.ents[e].awaits = r.w.ents[e].awaits
              /\ s.w.ents[e].slots = r.w.ents[e].slots /\ s.w.ents[e].turn = r.w.ents[e].turn
    PROVE  Flows(r, s, O)
<1> DEFINE w == r.w
           v == s.w
           K == O \cup r.out
           R == r.w.raised
<1>1. /\ DOMAIN v.ents = DOMAIN w.ents /\ v.nextCmd = w.nextCmd /\ v.raised = R /\ s.out = r.out
      /\ \A e \in DOMAIN w.ents :
            /\ v.ents[e].act = w.ents[e].act /\ v.ents[e].awaits = w.ents[e].awaits
            /\ v.ents[e].slots = w.ents[e].slots /\ v.ents[e].turn = w.ents[e].turn
      /\ Sound(w, K, R) /\ K = O \cup s.out
  BY DEF RunSound
<1> HIDE DEF w, v, K, R
<1>2. ASSUME NEW e \in DOMAIN w.ents
      PROVE  EntSound(e, v.ents[e], K, R)
  <2> DEFINE c == w.ents[e]
             d == v.ents[e]
  <2>1. /\ EntSound(e, c, K, R)
        /\ d.act = c.act /\ d.awaits = c.awaits /\ d.slots = c.slots /\ d.turn = c.turn
    BY <1>1 DEF Sound
  <2> HIDE DEF c, d
  <2>2. Shape(d) /\ HeldFor(R, e, d)
    BY <2>1 DEF EntSound, Shape, HeldFor
  <2>3. \A k \in K : k.ent = e => WaitsFor(d, k)
    BY <2>1 DEF EntSound, WaitsFor
  <2>4. EntSound(e, d, K, R)
    BY <2>2, <2>3 DEF EntSound
  <2> QED BY <2>4 DEF d
<1>3. Sound(v, K, v.raised)
  BY <1>1, <1>2 DEF Sound
<1>4. \A L : Served(w, L) => Served(v, L)
  BY <1>1 DEF Served, EntServed, Heeds
<1>5. RunSound(s, O)
  BY <1>1, <1>3 DEF RunSound, K, v
<1>6. \A L : L \cup s.out = L \cup r.out
  BY <1>1
<1> QED BY <1>4, <1>5, <1>6 DEF Flows, w, v

\* A response folds its usage; past the spend limit its fresh slots fail (systems/budget.rs).
LEMMA BudgetGoes ==
    ASSUME NEW r, GoodRun(r), NEW O, RunSound(r, O), NEW in, GoodIn(r.w, in),
           in.type = "ModelResponded", Unsent(r.w, in.ent), NEW s, s = BudgetSystem(r, in)
    PROVE  Goes(r, s, O) /\ Unsent(s.w, in.ent)
<1> DEFINE e == in.ent
           c == r.w.ents[e]
           spend == SaturatingAdd(c.spend, in.usage, LimitOf(e, SpendLimit))
           context == SaturatingAdd(0, in.usage, LimitOf(e, ContextLimit))
           folded == [c EXCEPT !.spend = spend, !.context = context]
           halted == [folded EXCEPT !.halt = "budget-exhausted"]
           I == Pending(r.w, e)
           d == SettleSlots(halted, I, TRUE)
           K == O \cup r.out
           R == r.w.raised
<1>1. e \in DOMAIN r.w.ents /\ in.usage \in Nat
  BY DEF GoodIn, EntInputs
<1>2. c \in Components /\ c.spend \in Nat /\ EntSound(e, c, K, R)
  BY <1>1, EntGood DEF Components, RunSound, Sound
<1>3. s \in {Put(r, e, d), Put(r, e, folded)}
  BY DEF BudgetSystem
<1>4. spend \in Nat /\ context \in Nat
  BY <1>1, <1>2, LimitType DEF SaturatingAdd
<1>5. \A i \in DOMAIN c.slots : c.slots[i].st \in {"fresh", "done"}
  BY DEF Unsent
<1>6. Leads(r, s)
  BY BudgetGood
<1> HIDE DEF spend, context
<1>7. /\ folded \in Components /\ folded.act = c.act /\ folded.slots = c.slots
      /\ folded.awaits = c.awaits /\ folded.turn = c.turn
  BY <1>2, <1>4 DEF Components
<1>8. /\ halted \in Components /\ halted.act = c.act /\ halted.slots = c.slots
      /\ halted.awaits = c.awaits /\ halted.turn = c.turn
  BY <1>2, <1>4 DEF Components, Trips
<1> HIDE DEF folded, halted, I
<1>9. CASE s = Put(r, e, folded)
  <2>1. Flows(r, s, O)
    BY <1>1, <1>7, <1>9, AlikeFlows
  <2>2. s.w.ents[e] = folded
    BY <1>1, <1>9, PutFields
  <2> QED BY <1>5, <1>6, <1>7, <2>1, <2>2 DEF Goes, Unsent
<1>10. CASE s = Put(r, e, d)
  <2>0. s.w.ents[e] = d
    <3> HIDE DEF d, e
    <3> QED BY <1>1, <1>10, PutFields
  <2> HIDE DEF c, K, R
  <2>1. EntSound(e, halted, K, R) /\ \A L : EntServed(e, c, L) => EntServed(e, halted, L)
    <3>1. Shape(halted) /\ HeldFor(R, e, halted)
      BY <1>2, <1>8 DEF EntSound, Shape, HeldFor
    <3>2. \A k \in K : k.ent = e => WaitsFor(halted, k)
      BY <1>2, <1>8 DEF EntSound, WaitsFor
    <3>3. \A L : EntServed(e, c, L) => EntServed(e, halted, L)
      BY <1>8 DEF EntServed, Heeds
    <3> QED BY <3>1, <3>2, <3>3 DEF EntSound
  <2>2. \A i \in DOMAIN halted.slots : i \in I =>
           /\ halted.slots[i].st # "held"
           /\ halted.slots[i].st = "sent" => \A k \in K : k.cmd # halted.slots[i].cmd
    BY <1>5, <1>8
  <2>3. /\ EntSound(e, d, K, R)
        /\ \A L : EntServed(e, halted, L) => EntServed(e, d, L)
    BY <1>8, <2>1, <2>2, SettleEnt
  <2>4. \A i \in DOMAIN d.slots : d.slots[i].st \in {"fresh", "done"}
    <3> DEFINE done(x) == [x EXCEPT !.st = "done", !.cmd = None, !.err = TRUE]
    <3>1. d.slots = [i \in DOMAIN halted.slots |->
                       IF i \in I THEN done(halted.slots[i]) ELSE halted.slots[i]]
      BY <1>8 DEF SettleSlots, Components
    <3>2. \A x \in ToolSlots : done(x).st = "done"
      BY DEF ToolSlots
    <3>3. \A i \in DOMAIN halted.slots : halted.slots[i] \in ToolSlots
      BY <1>8, EntFields
    <3>4. DOMAIN d.slots = DOMAIN halted.slots /\ \A i \in DOMAIN halted.slots :
             d.slots[i] = IF i \in I THEN done(halted.slots[i]) ELSE halted.slots[i]
      BY <3>1
    <3> HIDE DEF d, done
    <3> QED BY <1>5, <1>8, <3>2, <3>3, <3>4
  <2> HIDE DEF d
  <2>5. EntSound(e, d, K, R) /\ \A L : EntServed(e, c, L) => EntServed(e, d, L)
    BY <2>1, <2>3
  <2>6. Flows(r, s, O)
    BY <1>1, <1>10, <2>5, PutFlows DEF c, K, R
  <2>7. Unsent(s.w, e)
    BY <2>0, <2>4 DEF Unsent
  <2> QED BY <1>6, <2>6, <2>7 DEF Goes
<1> QED BY <1>3, <1>9, <1>10

\* Thinking, an entity waits for the command just minted and has no slots.
LEMMA ThinkEnt ==
    ASSUME NEW r, GoodRun(r), NEW e \in DOMAIN r.w.ents, NEW c \in Components,
           NEW s, s = Think(r, e, c)
    PROVE  s.w.ents[e].awaits = {r.w.nextCmd} /\ Unsent(s.w, e)
<1> DEFINE k == r.w.nextCmd
           d == ToWaiting(c, "Thinking", k)
           m == Mint(r, 1)
           p == Put(m, e, d)
           X == {Command("CallModel", k, e, 0)}
<1>1. d.awaits = {k} /\ d.slots = <<>>
  BY DEF ToWaiting, ToIdle, Components
<1>2. s = Emit(p, X)
  BY DEF Think
<1>3. GoodRun(m) /\ m.w.ents = r.w.ents
  BY MintGood
<1> HIDE DEF m, d, X
<1>4. p.w.ents[e] = d
  BY <1>3, PutFields
<1>5. s.w = p.w
  <2>1. p \in [w : {p.w}, out : {p.out}]
    BY <1>3 DEF Put, GoodRun
  <2> HIDE DEF p
  <2> QED BY <1>2, <2>1 DEF Emit
<1>6. s.w.ents[e] = d
  BY <1>4, <1>5
<1> QED BY <1>1, <1>6 DEF Unsent

\* A compaction starts from rest, on a command of its own.
LEMMA StartCompactionGoes ==
    ASSUME NEW r, GoodRun(r), NEW O, RunSound(r, O), NEW e \in DOMAIN r.w.ents, Unsent(r.w, e),
           NEW s, s = StartCompaction(r, e)
    PROVE  Goes(r, s, O) /\ Unsent(s.w, e)
<1> DEFINE k == r.w.nextCmd
           c == r.w.ents[e]
           d == ToWaiting(c, "Compacting", k)
           n == SplitPoint(c.hist)
           x == Command("Compact", k, e, n)
           X == {x}
           t == Emit(Put(Mint(r, 1), e, d), X)
           K == O \cup r.out
           R == r.w.raised
           w == r.w
<1>1. k \in Nat /\ e \in Nat /\ c \in Components /\ Sound(w, K, R)
  BY RunFields, EntGood DEF RunSound
<1>2. s = r \/ (s = t /\ c.act = "Idle")
  BY DEF StartCompaction
<1>3. CASE s = r
  BY <1>3, GoesSelf
<1>4. CASE s = t /\ c.act = "Idle"
  <2>1. d.act = "Compacting" /\ d.awaits = {k} /\ d.slots = <<>>
    BY <1>1 DEF ToWaiting, ToIdle, Components
  <2>2. n \in Nat
    <3> DEFINE l == Len(c.hist)
    <3>1. l \in Nat
      BY <1>1, EntFields
    <3>2. n = IF l \div 2 > 1 THEN l \div 2 ELSE IF l > 0 THEN 1 ELSE 0
      BY DEF SplitPoint
    <3> HIDE DEF l, n
    <3>3. l \div 2 \in Int
      BY <3>1
    <3> QED BY <3>1, <3>2, <3>3
  <2>3. Free(e, K, R)
    <3>1. w.ents[e].act = "Idle" /\ e \in DOMAIN w.ents
      BY <1>4
    <3> HIDE DEF w, K, R, c
    <3> QED BY <1>1, <3>1, RestIsFree
  <2>4. x \in Commands /\ x.type = "Compact" /\ x.ent = e /\ x.cmd = k /\ ~ x.stop
    <3> HIDE DEF n, k
    <3> QED BY <1>1, <2>2 DEF Command, Commands, WorkTypes
  <2> HIDE DEF x, d, n
  <2>5. /\ \A y \in X : /\ y \in Commands /\ y.type \in WorkTypes /\ y.ent = e
                        /\ k <= y.cmd /\ y.cmd < k + 1
        /\ \A y, z \in X : y.cmd = z.cmd => y = z
    BY <1>1, <2>4 DEF WorkTypes
  <2>6. \A y \in X : WaitsFor(d, y)
    BY <2>1, <2>4 DEF WaitsFor
  <2>7. \A m \in d.awaits : \E y \in X : y.ent = e /\ y.cmd = m
    BY <2>1, <2>4
  <2> HIDE DEF X, t, K, R, k
  <2>8. Changed(r, t, e, d, X)
    BY <2>5, SentChanged DEF t, k
  <2>9. EntSound(e, d, K \cup X, R) /\ \A L : EntServed(e, d, L \cup X)
    BY <2>1, <2>3, <2>6, <2>7, StartsOver
  <2>10. Flows(r, t, O)
    BY <2>8, <2>9, ChangedFlows DEF K, R
  <2>11. t.w.ents[e] = d
    BY <2>8 DEF Changed
  <2>12. Leads(r, s)
    BY StartCompactionGood
  <2>13. Unsent(t.w, e)
    BY <2>1, <2>11 DEF Unsent
  <2> QED BY <1>4, <2>10, <2>12, <2>13 DEF Goes
<1> QED BY <1>2, <1>3, <1>4

\* The continuation of a compaction waits for its call alone.
LEMMA ContinueGoes ==
    ASSUME NEW r, GoodRun(r), NEW O, RunSound(r, O), NEW e \in DOMAIN r.w.ents,
           Free(e, O \cup r.out, r.w.raised), NEW hist \in Seq(Msgs),
           NEW s, s = Continue(r, e, hist)
    PROVE  Goes(r, s, O) /\ s.w.ents[e].awaits = {r.w.nextCmd} /\ Unsent(s.w, e)
<1> DEFINE c == r.w.ents[e]
           h == hist \o UserMsgs(c.inbox)
           d == [c EXCEPT !.hist = h, !.inbox = <<>>]
<1>1. c \in Components
  BY EntGood
<1>2. h \in Seq(Msgs) /\ <<>> \in Seq(Nat)
  <2>1. UserMsgs(c.inbox) \in Seq(Msgs)
    BY <1>1, EntFields, UserMsgsType
  <2> QED BY <2>1
<1>3. s = Think(r, e, d)
  BY DEF Continue
<1>4. Leads(r, s)
  BY ContinueGood
<1> HIDE DEF c, h
<1>5. d \in Components
  BY <1>1, <1>2 DEF Components
<1> HIDE DEF d
<1>6. Flows(r, s, O)
  BY <1>3, <1>5, ThinkFlows
<1>7. s.w.ents[e].awaits = {r.w.nextCmd} /\ Unsent(s.w, e)
  BY <1>3, <1>5, ThinkEnt
<1> QED BY <1>4, <1>6, <1>7 DEF Goes

\* The answer to a compaction continues it (systems/compaction.rs).
LEMMA CompactionSystemGoes ==
    ASSUME NEW r, GoodRun(r), NEW O, RunSound(r, O), NEW in, GoodIn(r.w, in),
           in.type \in {"Compacted", "ModelFailed"},
           NEW k, Answers(r, O, in, k), NEW s, s = CompactionSystem(r, in)
    PROVE  /\ Goes(r, s, O)
           /\ r.w.ents[k.ent].act # "Compacting" => s = r
           /\ r.w.ents[k.ent].act = "Compacting" /\ k.cmd \in r.w.ents[k.ent].awaits =>
                 Takes(r, s, O, k)
<1> DEFINE e == k.ent
           c == r.w.ents[e]
<1>1. /\ e \in DOMAIN r.w.ents /\ e = in.ent /\ k.cmd = in.cmd /\ k.cmd \in Minted(r.w)
      /\ \A l \in O \cup r.out : l.cmd # k.cmd
  BY DEF GoodIn, EntInputs, Answers
<1>2. CASE ~ (c.act = "Compacting" /\ k.cmd \in c.awaits)
  <2>1. s = r
    BY <1>1, <1>2 DEF CompactionSystem
  <2> QED BY <1>2, <2>1, GoesSelf
<1>3. CASE c.act = "Compacting" /\ k.cmd \in c.awaits
  <2> DEFINE w == r.w
             K == O \cup r.out
             R == r.w.raised
             n == k.cmd
  <2>1. Free(e, K, R)
    <3>1. /\ Sound(w, K, R) /\ e \in DOMAIN w.ents /\ w.ents[e].act \in {"Thinking", "Compacting"}
          /\ n \in w.ents[e].awaits /\ \A l \in K : l.cmd # n
      BY <1>1, <1>3 DEF RunSound
    <3> HIDE DEF e, w, K, R, n
    <3> QED BY <3>1, AnsweredIsFree
  <2>2. PICK hist \in Seq(Msgs) : s = Continue(r, e, hist)
    <3>1. c.hist \in Seq(Msgs)
      BY <1>1, EntGood, EntFields
    <3>2. CASE in.type = "Compacted"
      <4>1. s = Continue(r, e, Summarised(c.hist, in))
        BY <1>1, <1>3, <3>2 DEF CompactionSystem
      <4>2. Summarised(c.hist, in) \in Seq(Msgs)
        <5>1. in.n \in Nat /\ in.cmd \in Nat
          BY <3>2 DEF GoodIn
        <5> HIDE DEF c
        <5> QED BY <3>1, <5>1, SummarisedType
      <4> QED BY <4>1, <4>2
    <3>3. CASE in.type = "ModelFailed"
      <4>1. s = Continue(r, e, c.hist)
        BY <1>1, <1>3, <3>3 DEF CompactionSystem
      <4> QED BY <3>1, <4>1
    <3> QED BY <3>2, <3>3
  <2>3. Goes(r, s, O) /\ s.w.ents[e].awaits = {r.w.nextCmd} /\ Unsent(s.w, e)
    <3> DEFINE u == Continue(r, e, hist)
    <3>1. Goes(r, u, O) /\ u.w.ents[e].awaits = {r.w.nextCmd} /\ Unsent(u.w, e)
      BY <1>1, <2>1, ContinueGoes
    <3> HIDE DEF u
    <3>2. s = u
      BY <2>2 DEF u
    <3> QED BY <3>1, <3>2
  <2>4. Takes(r, s, O, k)
    <3> DEFINE d == s.w.ents[k.ent]
    <3>1. k.cmd # r.w.nextCmd
      BY <1>1, RunFields DEF Minted
    <3>2. /\ Flows(r, s, O) /\ d = s.w.ents[k.ent] /\ k.cmd \notin d.awaits
          /\ \A i \in DOMAIN d.slots : d.slots[i].st # "sent"
      BY <2>3, <3>1 DEF Goes, Unsent
    <3> HIDE DEF d
    <3> QED BY <3>2, TakenBy
  <2> QED BY <1>3, <2>3, <2>4
<1> QED BY <1>2, <1>3

\* The gates concern nobody's wait: holding the world gate changes nothing else.
LEMMA HoldsGoes ==
    ASSUME NEW r, GoodRun(r), NEW O, RunSound(r, O), NEW H \in SUBSET {"User", "model-refusal"},
           NEW s, s = [r EXCEPT !.w.holds = H]
    PROVE  /\ Goes(r, s, O) /\ s.w.ents = r.w.ents /\ s.w.nextCmd = r.w.nextCmd
           /\ s.w.raised = r.w.raised /\ s.out = r.out
<1>1. s.out = r.out /\ s.w = [r.w EXCEPT !.holds = H]
  BY DEF GoodRun
<1>2. s.w.ents = r.w.ents /\ s.w.nextCmd = r.w.nextCmd /\ s.w.raised = r.w.raised
  BY <1>1 DEF GoodRun, WorldType
<1>3. Flows(r, s, O)
  BY <1>1, <1>2, EveryAlikeFlows
<1>4. Leads(r, s)
  BY HoldsGood
<1> QED BY <1>1, <1>2, <1>3, <1>4 DEF Goes

\* Nor does clearing the halt of every entity (systems/gate.rs).
LEMMA GateGoes ==
    ASSUME NEW r, GoodRun(r), NEW O, RunSound(r, O), NEW in, GoodIn(r.w, in),
           NEW s, s = GateSystem(r, in)
    PROVE  Goes(r, s, O)
<1>1. r.w.holds \in SUBSET {"User", "model-refusal"}
  BY DEF GoodRun, WorldType
<1>2. CASE in.type = "Pause"
  <2> DEFINE H == r.w.holds \cup {"User"}
  <2>1. s = [r EXCEPT !.w.holds = H] /\ H \in SUBSET {"User", "model-refusal"}
    BY <1>1, <1>2 DEF GateSystem
  <2> HIDE DEF H
  <2> QED BY <2>1, HoldsGoes
<1>3. CASE in.type = "Resume"
  <2> DEFINE H == r.w.holds \ {"User"}
  <2>1. s = [r EXCEPT !.w.holds = H] /\ H \in SUBSET {"User", "model-refusal"}
    BY <1>1, <1>3 DEF GateSystem
  <2> HIDE DEF H
  <2> QED BY <2>1, HoldsGoes
<1>4. CASE in.type = "ClearPolicyHalt" /\ in.auth
  <2> DEFINE H == r.w.holds \ {in.trip}
             E == [e \in DOMAIN r.w.ents |-> IF r.w.ents[e].halt = in.trip
                                             THEN [r.w.ents[e] EXCEPT !.halt = "none"]
                                             ELSE r.w.ents[e]]
  <2>1. s = [[r EXCEPT !.w.holds = H] EXCEPT !.w.ents = E]
    BY <1>4, RunFields DEF GateSystem
  <2>2. DOMAIN E = DOMAIN r.w.ents OBVIOUS
  <2>3. ASSUME NEW e \in DOMAIN r.w.ents
        PROVE  /\ E[e].act = r.w.ents[e].act /\ E[e].awaits = r.w.ents[e].awaits
               /\ E[e].slots = r.w.ents[e].slots /\ E[e].turn = r.w.ents[e].turn
    <3>1. r.w.ents[e] \in Components
      BY EntGood
    <3>2. E[e] \in {[r.w.ents[e] EXCEPT !.halt = "none"], r.w.ents[e]} OBVIOUS
    <3> HIDE DEF E
    <3>3. ASSUME NEW c \in Components
          PROVE  LET d == [c EXCEPT !.halt = "none"]
                 IN  d.act = c.act /\ d.awaits = c.awaits /\ d.slots = c.slots /\ d.turn = c.turn
      BY DEF Components
    <3> QED BY <3>1, <3>2, <3>3
  <2> HIDE DEF E, H
  <2>4. s.out = r.out /\ s.w = [[r.w EXCEPT !.holds = H] EXCEPT !.ents = E]
    BY <2>1 DEF GoodRun
  <2>5. s.w.ents = E /\ s.w.nextCmd = r.w.nextCmd /\ s.w.raised = r.w.raised
    BY <2>4 DEF GoodRun, WorldType
  <2>6. Flows(r, s, O)
    BY <2>2, <2>3, <2>4, <2>5, EveryAlikeFlows
  <2> QED BY <2>6, GateGood DEF Goes
<1>5. CASE ~ (in.type = "Pause" \/ in.type = "Resume" \/ (in.type = "ClearPolicyHalt" /\ in.auth))
  <2>1. s = r
    BY <1>5 DEF GateSystem
  <2> QED BY <2>1, GoesSelf
<1> QED BY <1>2, <1>3, <1>4, <1>5

\* Nor does a refusal, which holds the world gate (systems/guardrail.rs).
LEMMA GuardrailGoes ==
    ASSUME NEW r, GoodRun(r), NEW O, RunSound(r, O), NEW in, NEW s, s = GuardrailSystem(r, in)
    PROVE  /\ Goes(r, s, O) /\ s.w.ents = r.w.ents /\ s.w.nextCmd = r.w.nextCmd
           /\ s.out = r.out
<1> DEFINE H == r.w.holds \cup {"model-refusal"}
<1>1. H \in SUBSET {"User", "model-refusal"}
  BY DEF GoodRun, WorldType
<1>2. s = r \/ s = [r EXCEPT !.w.holds = H]
  BY DEF GuardrailSystem
<1> HIDE DEF H
<1>3. CASE s = r
  BY <1>3, GoesSelf
<1>4. CASE s = [r EXCEPT !.w.holds = H]
  <2> DEFINE u == [r EXCEPT !.w.holds = H]
  <2>1. /\ Goes(r, u, O) /\ u.w.ents = r.w.ents /\ u.w.nextCmd = r.w.nextCmd
        /\ u.out = r.out
    BY <1>1, HoldsGoes
  <2> HIDE DEF u
  <2>2. s = u
    BY <1>4 DEF u
  <2> QED BY <2>1, <2>2
<1> QED BY <1>2, <1>3, <1>4

\* Setting the approval policy concerns what is asked next (systems/autonomy.rs).
LEMMA AskGoes ==
    ASSUME NEW r, GoodRun(r), NEW O, RunSound(r, O), NEW in, GoodIn(r.w, in),
           in.type = "SetAutonomy", NEW s, s = AutonomySystem(r, in)
    PROVE  Goes(r, s, O)
<1> DEFINE ask == in.ask
<1>1. s = [r EXCEPT !.w.ask = ask]
  BY DEF AutonomySystem
<1> HIDE DEF ask
<1>2. s.out = r.out /\ s.w = [r.w EXCEPT !.ask = ask]
  BY <1>1 DEF GoodRun
<1>3. s.w.ents = r.w.ents /\ s.w.nextCmd = r.w.nextCmd /\ s.w.raised = r.w.raised
  BY <1>2 DEF GoodRun, WorldType
<1>4. Flows(r, s, O)
  BY <1>2, <1>3, EveryAlikeFlows
<1> QED BY <1>4, AutonomySystemGood DEF Goes

\* A message parked concerns nobody's wait (systems/steering.rs).
LEMMA SteeringGoes ==
    ASSUME NEW r, GoodRun(r), NEW O, RunSound(r, O), NEW in, GoodIn(r.w, in),
           NEW s, s = SteeringSystem(r, in)
    PROVE  Goes(r, s, O)
<1> DEFINE e == in.to
           c == r.w.ents[e]
           x == BoundedEnqueue(c.inbox, in.msg, LimitOf(e, InboxCapacity))
           d == [c EXCEPT !.inbox = x]
<1>1. CASE in.type = "UserMessage" /\ c.act # "Idle"
  <2>1. e \in DOMAIN r.w.ents
    BY <1>1 DEF GoodIn
  <2>2. c \in Components
    BY <2>1, EntGood
  <2>3. s = Put(r, e, d)
    BY <1>1 DEF SteeringSystem
  <2> HIDE DEF x
  <2>4. d.act = c.act /\ d.awaits = c.awaits /\ d.slots = c.slots /\ d.turn = c.turn
    BY <2>2 DEF Components
  <2> HIDE DEF d, e
  <2>5. Flows(r, s, O)
    BY <2>1, <2>3, <2>4, AlikeFlows
  <2> QED BY <2>5, SteeringGood DEF Goes
<1>2. CASE ~ (in.type = "UserMessage" /\ c.act # "Idle")
  BY <1>2, GoesSelf DEF SteeringSystem
<1> QED BY <1>1, <1>2

\* A turn starts from rest (systems/intake.rs).
LEMMA IntakeGoes ==
    ASSUME NEW r, GoodRun(r), NEW O, RunSound(r, O), NEW in, GoodIn(r.w, in),
           NEW s, s = IntakeSystem(r, in)
    PROVE  Goes(r, s, O)
<1> DEFINE e == in.to
           c == r.w.ents[e]
           cap == LimitOf(e, LoopCap)
           wrapUp == IF Reached(c.turns + 1, cap) THEN <<Msg("note", 0)>> ELSE <<>>
           h == c.hist \o UserMsgs(c.inbox) \o <<Msg("user", in.msg)>> \o wrapUp
           d == [c EXCEPT !.hist = h, !.inbox = <<>>, !.turns = @ + 1]
           K == O \cup r.out
           R == r.w.raised
           w == r.w
<1>1. s = r \/ (in.type = "UserMessage" /\ c.act = "Idle" /\ s = Think(r, e, d))
  BY DEF IntakeSystem
<1>2. CASE s = r
  BY <1>2, GoesSelf
<1>3. CASE in.type = "UserMessage" /\ c.act = "Idle" /\ s = Think(r, e, d)
  <2>1. e \in DOMAIN r.w.ents /\ in.msg \in Nat
    BY <1>3 DEF GoodIn
  <2>2. c \in Components /\ Sound(w, K, R)
    BY <2>1, EntGood DEF RunSound
  <2>3. Free(e, K, R)
    <3>1. w.ents[e].act = "Idle" /\ e \in DOMAIN w.ents
      BY <1>3, <2>1
    <3> HIDE DEF w, K, R, e
    <3> QED BY <2>2, <3>1, RestIsFree
  <2>4. h \in Seq(Msgs)
    <3>1. c.hist \in Seq(Msgs) /\ UserMsgs(c.inbox) \in Seq(Msgs)
      BY <2>2, EntFields, UserMsgsType
    <3>2. Msg("user", in.msg) \in Msgs /\ Msg("note", 0) \in Msgs
      BY <2>1 DEF Msg, Msgs, Roles
    <3>3. <<Msg("user", in.msg)>> \in Seq(Msgs) /\ wrapUp \in Seq(Msgs)
      BY <3>2
    <3> HIDE DEF c, wrapUp
    <3> QED BY <3>1, <3>3
  <2> HIDE DEF c, h
  <2>5. <<>> \in Seq(Nat) /\ c.turns + 1 \in Nat
    BY <2>2 DEF Components
  <2>6. d \in Components
    BY <2>2, <2>4, <2>5 DEF Components
  <2> HIDE DEF d, e
  <2>7. Flows(r, s, O)
    <3> DEFINE u == Think(r, e, d)
    <3>1. Flows(r, u, O)
      BY <2>1, <2>3, <2>6, ThinkFlows
    <3> QED BY <1>3, <3>1
  <2> QED BY <2>7, IntakeGood DEF Goes
<1> QED BY <1>1, <1>2, <1>3

\* A drive parks its prompt, once (systems/peer_drive.rs).
LEMMA DriveGoes ==
    ASSUME NEW r, GoodRun(r), NEW O, RunSound(r, O), NEW in, GoodIn(r.w, in),
           in.type \in {"DriveRequested", "PeerDelivered"}, NEW s, s = PeerDriveSystem(r, in)
    PROVE  Goes(r, s, O)
<1> DEFINE c == r.w.ents[Root]
           d == [c EXCEPT !.inbox = Append(@, in.prompt)]
           envelope == in.envelope
           applied(t) == [t EXCEPT !.w.applied = @ \cup {envelope}]
<1>1. ASSUME NEW t, GoodRun(t), RunSound(t, O)
      PROVE  Flows(t, applied(t), O)
  <2> DEFINE u == applied(t)
  <2>1. u.out = t.out /\ u.w = [t.w EXCEPT !.applied = @ \cup {envelope}]
    BY <1>1 DEF GoodRun
  <2>2. u.w.ents = t.w.ents /\ u.w.nextCmd = t.w.nextCmd /\ u.w.raised = t.w.raised
    BY <1>1, <2>1 DEF GoodRun, WorldType
  <2> HIDE DEF u
  <2>3. Flows(t, u, O)
    BY <1>1, <2>1, <2>2, EveryAlikeFlows
  <2> QED BY <2>3 DEF u
<1>2. Leads(r, s)
  BY PeerDriveSystemGood
<1>3. CASE in.type = "PeerDelivered"
  <2>1. s = applied(r)
    BY <1>3 DEF PeerDriveSystem
  <2> QED BY <1>1, <1>2, <2>1 DEF Goes
<1>4. CASE in.type = "DriveRequested"
  <2>1. s = r \/ s = applied(Put(r, Root, d))
    BY <1>4 DEF PeerDriveSystem, ApplyDrive
  <2>2. CASE s = r
    BY <2>2, GoesSelf
  <2>3. CASE s = applied(Put(r, Root, d))
    <3> DEFINE p == Put(r, Root, d)
    <3>1. Root \in DOMAIN r.w.ents
      BY DEF GoodRun, WorldType
    <3>2. c \in Components /\ GoodEnt(r.w, c) /\ in.prompt \in Nat
      BY <1>4, <3>1, EntGood DEF GoodIn
    <3>3. Append(c.inbox, in.prompt) \in Seq(Nat)
      BY <3>2, EntFields, AppendProperties
    <3>4. /\ d.act = c.act /\ d.awaits = c.awaits /\ d.slots = c.slots /\ d.turn = c.turn
          /\ d \in Components /\ d.parent = c.parent
      BY <3>2, <3>3 DEF Components
    <3> HIDE DEF d
    <3>5. Flows(r, p, O)
      BY <3>1, <3>4, AlikeFlows
    <3>6. GoodRun(p)
      <4>1. GoodEnt(r.w, d)
        <5> HIDE DEF c
        <5> QED BY <3>2, <3>4, SameIdsGood
      <4> QED BY <3>1, <4>1, PutGood
    <3> HIDE DEF p, applied
    <3>7. Flows(p, applied(p), O)
      BY <1>1, <3>5, <3>6 DEF Flows
    <3>8. Flows(r, applied(p), O)
      BY <3>5, <3>7, FlowsOn
    <3> QED BY <1>2, <2>3, <3>8 DEF Goes, p
  <2> QED BY <2>1, <2>2, <2>3
<1> QED BY <1>3, <1>4

-----------------------------------------------------------------------------
\* Requests raised and taken back.

\* What marking slots leaves of the components.
LEMMA MarkFields ==
    ASSUME NEW c \in Components, NEW I, NEW st \in SlotStates, NEW d, d = MarkSlots(c, I, st)
    PROVE  /\ d.act = c.act /\ d.awaits = c.awaits /\ d.turn = c.turn
           /\ DOMAIN d.slots = DOMAIN c.slots
           /\ \A i \in DOMAIN c.slots : i \notin I => d.slots[i] = c.slots[i]
           /\ \A i \in DOMAIN c.slots : i \in I =>
                 /\ d.slots[i].st = st /\ d.slots[i].kind = c.slots[i].kind
                 /\ d.slots[i].child = c.slots[i].child
<1>1. /\ d.act = c.act /\ d.awaits = c.awaits /\ d.turn = c.turn
      /\ d.slots = [i \in DOMAIN c.slots |->
                      IF i \in I THEN [c.slots[i] EXCEPT !.st = st] ELSE c.slots[i]]
  BY DEF MarkSlots, Components
<1>2. \A i \in DOMAIN c.slots : c.slots[i] \in ToolSlots
  BY EntFields
<1> DEFINE marked(x) == [x EXCEPT !.st = st]
<1>3. \A x \in ToolSlots :
         marked(x).st = st /\ marked(x).kind = x.kind /\ marked(x).child = x.child
  BY DEF ToolSlots
<1>4. \A i \in DOMAIN c.slots : d.slots[i] = IF i \in I THEN marked(c.slots[i]) ELSE c.slots[i]
  BY <1>1
<1>5. DOMAIN d.slots = DOMAIN c.slots
  BY <1>1
<1> HIDE DEF marked
<1> QED BY <1>1, <1>2, <1>3, <1>4, <1>5

\* A change of one entity and of the requests raised for it.
LEMMA RaisedFlows ==
    ASSUME NEW r, NEW s, NEW O, GoodRun(r), RunSound(r, O), NEW e \in DOMAIN r.w.ents,
           DOMAIN s.w.ents = DOMAIN r.w.ents,
           \A f \in DOMAIN r.w.ents \ {e} : s.w.ents[f] = r.w.ents[f],
           s.w.nextCmd = r.w.nextCmd, s.out = r.out,
           \A q \in s.w.raised : q.ent # e => q \in r.w.raised,
           \A q \in r.w.raised : q.ent # e => q \in s.w.raised,
           EntSound(e, s.w.ents[e], O \cup r.out, s.w.raised),
           \A L : EntServed(e, r.w.ents[e], L) => EntServed(e, s.w.ents[e], L)
    PROVE  Flows(r, s, O)
<1> DEFINE K == O \cup r.out
           R == r.w.raised
           Q == s.w.raised
           N == {}
           w == r.w
           v == s.w
<1>1. /\ Sound(w, K, R) /\ e \in DOMAIN w.ents /\ DOMAIN v.ents = DOMAIN w.ents
      /\ \A f \in DOMAIN w.ents \ {e} : v.ents[f] = w.ents[f]
      /\ w.nextCmd \in Nat /\ v.nextCmd \in Nat /\ w.nextCmd <= v.nextCmd
      /\ \A q \in Q : q.ent # e => q \in R
      /\ \A q \in R : q.ent # e => q \in Q
      /\ EntSound(e, v.ents[e], K, Q)
      /\ \A L : EntServed(e, w.ents[e], L) => EntServed(e, v.ents[e], L)
  <2>1. Sound(w, K, R)
    BY DEF RunSound
  <2>2. w.nextCmd \in Nat /\ v.nextCmd \in Nat /\ w.nextCmd <= v.nextCmd
    <3>1. r.w.nextCmd \in Nat
      BY RunFields
    <3> QED BY <3>1
  <2> QED BY <2>1, <2>2
<1>2. /\ \A k \in N : /\ k \in Commands /\ k.ent = e
                      /\ w.nextCmd <= k.cmd /\ k.cmd < v.nextCmd
      /\ \A k, l \in N : k.cmd = l.cmd => k = l
      /\ \A L : L \cup N = L
  OBVIOUS
<1>3. /\ K = O \cup s.out /\ \A x \in s.out : x.type \in WorkTypes
      /\ \A L : L \cup s.out = L \cup r.out
  BY DEF RunSound
<1> HIDE DEF N, w, v, K, R, Q
<1>4. EntSound(e, v.ents[e], K \cup N, Q)
  BY <1>1, <1>2
<1>5. Sound(v, K \cup N, Q)
  BY <1>1, <1>2, <1>4, ChangeSound
<1>6. RunSound(s, O)
  BY <1>2, <1>3, <1>5 DEF RunSound, v, Q
<1>7. ASSUME NEW L, Served(w, L)
      PROVE  Served(v, L)
  <2>1. EntServed(e, v.ents[e], L \cup N)
    BY <1>1, <1>2, <1>7 DEF Served
  <2>2. Served(v, L \cup N)
    BY <1>1, <1>7, <2>1, ChangeServed
  <2> QED BY <1>2, <2>2
<1> QED BY <1>3, <1>6, <1>7 DEF Flows, w, v

\* The Local slots of a response are held by a request each (gate_new_slots).
LEMMA GateNewSlotsGoes ==
    ASSUME NEW r, GoodRun(r), NEW O, RunSound(r, O), NEW e \in DOMAIN r.w.ents, Unsent(r.w, e),
           NEW s, s = GateNewSlots(r, e)
    PROVE  Goes(r, s, O)
<1> DEFINE c == r.w.ents[e]
           I == FreshSlots(r.w, e, "Local")
           n == Cardinality(I)
           request(i) == [req |-> r.w.nextReq + Rank(i, I), ent |-> e,
                          turn |-> r.w.ents[e].turn, slot |-> i]
           N == {request(i) : i \in I}
           m == [[r EXCEPT !.w.nextReq = @ + n] EXCEPT !.w.raised = @ \cup N]
           d == MarkSlots(c, I, "held")
           t == Put(m, e, d)
           K == O \cup r.out
           R == r.w.raised
<1>1. c \in Components /\ EntSound(e, c, K, R)
  BY EntGood DEF RunSound, Sound
<1>2. s \in {r, t}
  <2>1. s \in {r, Put([r EXCEPT !.w.nextReq = @ + n, !.w.raised = @ \cup N], e, d)}
    BY DEF GateNewSlots
  <2>2. [r EXCEPT !.w.nextReq = @ + n, !.w.raised = @ \cup N] = m OBVIOUS
  <2> QED BY <2>1, <2>2
<1>3. Leads(r, s)
  BY GateNewSlotsGood
<1>4. CASE s = r
  BY <1>4, GoesSelf
<1>5. CASE s = t
  <2>1. \A q \in N : q.ent = e /\ q.turn = c.turn /\ q.slot \in I /\ q = request(q.slot)
    OBVIOUS
  <2>2. \A i \in I : \E q \in N : q.ent = e /\ q.slot = i
    <3> SUFFICES ASSUME NEW i \in I
                 PROVE  \E q \in N : q.ent = e /\ q.slot = i
      OBVIOUS
    <3>1. request(i) \in N /\ request(i).ent = e /\ request(i).slot = i OBVIOUS
    <3> QED BY <3>1
  <2>3. \A i \in DOMAIN c.slots : i \in I => c.slots[i].kind = "Local" /\ c.slots[i].st = "fresh"
    BY DEF FreshSlots
  <2>3a. I \subseteq DOMAIN c.slots
    BY DEF FreshSlots
  <2>4. \A i \in DOMAIN c.slots : c.slots[i].st \in {"fresh", "done"}
    BY DEF Unsent
  <2> HIDE DEF n, N, I, request
  <2>5. /\ m.w.ents = r.w.ents /\ m.w.nextCmd = r.w.nextCmd /\ m.w.raised = R \cup N
        /\ m.out = r.out
    <3>1. m.out = r.out /\ m.w = [[r.w EXCEPT !.nextReq = @ + n] EXCEPT !.raised = @ \cup N]
      BY DEF GoodRun
    <3> QED BY <3>1 DEF GoodRun, WorldType
  <2>6. /\ DOMAIN t.w.ents = DOMAIN r.w.ents /\ t.w.ents[e] = d
        /\ \A f \in DOMAIN r.w.ents \ {e} : t.w.ents[f] = r.w.ents[f]
        /\ t.w.raised = R \cup N /\ t.out = r.out /\ t.w.nextCmd = r.w.nextCmd
    <3>0. r.w.ents \in [DOMAIN r.w.ents -> Components]
      BY DEF GoodRun, WorldType
    <3>1. /\ m = [w |-> m.w, out |-> m.out]
          /\ m.w.ents \in [DOMAIN r.w.ents -> Components]
      <4>1. m \in [w : {m.w}, out : {r.out}]
        BY DEF GoodRun
      <4> HIDE DEF m
      <4> QED BY <2>5, <3>0, <4>1
    <3>2. t.out = m.out /\ t.w = [m.w EXCEPT !.ents[e] = d]
      BY <3>1 DEF Put
    <3>3. /\ m.w = [ents |-> m.w.ents, holds |-> m.w.holds, ask |-> m.w.ask,
                    raised |-> m.w.raised, applied |-> m.w.applied, nextCmd |-> m.w.nextCmd,
                    nextReq |-> m.w.nextReq, nextEnt |-> m.w.nextEnt]
      <4>1. m.w = [[r.w EXCEPT !.nextReq = @ + n] EXCEPT !.raised = @ \cup N]
        BY DEF GoodRun
      <4> QED BY <4>1 DEF GoodRun, WorldType
    <3> HIDE DEF m, d, t, R
    <3>4. /\ t.w.ents = [m.w.ents EXCEPT ![e] = d] /\ t.w.raised = m.w.raised
          /\ t.w.nextCmd = m.w.nextCmd
      BY <3>2, <3>3
    <3> QED BY <2>5, <3>1, <3>2, <3>4
  <2>7. /\ d.act = c.act /\ d.awaits = c.awaits /\ d.turn = c.turn
        /\ DOMAIN d.slots = DOMAIN c.slots
        /\ \A i \in DOMAIN c.slots : i \notin I => d.slots[i] = c.slots[i]
        /\ \A i \in DOMAIN c.slots : i \in I =>
              /\ d.slots[i].st = "held" /\ d.slots[i].kind = c.slots[i].kind
              /\ d.slots[i].child = c.slots[i].child
    <3> HIDE DEF c, d
    <3> QED BY <1>1, MarkFields DEF SlotStates, d
  <2> HIDE DEF c, d, m, K, R, t
  <2>8. Shape(d)
    <3>1. Shape(c)
      BY <1>1 DEF EntSound
    <3>2. DOMAIN d.slots = DOMAIN c.slots
      BY <2>7
    <3>3. \A i \in DOMAIN c.slots : d.slots[i].kind = c.slots[i].kind
                                    /\ d.slots[i].child = c.slots[i].child
      BY <2>7
    <3>4. \A i \in DOMAIN c.slots :
             /\ d.slots[i].st = "held" => d.slots[i].kind = "Local"
             /\ d.slots[i].kind = "Child" => d.slots[i].st \in {"fresh", "done"}
      BY <2>3, <2>4, <2>7
    <3> QED BY <2>7, <3>1, <3>2, <3>3, <3>4 DEF Shape
  <2>9. HeldFor(R \cup N, e, d)
    <3>1. \A q \in R : q.ent # e
      BY <1>1, <2>4 DEF EntSound, HeldFor
    <3>2. \A i \in DOMAIN c.slots : d.slots[i].st = "held" => i \in I
      BY <2>4, <2>7
    <3>3. \A q \in R \cup N : q.ent = e => q \in N
      BY <3>1
    <3>4. \A p, q \in N : p.slot = q.slot => p = q
      BY <2>1
    <3>5. \A q \in N : q.turn = d.turn /\ q.slot \in DOMAIN d.slots /\ d.slots[q.slot].st = "held"
      BY <2>1, <2>3a, <2>7
    <3>6. \A i \in DOMAIN d.slots : d.slots[i].st = "held" => \E q \in R \cup N : q.ent = e /\ q.slot = i
      BY <2>2, <2>7, <3>2
    <3> QED BY <3>3, <3>4, <3>5, <3>6 DEF HeldFor
  <2>10. \A i \in DOMAIN d.slots : d.slots[i].st # "sent"
    BY <2>4, <2>7
  <2>11. \A k \in K : k.ent = e => WaitsFor(d, k)
    <3>1. \A k \in K : k.ent = e => WaitsFor(c, k)
      BY <1>1 DEF EntSound
    <3>2. \A i \in DOMAIN c.slots : c.slots[i].st # "sent"
      BY <2>4
    <3> QED BY <2>7, <3>1, <3>2 DEF WaitsFor
  <2>12. EntSound(e, d, K, R \cup N)
    BY <2>8, <2>9, <2>11 DEF EntSound
  <2>13. \A L : EntServed(e, c, L) => EntServed(e, d, L)
    BY <2>7, <2>10 DEF EntServed, Heeds
  <2>14. /\ \A q \in t.w.raised : q.ent # e => q \in r.w.raised
         /\ \A q \in r.w.raised : q.ent # e => q \in t.w.raised
    BY <2>1, <2>6 DEF R
  <2>15. EntSound(e, t.w.ents[e], O \cup r.out, t.w.raised)
    BY <2>6, <2>12 DEF K
  <2>16. \A L : EntServed(e, r.w.ents[e], L) => EntServed(e, t.w.ents[e], L)
    BY <2>6, <2>13 DEF c
  <2>17. Flows(r, t, O)
    BY <2>6, <2>14, <2>15, <2>16, RaisedFlows
  <2> QED BY <1>3, <1>5, <2>17 DEF Goes
<1> QED BY <1>2, <1>4, <1>5

\* The answer to a request gives its slot back and runs or fails it, and the request is taken
\* back in the same tick (systems/autonomy.rs, systems/interaction.rs).
LEMMA InteractionGoes ==
    ASSUME NEW r, GoodRun(r), NEW O, RunSound(r, O), NEW in, in.type = "InteractionAnswer",
           NEW u, u = AutonomySystem(r, in), NEW s, s = InteractionSystem(u, in)
    PROVE  Goes(r, s, O)
<1> DEFINE q == Request(r, in)
           e == q.ent
           c == r.w.ents[e]
           I == Asked(r.w, q, {"held"})
           d == MarkSlots(c, I, "fresh")
           p == Put(r, e, d)
           v == [p EXCEPT !.w.raised = @ \ {q}]
           K == O \cup r.out
           R == r.w.raised
           F == Asked(p.w, q, {"fresh"})
           G == Asked(p.w, q, {"fresh", "held", "sent"})
<1>1. CASE ~ IsRaised(r, in)
  <2>1. u = r
    BY <1>1 DEF AutonomySystem
  <2>2. s = r
    BY <1>1, <2>1 DEF InteractionSystem
  <2> QED BY <2>2, GoesSelf
<1>2. CASE IsRaised(r, in)
  <2>1. q \in R /\ e \in DOMAIN r.w.ents
    BY <1>2, RequestGood
  <2>2. u = p
    BY <1>2 DEF AutonomySystem, RestoreHeldSlot
  <2>3. c \in Components /\ EntSound(e, c, K, R)
    BY <2>1, EntGood DEF RunSound, Sound
  <2>4. /\ q.turn = c.turn /\ q.slot \in DOMAIN c.slots
        /\ c.slots[q.slot].st = "held" /\ c.slots[q.slot].kind = "Local"
    <3> HIDE DEF c, K, R, e, q
    <3>1. q \in R /\ q.ent = e
      BY <2>1 DEF e
    <3> QED BY <2>3, <3>1 DEF EntSound, HeldFor, Shape
  <2>5. I = {q.slot}
    BY <2>4 DEF Asked
  <2>6. Leads(r, p) /\ GoodRun(p)
    <3>1. Leads(r, Put(r, e, MarkSlots(r.w.ents[e], I, "fresh")))
      <4> HIDE DEF I, e
      <4> QED BY <2>1, MarkLeads
    <3> QED BY <3>1 DEF Leads
  <2>7. /\ DOMAIN p.w.ents = DOMAIN r.w.ents /\ p.w.ents[e] = d
        /\ \A f \in DOMAIN r.w.ents \ {e} : p.w.ents[f] = r.w.ents[f]
        /\ p.w.raised = R /\ p.out = r.out /\ p.w.nextCmd = r.w.nextCmd
    <3> HIDE DEF d, e
    <3> QED BY <2>1, PutFields
  <2>8. Request(p, in) = q /\ IsRaised(p, in)
    BY <1>2, <2>7 DEF Request, IsRaised
  <2> HIDE DEF p
  <2>9. Leads(p, v) /\ v.w.ents = p.w.ents /\ v.w.nextCmd = p.w.nextCmd
        /\ v.w.raised = R \ {q} /\ v.out = p.out
    <3> DEFINE Q == p.w.raised \ {q}
    <3>1. Q \in SUBSET p.w.raised /\ v = [p EXCEPT !.w.raised = Q] OBVIOUS
    <3>2. v.out = p.out /\ v.w = [p.w EXCEPT !.raised = Q]
      BY <2>6, <3>1 DEF GoodRun
    <3>3. v.w.raised = Q
      BY <2>6, <3>2 DEF GoodRun, WorldType
    <3> HIDE DEF Q, v
    <3>4. Leads(p, v) /\ v.w.ents = p.w.ents /\ v.w.nextCmd = p.w.nextCmd
      BY <2>6, <3>1, RaisedGood
    <3> QED BY <2>7, <3>2, <3>3, <3>4 DEF Q
  <2>10. GoodRun(v) /\ Leads(r, v)
    BY <2>6, <2>9, LeadsOn DEF Leads
  <2>11. s \in {Advance(Dispatch(v, e, F, "RunTool"), e), Advance(Settle(v, e, G, TRUE), e)}
    BY <2>2, <2>8 DEF InteractionSystem, ApplyAnswer
  <2>12. /\ d.act = c.act /\ d.awaits = c.awaits /\ d.turn = c.turn
         /\ DOMAIN d.slots = DOMAIN c.slots
         /\ \A i \in DOMAIN c.slots : i # q.slot => d.slots[i] = c.slots[i]
         /\ d.slots[q.slot].st = "fresh" /\ d.slots[q.slot].kind = "Local"
         /\ d.slots[q.slot].child = c.slots[q.slot].child
    <3>1. /\ d.act = c.act /\ d.awaits = c.awaits /\ d.turn = c.turn
          /\ DOMAIN d.slots = DOMAIN c.slots
          /\ \A i \in DOMAIN c.slots : i \notin I => d.slots[i] = c.slots[i]
          /\ \A i \in DOMAIN c.slots : i \in I =>
                /\ d.slots[i].st = "fresh" /\ d.slots[i].kind = c.slots[i].kind
                /\ d.slots[i].child = c.slots[i].child
      <4> HIDE DEF c, I, d
      <4> QED BY <2>3, MarkFields DEF SlotStates, d
    <3> HIDE DEF c, I, d, q
    <3> QED BY <2>4, <2>5, <3>1
  <2> HIDE DEF c, d, I, K, R, v, q
  <2>13. Shape(d)
    <3>1. Shape(c)
      BY <2>3 DEF EntSound
    <3>2. \A i \in DOMAIN c.slots : d.slots[i].kind = c.slots[i].kind
                                    /\ d.slots[i].child = c.slots[i].child
      BY <2>4, <2>12
    <3>3. \A i \in DOMAIN c.slots :
             /\ d.slots[i].st = "held" => c.slots[i].st = "held"
             /\ c.slots[i].kind = "Child" => d.slots[i].st = c.slots[i].st
      BY <2>4, <2>12
    <3> QED BY <2>12, <3>1, <3>2, <3>3 DEF Shape
  <2>14. HeldFor(R \ {q}, e, d)
    <3>1. HeldFor(R, e, c)
      BY <2>3 DEF EntSound
    <3>2. \A x \in R \ {q} : x.ent = e => x.slot # q.slot
      BY <2>1, <3>1 DEF HeldFor
    <3>3. \A i \in DOMAIN c.slots : d.slots[i].st = "held" => i # q.slot /\ c.slots[i].st = "held"
      BY <2>12
    <3>4. \A x \in R \ {q} : x.ent = e => /\ x.turn = d.turn /\ x.slot \in DOMAIN d.slots
                                         /\ d.slots[x.slot].st = "held"
      BY <2>12, <3>1, <3>2 DEF HeldFor
    <3>5. \A i \in DOMAIN d.slots :
             d.slots[i].st = "held" => \E x \in R \ {q} : x.ent = e /\ x.slot = i
      BY <2>12, <3>1, <3>3 DEF HeldFor
    <3> QED BY <3>1, <3>4, <3>5 DEF HeldFor
  <2>15. \A k \in K : k.ent = e => WaitsFor(d, k)
    <3>1. \A k \in K : k.ent = e => WaitsFor(c, k)
      BY <2>3 DEF EntSound
    <3>2. \A i \in DOMAIN c.slots : c.slots[i].st = "sent" => d.slots[i] = c.slots[i]
      BY <2>4, <2>12
    <3> QED BY <2>12, <3>1, <3>2 DEF WaitsFor
  <2>16. EntSound(e, d, K, R \ {q})
    BY <2>13, <2>14, <2>15 DEF EntSound
  <2>17. \A L : EntServed(e, c, L) => EntServed(e, d, L)
    <3>1. \A i \in DOMAIN c.slots : d.slots[i].st = "sent" => d.slots[i] = c.slots[i]
      BY <2>12
    <3> QED BY <2>12, <3>1 DEF EntServed, Heeds
  <2>18. Goes(r, v, O)
    <3>1. /\ \A x \in v.w.raised : x.ent # e => x \in r.w.raised
          /\ \A x \in r.w.raised : x.ent # e => x \in v.w.raised
      BY <2>9 DEF R
    <3>2. EntSound(e, v.w.ents[e], O \cup r.out, v.w.raised)
      BY <2>7, <2>9, <2>16 DEF K
    <3>3. \A L : EntServed(e, r.w.ents[e], L) => EntServed(e, v.w.ents[e], L)
      BY <2>7, <2>9, <2>17 DEF c
    <3>4. /\ DOMAIN v.w.ents = DOMAIN r.w.ents /\ v.w.nextCmd = r.w.nextCmd /\ v.out = r.out
          /\ \A f \in DOMAIN r.w.ents \ {e} : v.w.ents[f] = r.w.ents[f]
      BY <2>7, <2>9
    <3> HIDE DEF e
    <3>5. Flows(r, v, O)
      BY <2>1, <3>1, <3>2, <3>3, <3>4, RaisedFlows
    <3> QED BY <2>10, <3>5 DEF Goes
  <2>19. /\ GoodRun(v) /\ RunSound(v, O) /\ e \in DOMAIN v.w.ents /\ v.w.ents[e] = d
    BY <2>1, <2>7, <2>9, <2>18, GoesSound
  <2>20. /\ F \in SUBSET DOMAIN v.w.ents[e].slots
         /\ \A i \in F : /\ v.w.ents[e].slots[i].st = "fresh"
                         /\ WorkOf(v.w.ents[e].slots[i].kind) = "RunTool"
    BY <2>9 DEF Asked, WorkOf
  <2>21. \A i \in DOMAIN v.w.ents[e].slots : i \in G => v.w.ents[e].slots[i].st \in {"fresh", "done"}
    BY <2>12, <2>19 DEF Asked
  <2> HIDE DEF F, G, e
  <2>22. Goes(v, Advance(Dispatch(v, e, F, "RunTool"), e), O)
    <3> DEFINE x == Dispatch(v, e, F, "RunTool")
    <3>1. Goes(v, x, O) /\ DOMAIN x.w.ents = DOMAIN v.w.ents
      BY <2>19, <2>20, DispatchGoes DEF WorkTypes
    <3> HIDE DEF x
    <3>2. Goes(x, Advance(x, e), O)
      BY <2>19, <3>1, GoesSound, AdvanceGoes
    <3>3. Goes(v, Advance(x, e), O)
      BY <3>1, <3>2, GoesOn
    <3> QED BY <3>3 DEF x
  <2>23. Goes(v, Advance(Settle(v, e, G, TRUE), e), O)
    BY <2>19, <2>21, DenyGoes
  <2>24. Goes(v, s, O)
    BY <2>11, <2>22, <2>23
  <2> QED BY <2>18, <2>24, GoesOn
<1> QED BY <1>1, <1>2

-----------------------------------------------------------------------------
\* Children.

\* What a spawn adds: an entity for each admitted slot, Thinking on a command of its own.
LEMMA SpawnFields ==
    ASSUME NEW r, GoodRun(r), NEW p \in DOMAIN r.w.ents, NEW A \in SUBSET NewChildren(r.w, p),
           NEW c, c = r.w.ents[p], NEW s, s = Spawn(r, p, A)
    PROVE  /\ DOMAIN r.w.ents \subseteq DOMAIN s.w.ents
           /\ \A f \in DOMAIN r.w.ents \ {p} : s.w.ents[f] = r.w.ents[f]
           /\ s.w.ents[p].act = c.act /\ s.w.ents[p].awaits = c.awaits
           /\ s.w.ents[p].slots = c.slots /\ s.w.ents[p].turn = c.turn
           /\ s.w.ents[p].halt = c.halt /\ s.w.ents[p].parent = c.parent
           /\ \A e \in DOMAIN s.w.ents \ DOMAIN r.w.ents : \E i \in A :
                 /\ c.slots[i].child = e /\ s.w.ents[e].act = "Thinking"
                 /\ s.w.ents[e].slots = <<>> /\ s.w.ents[e].halt = "none"
                 /\ s.w.ents[e].parent = p
                 /\ s.w.ents[e].awaits = {r.w.nextCmd + Rank(i, A)}
           /\ \A i \in A : c.slots[i].child \in DOMAIN s.w.ents \ DOMAIN r.w.ents
           /\ s.w.raised = r.w.raised /\ s.w.nextCmd = r.w.nextCmd + Cardinality(A)
           /\ s.w.holds = r.w.holds /\ s.w.ask = r.w.ask
           /\ \A x \in s.out : \/ x \in r.out
                               \/ \E i \in A : x = Command("CallModel", r.w.nextCmd + Rank(i, A),
                                                           c.slots[i].child, 0)
           /\ \A i \in A : Command("CallModel", r.w.nextCmd + Rank(i, A),
                                   c.slots[i].child, 0) \in s.out
           /\ r.out \subseteq s.out
<1> DEFINE D == DOMAIN r.w.ents
           n == Cardinality(A)
           cmd(i) == r.w.nextCmd + Rank(i, A)
           children == {c.slots[i].child : i \in A}
           slotOf(e) == CHOOSE i \in A : c.slots[i].child = e
           born(e) == ToWaiting(Newborn(p, c.depth + 1, <<Msg("user", 0)>>), "Thinking",
                                cmd(slotOf(e)))
           m == Mint(r, n)
           E == [e \in D \cup children |-> IF e \in children THEN born(e) ELSE r.w.ents[e]]
           grown == [m EXCEPT !.w.ents = E]
           d == [c EXCEPT !.spawned = @ + n]
           t == Put(grown, p, d)
           X == {Command("CallModel", cmd(i), c.slots[i].child, 0) : i \in A}
<1>1. c \in Components
  BY EntGood
<1>2. \A i \in A : i \in DOMAIN c.slots /\ c.slots[i].child \notin D
  BY DEF NewChildren, FreshSlots
<1>3. n \in Nat
  <2> DEFINE l == Len(c.slots)
  <2>1. A \in SUBSET (1 .. l) /\ l \in Nat
    BY <1>1, <1>2, EntFields
  <2> HIDE DEF l
  <2> QED BY <2>1, RankType
<1> HIDE DEF n
<1>4. /\ GoodRun(m) /\ m.w.ents = r.w.ents /\ m.w.nextCmd = r.w.nextCmd + n
      /\ m.w.raised = r.w.raised /\ m.out = r.out
      /\ m.w.holds = r.w.holds /\ m.w.ask = r.w.ask
  <2>1. m.w = [r.w EXCEPT !.nextCmd = @ + n]
    BY DEF GoodRun, Mint
  <2>2. m.w.holds = r.w.holds /\ m.w.ask = r.w.ask
    BY <2>1 DEF GoodRun, WorldType
  <2> QED BY <1>3, <2>2, MintGood
<1>5. s = Emit(t, X)
  BY <1>4 DEF Spawn, n
<1>6. \A e \in children : /\ slotOf(e) \in A /\ c.slots[slotOf(e)].child = e
                          /\ born(e).act = "Thinking" /\ born(e).slots = <<>>
                          /\ born(e).awaits = {cmd(slotOf(e))}
                          /\ born(e).halt = "none" /\ born(e).parent = p
  <2> SUFFICES ASSUME NEW e \in children
               PROVE  /\ slotOf(e) \in A /\ c.slots[slotOf(e)].child = e
                      /\ born(e).act = "Thinking" /\ born(e).slots = <<>>
                      /\ born(e).awaits = {cmd(slotOf(e))}
                      /\ born(e).halt = "none" /\ born(e).parent = p
    OBVIOUS
  <2>1. slotOf(e) \in A /\ c.slots[slotOf(e)].child = e OBVIOUS
  <2> HIDE DEF slotOf
  <2>2. /\ born(e).act = "Thinking" /\ born(e).slots = <<>>
        /\ born(e).awaits = {cmd(slotOf(e))}
        /\ born(e).halt = "none" /\ born(e).parent = p
    BY DEF ToWaiting, ToIdle, Newborn
  <2> QED BY <2>1, <2>2
<1>7. \A e \in children : e \notin D
  BY <1>2
<1>8. \A i \in A : c.slots[i].child \in children OBVIOUS
<1>9. /\ \A x \in X : \E i \in A : x = Command("CallModel", cmd(i), c.slots[i].child, 0)
      /\ \A i \in A : Command("CallModel", cmd(i), c.slots[i].child, 0) \in X
  OBVIOUS
<1>10. d.act = c.act /\ d.awaits = c.awaits /\ d.slots = c.slots /\ d.turn = c.turn
       /\ d.halt = c.halt /\ d.parent = c.parent
  BY <1>1 DEF Components
<1> HIDE DEF m, d, X, born, slotOf, children
<1>11. DOMAIN E = D \cup children /\ \A e \in DOMAIN E :
          E[e] = IF e \in children THEN born(e) ELSE r.w.ents[e]
  OBVIOUS
<1>12. E = [e \in DOMAIN E |-> E[e]] OBVIOUS
<1> HIDE DEF E
<1>13. /\ grown = [w |-> grown.w, out |-> grown.out] /\ grown.out = m.out
       /\ grown.w = [m.w EXCEPT !.ents = E]
  BY <1>4 DEF GoodRun
<1> HIDE DEF grown
<1>14. /\ grown.w = [ents |-> E, holds |-> m.w.holds, ask |-> m.w.ask,
                     raised |-> m.w.raised, applied |-> m.w.applied, nextCmd |-> m.w.nextCmd,
                     nextReq |-> m.w.nextReq, nextEnt |-> m.w.nextEnt]
  BY <1>4, <1>13 DEF GoodRun, WorldType
<1>15. t.out = grown.out /\ t.w = [grown.w EXCEPT !.ents[p] = d] /\ t = [w |-> t.w, out |-> t.out]
  BY <1>13 DEF Put
<1> HIDE DEF t
<1>16. /\ t.w.ents = [E EXCEPT ![p] = d] /\ t.w.raised = m.w.raised /\ t.w.nextCmd = m.w.nextCmd
       /\ t.w.holds = m.w.holds /\ t.w.ask = m.w.ask
  BY <1>14, <1>15
<1>17. s.w = t.w /\ s.out = t.out \cup X
  BY <1>5, <1>15 DEF Emit
<1>18. /\ DOMAIN s.w.ents = D \cup children /\ s.w.ents[p] = d
       /\ \A e \in (D \cup children) \ {p} : s.w.ents[e] = E[e]
  BY <1>11, <1>12, <1>16, <1>17
<1>19. /\ \A f \in D \ {p} : s.w.ents[f] = r.w.ents[f]
       /\ \A e \in children : s.w.ents[e] = born(e)
  BY <1>7, <1>11, <1>18
<1>20. \A e \in DOMAIN s.w.ents \ D : \E i \in A :
          /\ c.slots[i].child = e /\ s.w.ents[e].act = "Thinking"
          /\ s.w.ents[e].slots = <<>> /\ s.w.ents[e].awaits = {cmd(i)}
          /\ s.w.ents[e].halt = "none" /\ s.w.ents[e].parent = p
  BY <1>6, <1>18, <1>19
<1>21. \A i \in A : c.slots[i].child \in DOMAIN s.w.ents \ D
  BY <1>7, <1>8, <1>18
<1>22. /\ s.w.raised = r.w.raised /\ s.w.nextCmd = r.w.nextCmd + Cardinality(A)
       /\ s.w.holds = r.w.holds /\ s.w.ask = r.w.ask /\ s.out = r.out \cup X
  BY <1>4, <1>13, <1>15, <1>16, <1>17 DEF n
<1>23. /\ s.w.ents[p].act = c.act /\ s.w.ents[p].awaits = c.awaits
       /\ s.w.ents[p].slots = c.slots /\ s.w.ents[p].turn = c.turn
       /\ s.w.ents[p].halt = c.halt /\ s.w.ents[p].parent = c.parent
  BY <1>10, <1>18
<1> QED BY <1>9, <1>18, <1>19, <1>20, <1>21, <1>22, <1>23

\* The children spawned wait for their own calls, and nobody else waits for those.
LEMMA SpawnGoes ==
    ASSUME NEW r, GoodRun(r), NEW O, RunSound(r, O), NEW p \in DOMAIN r.w.ents,
           NEW A \in SUBSET NewChildren(r.w, p), NEW s, s = Spawn(r, p, A)
    PROVE  /\ Goes(r, s, O) /\ s.w.ents[p].slots = r.w.ents[p].slots
<1> DEFINE D == DOMAIN r.w.ents
           c == r.w.ents[p]
           E == s.w.ents
           K == O \cup r.out
           R == r.w.raised
           cmd(i) == r.w.nextCmd + Rank(i, A)
           call(i) == Command("CallModel", cmd(i), c.slots[i].child, 0)
<1>1. /\ D \subseteq DOMAIN E
      /\ \A f \in D \ {p} : E[f] = r.w.ents[f]
      /\ E[p].act = c.act /\ E[p].awaits = c.awaits
      /\ E[p].slots = c.slots /\ E[p].turn = c.turn
      /\ \A e \in DOMAIN E \ D : \E i \in A :
            /\ c.slots[i].child = e /\ E[e].act = "Thinking"
            /\ E[e].slots = <<>> /\ E[e].awaits = {cmd(i)}
      /\ \A i \in A : c.slots[i].child \in DOMAIN E \ D
      /\ s.w.raised = R /\ s.w.nextCmd = r.w.nextCmd + Cardinality(A)
      /\ \A x \in s.out : x \in r.out \/ \E i \in A : x = call(i)
      /\ \A i \in A : call(i) \in s.out
      /\ r.out \subseteq s.out
  BY SpawnFields
<1>2. c \in Components /\ r.w.nextCmd \in Nat /\ Sound(r.w, K, R)
  BY EntGood, RunFields DEF RunSound
<1>3. \A i \in A : i \in DOMAIN c.slots /\ c.slots[i].kind = "Child" /\ c.slots[i].child \notin D
  BY DEF NewChildren, FreshSlots
<1>4. /\ Cardinality(A) \in Nat /\ \A i \in A : Rank(i, A) \in Nat /\ Rank(i, A) < Cardinality(A)
      /\ \A i, j \in A : Rank(i, A) = Rank(j, A) => i = j
  <2> DEFINE l == Len(c.slots)
  <2>1. A \in SUBSET (1 .. l) /\ l \in Nat
    BY <1>2, <1>3, EntFields
  <2> HIDE DEF l
  <2> QED BY <2>1, RankType, RankApart
<1>5. \A i \in A : /\ call(i).type = "CallModel" /\ call(i).cmd = cmd(i)
                   /\ call(i).ent = c.slots[i].child /\ ~ call(i).stop
  BY DEF Command
<1>6. \A i \in A : cmd(i) \in Nat /\ r.w.nextCmd <= cmd(i) /\ cmd(i) < s.w.nextCmd
  <2> SUFFICES ASSUME NEW i \in A
               PROVE  cmd(i) \in Nat /\ r.w.nextCmd <= cmd(i) /\ cmd(i) < s.w.nextCmd
    OBVIOUS
  <2>1. Rank(i, A) \in Nat /\ Rank(i, A) < Cardinality(A) /\ Cardinality(A) \in Nat
    BY <1>4
  <2> QED BY <1>1, <1>2, <2>1
<1>7. \A i, j \in A : cmd(i) = cmd(j) => i = j
  <2> SUFFICES ASSUME NEW i \in A, NEW j \in A, cmd(i) = cmd(j)
               PROVE  i = j
    OBVIOUS
  <2>1. Rank(i, A) \in Nat /\ Rank(j, A) \in Nat
    BY <1>4
  <2>2. Rank(i, A) = Rank(j, A)
    BY <1>2, <2>1
  <2> QED BY <1>4, <2>2
<1>8. Leads(r, s)
  BY SpawnGood
<1>9. \A x \in O \cup s.out : x \in K \/ \E i \in A : x = call(i)
  BY <1>1
<1>10. \A i, j \in A : c.slots[i].child = c.slots[j].child => i = j
  <2>1. Shape(c)
    BY <1>2 DEF Sound, EntSound
  <2> HIDE DEF c
  <2> QED BY <1>3, <2>1 DEF Shape
<1>11. \A x \in s.out : x \in Commands /\ x.ent \in DOMAIN E
  BY <1>8 DEF Leads, GoodRun
<1> HIDE DEF D, c, E, K, R, cmd, call
<1>12. \A k \in K : k \in Commands /\ k.ent \in D /\ k.cmd < r.w.nextCmd /\ k.cmd \in Nat
  BY <1>2 DEF Sound, D, Commands
<1>13. ASSUME NEW k \in O \cup s.out
       PROVE  k \in Commands /\ k.ent \in DOMAIN E /\ k.cmd < s.w.nextCmd
  <2>1. CASE k \in K
    <3>1. r.w.nextCmd <= s.w.nextCmd /\ s.w.nextCmd \in Nat
      BY <1>1, <1>2, <1>4
    <3> QED BY <1>1, <1>2, <1>12, <2>1, <3>1
  <2>2. ASSUME NEW i \in A, k = call(i)
        PROVE  k \in Commands /\ k.ent \in DOMAIN E /\ k.cmd < s.w.nextCmd
    BY <1>1, <1>5, <1>6, <1>11, <2>2
  <2> QED BY <1>9, <2>1, <2>2
<1>14. ASSUME NEW k \in O \cup s.out, NEW l \in O \cup s.out, k.cmd = l.cmd
       PROVE  k = l
  <2>1. \A x, y \in K : x.cmd = y.cmd => x = y
    BY <1>2 DEF Sound
  <2>2. \A x \in K : \A i \in A : x.cmd # call(i).cmd
    BY <1>2, <1>5, <1>6, <1>12
  <2>3. \A i, j \in A : call(i).cmd = call(j).cmd => call(i) = call(j)
    BY <1>5, <1>7
  <2> QED BY <1>9, <1>14, <2>1, <2>2, <2>3
<1>15. \A q \in R : q.ent \in D
  BY <1>2 DEF Sound, D
<1>16. ASSUME NEW e \in D
       PROVE  EntSound(e, E[e], O \cup s.out, R)
  <2>1. \A k \in O \cup s.out : k.ent = e => k \in K
    BY <1>1, <1>5, <1>9
  <2>2. EntSound(e, r.w.ents[e], K, R)
    BY <1>2 DEF Sound, D
  <2> DEFINE b == r.w.ents[e]
             d == E[e]
  <2>3. d.act = b.act /\ d.awaits = b.awaits /\ d.slots = b.slots /\ d.turn = b.turn
    <3>1. CASE e = p
      BY <1>1, <3>1 DEF c
    <3>2. CASE e # p
      BY <1>1, <3>2
    <3> QED BY <3>1, <3>2
  <2>4. EntSound(e, b, K, R)
    BY <2>2
  <2> HIDE DEF b, d
  <2>5. Shape(d) /\ HeldFor(R, e, d)
    BY <2>3, <2>4 DEF EntSound, Shape, HeldFor
  <2>6. \A k \in K : k.ent = e => WaitsFor(d, k)
    BY <2>3, <2>4 DEF EntSound, WaitsFor
  <2>7. EntSound(e, d, O \cup s.out, R)
    BY <2>1, <2>5, <2>6 DEF EntSound
  <2> QED BY <2>7 DEF d
<1>17. ASSUME NEW e \in DOMAIN E \ D
       PROVE  EntSound(e, E[e], O \cup s.out, R)
  <2> DEFINE d == E[e]
  <2>1. PICK i \in A : /\ c.slots[i].child = e /\ d.act = "Thinking"
                       /\ d.slots = <<>> /\ d.awaits = {cmd(i)}
    BY <1>1
  <2>2. \A k \in O \cup s.out : k.ent = e => k = call(i)
    BY <1>5, <1>9, <1>10, <1>12, <2>1
  <2> HIDE DEF d
  <2>3. DOMAIN d.slots = {}
    BY <2>1
  <2>4. Shape(d)
    BY <2>1, <2>3 DEF Shape
  <2>5. HeldFor(R, e, d)
    BY <1>15, <2>3 DEF HeldFor
  <2>6. WaitsFor(d, call(i))
    BY <1>5, <2>1 DEF WaitsFor
  <2>7. EntSound(e, d, O \cup s.out, R)
    BY <2>2, <2>4, <2>5, <2>6 DEF EntSound
  <2> QED BY <2>7 DEF d
<1>18. \A e \in DOMAIN E : EntSound(e, E[e], O \cup s.out, R)
  BY <1>16, <1>17
<1>19. RunSound(s, O)
  <2> DEFINE v == s.w
             M == O \cup s.out
  <2>1. \A x \in s.out : x.type \in WorkTypes
    <3>1. \A x \in r.out : x.type \in WorkTypes
      BY DEF RunSound
    <3> QED BY <1>1, <1>5, <3>1 DEF WorkTypes
  <2>2. /\ v.ents = E /\ v.raised = R
    BY <1>1 DEF E
  <2>3. \A k \in M : k \in Commands /\ k.ent \in DOMAIN E /\ k.cmd < v.nextCmd
    BY <1>13
  <2>4. \A k, l \in M : k.cmd = l.cmd => k = l
    BY <1>14
  <2>5. \A e \in DOMAIN E : EntSound(e, E[e], M, R)
    BY <1>18
  <2>6. \A q \in R : q.ent \in DOMAIN E
    BY <1>1, <1>15
  <2> HIDE DEF v, M
  <2>7. Sound(v, M, v.raised)
    BY <2>2, <2>3, <2>4, <2>5, <2>6 DEF Sound
  <2> QED BY <2>1, <2>7 DEF RunSound, v, M
<1>20. ASSUME NEW L, Served(r.w, L \cup r.out)
       PROVE  Served(s.w, L \cup s.out)
  <2>1. ASSUME NEW e \in D
        PROVE  EntServed(e, E[e], L \cup s.out)
    <3> DEFINE b == r.w.ents[e]
               d == E[e]
    <3>1. EntServed(e, b, L \cup r.out)
      BY <1>20, <2>1 DEF Served, D
    <3>2. d.awaits = b.awaits /\ d.slots = b.slots /\ d.act = b.act
      <4>1. CASE e = p
        BY <1>1, <4>1 DEF c
      <4>2. CASE e # p
        BY <1>1, <4>2
      <4> QED BY <4>1, <4>2
    <3>3. \A l \in L \cup r.out : l \in L \cup s.out
      BY <1>1
    <3> HIDE DEF b, d
    <3>4. EntServed(e, d, L \cup s.out)
      BY <3>1, <3>2, <3>3 DEF EntServed, Heeds
    <3> QED BY <3>4 DEF d
  <2>2. ASSUME NEW e \in DOMAIN E \ D
        PROVE  EntServed(e, E[e], L \cup s.out)
    <3>1. PICK i \in A : c.slots[i].child = e /\ E[e].slots = <<>> /\ E[e].awaits = {cmd(i)}
      BY <1>1, <2>2
    <3>2. call(i) \in L \cup s.out /\ call(i).ent = e /\ call(i).cmd = cmd(i)
      BY <1>1, <1>5, <3>1
    <3>3. DOMAIN E[e].slots = {}
      BY <3>1
    <3> QED BY <3>1, <3>2, <3>3 DEF EntServed
  <2> QED BY <2>1, <2>2 DEF Served, E
<1> QED BY <1>1, <1>8, <1>19, <1>20 DEF Goes, Flows, E, c

\* The spawns of a response start or are denied, and the turn goes on.
LEMMA SpawnOrDenyGoes ==
    ASSUME NEW r, GoodRun(r), NEW O, RunSound(r, O), NEW p \in DOMAIN r.w.ents,
           NEW s, s = SpawnOrDeny(r, p)
    PROVE  Goes(r, s, O)
<1> DEFINE A == Admitted(r.w, p)
           N == NewChildren(r.w, p)
           u == Spawn(r, p, A)
           I == N \ A
<1>1. s \in {r, Advance(Settle(u, p, I, TRUE), p)}
  BY DEF SpawnOrDeny
<1>2. A \in SUBSET N
  BY DEF Admitted
<1>3. \A i \in I : r.w.ents[p].slots[i].st = "fresh"
  BY DEF NewChildren, FreshSlots
<1> HIDE DEF A, I
<1>4. Goes(r, u, O) /\ u.w.ents[p].slots = r.w.ents[p].slots
  <2>1. A \in SUBSET NewChildren(r.w, p)
    BY <1>2
  <2> QED BY <2>1, SpawnGoes
<1> HIDE DEF u, N
<1>5. GoodRun(u) /\ RunSound(u, O) /\ p \in DOMAIN u.w.ents
  BY <1>4, GoesSound
<1>6. \A i \in DOMAIN u.w.ents[p].slots : i \in I => u.w.ents[p].slots[i].st \in {"fresh", "done"}
  BY <1>3, <1>4
<1>7. Goes(u, Advance(Settle(u, p, I, TRUE), p), O)
  BY <1>5, <1>6, DenyGoes
<1>8. Goes(r, Advance(Settle(u, p, I, TRUE), p), O)
  BY <1>4, <1>7, GoesOn
<1> QED BY <1>1, <1>8, GoesSelf

\* A child that returned, or failed, settles the slot that waits for it.
LEMMA SettleChildGoes ==
    ASSUME NEW r, GoodRun(r), NEW O, RunSound(r, O), NEW p \in DOMAIN r.w.ents, NEW e \in Nat,
           NEW err \in BOOLEAN, NEW s, s = SettleChild(r, p, e, err)
    PROVE  Goes(r, s, O)
<1> DEFINE I == ChildSlots(r.w, p, e)
           c == r.w.ents[p]
<1>1. s \in {r, Advance(Settle(r, p, I, err), p)}
  BY DEF SettleChild
<1>2. \A i \in DOMAIN c.slots : i \in I => c.slots[i].child = e
  BY DEF ChildSlots, Pending
<1>3. Shape(c)
  BY DEF RunSound, Sound, EntSound
<1> HIDE DEF I, c
<1>4. \A i \in DOMAIN c.slots : i \in I => c.slots[i].st \in {"fresh", "done"}
  BY <1>2, <1>3 DEF Shape, None
<1>5. Goes(r, Advance(Settle(r, p, I, err), p), O)
  BY <1>4, DenyGoes DEF c
<1> QED BY <1>1, <1>5, GoesSelf

\* Children: spawned by a response, settled when they return (systems/subagent.rs).
LEMMA SubagentGoes ==
    ASSUME NEW r, GoodRun(r), NEW O, RunSound(r, O), NEW in, GoodIn(r.w, in),
           in.type = "ChildReturned" => in.child \in Nat,
           NEW s, s = SubagentSystem(r, in)
    PROVE  Goes(r, s, O)
<1>1. CASE in.type = "ModelResponded"
  <2>1. s = SpawnOrDeny(r, in.ent) /\ in.ent \in DOMAIN r.w.ents
    BY <1>1 DEF SubagentSystem, GoodIn, EntInputs
  <2> QED BY <2>1, SpawnOrDenyGoes
<1>2. CASE in.type = "ChildReturned"
  <2>1. /\ s = SettleChild(r, in.ent, in.child, in.err)
        /\ in.ent \in DOMAIN r.w.ents /\ in.err \in BOOLEAN /\ in.child \in Nat
    BY <1>2 DEF SubagentSystem, GoodIn, EntInputs
  <2> QED BY <2>1, SettleChildGoes
<1>3. CASE in.type \notin {"ModelResponded", "ChildReturned"}
  BY <1>3, GoesSelf DEF SubagentSystem
<1> QED BY <1>1, <1>2, <1>3

\* The failed call of a child settles the slot of its parent (systems/supervision.rs).
LEMMA SupervisionGoes ==
    ASSUME NEW r, GoodRun(r), NEW O, RunSound(r, O), NEW in, GoodIn(r.w, in),
           NEW s, s = SupervisionSystem(r, in)
    PROVE  Goes(r, s, O)
<1> DEFINE p == r.w.ents[in.ent].parent
<1>1. CASE in.type = "ModelFailed" /\ p # None
  <2>1. in.ent \in DOMAIN r.w.ents /\ in.ent \in Nat
    BY <1>1, EntGood DEF GoodIn, EntInputs
  <2>2. p \in DOMAIN r.w.ents
    BY <1>1, <2>1 DEF GoodRun, GoodEnt
  <2>3. s = SettleChild(r, p, in.ent, TRUE)
    BY <1>1 DEF SupervisionSystem
  <2> HIDE DEF p
  <2> QED BY <2>1, <2>2, <2>3, SettleChildGoes
<1>2. CASE ~ (in.type = "ModelFailed" /\ p # None)
  BY <1>2, GoesSelf DEF SupervisionSystem
<1> QED BY <1>1, <1>2

\* What settling slots leaves of the others.
LEMMA SettleFields ==
    ASSUME NEW r, GoodRun(r), NEW e \in DOMAIN r.w.ents, NEW I, NEW err
    PROVE  /\ Settle(r, e, I, err).w.ents[e].act = r.w.ents[e].act
           /\ DOMAIN Settle(r, e, I, err).w.ents[e].slots = DOMAIN r.w.ents[e].slots
           /\ \A i \in DOMAIN r.w.ents[e].slots : i \notin I =>
                 Settle(r, e, I, err).w.ents[e].slots[i] = r.w.ents[e].slots[i]
<1> DEFINE c == r.w.ents[e]
           d == SettleSlots(c, I, err)
<1>1. c \in Components
  BY EntGood
<1>2. /\ d.act = c.act
      /\ d.slots = [i \in DOMAIN c.slots |->
                      IF i \in I THEN [c.slots[i] EXCEPT !.st = "done", !.cmd = None, !.err = err]
                      ELSE c.slots[i]]
  BY <1>1 DEF SettleSlots, Components
<1>3. DOMAIN d.slots = DOMAIN c.slots /\ \A i \in DOMAIN c.slots : i \notin I => d.slots[i] = c.slots[i]
  BY <1>2
<1>4. Settle(r, e, I, err) = Put(r, e, d)
  BY DEF Settle
<1> HIDE DEF d
<1>5. Settle(r, e, I, err).w.ents[e] = d
  BY <1>4, PutFields
<1> QED BY <1>2, <1>3, <1>5

\* The peer drives of a response are sent, those that do not parse are denied, and the turn
\* goes on (PeerDriveSystem::emit_or_deny).
LEMMA EmitOrDenyGoes ==
    ASSUME NEW r, GoodRun(r), NEW O, RunSound(r, O), NEW e \in DOMAIN r.w.ents,
           NEW s, s = EmitOrDeny(r, e)
    PROVE  Goes(r, s, O)
<1> DEFINE I == FreshSlots(r.w, e, "Peer")
           bad == FreshSlots(r.w, e, "BadPeer")
           u == Settle(r, e, bad, TRUE)
           t == Dispatch(u, e, I, "SendPeer")
<1>1. s \in {r, Advance(t, e)}
  BY DEF EmitOrDeny
<1>2. /\ \A i \in DOMAIN r.w.ents[e].slots : i \in bad => r.w.ents[e].slots[i].st = "fresh"
      /\ \A i \in I : /\ i \in DOMAIN r.w.ents[e].slots /\ i \notin bad
                      /\ r.w.ents[e].slots[i].st = "fresh" /\ r.w.ents[e].slots[i].kind = "Peer"
  BY DEF FreshSlots
<1> HIDE DEF I, bad
<1>3. Goes(r, u, O) /\ DOMAIN u.w.ents = DOMAIN r.w.ents
  BY <1>2, DenyGoes
<1>4. /\ DOMAIN u.w.ents[e].slots = DOMAIN r.w.ents[e].slots
      /\ \A i \in DOMAIN r.w.ents[e].slots : i \notin bad =>
            u.w.ents[e].slots[i] = r.w.ents[e].slots[i]
  <2> DEFINE yes == TRUE
  <2>1. u = Settle(r, e, bad, yes) OBVIOUS
  <2> HIDE DEF yes
  <2>2. /\ DOMAIN Settle(r, e, bad, yes).w.ents[e].slots = DOMAIN r.w.ents[e].slots
        /\ \A i \in DOMAIN r.w.ents[e].slots : i \notin bad =>
              Settle(r, e, bad, yes).w.ents[e].slots[i] = r.w.ents[e].slots[i]
    BY SettleFields
  <2> HIDE DEF u
  <2> QED BY <2>1, <2>2
<1> HIDE DEF u
<1>9. WorkOf("Peer") = "SendPeer"
  BY DEF WorkOf
<1>10. /\ I \in SUBSET DOMAIN u.w.ents[e].slots
       /\ \A i \in I : /\ u.w.ents[e].slots[i].st = "fresh"
                       /\ WorkOf(u.w.ents[e].slots[i].kind) = "SendPeer"
  BY <1>2, <1>4, <1>9
<1>5. Goes(u, t, O) /\ DOMAIN t.w.ents = DOMAIN u.w.ents
  BY <1>3, <1>10, GoesSound, DispatchGoes DEF WorkTypes
<1> HIDE DEF t
<1>6. Goes(r, t, O) /\ e \in DOMAIN t.w.ents
  BY <1>3, <1>5, GoesOn
<1>7. Goes(t, Advance(t, e), O)
  BY <1>6, GoesSound, AdvanceGoes
<1>8. Goes(r, Advance(t, e), O)
  BY <1>6, <1>7, GoesOn
<1> QED BY <1>1, <1>8, GoesSelf

\* The human actions of a response are requested, and the turn goes on
\* (systems/human_action.rs).
LEMMA RequestHumanGoes ==
    ASSUME NEW r, GoodRun(r), NEW O, RunSound(r, O), NEW in, GoodIn(r.w, in),
           in.type = "ModelResponded", NEW s, s = HumanActionSystem(r, in)
    PROVE  Goes(r, s, O)
<1> DEFINE e == in.ent
           I == FreshSlots(r.w, e, "Human")
           t == Dispatch(r, e, I, "RequestHumanAction")
<1>1. s \in {r, Advance(t, e)} /\ e \in DOMAIN r.w.ents
  BY DEF HumanActionSystem, GoodIn, EntInputs
<1>2. /\ I \in SUBSET DOMAIN r.w.ents[e].slots
      /\ \A i \in I : /\ r.w.ents[e].slots[i].st = "fresh"
                      /\ WorkOf(r.w.ents[e].slots[i].kind) = "RequestHumanAction"
  BY DEF FreshSlots, WorkOf
<1> HIDE DEF I, e
<1>3. Goes(r, t, O) /\ DOMAIN t.w.ents = DOMAIN r.w.ents
  BY <1>1, <1>2, DispatchGoes DEF WorkTypes
<1> HIDE DEF t
<1>4. Goes(t, Advance(t, e), O)
  BY <1>1, <1>3, GoesSound, AdvanceGoes
<1>5. Goes(r, Advance(t, e), O)
  BY <1>3, <1>4, GoesOn
<1> QED BY <1>1, <1>5, GoesSelf

-----------------------------------------------------------------------------
\* A tick, as the Systems it runs one after another.

Begun(r, in) == GuardrailSystem(CancelSystem(GateSystem(r, in), in), in)
TakenIn(r, in) == IntakeSystem(SteeringSystem(r, in), in)
Closed(r, in) == CompactionSystem(BudgetSystem(TurnSystem(r, in), in), in)
Moved(r, in) == HumanActionSystem(ToolSystem(AutonomySystem(r, in), in), in)
Linked(r, in) ==
    PeerDriveSystem(SupervisionSystem(SubagentSystem(InteractionSystem(r, in), in), in), in)
Ticked(r, in) == Linked(Moved(Closed(TakenIn(Begun(r, in), in), in), in), in)

\* The phases run the Systems in this order (PHASE_ORDER, build_schedule).
LEMMA TickIsTicked ==
    ASSUME NEW w, NEW in
    PROVE  Tick(w, in) = {Ticked([w |-> w, out |-> {}], in)}
<1>1. ASSUME NEW r
      PROVE  /\ Lifecycle({r}, in) = {Begun(r, in)}
             /\ Intake({r}, in) = {TakenIn(r, in)}
             /\ BudgetCompaction(SettleResults({r}, in), in) = {Closed(r, in)}
  BY DEF Lifecycle, Intake, SettleResults, BudgetCompaction, Through, Begun, TakenIn, Closed
<1>2. ASSUME NEW r
      PROVE  TurnAdvance({r}, in) = {Linked(Moved(r, in), in)}
  BY DEF TurnAdvance, Through, Linked, Moved
<1> QED BY <1>1, <1>2 DEF Tick, Ticked

\* A System leaves the run as it is at an input it does not match.
LEMMA Ignored ==
    ASSUME NEW r, NEW in
    PROVE  /\ in.type \notin {"Pause", "Resume", "ClearPolicyHalt"} => GateSystem(r, in) = r
           /\ in.type \notin AbsorbedInputs \cup {"Cancel"} => CancelSystem(r, in) = r
           /\ in.type # "ModelResponded" =>
                 GuardrailSystem(r, in) = r /\ BudgetSystem(r, in) = r
           /\ in.type # "UserMessage" => SteeringSystem(r, in) = r /\ IntakeSystem(r, in) = r
           /\ in.type \notin {"ModelResponded", "ModelFailed", "InferenceCancelled"} =>
                 TurnSystem(r, in) = r
           /\ in.type \notin {"ModelResponded", "ModelFailed", "Compacted"} =>
                 CompactionSystem(r, in) = r
           /\ in.type \notin {"SetAutonomy", "ModelResponded", "InteractionAnswer"} =>
                 AutonomySystem(r, in) = r
           /\ in.type \notin {"ToolReturned", "ModelResponded"} => ToolSystem(r, in) = r
           /\ in.type \notin {"ModelResponded", "HumanActionDone", "HumanActionAborted"} =>
                 HumanActionSystem(r, in) = r
           /\ in.type # "InteractionAnswer" => InteractionSystem(r, in) = r
           /\ in.type \notin {"ModelResponded", "ChildReturned"} => SubagentSystem(r, in) = r
           /\ in.type # "ModelFailed" => SupervisionSystem(r, in) = r
           /\ in.type \notin {"ModelResponded", "PeerSendOutcome", "DriveRequested",
                              "PeerDelivered"} => PeerDriveSystem(r, in) = r
<1>1. /\ in.type \notin {"Pause", "Resume", "ClearPolicyHalt"} => GateSystem(r, in) = r
      /\ in.type \notin AbsorbedInputs \cup {"Cancel"} => CancelSystem(r, in) = r
  BY DEF GateSystem, CancelSystem
<1>2. /\ in.type # "ModelResponded" =>
            GuardrailSystem(r, in) = r /\ BudgetSystem(r, in) = r
      /\ in.type # "UserMessage" => SteeringSystem(r, in) = r /\ IntakeSystem(r, in) = r
  BY DEF GuardrailSystem, BudgetSystem, SteeringSystem, IntakeSystem
<1>3. /\ in.type \notin {"ModelResponded", "ModelFailed", "InferenceCancelled"} =>
            TurnSystem(r, in) = r
      /\ in.type \notin {"ModelResponded", "ModelFailed", "Compacted"} =>
            CompactionSystem(r, in) = r
  BY DEF TurnSystem, CompactionSystem
<1>4. /\ in.type \notin {"SetAutonomy", "ModelResponded", "InteractionAnswer"} =>
            AutonomySystem(r, in) = r
      /\ in.type \notin {"ToolReturned", "ModelResponded"} => ToolSystem(r, in) = r
      /\ in.type \notin {"ModelResponded", "HumanActionDone", "HumanActionAborted"} =>
            HumanActionSystem(r, in) = r
      /\ in.type # "InteractionAnswer" => InteractionSystem(r, in) = r
  BY DEF AutonomySystem, ToolSystem, HumanActionSystem, InteractionSystem
<1>5. /\ in.type \notin {"ModelResponded", "ChildReturned"} => SubagentSystem(r, in) = r
      /\ in.type # "ModelFailed" => SupervisionSystem(r, in) = r
      /\ in.type \notin {"ModelResponded", "PeerSendOutcome", "DriveRequested",
                         "PeerDelivered"} => PeerDriveSystem(r, in) = r
  BY DEF SubagentSystem, SupervisionSystem, PeerDriveSystem
<1> QED BY <1>1, <1>2, <1>3, <1>4, <1>5

\* What goes on is good, sound and fit for the same input.
LEMMA GoesIn ==
    ASSUME NEW r, GoodRun(r), NEW s, NEW O, Goes(r, s, O), NEW in, GoodIn(r.w, in)
    PROVE  GoodRun(s) /\ RunSound(s, O) /\ GoodIn(s.w, in)
<1>1. GoodRun(s) /\ RunSound(s, O) /\ Leads(r, s)
  BY DEF Goes, Leads, Flows
<1> QED BY <1>1, GoodInStays

\* An input that answers nothing and cancels nothing lets every wait be.
LEMMA OthersGo ==
    ASSUME NEW r, GoodRun(r), NEW O, RunSound(r, O), NEW in, GoodIn(r.w, in),
           in.type \in {"Pause", "Resume", "ClearPolicyHalt", "SetAutonomy", "UserMessage",
                        "InteractionAnswer", "ChildReturned", "DriveRequested", "PeerDelivered"},
           in.type = "ChildReturned" => in.child \in Nat
    PROVE  Goes(r, Ticked(r, in), O)
<1>0. in.type \notin AbsorbedInputs \cup {"Cancel"}
  BY DEF AbsorbedInputs
<1>1. CASE in.type \in {"Pause", "Resume", "ClearPolicyHalt"}
  <2>1. Ticked(r, in) = GateSystem(r, in)
    BY <1>0, <1>1, Ignored DEF Ticked, Begun, TakenIn, Closed, Moved, Linked
  <2> QED BY <2>1, GateGoes
<1>2. CASE in.type = "UserMessage"
  <2> DEFINE u == SteeringSystem(r, in)
  <2>1. Ticked(r, in) = IntakeSystem(u, in)
    BY <1>0, <1>2, Ignored DEF Ticked, Begun, TakenIn, Closed, Moved, Linked
  <2>2. Goes(r, u, O)
    BY SteeringGoes
  <2> HIDE DEF u
  <2>3. GoodRun(u) /\ RunSound(u, O) /\ GoodIn(u.w, in)
    BY <2>2, GoesIn
  <2>4. Goes(u, IntakeSystem(u, in), O)
    BY <2>3, IntakeGoes
  <2> QED BY <2>1, <2>2, <2>4, GoesOn
<1>3. CASE in.type = "SetAutonomy"
  <2>1. Ticked(r, in) = AutonomySystem(r, in)
    BY <1>0, <1>3, Ignored DEF Ticked, Begun, TakenIn, Closed, Moved, Linked
  <2> QED BY <1>3, <2>1, AskGoes
<1>4. CASE in.type = "InteractionAnswer"
  <2>1. Ticked(r, in) = InteractionSystem(AutonomySystem(r, in), in)
    BY <1>0, <1>4, Ignored DEF Ticked, Begun, TakenIn, Closed, Moved, Linked
  <2> QED BY <1>4, <2>1, InteractionGoes
<1>5. CASE in.type = "ChildReturned"
  <2>1. Ticked(r, in) = SubagentSystem(r, in)
    BY <1>0, <1>5, Ignored DEF Ticked, Begun, TakenIn, Closed, Moved, Linked
  <2> QED BY <1>5, <2>1, SubagentGoes
<1>6. CASE in.type \in {"DriveRequested", "PeerDelivered"}
  <2>1. Ticked(r, in) = PeerDriveSystem(r, in)
    BY <1>0, <1>6, Ignored DEF Ticked, Begun, TakenIn, Closed, Moved, Linked
  <2> QED BY <1>6, <2>1, DriveGoes
<1> QED BY <1>1, <1>2, <1>3, <1>4, <1>5, <1>6

-----------------------------------------------------------------------------
\* Answers are taken: by CancelSystem while their entity is being cancelled, else by the
\* System that waits for them.

\* k, which is answered by in, is one its entity waits for.
Awaits(r, O, in, k) ==
    Answers(r, O, in, k) /\ WaitsFor(r.w.ents[k.ent], k)

\* What CancelSystem leaves of an answer: it took it, or it did nothing.
LEMMA AbsorbFirst ==
    ASSUME NEW r, GoodRun(r), NEW O, RunSound(r, O), NEW in, GoodIn(r.w, in),
           in.type \in AbsorbedInputs, NEW k, Awaits(r, O, in, k),
           NEW s, s = CancelSystem(r, in)
    PROVE  /\ Goes(r, s, O) /\ GoodRun(s) /\ RunSound(s, O) /\ GoodIn(s.w, in)
           /\ Answers(s, O, in, k)
           /\ \/ Takes(r, s, O, k)
              \/ s = r /\ r.w.ents[k.ent].act # "Cancelling"
           /\ Unsent(r.w, k.ent) => Unsent(s.w, k.ent)
<1> DEFINE c == r.w.ents[k.ent]
           d == [c EXCEPT !.awaits = @ \ {k.cmd}, !.act = IF c.awaits = {k.cmd} THEN "Idle" ELSE @]
<1>1. s = Absorb(r, k.ent, k.cmd)
  BY DEF CancelSystem, Awaits, Answers, AbsorbedInputs
<1>2. /\ k.ent \in DOMAIN r.w.ents /\ \A l \in O \cup r.out : l.cmd # k.cmd
      /\ WaitsFor(c, k)
  BY DEF Awaits, Answers, GoodIn, EntInputs, AbsorbedInputs
<1>3. /\ Goes(r, s, O)
      /\ c.act # "Cancelling" => s = r
      /\ c.act = "Cancelling" /\ k.cmd \in c.awaits => Takes(r, s, O, k)
  BY <1>1, <1>2, AbsorbGoes
<1>4. GoodRun(s) /\ RunSound(s, O) /\ GoodIn(s.w, in) /\ Minted(r.w) \subseteq Minted(s.w)
  BY <1>3, GoesIn DEF Goes, Leads
<1>5. s = r \/ s = Put(r, k.ent, d)
  BY <1>1 DEF Absorb
<1>6. c \in Components
  BY <1>2, EntGood
<1>7. d.slots = c.slots
  BY <1>6 DEF Components
<1>8. s.out = r.out /\ s.w.ents[k.ent].slots = c.slots
  <2>1. CASE s = r
    BY <2>1
  <2>2. CASE s = Put(r, k.ent, d)
    <3> HIDE DEF c, d
    <3>1. s.out = r.out /\ s.w.ents[k.ent] = d
      BY <1>2, <2>2, PutFields
    <3> QED BY <1>7, <3>1
  <2> QED BY <1>5, <2>1, <2>2
<1>9. Answers(s, O, in, k)
  BY <1>4, <1>8 DEF Awaits, Answers
<1>10. Takes(r, s, O, k) \/ (s = r /\ c.act # "Cancelling")
  BY <1>2, <1>3 DEF WaitsFor
<1>11. Unsent(r.w, k.ent) => Unsent(s.w, k.ent)
  BY <1>8 DEF Unsent
<1> QED BY <1>3, <1>4, <1>9, <1>10, <1>11

\* An answer that is taken by the first of two Systems, or by the second, is taken.
LEMMA TakenOn ==
    ASSUME NEW r, NEW s, NEW t, NEW O, NEW k, Goes(r, s, O), Goes(s, t, O),
           Takes(r, s, O, k) \/ Takes(s, t, O, k)
    PROVE  Goes(r, t, O) /\ Takes(r, t, O, k)
<1>1. Goes(r, t, O)
  BY GoesOn
<1>2. Takes(r, t, O, k)
  <2>1. CASE Takes(r, s, O, k)
    BY <2>1, TakesLater DEF Goes
  <2>2. CASE Takes(s, t, O, k)
    BY <2>2, TakesAfter DEF Goes
  <2> QED BY <2>1, <2>2
<1> QED BY <1>1, <1>2

\* The result of a tool, or its abort, is taken by the turn that dispatched it.
LEMMA ToolAnswered ==
    ASSUME NEW r, GoodRun(r), NEW O, RunSound(r, O), NEW in, GoodIn(r.w, in),
           NEW k, Awaits(r, O, in, k), k.type = "RunTool",
           \/ in.type = "ToolReturned"
           \/ in.type = "ToolAborted" /\ k.stop
    PROVE  Goes(r, Ticked(r, in), O) /\ Takes(r, Ticked(r, in), O, k)
<1> DEFINE s == CancelSystem(r, in)
           t == ToolSystem(s, in)
<1>0. in.type \in AbsorbedInputs
  BY DEF AbsorbedInputs
<1>1. /\ Goes(r, s, O) /\ GoodRun(s) /\ RunSound(s, O) /\ GoodIn(s.w, in)
      /\ Answers(s, O, in, k)
      /\ Takes(r, s, O, k) \/ (s = r /\ r.w.ents[k.ent].act # "Cancelling")
  BY <1>0, AbsorbFirst
<1>2. /\ in.type = "ToolAborted" => Ticked(r, in) = s
      /\ in.type = "ToolReturned" => Ticked(r, in) = t
  BY <1>0, Ignored DEF Ticked, Begun, TakenIn, Closed, Moved, Linked
<1> HIDE DEF s
<1>3. r.w.ents[k.ent].act # "Cancelling" => r.w.ents[k.ent].act = "Resolving" /\ ~ k.stop
  BY DEF Awaits, WaitsFor
<1>4. CASE in.type = "ToolAborted"
  BY <1>1, <1>2, <1>3, <1>4
<1>5. CASE in.type = "ToolReturned"
  <2> DEFINE err == in.err
             e == k.ent
             kind == "Local"
  <2>1. /\ e \in DOMAIN s.w.ents /\ err \in BOOLEAN /\ \A l \in O \cup s.out : l.cmd # k.cmd
        /\ in.ent = e /\ in.cmd = k.cmd
    BY <1>1, <1>5 DEF Answers, GoodIn, EntInputs
  <2>2. t = Advance(Settle(s, e, SentAs(s.w, e, kind, k.cmd), err), e)
    BY <1>5, <2>1 DEF ToolSystem
  <2>3. kind \in {"Local", "Human", "Peer"} /\ k.type = WorkOf(kind)
    BY DEF WorkOf
  <2> HIDE DEF err, e, kind, t
  <2>4. Goes(s, t, O) /\ (s.w.ents[e].act = "Resolving" => Takes(s, t, O, k))
    <3>1. k.ent = e
      BY DEF e
    <3> QED BY <1>1, <2>1, <2>2, <2>3, <3>1, ResultGoes
  <2>5. Takes(r, s, O, k) \/ Takes(s, t, O, k)
    BY <1>1, <1>3, <2>4 DEF e
  <2> QED BY <1>1, <1>2, <1>5, <2>4, <2>5, TakenOn
<1> QED BY <1>4, <1>5

\* The completion of a human action, or its abort, is taken by the turn that asked for it.
LEMMA HumanAnswered ==
    ASSUME NEW r, GoodRun(r), NEW O, RunSound(r, O), NEW in, GoodIn(r.w, in),
           NEW k, Awaits(r, O, in, k), k.type = "RequestHumanAction",
           in.type \in {"HumanActionDone", "HumanActionAborted"}
    PROVE  Goes(r, Ticked(r, in), O) /\ Takes(r, Ticked(r, in), O, k)
<1> DEFINE s == CancelSystem(r, in)
           t == HumanActionSystem(s, in)
<1>0. in.type \in AbsorbedInputs
  BY DEF AbsorbedInputs
<1>1. /\ Goes(r, s, O) /\ GoodRun(s) /\ RunSound(s, O) /\ GoodIn(s.w, in)
      /\ Answers(s, O, in, k)
      /\ Takes(r, s, O, k) \/ (s = r /\ r.w.ents[k.ent].act # "Cancelling")
  BY <1>0, AbsorbFirst
<1>2. Ticked(r, in) = t
  BY <1>0, Ignored DEF Ticked, Begun, TakenIn, Closed, Moved, Linked
<1> HIDE DEF s
<1>3. r.w.ents[k.ent].act # "Cancelling" => r.w.ents[k.ent].act = "Resolving"
  BY DEF Awaits, WaitsFor
<1> DEFINE err == IF in.type = "HumanActionDone" THEN in.err ELSE TRUE
           e == k.ent
           kind == "Human"
<1>4. /\ e \in DOMAIN s.w.ents /\ err \in BOOLEAN /\ \A l \in O \cup s.out : l.cmd # k.cmd
      /\ in.ent = e /\ in.cmd = k.cmd
  BY <1>1 DEF Answers, GoodIn, EntInputs
<1>5. t = Advance(Settle(s, e, SentAs(s.w, e, kind, k.cmd), err), e)
  BY <1>4 DEF HumanActionSystem
<1>6. kind \in {"Local", "Human", "Peer"} /\ k.type = WorkOf(kind)
  BY DEF WorkOf
<1> HIDE DEF err, e, kind, t
<1>7. Goes(s, t, O) /\ (s.w.ents[e].act = "Resolving" => Takes(s, t, O, k))
  <2>1. k.ent = e
    BY DEF e
  <2> QED BY <1>1, <1>4, <1>5, <1>6, <2>1, ResultGoes
<1>8. Takes(r, s, O, k) \/ Takes(s, t, O, k)
  BY <1>1, <1>3, <1>7 DEF e
<1> QED BY <1>1, <1>2, <1>7, <1>8, TakenOn

\* The outcome of a peer drive is taken by the turn that sent it; a cancelled turn, which
\* waits for it in vain, heeds nothing (CancelSystem does not match a PeerSendOutcome).
LEMMA PeerAnswered ==
    ASSUME NEW r, GoodRun(r), NEW O, RunSound(r, O), NEW in, GoodIn(r.w, in),
           NEW k, Awaits(r, O, in, k), k.type = "SendPeer", in.type = "PeerSendOutcome"
    PROVE  Goes(r, Ticked(r, in), O) /\ Takes(r, Ticked(r, in), O, k)
<1> DEFINE e == k.ent
           c == r.w.ents[e]
           err == in.err
           kind == "Peer"
           I == SentAs(r.w, e, kind, k.cmd)
           u == Settle(r, e, I, err)
           t == Advance(u, e)
           s == PeerDriveSystem(r, in)
<1>0. in.type \notin AbsorbedInputs \cup {"Cancel"}
  BY DEF AbsorbedInputs
<1>1. /\ e \in DOMAIN r.w.ents /\ err \in BOOLEAN /\ \A l \in O \cup r.out : l.cmd # k.cmd
      /\ in.ent = e /\ in.cmd = k.cmd /\ WaitsFor(c, k)
  BY DEF Awaits, Answers, GoodIn, EntInputs
<1>2. Ticked(r, in) = s
  BY <1>0, Ignored DEF Ticked, Begun, TakenIn, Closed, Moved, Linked
<1>3. s = IF I # {} THEN t ELSE r
  BY <1>1 DEF PeerDriveSystem, SettlePeerOutcome
<1>4. kind \in {"Local", "Human", "Peer"} /\ k.type = WorkOf(kind) /\ k.ent = e
  BY DEF WorkOf
<1>5. EntSound(e, c, O \cup r.out, r.w.raised)
  BY <1>1 DEF RunSound, Sound
<1>6. CASE c.act = "Resolving"
  <2>1. PICK i \in DOMAIN c.slots : /\ c.slots[i].st = "sent" /\ c.slots[i].cmd = k.cmd
                                    /\ k.type = WorkOf(c.slots[i].kind)
    BY <1>1, <1>6 DEF WaitsFor
  <2>2. c.slots[i].kind = "Peer"
    BY <2>1 DEF WorkOf
  <2>3. i \in I
    BY <2>1, <2>2 DEF SentAs
  <2>4. t = Advance(Settle(r, e, SentAs(r.w, e, kind, k.cmd), err), e) OBVIOUS
  <2>5. r.w.ents[e].act = "Resolving"
    BY <1>6
  <2> HIDE DEF e, c, kind, err, I, t, s
  <2>6. Goes(r, t, O) /\ Takes(r, t, O, k)
    BY <1>1, <1>4, <2>4, <2>5, ResultGoes
  <2> QED BY <1>2, <1>3, <2>3, <2>6
<1>7. CASE c.act # "Resolving"
  <2>1. c.act = "Cancelling" /\ PeersCancelled
    BY <1>1, <1>7 DEF WaitsFor
  <2>2. I = {}
    BY <1>5, <1>7 DEF EntSound, Shape, SentAs
  <2>3. s = r
    BY <1>3, <2>2
  <2>4. ASSUME Served(r.w, {k} \cup (O \cup r.out))
        PROVE  Served(r.w, O \cup r.out)
    <3>1. ASSUME NEW f \in DOMAIN r.w.ents
          PROVE  EntServed(f, r.w.ents[f], O \cup r.out)
      <4> DEFINE b == r.w.ents[f]
      <4>1. CASE f = e
        BY <2>1, <4>1 DEF EntServed, Heeds
      <4>2. CASE f # e
        <5>1. EntServed(f, b, {k} \cup (O \cup r.out))
          BY <2>4 DEF Served
        <5>2. \A l \in {k} \cup (O \cup r.out) : l.ent = f => l \in O \cup r.out
          BY <1>4, <4>2
        <5> HIDE DEF b, e
        <5>3. EntServed(f, b, O \cup r.out)
          BY <5>1, <5>2 DEF EntServed
        <5> QED BY <5>3 DEF b
      <4> QED BY <4>1, <4>2
    <3> QED BY <3>1 DEF Served
  <2>5. Takes(r, r, O, k)
    BY <2>4 DEF Takes
  <2> QED BY <1>2, <2>3, <2>5, GoesSelf
<1> QED BY <1>6, <1>7

\* An honoured cancellation of a call is taken by its turn, which closes.
LEMMA CancelledAnswered ==
    ASSUME NEW r, GoodRun(r), NEW O, RunSound(r, O), NEW in, GoodIn(r.w, in),
           NEW k, Awaits(r, O, in, k), k.type = "CallModel", in.type = "InferenceCancelled"
    PROVE  Goes(r, Ticked(r, in), O) /\ Takes(r, Ticked(r, in), O, k)
<1> DEFINE s == CancelSystem(r, in)
           t == TurnSystem(s, in)
<1>0. in.type \in AbsorbedInputs
  BY DEF AbsorbedInputs
<1>1. /\ Goes(r, s, O) /\ GoodRun(s) /\ RunSound(s, O) /\ GoodIn(s.w, in)
      /\ Answers(s, O, in, k)
      /\ Takes(r, s, O, k) \/ (s = r /\ r.w.ents[k.ent].act # "Cancelling")
  BY <1>0, AbsorbFirst
<1>2. Ticked(r, in) = t
  BY <1>0, Ignored DEF Ticked, Begun, TakenIn, Closed, Moved, Linked
<1> HIDE DEF s, t
<1>3. r.w.ents[k.ent].act # "Cancelling" =>
         r.w.ents[k.ent].act = "Thinking" /\ k.cmd \in r.w.ents[k.ent].awaits
  BY DEF Awaits, WaitsFor, WorkOf
<1>4. /\ Goes(s, t, O)
      /\ s.w.ents[k.ent].act = "Thinking" /\ k.cmd \in s.w.ents[k.ent].awaits => Takes(s, t, O, k)
  BY <1>1, TurnSystemGoes DEF t
<1>5. Takes(r, s, O, k) \/ Takes(s, t, O, k)
  BY <1>1, <1>3, <1>4
<1> QED BY <1>1, <1>2, <1>4, <1>5, TakenOn

\* A compaction's end is taken by the entity that waits for it, which goes on.
LEMMA CompactAnswered ==
    ASSUME NEW r, GoodRun(r), NEW O, RunSound(r, O), NEW in, GoodIn(r.w, in),
           NEW k, Awaits(r, O, in, k), k.type = "Compact", in.type = "Compacted"
    PROVE  Goes(r, Ticked(r, in), O) /\ Takes(r, Ticked(r, in), O, k)
<1> DEFINE s == CancelSystem(r, in)
           t == CompactionSystem(s, in)
<1>0. in.type \in AbsorbedInputs
  BY DEF AbsorbedInputs
<1>1. /\ Goes(r, s, O) /\ GoodRun(s) /\ RunSound(s, O) /\ GoodIn(s.w, in)
      /\ Answers(s, O, in, k)
      /\ Takes(r, s, O, k) \/ (s = r /\ r.w.ents[k.ent].act # "Cancelling")
  BY <1>0, AbsorbFirst
<1>2. Ticked(r, in) = t
  BY <1>0, Ignored DEF Ticked, Begun, TakenIn, Closed, Moved, Linked
<1> HIDE DEF s, t
<1>3. r.w.ents[k.ent].act # "Cancelling" =>
         r.w.ents[k.ent].act = "Compacting" /\ k.cmd \in r.w.ents[k.ent].awaits
  BY DEF Awaits, WaitsFor, WorkOf
<1>4. /\ Goes(s, t, O)
      /\ s.w.ents[k.ent].act = "Compacting" /\ k.cmd \in s.w.ents[k.ent].awaits =>
            Takes(s, t, O, k)
  BY <1>1, CompactionSystemGoes DEF t
<1>5. Takes(r, s, O, k) \/ Takes(s, t, O, k)
  BY <1>1, <1>3, <1>4
<1> QED BY <1>1, <1>2, <1>4, <1>5, TakenOn

\* A turn that closes emits nothing, so its answer is still the answer of k alone.
LEMMA TurnAnswers ==
    ASSUME NEW r, GoodRun(r), NEW O, NEW in, GoodIn(r.w, in), in.type = "ModelFailed", NEW k,
           Answers(r, O, in, k), NEW s, s = TurnSystem(r, in), Goes(r, s, O)
    PROVE  Answers(s, O, in, k)
<1> DEFINE e == in.ent
           d == [ToIdle(r.w.ents[e]) EXCEPT !.hist = @ \o <<>>]
<1>1. s = r \/ s = Put(r, e, d)
  BY DEF TurnSystem, CloseTurn
<1>2. e \in DOMAIN r.w.ents /\ Minted(r.w) \subseteq Minted(s.w)
  BY DEF GoodIn, EntInputs, Goes, Leads
<1>3. s.out = r.out
  <2> HIDE DEF d, e
  <2> QED BY <1>1, <1>2, PutFields
<1> QED BY <1>2, <1>3 DEF Answers

\* The failure of a call is taken by its turn, which closes, or by the compaction it was
\* for, which goes on without a summary; the parent of a failed child is told.
LEMMA FailureAnswered ==
    ASSUME NEW r, GoodRun(r), NEW O, RunSound(r, O), NEW in, GoodIn(r.w, in),
           NEW k, Awaits(r, O, in, k), k.type \in {"CallModel", "Compact"},
           in.type = "ModelFailed"
    PROVE  Goes(r, Ticked(r, in), O) /\ Takes(r, Ticked(r, in), O, k)
<1> DEFINE s == CancelSystem(r, in)
           t == TurnSystem(s, in)
           u == CompactionSystem(t, in)
           v == SupervisionSystem(u, in)
<1>0. in.type \in AbsorbedInputs
  BY DEF AbsorbedInputs
<1>1. /\ Goes(r, s, O) /\ GoodRun(s) /\ RunSound(s, O) /\ GoodIn(s.w, in)
      /\ Answers(s, O, in, k)
      /\ Takes(r, s, O, k) \/ (s = r /\ r.w.ents[k.ent].act # "Cancelling")
  BY <1>0, AbsorbFirst
<1>2. Ticked(r, in) = v
  BY <1>0, Ignored DEF Ticked, Begun, TakenIn, Closed, Moved, Linked
<1> HIDE DEF s, t, u, v
<1>3. r.w.ents[k.ent].act # "Cancelling" =>
         /\ r.w.ents[k.ent].act \in {"Thinking", "Compacting"}
         /\ k.cmd \in r.w.ents[k.ent].awaits
  BY DEF Awaits, WaitsFor, WorkOf
<1>4. /\ Goes(s, t, O)
      /\ s.w.ents[k.ent].act # "Thinking" => t = s
      /\ s.w.ents[k.ent].act = "Thinking" /\ k.cmd \in s.w.ents[k.ent].awaits => Takes(s, t, O, k)
  BY <1>1, TurnSystemGoes DEF t
<1>5. GoodRun(t) /\ RunSound(t, O) /\ GoodIn(t.w, in) /\ Answers(t, O, in, k)
  BY <1>1, <1>4, GoesIn, TurnAnswers DEF t
<1>6. /\ Goes(t, u, O)
      /\ t.w.ents[k.ent].act = "Compacting" /\ k.cmd \in t.w.ents[k.ent].awaits =>
            Takes(t, u, O, k)
  BY <1>5, CompactionSystemGoes DEF u
<1>7. GoodRun(u) /\ RunSound(u, O) /\ GoodIn(u.w, in)
  BY <1>5, <1>6, GoesIn
<1>8. Goes(u, v, O)
  BY <1>7, SupervisionGoes DEF v
<1>9. Goes(s, u, O) /\ (Takes(s, t, O, k) \/ Takes(t, u, O, k) => Takes(s, u, O, k))
  BY <1>4, <1>6, GoesOn, TakenOn
<1>10. Takes(r, s, O, k) \/ Takes(s, u, O, k)
  BY <1>1, <1>3, <1>4, <1>6, <1>9
<1>11. Goes(r, u, O) /\ Takes(r, u, O, k)
  BY <1>1, <1>9, <1>10, TakenOn
<1> QED BY <1>2, <1>8, <1>11, TakenOn

\* A response is taken by its turn, which closes or begins to resolve its tool uses; then
\* every System that works for a response goes on with it, in order.
LEMMA ResponseAnswered ==
    ASSUME NEW r, GoodRun(r), NEW O, RunSound(r, O), NEW in, GoodIn(r.w, in),
           NEW k, Awaits(r, O, in, k), k.type = "CallModel", in.type = "ModelResponded"
    PROVE  Goes(r, Ticked(r, in), O) /\ Takes(r, Ticked(r, in), O, k)
<1> DEFINE e == in.ent
           s == CancelSystem(r, in)
           g == GuardrailSystem(s, in)
           t == TurnSystem(g, in)
           b == BudgetSystem(t, in)
           m == CompactionSystem(b, in)
           n == AutonomySystem(m, in)
           o == ToolSystem(n, in)
           h == HumanActionSystem(o, in)
           x == SubagentSystem(h, in)
           z == PeerDriveSystem(x, in)
<1>0. in.type \in AbsorbedInputs
  BY DEF AbsorbedInputs
<1>1. Ticked(r, in) = z
  BY <1>0, Ignored DEF Ticked, Begun, TakenIn, Closed, Moved, Linked
<1>2. in.ent = e /\ k.ent = e /\ e \in DOMAIN r.w.ents
  BY DEF Awaits, Answers, GoodIn, EntInputs
<1>3. /\ r.w.ents[e].act # "Cancelling" =>
            r.w.ents[e].act = "Thinking" /\ k.cmd \in r.w.ents[e].awaits
      /\ Unsent(r.w, e)
  <2> DEFINE c == r.w.ents[e]
  <2>1. WaitsFor(c, k) /\ Shape(c)
    BY <1>2 DEF Awaits, RunSound, Sound, EntSound
  <2> HIDE DEF c, e
  <2>2. c.act \in {"Cancelling", "Thinking"} /\ (c.act = "Thinking" => k.cmd \in c.awaits)
    BY <2>1 DEF WaitsFor, WorkOf
  <2>3. DOMAIN c.slots = {}
    BY <2>1, <2>2 DEF Shape
  <2> QED BY <2>2, <2>3 DEF Unsent, c
<1>4. /\ m = StartCompaction(b, e) /\ n = GateNewSlots(m, e)
      /\ o = Advance(n, e) /\ z = EmitOrDeny(x, e)
  BY DEF CompactionSystem, AutonomySystem, ToolSystem, PeerDriveSystem
<1> HIDE DEF e, s, g, t, b, m, n, o, h, x, z
<1>5. /\ Goes(r, s, O) /\ GoodRun(s) /\ RunSound(s, O) /\ GoodIn(s.w, in)
      /\ Answers(s, O, in, k) /\ Unsent(s.w, e)
      /\ Takes(r, s, O, k) \/ (s = r /\ r.w.ents[k.ent].act # "Cancelling")
  BY <1>0, <1>2, <1>3, AbsorbFirst DEF s
<1>6. /\ Goes(s, g, O) /\ g.w.ents = s.w.ents /\ g.w.nextCmd = s.w.nextCmd /\ g.out = s.out
  BY <1>5, GuardrailGoes DEF g
<1>7. GoodRun(g) /\ RunSound(g, O) /\ GoodIn(g.w, in)
  BY <1>5, <1>6, GoesIn
<1>8. Answers(g, O, in, k) /\ Unsent(g.w, e)
  BY <1>5, <1>6 DEF Answers, Minted, Unsent
<1>9. /\ Goes(g, t, O) /\ Unsent(t.w, e)
      /\ g.w.ents[k.ent].act = "Thinking" /\ k.cmd \in g.w.ents[k.ent].awaits => Takes(g, t, O, k)
  BY <1>2, <1>7, <1>8, TurnSystemGoes DEF t
<1>10. GoodRun(t) /\ RunSound(t, O) /\ GoodIn(t.w, in)
  BY <1>7, <1>9, GoesIn
<1>11. Goes(t, b, O) /\ Unsent(b.w, e)
  BY <1>2, <1>9, <1>10, BudgetGoes DEF b
<1>12. GoodRun(b) /\ RunSound(b, O) /\ GoodIn(b.w, in) /\ e \in DOMAIN b.w.ents
  BY <1>2, <1>10, <1>11, GoesIn DEF GoodIn, EntInputs
<1>13. Goes(b, m, O) /\ Unsent(m.w, e)
  BY <1>4, <1>11, <1>12, StartCompactionGoes
<1>14. GoodRun(m) /\ RunSound(m, O) /\ GoodIn(m.w, in) /\ e \in DOMAIN m.w.ents
  BY <1>2, <1>12, <1>13, GoesIn DEF GoodIn, EntInputs
<1>15. Goes(m, n, O)
  BY <1>4, <1>13, <1>14, GateNewSlotsGoes
<1>16. GoodRun(n) /\ RunSound(n, O) /\ GoodIn(n.w, in) /\ e \in DOMAIN n.w.ents
  BY <1>2, <1>14, <1>15, GoesIn DEF GoodIn, EntInputs
<1>17. Goes(n, o, O)
  BY <1>4, <1>16, AdvanceGoes
<1>18. GoodRun(o) /\ RunSound(o, O) /\ GoodIn(o.w, in)
  BY <1>16, <1>17, GoesIn
<1>19. Goes(o, h, O)
  BY <1>18, RequestHumanGoes DEF h
<1>20. GoodRun(h) /\ RunSound(h, O) /\ GoodIn(h.w, in)
  BY <1>18, <1>19, GoesIn
<1>21. Goes(h, x, O)
  BY <1>20, SubagentGoes DEF x
<1>22. GoodRun(x) /\ RunSound(x, O) /\ e \in DOMAIN x.w.ents
  BY <1>2, <1>20, <1>21, GoesIn DEF GoodIn, EntInputs
<1>23. Goes(x, z, O)
  BY <1>4, <1>22, EmitOrDenyGoes
<1>24. Goes(r, g, O) /\ (Takes(r, s, O, k) => Takes(r, g, O, k))
  BY <1>5, <1>6, GoesOn, TakenOn
<1>25. Takes(r, s, O, k) \/ Takes(g, t, O, k)
  BY <1>2, <1>3, <1>5, <1>6, <1>9
<1>26. Goes(r, t, O) /\ Takes(r, t, O, k)
  BY <1>9, <1>24, <1>25, TakenOn
<1>27. Goes(t, z, O)
  BY <1>11, <1>13, <1>15, <1>17, <1>19, <1>21, <1>23, GoesOn
<1> QED BY <1>1, <1>26, <1>27, TakenOn

-----------------------------------------------------------------------------
\* The shell, and a cancelled entity.

\* The shell owes what it owed, some of it marked to be stopped, and the new work.
LEMMA ShellOwes ==
    ASSUME NEW K \in SUBSET Commands, NEW out
    PROVE  /\ \A k \in K : \E m \in Shell(K, out) :
                 m.cmd = k.cmd /\ m.ent = k.ent /\ m.type = k.type
           /\ \A m \in Shell(K, out) :
                 \/ m \in out /\ m.type \in WorkTypes
                 \/ \E k \in K : /\ m \in Commands
                                 /\ m.cmd = k.cmd /\ m.ent = k.ent /\ m.type = k.type
                                 /\ m = k \/ \E x \in out : x.type \in CancelTypes
                                                             /\ x.cmd = k.cmd
<1> DEFINE stops(k) == k.stop \/ \E x \in out : x.type \in CancelTypes /\ x.cmd = k.cmd
           marked(k) == [k EXCEPT !.stop = stops(k)]
<1>1. Shell(K, out) = {marked(k) : k \in K} \cup {x \in out : x.type \in WorkTypes}
  BY DEF Shell
<1>2. ASSUME NEW k \in K
      PROVE  /\ marked(k) \in Commands /\ marked(k).stop = stops(k)
             /\ marked(k).cmd = k.cmd /\ marked(k).ent = k.ent /\ marked(k).type = k.type
             /\ stops(k) = k.stop => marked(k) = k
  <2>1. stops(k) \in BOOLEAN /\ k \in Commands OBVIOUS
  <2> HIDE DEF stops
  <2> QED BY <2>1 DEF Commands
<1>3. ASSUME NEW k \in K, ~ \E x \in out : x.type \in CancelTypes /\ x.cmd = k.cmd
      PROVE  stops(k) = k.stop
  <2>1. k.stop \in BOOLEAN
    BY DEF Commands
  <2>2. stops(k) <=> k.stop
    BY <1>3
  <2>3. stops(k) \in BOOLEAN OBVIOUS
  <2> HIDE DEF stops
  <2> QED BY <2>1, <2>2, <2>3
<1> HIDE DEF stops, marked
<1>4. \A k \in K : \E m \in Shell(K, out) : m.cmd = k.cmd /\ m.ent = k.ent /\ m.type = k.type
  BY <1>1, <1>2
<1>5. ASSUME NEW m \in Shell(K, out), ~ (m \in out /\ m.type \in WorkTypes)
      PROVE  \E k \in K : /\ m \in Commands
                          /\ m.cmd = k.cmd /\ m.ent = k.ent /\ m.type = k.type
                          /\ m = k \/ \E x \in out : x.type \in CancelTypes /\ x.cmd = k.cmd
  <2>1. PICK k \in K : m = marked(k)
    BY <1>1, <1>5
  <2>2. m = k \/ \E x \in out : x.type \in CancelTypes /\ x.cmd = k.cmd
    BY <1>2, <1>3, <2>1
  <2> QED BY <1>2, <2>1, <2>2
<1> QED BY <1>4, <1>5

\* What is owed stays apart when it is marked.
LEMMA ShellApart ==
    ASSUME NEW K \in SUBSET Commands, \A k, l \in K : k.cmd = l.cmd => k = l, NEW out,
           \A x \in out : x.type \notin WorkTypes
    PROVE  \A m, n \in Shell(K, out) : m.cmd = n.cmd => m = n
<1> DEFINE marked(k) ==
             [k EXCEPT !.stop = @ \/ \E x \in out : x.type \in CancelTypes /\ x.cmd = k.cmd]
<1>1. \A m \in Shell(K, out) : \E k \in K : m = marked(k)
  BY DEF Shell
<1>2. \A k \in K : marked(k).cmd = k.cmd
  BY DEF Commands
<1> HIDE DEF marked
<1> QED BY <1>1, <1>2

\* A tick that cancels nothing adds its work to what is owed.
LEMMA ShellAdds ==
    ASSUME NEW K \in SUBSET Commands, NEW out, \A x \in out : x.type \in WorkTypes
    PROVE  Shell(K, out) = K \cup out
<1>1. \A x \in out : x.type \notin CancelTypes
  BY DEF WorkTypes, CancelTypes
<1> DEFINE marked(k) ==
             [k EXCEPT !.stop = @ \/ \E x \in out : x.type \in CancelTypes /\ x.cmd = k.cmd]
<1>2. ASSUME NEW k \in K
      PROVE  marked(k) = k
  <2> DEFINE b == k.stop \/ \E x \in out : x.type \in CancelTypes /\ x.cmd = k.cmd
  <2>1. k.stop \in BOOLEAN /\ k \in Commands
    BY DEF Commands
  <2>2. b <=> k.stop
    BY <1>1
  <2>3. b \in BOOLEAN OBVIOUS
  <2> HIDE DEF b
  <2>4. b = k.stop
    BY <2>1, <2>2, <2>3
  <2>5. [k EXCEPT !.stop = b] = k
    BY <2>1, <2>4 DEF Commands
  <2> QED BY <2>5 DEF b
<1>3. Shell(K, out) = {marked(k) : k \in K} \cup {x \in out : x.type \in WorkTypes}
  BY DEF Shell
<1>4. {x \in out : x.type \in WorkTypes} = out OBVIOUS
<1> HIDE DEF marked
<1>5. {marked(k) : k \in K} = K
  BY <1>2
<1> QED BY <1>3, <1>4, <1>5

\* The commands an entity that works waits for.
InFlight(c) == IF c.act = "Resolving" THEN SentCmds(c) ELSE c.awaits

\* What cancelling an entity that works changes (CancelSystem::cancel).
LEMMA CancelFields ==
    ASSUME NEW r, GoodRun(r), r.out = {}, NEW e \in DOMAIN r.w.ents,
           NEW c, c = r.w.ents[e], c.act \in {"Thinking", "Compacting", "Resolving"},
           NEW A, A = InFlight(c),
           NEW s, s = Cancel(r, e)
    PROVE  /\ DOMAIN s.w.ents = DOMAIN r.w.ents
           /\ \A f \in DOMAIN r.w.ents \ {e} : s.w.ents[f] = r.w.ents[f]
           /\ s.w.raised = r.w.raised \ HeldRequests(r.w, e) /\ s.w.nextCmd = r.w.nextCmd
           /\ s.w.ents[e].act = IF A = {} THEN "Idle" ELSE "Cancelling"
           /\ s.w.ents[e].awaits = A /\ DOMAIN s.w.ents[e].slots = {}
           /\ \A x \in s.out : x.type \in CancelTypes /\ x.cmd \in A
<1> DEFINE Q == r.w.raised \ HeldRequests(r.w, e)
           v == [r EXCEPT !.w.raised = Q]
           d == [ToIdle(c) EXCEPT !.act = IF A = {} THEN "Idle" ELSE "Cancelling", !.awaits = A]
           p == Put(v, e, d)
           out == CancelCommands(c, e)
<1>1. s = Emit(p, out)
  BY DEF Cancel, InFlight
<1>2. Leads(r, v) /\ v.w.ents = r.w.ents /\ v.w.nextCmd = r.w.nextCmd
  BY RaisedGood
<1>3. v.w.raised = Q /\ v.out = r.out
  <2>1. Q \in SUBSET r.w.raised OBVIOUS
  <2> HIDE DEF Q
  <2>2. v.out = r.out /\ v.w = [r.w EXCEPT !.raised = Q]
    BY DEF GoodRun
  <2> QED BY <2>2 DEF GoodRun, WorldType
<1>4. c \in Components
  BY EntGood
<1>5. ToIdle(c) \in Components /\ ToIdle(c).slots = <<>>
  BY <1>4, IdleGood, EntGood DEF GoodEnt, ToIdle, Components
<1>6. /\ d.act = IF A = {} THEN "Idle" ELSE "Cancelling"
      /\ d.awaits = A /\ d.slots = <<>>
  <2> DEFINE i == ToIdle(c)
  <2>1. i \in Components /\ i.slots = <<>>
    BY <1>5
  <2> HIDE DEF i
  <2>2. d = [i EXCEPT !.act = IF A = {} THEN "Idle" ELSE "Cancelling", !.awaits = A]
    BY DEF i
  <2> HIDE DEF d
  <2> QED BY <2>1, <2>2 DEF Components
<1>7. \A x \in out : x.type \in CancelTypes /\ x.cmd \in A
  <2>1. CASE c.act = "Resolving"
    <3>1. \A x \in out : \E i \in DOMAIN c.slots : \E type \in CancelTypes :
             c.slots[i].st = "sent" /\ x = Command(type, c.slots[i].cmd, e, 0)
      BY <2>1 DEF CancelCommands, CancelTypes
    <3>2. \A i \in DOMAIN c.slots : c.slots[i].st = "sent" => c.slots[i].cmd \in A
      BY <2>1 DEF SentCmds, InFlight
    <3> HIDE DEF out
    <3> QED BY <3>1, <3>2 DEF Command
  <2>2. CASE c.act # "Resolving"
    BY <2>2 DEF CancelCommands, CancelTypes, Command, InFlight
  <2> QED BY <2>1, <2>2
<1> HIDE DEF d, v
<1>8. GoodRun(v)
  BY <1>2 DEF Leads
<1>9. /\ DOMAIN p.w.ents = DOMAIN v.w.ents /\ p.w.ents[e] = d
      /\ \A f \in DOMAIN v.w.ents \ {e} : p.w.ents[f] = v.w.ents[f]
      /\ p.w.raised = v.w.raised /\ p.out = v.out /\ p.w.nextCmd = v.w.nextCmd
  BY <1>2, <1>8, PutFields
<1>10. s.w = p.w /\ s.out = p.out \cup out
  <2>1. p \in [w : {p.w}, out : {p.out}]
    BY <1>8 DEF Put, GoodRun
  <2> HIDE DEF p, out
  <2> QED BY <1>1, <2>1 DEF Emit
<1> HIDE DEF p, out, Q
<1> QED BY <1>2, <1>3, <1>6, <1>7, <1>9, <1>10 DEF Q

\* What is owed for other entities is not marked by a Cancel.
LEMMA OthersUnmarked ==
    ASSUME NEW w, NEW K \in SUBSET Commands, NEW R, Sound(w, K, R), NEW e \in DOMAIN w.ents,
           EntServed(e, w.ents[e], K), Heeds(w.ents[e]),
           NEW out, \A x \in out : /\ x.type \in CancelTypes
                                   /\ \/ x.cmd \in w.ents[e].awaits
                                      \/ x.cmd \in SentCmds(w.ents[e])
    PROVE  \A m \in Shell(K, out) : m.ent # e => m \in K
<1> DEFINE c == w.ents[e]
<1>1. \A x \in out : \E k \in K : k.ent = e /\ k.cmd = x.cmd
  BY DEF EntServed, SentCmds
<1>2. \A k, l \in K : k.cmd = l.cmd => k = l
  BY DEF Sound
<1>3. \A x \in out : x.type \notin WorkTypes
  BY DEF WorkTypes, CancelTypes
<1>4. SUFFICES ASSUME NEW m \in Shell(K, out), m.ent # e
               PROVE  m \in K
  OBVIOUS
<1>5. PICK k \in K : /\ m.cmd = k.cmd /\ m.ent = k.ent
                     /\ m = k \/ \E x \in out : x.type \in CancelTypes /\ x.cmd = k.cmd
  BY <1>3, ShellOwes
<1> QED BY <1>1, <1>2, <1>4, <1>5

\* A cancelled entity waits for what was in flight, which is still owed to it, and asks
\* for nothing any more (Invariant 14).
LEMMA CancelEnt ==
    ASSUME NEW e, NEW c, NEW K \in SUBSET Commands, NEW R, EntSound(e, c, K, R),
           EntServed(e, c, K), c.act \in {"Thinking", "Compacting", "Resolving"},
           "Cancel" \in Controls,
           NEW A, A = InFlight(c),
           NEW d, d.act = IF A = {} THEN "Idle" ELSE "Cancelling", d.awaits = A,
           DOMAIN d.slots = {},
           NEW M, \A k \in K : \E m \in M : m.cmd = k.cmd /\ m.ent = k.ent /\ m.type = k.type,
           \A m \in M : \E k \in K : m.cmd = k.cmd /\ m.ent = k.ent /\ m.type = k.type,
           NEW Q, \A q \in Q : q.ent # e
    PROVE  EntSound(e, d, M, Q) /\ EntServed(e, d, M)
<1>1. Shape(d)
  BY DEF Shape
<1>2. HeldFor(Q, e, d)
  BY DEF HeldFor
<1>3. ASSUME NEW m \in M, m.ent = e
      PROVE  WaitsFor(d, m)
  <2>1. PICK k \in K : m.cmd = k.cmd /\ m.ent = k.ent /\ m.type = k.type OBVIOUS
  <2>2. WaitsFor(c, k) /\ Shape(c)
    BY <1>3, <2>1 DEF EntSound
  <2>3. k.cmd \in A
    <3>1. CASE c.act = "Resolving"
      <4>1. PICK i \in DOMAIN c.slots : c.slots[i].st = "sent" /\ c.slots[i].cmd = k.cmd
        BY <2>2, <3>1 DEF WaitsFor
      <4> QED BY <3>1, <4>1 DEF SentCmds, InFlight
    <3>2. CASE c.act # "Resolving"
      BY <2>2, <3>2 DEF WaitsFor, InFlight
    <3> QED BY <3>1, <3>2
  <2>4. ASSUME k.type = "SendPeer"
        PROVE  PeersCancelled
    <3>1. PICK i \in DOMAIN c.slots : k.type = WorkOf(c.slots[i].kind)
      BY <2>2, <2>4 DEF WaitsFor
    <3>2. c.slots[i].kind = "Peer"
      BY <2>4, <3>1 DEF WorkOf
    <3>3. PeersPlanned
      BY <2>2, <3>2 DEF Shape
    <3> QED BY <3>3 DEF PeersCancelled
  <2> QED BY <2>1, <2>3, <2>4 DEF WaitsFor
<1>4. EntServed(e, d, M)
  <2>1. Heeds(c)
    BY DEF Heeds
  <2>2. ASSUME NEW n \in A
        PROVE  \E m \in M : m.ent = e /\ m.cmd = n
    <3>1. \E k \in K : k.ent = e /\ k.cmd = n
      <4>1. CASE c.act = "Resolving"
        <5>1. PICK i \in DOMAIN c.slots : c.slots[i].st = "sent" /\ c.slots[i].cmd = n
          BY <4>1 DEF SentCmds, InFlight
        <5> QED BY <2>1, <5>1 DEF EntServed
      <4>2. CASE c.act # "Resolving"
        BY <2>1, <4>2 DEF EntServed, InFlight
      <4> QED BY <4>1, <4>2
    <3> QED BY <3>1
  <2> QED BY <2>2 DEF EntServed
<1> QED BY <1>1, <1>2, <1>3, <1>4 DEF EntSound

\* A Cancel leaves every wait sound and served.
LEMMA CancelSound ==
    ASSUME NEW r, GoodRun(r), r.out = {}, NEW K \in SUBSET Commands,
           Sound(r.w, K, r.w.raised), Served(r.w, K), "Cancel" \in Controls,
           NEW e \in DOMAIN r.w.ents, NEW s, s = Cancel(r, e)
    PROVE  Sound(s.w, Shell(K, s.out), s.w.raised) /\ Served(s.w, Shell(K, s.out))
<1> DEFINE c == r.w.ents[e]
           A == InFlight(c)
           M == Shell(K, s.out)
           R == r.w.raised
           Q == s.w.raised
           w == r.w
           v == s.w
<1>1. CASE c.act \notin {"Thinking", "Compacting", "Resolving"}
  <2>1. s = r
    BY <1>1 DEF Cancel
  <2>2. Shell(K, s.out) = K
    BY <2>1, ShellAdds
  <2> QED BY <2>1, <2>2
<1>2. CASE c.act \in {"Thinking", "Compacting", "Resolving"}
  <2>1. /\ DOMAIN v.ents = DOMAIN w.ents
        /\ \A f \in DOMAIN w.ents \ {e} : v.ents[f] = w.ents[f]
        /\ Q = R \ HeldRequests(w, e) /\ v.nextCmd = w.nextCmd
        /\ v.ents[e].act = IF A = {} THEN "Idle" ELSE "Cancelling"
        /\ v.ents[e].awaits = A /\ DOMAIN v.ents[e].slots = {}
        /\ \A x \in s.out : x.type \in CancelTypes /\ x.cmd \in A
    <3> HIDE DEF A
    <3>1. A = InFlight(c)
      BY DEF A
    <3> HIDE DEF c
    <3>2. c = r.w.ents[e]
      BY DEF c
    <3> QED BY <1>2, <3>1, <3>2, CancelFields
  <2>2. EntSound(e, c, K, R) /\ EntServed(e, c, K) /\ Heeds(c)
    BY <1>2 DEF Sound, Served, Heeds
  <2>3. \A m \in M : m.ent # e => m \in K
    <3>1. \A x \in s.out : /\ x.type \in CancelTypes
                           /\ x.cmd \in w.ents[e].awaits \/ x.cmd \in SentCmds(w.ents[e])
      BY <2>1 DEF InFlight
    <3>2. Sound(w, K, R) /\ EntServed(e, w.ents[e], K) /\ Heeds(w.ents[e]) /\ e \in DOMAIN w.ents
      BY <2>2
    <3> DEFINE out == s.out
    <3> HIDE DEF w, R, out
    <3>3. \A x \in out : /\ x.type \in CancelTypes
                         /\ x.cmd \in w.ents[e].awaits \/ x.cmd \in SentCmds(w.ents[e])
      BY <3>1 DEF out
    <3>4. \A m \in Shell(K, out) : m.ent # e => m \in K
      BY <3>2, <3>3, OthersUnmarked
    <3> QED BY <3>4 DEF out
  <2>4. /\ \A k \in K : \E m \in M : m.cmd = k.cmd /\ m.ent = k.ent /\ m.type = k.type
        /\ \A m \in M : \E k \in K : /\ m \in Commands
                                     /\ m.cmd = k.cmd /\ m.ent = k.ent /\ m.type = k.type
    <3>1. \A x \in s.out : x.type \notin WorkTypes
      BY <2>1 DEF WorkTypes, CancelTypes
    <3> QED BY <3>1, ShellOwes
  <2>5. \A q \in Q : q.ent # e
    BY <2>1, <2>2 DEF EntSound, HeldFor, HeldRequests
  <2>6. \A q \in R : q.ent # e => q \in Q
    BY <2>1 DEF HeldRequests
  <2>7. \A k, l \in K : k.cmd = l.cmd => k = l
    BY DEF Sound
  <2>8. /\ \A k \in K : k.ent \in DOMAIN w.ents /\ k.cmd < w.nextCmd
        /\ \A q \in R : q.ent \in DOMAIN w.ents
        /\ \A f \in DOMAIN w.ents : EntSound(f, w.ents[f], K, R) /\ EntServed(f, w.ents[f], K)
    BY DEF Sound, Served
  <2>13. \A m, n \in M : m.cmd = n.cmd => m = n
    <3>1. \A x \in s.out : x.type \notin WorkTypes
      BY <2>1 DEF WorkTypes, CancelTypes
    <3> QED BY <2>7, <3>1, ShellApart
  <2>9. A = InFlight(c) OBVIOUS
  <2> HIDE DEF A, M, R, Q, w, v, c
  <2>10. EntSound(e, v.ents[e], M, Q) /\ EntServed(e, v.ents[e], M)
    <3> DEFINE d == v.ents[e]
    <3>1. /\ d.act = IF A = {} THEN "Idle" ELSE "Cancelling"
          /\ d.awaits = A /\ DOMAIN d.slots = {}
      BY <2>1
    <3> HIDE DEF d
    <3>2. \A m \in M : \E k \in K : m.cmd = k.cmd /\ m.ent = k.ent /\ m.type = k.type
      BY <2>4
    <3>3. \A k \in K : \E m \in M : m.cmd = k.cmd /\ m.ent = k.ent /\ m.type = k.type
      BY <2>4
    <3>4. EntSound(e, d, M, Q) /\ EntServed(e, d, M)
      BY <1>2, <2>2, <2>5, <2>9, <3>1, <3>2, <3>3, CancelEnt
    <3> QED BY <3>4 DEF d
  <2>11. ASSUME NEW f \in DOMAIN w.ents, f # e
         PROVE  EntSound(f, v.ents[f], M, Q) /\ EntServed(f, v.ents[f], M)
    <3> DEFINE b == w.ents[f]
    <3>1. EntSound(f, b, K, R) /\ EntServed(f, b, K) /\ v.ents[f] = b
      BY <2>1, <2>8, <2>11
    <3> HIDE DEF b
    <3>2. HeldFor(Q, f, b)
      <4>1. \A q \in Q : q \in R
        BY <2>1
      <4>2. \A q \in R : q.ent = f => q \in Q
        BY <2>6, <2>11
      <4>3. HeldFor(R, f, b)
        BY <3>1 DEF EntSound
      <4> QED BY <4>1, <4>2, <4>3 DEF HeldFor
    <3>3. \A m \in M : m.ent = f => m \in K
      BY <2>3, <2>11
    <3>4. EntSound(f, b, M, Q)
      BY <3>1, <3>2, <3>3 DEF EntSound
    <3>5. EntServed(f, b, M)
      <4>1. \A k \in K : k.ent = f => k \in M
        BY <2>3, <2>4, <2>7, <2>11
      <4> QED BY <3>1, <4>1 DEF EntServed
    <3> QED BY <3>1, <3>4, <3>5
  <2>12. \A m \in M : m \in Commands /\ m.ent \in DOMAIN v.ents /\ m.cmd < v.nextCmd
    BY <2>1, <2>4, <2>8
  <2>14. \A q \in Q : q.ent \in DOMAIN v.ents
    BY <2>1, <2>8
  <2>15. Sound(v, M, Q)
    BY <2>1, <2>10, <2>11, <2>12, <2>13, <2>14 DEF Sound
  <2>16. Served(v, M)
    BY <2>1, <2>10, <2>11 DEF Served
  <2> QED BY <2>15, <2>16 DEF M, v, Q
<1> QED BY <1>1, <1>2

-----------------------------------------------------------------------------
\* The invariant: whoever waits is owed an answer, and whoever is owed one waits.
Waits == Sound(world, owed, world.raised) /\ Served(world, owed)

\* Who waits for what does not depend on what is owed to nobody.
LEMMA SoundLess ==
    ASSUME NEW w, NEW K, NEW R, Sound(w, K, R), NEW L \in SUBSET K
    PROVE  Sound(w, L, R)
<1>1. \A e \in DOMAIN w.ents : EntSound(e, w.ents[e], L, R)
  BY DEF Sound, EntSound
<1> QED BY <1>1 DEF Sound

\* The run a tick begins with, and the one it ends with.
LEMMA FoldIs ==
    ASSUME GoodRun([w |-> world, out |-> owed]), NEW in, GoodIn(world, in), NEW answered,
           Fold(in, answered)
    PROVE  \E r, s : /\ r.w = world /\ r.out = {} /\ GoodRun(r) /\ GoodIn(r.w, in)
                     /\ s = Ticked(r, in) /\ world' = s.w
                     /\ owed' = Shell(owed \ answered, s.out)
<1> DEFINE r == [w |-> world, out |-> {}]
<1>1. GoodRun(r)
  BY DEF GoodRun
<1>2. Tick(world, in) = {Ticked(r, in)}
  BY TickIsTicked
<1>3. r.w = world /\ r.out = {} OBVIOUS
<1> HIDE DEF r
<1>4. world' = Ticked(r, in).w /\ owed' = Shell(owed \ answered, Ticked(r, in).out)
  BY <1>2 DEF Fold
<1> QED BY <1>1, <1>3, <1>4

\* An input that answers nothing and cancels nothing keeps the invariant.
LEMMA OthersFold ==
    ASSUME GoodRun([w |-> world, out |-> owed]), Waits, NEW in, GoodIn(world, in), Fold(in, {}),
           in.type \in {"Pause", "Resume", "ClearPolicyHalt", "SetAutonomy", "UserMessage",
                        "InteractionAnswer", "ChildReturned", "DriveRequested", "PeerDelivered"},
           in.type = "ChildReturned" => in.child \in Nat
    PROVE  Waits'
<1>1. PICK r, s : /\ r.w = world /\ r.out = {} /\ GoodRun(r) /\ GoodIn(r.w, in)
                  /\ s = Ticked(r, in) /\ world' = s.w
                  /\ owed' = Shell(owed \ {}, s.out)
  BY FoldIs
<1>2. owed \cup r.out = owed /\ owed \ {} = owed
  BY <1>1
<1>3. RunSound(r, owed) /\ Served(r.w, owed \cup r.out)
  BY <1>1, <1>2 DEF Waits, RunSound
<1>4. Goes(r, s, owed)
  BY <1>1, <1>3, OthersGo
<1>5. /\ Sound(s.w, owed \cup s.out, s.w.raised) /\ Served(s.w, owed \cup s.out)
      /\ \A x \in s.out : x.type \in WorkTypes
  BY <1>3, <1>4 DEF Goes, Flows, RunSound
<1>6. owed \in SUBSET Commands
  BY DEF GoodRun
<1>7. owed' = owed \cup s.out
  BY <1>1, <1>2, <1>5, <1>6, ShellAdds
<1> QED BY <1>1, <1>5, <1>7 DEF Waits

\* A Cancel keeps the invariant.
LEMMA CancelFold ==
    ASSUME GoodRun([w |-> world, out |-> owed]), Waits, NEW in, GoodIn(world, in), Fold(in, {}),
           in.type \in {"Cancel"}, "Cancel" \in Controls
    PROVE  Waits'
<1> DEFINE r == [w |-> world, out |-> {}]
           s == Ticked(r, in)
<1>1. /\ r.w = world /\ r.out = {} /\ GoodRun(r) /\ GoodIn(r.w, in)
      /\ world' = s.w /\ owed' = Shell(owed \ {}, s.out)
  <2>1. GoodRun(r) /\ r.w = world /\ r.out = {}
    BY DEF GoodRun
  <2>2. Tick(world, in) = {s}
    BY TickIsTicked
  <2> HIDE DEF r, s
  <2>3. world' = s.w /\ owed' = Shell(owed \ {}, s.out)
    BY <2>2 DEF Fold
  <2> QED BY <2>1, <2>3
<1>2. s = CancelSystem(r, in)
  BY Ignored DEF Ticked, Begun, TakenIn, Closed, Moved, Linked
<1> HIDE DEF r, s
<1>3. s = Cancel(r, in.ent) /\ in.ent \in DOMAIN r.w.ents
  <2>1. CancelSystem(r, in) = Cancel(r, in.ent)
    BY DEF CancelSystem, AbsorbedInputs
  <2>2. in.ent \in DOMAIN r.w.ents
    BY <1>1 DEF GoodIn, EntInputs
  <2> QED BY <1>2, <2>1, <2>2
<1>4. owed \in SUBSET Commands /\ owed \ {} = owed
  BY DEF GoodRun
<1>5. Sound(r.w, owed, r.w.raised) /\ Served(r.w, owed)
  BY <1>1 DEF Waits
<1>6. Sound(s.w, Shell(owed, s.out), s.w.raised) /\ Served(s.w, Shell(owed, s.out))
  BY <1>1, <1>3, <1>4, <1>5, CancelSound
<1> QED BY <1>1, <1>4, <1>6 DEF Waits

\* An answer that fits keeps the invariant: it is taken.
LEMMA AnswerFold ==
    ASSUME GoodRun([w |-> world, out |-> owed]), Waits, NEW k \in owed, NEW in,
           GoodIn(world, in), Fold(in, {k}), in.ent = k.ent, in.cmd = k.cmd, Planned(in),
           Fits(in, k)
    PROVE  Waits'
<1>1. PICK r, s : /\ r.w = world /\ r.out = {} /\ GoodRun(r) /\ GoodIn(r.w, in)
                  /\ s = Ticked(r, in) /\ world' = s.w
                  /\ owed' = Shell(owed \ {k}, s.out)
  BY FoldIs
<1> DEFINE O == owed \ {k}
<1>2. /\ O \cup r.out = O /\ {k} \cup (O \cup r.out) = owed /\ O \in SUBSET owed
  BY <1>1
<1>3. Sound(r.w, owed, r.w.raised) /\ Served(r.w, owed)
  BY <1>1 DEF Waits
<1>4. RunSound(r, O)
  <2>1. Sound(r.w, O, r.w.raised)
    BY <1>2, <1>3, SoundLess
  <2> QED BY <1>1, <1>2, <2>1 DEF RunSound
<1>5. Awaits(r, O, in, k)
  <2>1. k.ent \in DOMAIN r.w.ents /\ k.cmd < r.w.nextCmd /\ k.cmd \in Nat
    BY <1>1, OwedGood
  <2>2. \A l \in O \cup r.out : l.cmd # k.cmd
    BY <1>2, <1>3 DEF Sound
  <2>3. WaitsFor(r.w.ents[k.ent], k)
    BY <1>3, <2>1 DEF Sound, EntSound
  <2> QED BY <2>1, <2>2, <2>3 DEF Awaits, Answers, Minted
<1> HIDE DEF O
<1>6. Goes(r, s, O) /\ Takes(r, s, O, k)
  BY <1>1, <1>4, <1>5, ToolAnswered, HumanAnswered, PeerAnswered, CancelledAnswered,
     CompactAnswered, FailureAnswered, ResponseAnswered DEF Fits
<1>7. /\ Sound(s.w, O \cup s.out, s.w.raised) /\ Served(s.w, O \cup s.out)
      /\ \A x \in s.out : x.type \in WorkTypes
  BY <1>2, <1>3, <1>6 DEF Goes, Flows, RunSound, Takes
<1>8. O \in SUBSET Commands
  BY <1>2 DEF GoodRun
<1>9. owed' = O \cup s.out
  BY <1>1, <1>7, <1>8, ShellAdds DEF O
<1> QED BY <1>1, <1>7, <1>9 DEF Waits

\* A fresh session waits for nothing.
LEMMA InitWaits == Init => Waits
<1> SUFFICES ASSUME Init
             PROVE  Waits
  OBVIOUS
<1> DEFINE c == Newborn(None, 0, <<>>)
<1>1. c.act = "Idle" /\ c.awaits = {} /\ c.slots = <<>>
  BY DEF Newborn
<1> HIDE DEF c
<1>2. world.ents = [e \in {Root} |-> c] /\ world.raised = {} /\ owed = {}
  BY DEF Init, Genesis, c
<1>3. DOMAIN c.slots = {}
  BY <1>1
<1>4. Shape(c)
  BY <1>1, <1>3 DEF Shape
<1>5. HeldFor({}, Root, c)
  BY <1>3 DEF HeldFor
<1>6. EntSound(Root, c, {}, {}) /\ EntServed(Root, c, {})
  BY <1>1, <1>3, <1>4, <1>5 DEF EntSound, EntServed
<1>7. DOMAIN world.ents = {Root} /\ world.ents[Root] = c
  BY <1>2
<1>8. Sound(world, {}, {}) /\ Served(world, {})
  BY <1>6, <1>7 DEF Sound, Served
<1> QED BY <1>2, <1>8 DEF Waits

\* What a step folds keeps the invariant.
LEMMA ComesWait ==
    ASSUME GoodRun([w |-> world, out |-> owed]), Waits, NEW in, NEW a, Comes(in, a)
    PROVE  Waits'
<1>1. GoodIn(world, in) /\ Fold(in, a)
  BY DEF Comes
<1>2. ASSUME NEW k \in owed, a = {k}, in.ent = k.ent, in.cmd = k.cmd, Planned(in), Fits(in, k)
      PROVE  Waits'
  BY <1>1, <1>2, AnswerFold
<1>3. CASE /\ a = {} /\ in.type \in Calls
           /\ in.type = "ChildReturned" => in \in ChildReturns(world)
  <2>1. in.type = "ChildReturned" => in.child \in Nat
    BY <1>3 DEF ChildReturns, GoodRun, WorldType
  <2> QED BY <1>1, <1>3, <2>1, OthersFold DEF Calls
<1>4. CASE a = {} /\ in.type = "Cancel" /\ "Cancel" \in Controls
  BY <1>1, <1>4, CancelFold
<1> QED BY <1>2, <1>3, <1>4 DEF Comes

\* Every step keeps both invariants.
LEMMA NextWaits == IInv /\ Waits /\ [Next]_vars => Waits'
<1> SUFFICES ASSUME IInv, Waits, [Next]_vars
             PROVE  Waits'
  OBVIOUS
<1>1. GoodRun([w |-> world, out |-> owed]) /\ msgs \in Nat
  BY DEF IInv
<1>2. CASE Next
  BY <1>1, <1>2, NextComes, ComesWait
<1>3. CASE UNCHANGED vars
  BY <1>3 DEF vars, Waits
<1> QED BY <1>2, <1>3

\* What the invariant says of held slots and their requests.
LEMMA HeldWaits == Waits => HeldIsRaised
<1> SUFFICES ASSUME Waits
             PROVE  HeldIsRaised
  OBVIOUS
<1> DEFINE R == world.raised
<1>1. \A e \in DOMAIN world.ents : HeldFor(R, e, world.ents[e])
  BY DEF Waits, Sound, EntSound
<1>2. ASSUME NEW q \in R
      PROVE  /\ q.ent \in Ents /\ q.turn = world.ents[q.ent].turn
             /\ q.slot \in DOMAIN Slots(q.ent) /\ Slots(q.ent)[q.slot].st = "held"
  <2>1. q.ent \in DOMAIN world.ents
    BY DEF Waits, Sound
  <2>2. HeldFor(R, q.ent, world.ents[q.ent])
    BY <1>1, <2>1
  <2> HIDE DEF R
  <2> QED BY <2>1, <2>2 DEF HeldFor, Ents, Slots
<1>3. ASSUME NEW e \in Ents, NEW i \in DOMAIN Slots(e), Slots(e)[i].st = "held"
      PROVE  Cardinality({q \in R : q.ent = e /\ q.slot = i}) = 1
  <2>1. HeldFor(R, e, world.ents[e])
    BY <1>1 DEF Ents
  <2> HIDE DEF R
  <2>2. PICK q \in R : q.ent = e /\ q.slot = i
    BY <1>3, <2>1 DEF HeldFor, Slots
  <2>3. \A p \in R : p.ent = e /\ p.slot = i => p = q
    BY <2>1, <2>2 DEF HeldFor
  <2>4. {p \in R : p.ent = e /\ p.slot = i} = {q}
    BY <2>2, <2>3
  <2> QED BY <2>4, FS_Singleton
<1> QED BY <1>2, <1>3 DEF HeldIsRaised

\* What it says of the answers owed, unless cancelled turns may wait for peers.
LEMMA MatchWaits == ASSUME ~ PeersCancelled, Waits PROVE WaitsMatchOwed
<1> SUFFICES ASSUME NEW e \in Ents
             PROVE  Awaited(e) = {k.cmd : k \in {x \in owed : x.ent = e}}
  BY DEF WaitsMatchOwed
<1> DEFINE c == world.ents[e]
<1>1. EntSound(e, c, owed, world.raised) /\ EntServed(e, c, owed)
  BY DEF Waits, Sound, Served, Ents
<1>2. Awaited(e) = c.awaits \cup SentCmds(c)
  BY DEF Awaited
<1> HIDE DEF c
<1>3. ASSUME NEW n \in c.awaits \cup SentCmds(c)
      PROVE  \E k \in owed : k.ent = e /\ k.cmd = n
  BY <1>1, <1>3 DEF EntServed, Heeds, SentCmds
<1>4. ASSUME NEW k \in owed, k.ent = e
      PROVE  k.cmd \in c.awaits \cup SentCmds(c)
  <2>1. WaitsFor(c, k)
    BY <1>1, <1>4 DEF EntSound
  <2> QED BY <2>1 DEF WaitsFor, SentCmds
<1> QED BY <1>2, <1>3, <1>4

-----------------------------------------------------------------------------
\* In every reachable state, for all limits, plans, controls and bounds, a slot is held iff
\* exactly one approval request of its turn is raised: no tool waits for an approval nobody
\* can give, and no answer can run a tool that does not wait (AutonomySystem, CancelSystem).
THEOREM HeldAreRaised == Spec => []HeldIsRaised
<1>1. Init => IInv /\ Waits
  BY InitGood, InitWaits
<1>2. IInv /\ Waits /\ [Next]_vars => (IInv /\ Waits)'
  BY NextGood, NextWaits
<1> QED BY <1>1, <1>2, HeldWaits, PTL DEF Spec

\* In every reachable state an entity waits exactly for the answers the shell owes it, if no
\* plan drives a peer or no turn is cancelled: otherwise the outcome of the drive is matched
\* by no System once its turn is cancelled (Activity::Cancelling, SlotState::Pending).
THEOREM WaitsAreOwed == ASSUME ~ PeersCancelled PROVE Spec => []WaitsMatchOwed
<1>1. Init => IInv /\ Waits
  BY InitGood, InitWaits
<1>2. IInv /\ Waits /\ [Next]_vars => (IInv /\ Waits)'
  BY NextGood, NextWaits
<1>3. Waits => WaitsMatchOwed
  BY MatchWaits
<1> QED BY <1>1, <1>2, <1>3, PTL DEF Spec
-----------------------------------------------------------------------------
\* What a closed gate holds back.

\* From w to v no entity's gate moves, and a child is born behind its parent's open gate.
Kin(w, v) ==
    /\ \A e \in DOMAIN w.ents :
          v.ents[e].halt = w.ents[e].halt /\ v.ents[e].parent = w.ents[e].parent
    /\ \A e \in DOMAIN v.ents \ DOMAIN w.ents :
          v.ents[e].parent \in DOMAIN v.ents /\ GateOpen(v, v.ents[e].parent)

\* From r to s no gate moves, and the work that is started is behind an open gate or is in X.
Minds(r, s, X) ==
    /\ Leads(r, s)
    /\ s.w.holds = r.w.holds
    /\ Kin(r.w, s.w)
    /\ r.out \subseteq s.out
    /\ \A k \in s.out \ r.out : k.type \in WorkTypes => GateOpen(s.w, k.ent) \/ k \in X

\* A System that ignores its input minds the gates.
LEMMA MindsSelf == ASSUME NEW r, GoodRun(r), NEW X PROVE Minds(r, r, X)
BY LeadsSelf DEF Minds, Kin

\* Systems that mind the gates compose: what was started stays behind an open one.
LEMMA MindsOn ==
    ASSUME NEW r, NEW s, NEW t, NEW X, Minds(r, s, X), Minds(s, t, X)
    PROVE  Minds(r, t, X)
<1>1. Leads(r, t) /\ DOMAIN r.w.ents \subseteq DOMAIN s.w.ents
  BY LeadsOn DEF Minds, Leads
<1>2. ASSUME NEW k \in t.out \ r.out, k.type \in WorkTypes, k \notin X
      PROVE  GateOpen(t.w, k.ent)
  <2>1. CASE k \in s.out
    <3>1. GateOpen(s.w, k.ent) /\ k.ent \in DOMAIN s.w.ents
      BY <1>2, <2>1 DEF Minds, Leads, GoodRun
    <3> QED BY <3>1 DEF Minds, Kin, GateOpen
  <2>2. CASE k \notin s.out
    BY <1>2, <2>2 DEF Minds
  <2> QED BY <2>1, <2>2
<1>3. Kin(r.w, t.w)
  BY <1>1 DEF Minds, Leads, Kin, GateOpen
<1> QED BY <1>1, <1>2, <1>3 DEF Minds

\* A Put leaves the world's gate and the policy alone.
LEMMA PutRest ==
    ASSUME NEW r, GoodRun(r), NEW e, NEW c
    PROVE  Put(r, e, c).w.holds = r.w.holds /\ Put(r, e, c).w.ask = r.w.ask
<1>1. Put(r, e, c).w = [r.w EXCEPT !.ents[e] = c]
  BY DEF GoodRun, Put
<1> QED BY <1>1 DEF GoodRun, WorldType

\* Components with the same halt may replace those of any entity.
LEMMA PutMinds ==
    ASSUME NEW r, GoodRun(r), NEW e \in DOMAIN r.w.ents, NEW c, GoodEnt(r.w, c),
           c.halt = r.w.ents[e].halt, c.parent = r.w.ents[e].parent, NEW X
    PROVE  Minds(r, Put(r, e, c), X)
<1>1. Leads(r, Put(r, e, c))
  BY PutLeads
<1>2. /\ Put(r, e, c).w.holds = r.w.holds /\ Put(r, e, c).out = r.out
      /\ Kin(r.w, Put(r, e, c).w)
  BY PutFields, PutRest DEF Kin
<1> QED BY <1>1, <1>2 DEF Minds

\* Settling slots closes and opens no gate.
LEMMA SettleMinds ==
    ASSUME NEW r, GoodRun(r), NEW e \in DOMAIN r.w.ents, NEW I, NEW err \in BOOLEAN, NEW X
    PROVE  Minds(r, Settle(r, e, I, err), X)
<1> DEFINE d == SettleSlots(r.w.ents[e], I, err)
<1>1. GoodEnt(r.w, d)
  BY SettleSlotsGood DEF GoodRun, WorldType
<1>2. Settle(r, e, I, err) = Put(r, e, d)
  BY DEF Settle
<1>3. d.halt = r.w.ents[e].halt /\ d.parent = r.w.ents[e].parent
  <2>1. r.w.ents[e] \in Components
    BY EntGood
  <2> QED BY <2>1 DEF SettleSlots, Components
<1> HIDE DEF d
<1> QED BY <1>1, <1>2, <1>3, PutMinds

\* What a Think changes: the components of e, and one CallModel for it.
LEMMA ThinkFields ==
    ASSUME NEW r, GoodRun(r), NEW e \in DOMAIN r.w.ents, NEW c, c \in Components,
           NEW s, s = Think(r, e, c)
    PROVE  /\ DOMAIN s.w.ents = DOMAIN r.w.ents
           /\ \A f \in DOMAIN r.w.ents \ {e} : s.w.ents[f] = r.w.ents[f]
           /\ s.w.ents[e] = ToWaiting(c, "Thinking", r.w.nextCmd)
           /\ s.w.ents[e].halt = c.halt /\ s.w.ents[e].parent = c.parent
           /\ DOMAIN s.w.ents[e].slots = {} /\ s.w.ents[e].slots = <<>>
           /\ s.w.holds = r.w.holds /\ s.w.ask = r.w.ask /\ s.w.raised = r.w.raised
           /\ s.out = r.out \cup {Command("CallModel", r.w.nextCmd, e, 0)}
<1> DEFINE m == Mint(r, 1)
           d == ToWaiting(c, "Thinking", r.w.nextCmd)
           p == Put(m, e, d)
           x == Command("CallModel", r.w.nextCmd, e, 0)
<1>1. GoodRun(m) /\ m.w.ents = r.w.ents /\ m.out = r.out /\ m.w.raised = r.w.raised
  BY MintGood
<1>2. m.w.holds = r.w.holds /\ m.w.ask = r.w.ask
  <2>1. m.w = [r.w EXCEPT !.nextCmd = @ + 1]
    BY DEF GoodRun, Mint
  <2> QED BY <2>1 DEF GoodRun, WorldType
<1>3. d.halt = c.halt /\ d.parent = c.parent /\ d.slots = <<>> /\ DOMAIN d.slots = {}
  BY DEF ToWaiting, ToIdle, Components
<1>4. s = Emit(p, {x})
  BY DEF Think
<1> HIDE DEF m, d, x
<1>5. e \in DOMAIN m.w.ents
  BY <1>1
<1>6. /\ DOMAIN p.w.ents = DOMAIN r.w.ents /\ p.w.ents[e] = d /\ p.out = r.out
      /\ \A f \in DOMAIN r.w.ents \ {e} : p.w.ents[f] = r.w.ents[f]
      /\ p.w.raised = r.w.raised
  BY <1>1, <1>5, PutFields
<1>7. p.w.holds = r.w.holds /\ p.w.ask = r.w.ask
  BY <1>1, <1>2, PutRest
<1>8. s.w = p.w /\ s.out = p.out \cup {x}
  BY <1>4 DEF Emit, p, Put
<1> QED BY <1>3, <1>6, <1>7, <1>8 DEF d, x

\* A CallModel is emitted behind an open gate, or is exempt.
LEMMA ThinkMinds ==
    ASSUME NEW r, GoodRun(r), NEW e \in DOMAIN r.w.ents, NEW c, GoodEnt(r.w, c),
           c.halt = r.w.ents[e].halt, c.parent = r.w.ents[e].parent, NEW X,
           GateOpen(r.w, e) \/ Command("CallModel", r.w.nextCmd, e, 0) \in X
    PROVE  Minds(r, Think(r, e, c), X)
<1> DEFINE s == Think(r, e, c)
<1>1. Leads(r, s)
  BY ThinkGood
<1>2. c \in Components
  BY DEF GoodEnt
<1>3. /\ \A f \in DOMAIN r.w.ents \ {e} : s.w.ents[f] = r.w.ents[f]
      /\ s.w.ents[e].halt = c.halt /\ s.w.ents[e].parent = c.parent
      /\ s.w.holds = r.w.holds /\ DOMAIN s.w.ents = DOMAIN r.w.ents
      /\ s.out = r.out \cup {Command("CallModel", r.w.nextCmd, e, 0)}
  BY <1>2, ThinkFields
<1>4. Command("CallModel", r.w.nextCmd, e, 0).ent = e
  BY DEF Command
<1> HIDE DEF s
<1>5. Kin(r.w, s.w)
  BY <1>3 DEF Kin
<1>6. ASSUME NEW k \in s.out \ r.out
      PROVE  GateOpen(s.w, k.ent) \/ k \in X
  <2>1. k = Command("CallModel", r.w.nextCmd, e, 0)
    BY <1>3
  <2>2. GateOpen(r.w, e) => GateOpen(s.w, e)
    BY <1>3 DEF GateOpen
  <2> QED BY <1>4, <2>1, <2>2
<1>7. s.w.holds = r.w.holds /\ r.out \subseteq s.out
  BY <1>3
<1> QED BY <1>1, <1>5, <1>6, <1>7 DEF Minds, s

\* What a Dispatch changes: the slots of I, and a command of the type for each.
Sends(r, s, e, I, type) ==
    /\ DOMAIN s.w.ents = DOMAIN r.w.ents
    /\ \A f \in DOMAIN r.w.ents \ {e} : s.w.ents[f] = r.w.ents[f]
    /\ s.w.ents[e].halt = r.w.ents[e].halt /\ s.w.ents[e].act = r.w.ents[e].act
    /\ s.w.ents[e].turn = r.w.ents[e].turn /\ s.w.ents[e].parent = r.w.ents[e].parent
    /\ s.w.ents[e].hist = r.w.ents[e].hist /\ s.w.ents[e].awaits = r.w.ents[e].awaits
    /\ DOMAIN s.w.ents[e].slots = DOMAIN r.w.ents[e].slots
    /\ \A i \in DOMAIN r.w.ents[e].slots : i \notin I =>
          s.w.ents[e].slots[i] = r.w.ents[e].slots[i]
    /\ \A i \in I : /\ s.w.ents[e].slots[i].st = "sent"
                    /\ s.w.ents[e].slots[i].kind = r.w.ents[e].slots[i].kind
                    /\ s.w.ents[e].slots[i].child = r.w.ents[e].slots[i].child
    /\ s.w.holds = r.w.holds /\ s.w.ask = r.w.ask /\ s.w.raised = r.w.raised
    /\ r.out \subseteq s.out
    /\ \A x \in s.out \ r.out :
          x.type = type /\ x.ent = e /\ \E i \in I : s.w.ents[e].slots[i].cmd = x.cmd
    /\ I = {} => s.out = r.out

\* A Dispatch sends its slots.
LEMMA DispatchSends ==
    ASSUME NEW r, GoodRun(r), NEW e \in DOMAIN r.w.ents,
           NEW I \in SUBSET DOMAIN r.w.ents[e].slots, NEW type \in WorkTypes
    PROVE  Sends(r, Dispatch(r, e, I, type), e, I, type)
<1> DEFINE s == Dispatch(r, e, I, type)
           c == r.w.ents[e]
           d == s.w.ents[e]
           k == r.w.nextCmd
           m == Mint(r, Cardinality(I))
           b == SendSlots(c, I, k)
           p == Put(m, e, b)
           X == {Command(type, k + Rank(i, I), e, 0) : i \in I}
<1>0. c \in Components /\ Cardinality(I) \in Nat
  <2>1. c \in Components
    BY EntGood
  <2> QED BY <2>1, EntFields, RankType
<1>1. GoodRun(m) /\ m.w.ents = r.w.ents /\ m.out = r.out /\ m.w.raised = r.w.raised
  BY <1>0, MintGood
<1>2. m.w.holds = r.w.holds /\ m.w.ask = r.w.ask
  <2>1. m.w = [r.w EXCEPT !.nextCmd = @ + Cardinality(I)]
    BY DEF GoodRun, Mint
  <2> QED BY <2>1 DEF GoodRun, WorldType
<1>3. /\ b.halt = c.halt /\ b.act = c.act /\ b.turn = c.turn /\ b.parent = c.parent
      /\ b.hist = c.hist /\ b.awaits = c.awaits
      /\ b.slots = [i \in DOMAIN c.slots |->
                      IF i \in I THEN [c.slots[i] EXCEPT !.st = "sent", !.cmd = k + Rank(i, I)]
                      ELSE c.slots[i]]
  BY <1>0 DEF SendSlots, Components
<1>4. /\ DOMAIN b.slots = DOMAIN c.slots
      /\ \A i \in DOMAIN c.slots : i \notin I => b.slots[i] = c.slots[i]
  BY <1>3
<1>5. ASSUME NEW i \in I
      PROVE  /\ b.slots[i].st = "sent" /\ b.slots[i].kind = c.slots[i].kind
             /\ b.slots[i].child = c.slots[i].child /\ b.slots[i].cmd = k + Rank(i, I)
  <2>1. b.slots[i] = [c.slots[i] EXCEPT !.st = "sent", !.cmd = k + Rank(i, I)]
    BY <1>3
  <2>2. c.slots[i] \in ToolSlots
    BY <1>0, EntFields
  <2> QED BY <2>1, <2>2 DEF ToolSlots
<1>6. /\ \A x \in X : x.type = type /\ x.ent = e /\ \E i \in I : x.cmd = k + Rank(i, I)
      /\ I = {} => X = {}
  BY DEF Command
<1>7. s = Emit(p, X)
  BY DEF Dispatch
<1> HIDE DEF m, b, X, s
<1>8. e \in DOMAIN m.w.ents
  BY <1>1
<1>9. /\ DOMAIN p.w.ents = DOMAIN r.w.ents /\ p.w.ents[e] = b /\ p.out = r.out
      /\ \A f \in DOMAIN r.w.ents \ {e} : p.w.ents[f] = r.w.ents[f]
      /\ p.w.raised = r.w.raised
  BY <1>1, <1>8, PutFields
<1>10. p.w.holds = r.w.holds /\ p.w.ask = r.w.ask
  BY <1>1, <1>2, PutRest
<1>11. s.w = p.w /\ s.out = p.out \cup X
  BY <1>7 DEF Emit, p, Put
<1>12. d = b
  BY <1>9, <1>11
<1>13. \A x \in s.out \ r.out :
          x.type = type /\ x.ent = e /\ \E i \in I : d.slots[i].cmd = x.cmd
  BY <1>5, <1>6, <1>9, <1>11, <1>12
<1>14. I = {} => s.out = r.out
  BY <1>6, <1>9, <1>11
<1>15. /\ DOMAIN s.w.ents = DOMAIN r.w.ents
       /\ \A f \in DOMAIN r.w.ents \ {e} : s.w.ents[f] = r.w.ents[f]
       /\ s.w.holds = r.w.holds /\ s.w.ask = r.w.ask /\ s.w.raised = r.w.raised
       /\ r.out \subseteq s.out
  BY <1>9, <1>10, <1>11
<1>16. /\ d.halt = c.halt /\ d.act = c.act /\ d.turn = c.turn /\ d.parent = c.parent
       /\ d.hist = c.hist /\ d.awaits = c.awaits /\ DOMAIN d.slots = DOMAIN c.slots
       /\ \A i \in DOMAIN c.slots : i \notin I => d.slots[i] = c.slots[i]
  BY <1>3, <1>4, <1>12
<1>17. \A i \in I : /\ d.slots[i].st = "sent" /\ d.slots[i].kind = c.slots[i].kind
                    /\ d.slots[i].child = c.slots[i].child
  BY <1>5, <1>12
<1> HIDE DEF p
<1> QED BY <1>13, <1>14, <1>15, <1>16, <1>17 DEF Sends, s

\* Slots are dispatched behind an open gate, or their commands are exempt.
LEMMA DispatchMinds ==
    ASSUME NEW r, GoodRun(r), NEW e \in DOMAIN r.w.ents,
           NEW I \in SUBSET DOMAIN r.w.ents[e].slots, NEW type \in WorkTypes, NEW X,
           \/ GateOpen(r.w, e)
           \/ \A x \in Dispatch(r, e, I, type).out : x.type = type => x \in X
    PROVE  Minds(r, Dispatch(r, e, I, type), X)
<1> DEFINE s == Dispatch(r, e, I, type)
<1>1. Leads(r, s)
  BY DispatchGood
<1>2. /\ \A f \in DOMAIN r.w.ents \ {e} : s.w.ents[f] = r.w.ents[f]
      /\ s.w.ents[e].halt = r.w.ents[e].halt /\ s.w.ents[e].parent = r.w.ents[e].parent
      /\ DOMAIN s.w.ents = DOMAIN r.w.ents
      /\ s.w.holds = r.w.holds /\ r.out \subseteq s.out
      /\ \A x \in s.out \ r.out : x.type = type /\ x.ent = e
  <2>1. Sends(r, s, e, I, type)
    BY DispatchSends
  <2> HIDE DEF s
  <2> QED BY <2>1 DEF Sends
<1>3. GateOpen(r.w, e) \/ \A x \in s.out : x.type = type => x \in X OBVIOUS
<1> HIDE DEF s
<1>4. Kin(r.w, s.w)
  BY <1>2 DEF Kin
<1>5. GateOpen(r.w, e) => GateOpen(s.w, e)
  BY <1>2 DEF GateOpen
<1>6. ASSUME NEW k \in s.out \ r.out
      PROVE  GateOpen(s.w, k.ent) \/ k \in X
  BY <1>2, <1>3, <1>5
<1> QED BY <1>1, <1>2, <1>4, <1>6 DEF Minds, s

\* A turn goes on behind an open gate only.
LEMMA AdvanceMinds ==
    ASSUME NEW r, GoodRun(r), NEW e \in DOMAIN r.w.ents, NEW X
    PROVE  Minds(r, Advance(r, e), X)
<1> DEFINE I == FreshSlots(r.w, e, "Local")
           s == Dispatch(r, e, I, "RunTool")
           c == s.w.ents[e]
<1>1. Advance(r, e) = IF ~ GateOpen(r.w, e) THEN r
                      ELSE IF c.slots # <<>> /\ Pending(s.w, e) = {}
                      THEN Think(s, e, WithResults(c)) ELSE s
  BY DEF Advance
<1>2. CASE ~ GateOpen(r.w, e)
  BY <1>1, <1>2, MindsSelf
<1>3. CASE GateOpen(r.w, e)
  <2>1. I \in SUBSET DOMAIN r.w.ents[e].slots
    BY SomeSlots
  <2>2. "RunTool" \in WorkTypes
    BY DEF WorkTypes
  <2> HIDE DEF I
  <2>3. Minds(r, s, X) /\ DOMAIN s.w.ents = DOMAIN r.w.ents
    BY <1>3, <2>1, <2>2, DispatchMinds, DispatchGood
  <2> HIDE DEF s
  <2>4. GoodRun(s) /\ e \in DOMAIN s.w.ents /\ GateOpen(s.w, e)
    BY <1>3, <2>3 DEF Minds, Kin, Leads, GateOpen
  <2>5. c \in Components /\ GoodEnt(s.w, c)
    BY <2>4, EntGood
  <2> HIDE DEF c
  <2>6. /\ GoodEnt(s.w, WithResults(c))
        /\ WithResults(c).halt = c.halt /\ WithResults(c).parent = c.parent
    <3>1. Append(c.hist, Msg("results", c.turn)) \in Seq(Msgs)
      BY <2>5, EntFields DEF Msg, Msgs, Roles
    <3>2. /\ WithResults(c) \in Components /\ WithResults(c).parent = c.parent
          /\ WithResults(c).awaits = c.awaits /\ WithResults(c).slots = c.slots
          /\ WithResults(c).halt = c.halt
      BY <2>5, <3>1 DEF WithResults, Components
    <3> QED BY <2>5, <3>2 DEF GoodEnt
  <2>7. Minds(s, Think(s, e, WithResults(c)), X)
    BY <2>4, <2>6, ThinkMinds DEF c
  <2> QED BY <1>1, <1>3, <2>3, <2>7, MindsOn
<1> QED BY <1>2, <1>3

\* What minds the gates is good, and the input is still fit for it.
LEMMA MindsIn ==
    ASSUME NEW r, NEW s, NEW X, Minds(r, s, X), NEW in, GoodIn(r.w, in)
    PROVE  GoodRun(s) /\ GoodIn(s.w, in) /\ DOMAIN r.w.ents \subseteq DOMAIN s.w.ents
<1>1. Leads(r, s)
  BY DEF Minds
<1> QED BY <1>1, GoodInStays DEF Leads

\* A step that only replaces components, and not their halt.
LEMMA KeptMinds ==
    ASSUME NEW r, GoodRun(r), NEW e \in DOMAIN r.w.ents, NEW c, Leads(r, Put(r, e, c)),
           c.halt = r.w.ents[e].halt, c.parent = r.w.ents[e].parent, NEW X
    PROVE  Minds(r, Put(r, e, c), X)
<1>1. /\ Put(r, e, c).w.holds = r.w.holds /\ Put(r, e, c).out = r.out
      /\ Kin(r.w, Put(r, e, c).w)
  BY PutFields, PutRest DEF Kin
<1> QED BY <1>1 DEF Minds

\* Results and denials settle slots, and the turn goes on behind an open gate.
LEMMA SettleAdvanceMinds ==
    ASSUME NEW r, GoodRun(r), NEW e \in DOMAIN r.w.ents, NEW I, NEW err \in BOOLEAN, NEW X
    PROVE  Minds(r, Advance(Settle(r, e, I, err), e), X)
<1> DEFINE s == Settle(r, e, I, err)
<1>1. Minds(r, s, X)
  BY SettleMinds
<1>2. GoodRun(s) /\ e \in DOMAIN s.w.ents
  BY SettleGood DEF Leads
<1> HIDE DEF s
<1>3. Minds(s, Advance(s, e), X)
  BY <1>2, AdvanceMinds
<1> QED BY <1>1, <1>3, MindsOn DEF s

\* Fresh slots are dispatched behind an open gate, and the turn goes on.
LEMMA DispatchAdvanceMinds ==
    ASSUME NEW r, GoodRun(r), NEW e \in DOMAIN r.w.ents,
           NEW I \in SUBSET DOMAIN r.w.ents[e].slots, NEW type \in WorkTypes, NEW X,
           \/ GateOpen(r.w, e)
           \/ \A x \in Dispatch(r, e, I, type).out : x.type = type => x \in X
    PROVE  Minds(r, Advance(Dispatch(r, e, I, type), e), X)
<1> DEFINE s == Dispatch(r, e, I, type)
<1>1. Minds(r, s, X)
  BY DispatchMinds
<1>2. GoodRun(s) /\ e \in DOMAIN s.w.ents
  BY DispatchGood DEF Leads
<1> HIDE DEF s
<1>3. Minds(s, Advance(s, e), X)
  BY <1>2, AdvanceMinds
<1> QED BY <1>1, <1>3, MindsOn DEF s

\* A message is parked, or starts a turn behind an open gate (systems/steering.rs, intake.rs).
LEMMA SteeringMinds ==
    ASSUME NEW r, GoodRun(r), NEW in, GoodIn(r.w, in), NEW X
    PROVE  Minds(r, SteeringSystem(r, in), X)
<1> DEFINE e == in.to
           c == r.w.ents[e]
           x == BoundedEnqueue(c.inbox, in.msg, LimitOf(e, InboxCapacity))
           d == [c EXCEPT !.inbox = x]
<1>1. CASE in.type = "UserMessage" /\ c.act # "Idle"
  <2>1. e \in DOMAIN r.w.ents
    BY <1>1 DEF GoodIn
  <2>2. c \in Components
    BY <2>1, EntGood
  <2>3. SteeringSystem(r, in) = Put(r, e, d)
    BY <1>1 DEF SteeringSystem
  <2>4. Leads(r, SteeringSystem(r, in))
    BY SteeringGood
  <2>5. d.halt = c.halt /\ d.parent = c.parent
    BY <2>2 DEF Components
  <2> HIDE DEF d
  <2> QED BY <2>1, <2>3, <2>4, <2>5, KeptMinds
<1>2. CASE ~ (in.type = "UserMessage" /\ c.act # "Idle")
  BY <1>2, MindsSelf DEF SteeringSystem
<1> QED BY <1>1, <1>2

\* A message starts a turn behind an open gate only (systems/intake.rs).
LEMMA IntakeMinds ==
    ASSUME NEW r, GoodRun(r), NEW in, GoodIn(r.w, in), NEW X
    PROVE  Minds(r, IntakeSystem(r, in), X)
<1> DEFINE e == in.to
           c == r.w.ents[e]
           cap == LimitOf(e, LoopCap)
           wrapUp == IF Reached(c.turns + 1, cap) THEN <<Msg("note", 0)>> ELSE <<>>
           h == c.hist \o UserMsgs(c.inbox) \o <<Msg("user", in.msg)>> \o wrapUp
           d == [c EXCEPT !.hist = h, !.inbox = <<>>, !.turns = @ + 1]
<1>1. CASE in.type = "UserMessage" /\ GateOpen(r.w, e)
  <2>1. e \in DOMAIN r.w.ents /\ in.msg \in Nat
    BY <1>1 DEF GoodIn
  <2>2. c \in Components /\ GoodEnt(r.w, c)
    BY <2>1, EntGood
  <2>3. IntakeSystem(r, in) \in {r, Think(r, e, d)}
    BY DEF IntakeSystem
  <2>4. h \in Seq(Msgs)
    <3>1. c.hist \in Seq(Msgs) /\ UserMsgs(c.inbox) \in Seq(Msgs)
      BY <2>2, EntFields, UserMsgsType
    <3>2. Msg("user", in.msg) \in Msgs /\ Msg("note", 0) \in Msgs
      BY <2>1 DEF Msg, Msgs, Roles
    <3>3. <<Msg("user", in.msg)>> \in Seq(Msgs) /\ wrapUp \in Seq(Msgs)
      BY <3>2
    <3> HIDE DEF c, wrapUp
    <3> QED BY <3>1, <3>3
  <2> HIDE DEF c, h
  <2>5. <<>> \in Seq(Nat) /\ c.turns + 1 \in Nat
    BY <2>2 DEF Components
  <2>6. /\ d \in Components /\ d.parent = c.parent /\ d.slots = c.slots /\ d.awaits = c.awaits
        /\ d.halt = c.halt
    BY <2>2, <2>4, <2>5 DEF Components
  <2> HIDE DEF d
  <2>7. GoodEnt(r.w, d)
    BY <2>2, <2>6, SameIdsGood
  <2>8. Minds(r, Think(r, e, d), X)
    BY <1>1, <2>1, <2>6, <2>7, ThinkMinds DEF c
  <2> QED BY <2>3, <2>8, MindsSelf
<1>2. CASE ~ (in.type = "UserMessage" /\ GateOpen(r.w, e))
  BY <1>2, MindsSelf DEF IntakeSystem
<1> QED BY <1>1, <1>2

\* The continuation of a compaction, which does not ask the gates, is exempt.
LEMMA ContinueMinds ==
    ASSUME NEW r, GoodRun(r), NEW e \in DOMAIN r.w.ents, NEW hist \in Seq(Msgs), NEW X,
           \A k \in Commands : k.type = "CallModel" /\ k.ent = e => k \in X
    PROVE  Minds(r, Continue(r, e, hist), X)
<1> DEFINE c == r.w.ents[e]
           h == hist \o UserMsgs(c.inbox)
           d == [c EXCEPT !.hist = h, !.inbox = <<>>]
<1>1. c \in Components /\ GoodEnt(r.w, c)
  BY EntGood
<1>2. h \in Seq(Msgs)
  <2>1. UserMsgs(c.inbox) \in Seq(Msgs)
    BY <1>1, EntFields, UserMsgsType
  <2> QED BY <2>1
<1>3. Continue(r, e, hist) = Think(r, e, d)
  BY DEF Continue
<1>4. Command("CallModel", r.w.nextCmd, e, 0) \in X
  <2>1. r.w.nextCmd \in Nat /\ e \in Nat
    BY DEF GoodRun, WorldType
  <2>2. /\ Command("CallModel", r.w.nextCmd, e, 0) \in Commands
        /\ Command("CallModel", r.w.nextCmd, e, 0).type = "CallModel"
        /\ Command("CallModel", r.w.nextCmd, e, 0).ent = e
    BY <2>1 DEF Command, Commands, WorkTypes
  <2> QED BY <2>2
<1> HIDE DEF c, h
<1>5. <<>> \in Seq(Nat) OBVIOUS
<1>6. /\ d \in Components /\ d.parent = c.parent /\ d.slots = c.slots /\ d.awaits = c.awaits
      /\ d.halt = c.halt
  BY <1>1, <1>2, <1>5 DEF Components
<1> HIDE DEF d
<1>7. GoodEnt(r.w, d)
  BY <1>1, <1>6, SameIdsGood
<1> QED BY <1>3, <1>4, <1>6, <1>7, ThinkMinds DEF c

\* A compaction starts behind an open gate.
LEMMA StartCompactionMinds ==
    ASSUME NEW r, GoodRun(r), NEW e \in DOMAIN r.w.ents, NEW X
    PROVE  Minds(r, StartCompaction(r, e), X)
<1> DEFINE c == r.w.ents[e]
           k == r.w.nextCmd
           m == Mint(r, 1)
           d == ToWaiting(c, "Compacting", k)
           p == Put(m, e, d)
           x == Command("Compact", k, e, SplitPoint(c.hist))
           s == StartCompaction(r, e)
<1>1. s = r \/ (s = Emit(p, {x}) /\ GateOpen(r.w, e))
  BY DEF StartCompaction
<1>2. Leads(r, s)
  BY StartCompactionGood
<1>3. GoodRun(m) /\ m.w.ents = r.w.ents /\ m.out = r.out
  BY MintGood
<1>4. m.w.holds = r.w.holds
  <2>1. m.w = [r.w EXCEPT !.nextCmd = @ + 1]
    BY DEF GoodRun, Mint
  <2> QED BY <2>1 DEF GoodRun, WorldType
<1>5. d.halt = c.halt /\ d.parent = c.parent
  <2>1. c \in Components
    BY EntGood
  <2> QED BY <2>1 DEF ToWaiting, ToIdle, Components
<1>6. x.ent = e
  BY DEF Command
<1>7. Emit(p, {x}).w = p.w /\ Emit(p, {x}).out = p.out \cup {x}
  BY DEF Emit, Put
<1> HIDE DEF m, d, x, s
<1>8. /\ DOMAIN p.w.ents = DOMAIN r.w.ents /\ p.w.ents[e] = d /\ p.out = r.out /\ p.w.holds = r.w.holds
      /\ \A f \in DOMAIN r.w.ents \ {e} : p.w.ents[f] = r.w.ents[f]
  BY <1>3, <1>4, PutFields, PutRest
<1>9. CASE s = Emit(p, {x}) /\ GateOpen(r.w, e)
  <2>1. s.w = p.w /\ s.out = r.out \cup {x}
    BY <1>7, <1>8, <1>9
  <2> HIDE DEF p
  <2>2. Kin(r.w, s.w)
    BY <1>5, <1>8, <2>1 DEF Kin
  <2>3. GateOpen(s.w, e) /\ s.w.holds = r.w.holds
    BY <1>5, <1>8, <1>9, <2>1 DEF GateOpen
  <2>4. \A y \in s.out \ r.out : GateOpen(s.w, y.ent)
    BY <1>6, <2>1, <2>3
  <2> QED BY <1>2, <2>1, <2>2, <2>3, <2>4 DEF Minds, s
<1>10. CASE s = r
  BY <1>10, MindsSelf DEF s
<1> QED BY <1>1, <1>9, <1>10

\* A compaction starts behind an open gate, and goes on whatever the gates
\* (systems/compaction.rs).
LEMMA CompactionMinds ==
    ASSUME NEW r, GoodRun(r), NEW in, GoodIn(r.w, in), NEW X,
           in.type \in {"Compacted", "ModelFailed"} /\ r.w.ents[in.ent].act = "Compacting" =>
              \A k \in Commands : k.type = "CallModel" /\ k.ent = in.ent => k \in X
    PROVE  Minds(r, CompactionSystem(r, in), X)
<1> DEFINE c == r.w.ents[in.ent]
<1>1. CASE in.type = "ModelResponded"
  <2>1. CompactionSystem(r, in) = StartCompaction(r, in.ent) /\ in.ent \in DOMAIN r.w.ents
    BY <1>1 DEF CompactionSystem, GoodIn, EntInputs
  <2> QED BY <2>1, StartCompactionMinds
<1>2. CASE in.type \in {"Compacted", "ModelFailed"} /\ c.act = "Compacting"
  <2>1. in.ent \in DOMAIN r.w.ents
    BY <1>2 DEF GoodIn, EntInputs
  <2>2. c.hist \in Seq(Msgs)
    BY <2>1, EntGood, EntFields
  <2>3. CompactionSystem(r, in) \in {r, Continue(r, in.ent, Summarised(c.hist, in)),
                                     Continue(r, in.ent, c.hist)}
    BY <1>2 DEF CompactionSystem
  <2>4. in.type = "Compacted" => Summarised(c.hist, in) \in Seq(Msgs)
    <3> SUFFICES ASSUME in.type = "Compacted"
                 PROVE  Summarised(c.hist, in) \in Seq(Msgs)
      OBVIOUS
    <3>1. in.n \in Nat /\ in.cmd \in Nat
      BY DEF GoodIn
    <3> QED BY <2>2, <3>1, SummarisedType
  <2>5. \A k \in Commands : k.type = "CallModel" /\ k.ent = in.ent => k \in X
    BY <1>2
  <2>6. Minds(r, Continue(r, in.ent, c.hist), X)
    BY <2>1, <2>2, <2>5, ContinueMinds
  <2>7. CASE in.type = "Compacted"
    BY <2>1, <2>3, <2>4, <2>5, <2>6, <2>7, ContinueMinds, MindsSelf
  <2>8. CASE in.type = "ModelFailed"
    <3>1. CompactionSystem(r, in) \in {r, Continue(r, in.ent, c.hist)}
      BY <2>8 DEF CompactionSystem
    <3> QED BY <2>6, <3>1, MindsSelf
  <2> QED BY <1>2, <2>7, <2>8
<1>3. CASE /\ in.type # "ModelResponded"
           /\ ~ (in.type \in {"Compacted", "ModelFailed"} /\ c.act = "Compacting")
  <2>1. CompactionSystem(r, in) = r
    BY <1>3 DEF CompactionSystem
  <2> QED BY <2>1, MindsSelf
<1> QED BY <1>1, <1>2, <1>3

\* A spawn starts children that nothing halts, behind their parent's open gate.
LEMMA SpawnMinds ==
    ASSUME NEW r, GoodRun(r), NEW p \in DOMAIN r.w.ents, NEW A \in SUBSET NewChildren(r.w, p),
           GateOpen(r.w, p), Leads(r, Spawn(r, p, A)), NEW X
    PROVE  Minds(r, Spawn(r, p, A), X)
<1> DEFINE c == r.w.ents[p]
           s == Spawn(r, p, A)
<1>1. c = r.w.ents[p] /\ s = Spawn(r, p, A) OBVIOUS
<1> HIDE DEF c, s
<1>2. /\ \A f \in DOMAIN r.w.ents \ {p} : s.w.ents[f] = r.w.ents[f]
      /\ s.w.ents[p].halt = c.halt /\ s.w.ents[p].parent = c.parent /\ s.w.holds = r.w.holds /\ r.out \subseteq s.out
      /\ \A i \in A : c.slots[i].child \in DOMAIN s.w.ents \ DOMAIN r.w.ents
      /\ DOMAIN r.w.ents \subseteq DOMAIN s.w.ents
      /\ \A e \in DOMAIN s.w.ents \ DOMAIN r.w.ents :
            s.w.ents[e].halt = "none" /\ s.w.ents[e].parent = p
      /\ \A x \in s.out : \/ x \in r.out
                          \/ \E i \in A : x = Command("CallModel", r.w.nextCmd + Rank(i, A),
                                                      c.slots[i].child, 0)
  BY <1>1, SpawnFields
<1>3. Kin(r.w, s.w)
  BY <1>1, <1>2 DEF Kin, GateOpen
<1>4. ASSUME NEW x \in s.out \ r.out
      PROVE  GateOpen(s.w, x.ent)
  <2>1. PICK i \in A : x = Command("CallModel", r.w.nextCmd + Rank(i, A), c.slots[i].child, 0)
    BY <1>2
  <2>2. x.ent = c.slots[i].child
    BY <2>1 DEF Command
  <2>3. s.w.ents[x.ent].halt = "none"
    BY <1>2, <2>2
  <2> QED BY <1>2, <2>3 DEF GateOpen
<1> QED BY <1>1, <1>2, <1>3, <1>4 DEF Minds

\* The spawns of a response start behind an open gate, or are denied.
LEMMA SpawnOrDenyMinds ==
    ASSUME NEW r, GoodRun(r), NEW p \in DOMAIN r.w.ents, NEW X
    PROVE  Minds(r, SpawnOrDeny(r, p), X)
<1> DEFINE A == Admitted(r.w, p)
           u == Spawn(r, p, A)
           I == NewChildren(r.w, p) \ A
<1>1. CASE GateOpen(r.w, p)
  <2>1. SpawnOrDeny(r, p) \in {r, Advance(Settle(u, p, I, TRUE), p)}
    BY DEF SpawnOrDeny
  <2>2. A \in SUBSET NewChildren(r.w, p)
    BY DEF Admitted
  <2>3. Leads(r, u)
    BY <2>2, SpawnGood
  <2> HIDE DEF A, I
  <2>4. Minds(r, u, X)
    BY <1>1, <2>2, <2>3, SpawnMinds
  <2> HIDE DEF u
  <2>5. GoodRun(u) /\ p \in DOMAIN u.w.ents
    BY <2>3 DEF Leads
  <2>6. Minds(u, Advance(Settle(u, p, I, TRUE), p), X)
    BY <2>5, SettleAdvanceMinds
  <2> QED BY <2>1, <2>4, <2>6, MindsOn, MindsSelf
<1>2. CASE ~ GateOpen(r.w, p)
  BY <1>2, MindsSelf DEF SpawnOrDeny
<1> QED BY <1>1, <1>2

\* What holding the new slots of e changes: under a policy its fresh Local slots are held.
Holds(r, s, e) ==
    /\ DOMAIN s.w.ents = DOMAIN r.w.ents
    /\ \A f \in DOMAIN r.w.ents \ {e} : s.w.ents[f] = r.w.ents[f]
    /\ s.w.ents[e].halt = r.w.ents[e].halt /\ s.w.ents[e].parent = r.w.ents[e].parent
    /\ DOMAIN s.w.ents[e].slots = DOMAIN r.w.ents[e].slots
    /\ \A i \in DOMAIN r.w.ents[e].slots :
          /\ i \notin FreshSlots(r.w, e, "Local") => s.w.ents[e].slots[i] = r.w.ents[e].slots[i]
          /\ i \in FreshSlots(r.w, e, "Local") =>
                s.w.ents[e].slots[i].st = "held" /\ s.w.ents[e].slots[i].kind = "Local"
    /\ s.w.holds = r.w.holds /\ s.w.ask = r.w.ask /\ s.out = r.out

\* Holding the new slots changes nothing without a policy (AutonomySystem::gate_new_slots).
LEMMA GateNewSlotsHolds ==
    ASSUME NEW r, GoodRun(r), NEW e \in DOMAIN r.w.ents
    PROVE  /\ ~ r.w.ask => GateNewSlots(r, e) = r
           /\ r.w.ask => Holds(r, GateNewSlots(r, e), e)
<1> DEFINE c == r.w.ents[e]
           I == FreshSlots(r.w, e, "Local")
           n == Cardinality(I)
           request(i) == [req |-> r.w.nextReq + Rank(i, I), ent |-> e,
                          turn |-> r.w.ents[e].turn, slot |-> i]
           R == {request(i) : i \in I}
           t == [[r EXCEPT !.w.nextReq = @ + n] EXCEPT !.w.raised = @ \cup R]
           d == MarkSlots(c, I, "held")
           s == Put(t, e, d)
<1>1. /\ ~ r.w.ask => GateNewSlots(r, e) = r
      /\ r.w.ask => GateNewSlots(r, e) = s
  BY DEF GateNewSlots
<1>2. c \in Components /\ "held" \in SlotStates
  BY EntGood DEF SlotStates
<1>3. \A i \in I : i \in DOMAIN c.slots /\ c.slots[i].kind = "Local"
  BY DEF FreshSlots
<1> HIDE DEF I, n, R
<1>4. t.w = [[r.w EXCEPT !.nextReq = @ + n] EXCEPT !.raised = @ \cup R] /\ t.out = r.out
  BY DEF GoodRun
<1>5. t.w.ents = r.w.ents /\ t.w.holds = r.w.holds /\ t.w.ask = r.w.ask
  BY <1>4 DEF GoodRun, WorldType
<1>6. /\ t \in [w : {t.w}, out : {r.out}]
      /\ t.w = [ents |-> t.w.ents, holds |-> t.w.holds, ask |-> t.w.ask, raised |-> t.w.raised,
                applied |-> t.w.applied, nextCmd |-> t.w.nextCmd, nextReq |-> t.w.nextReq,
                nextEnt |-> t.w.nextEnt]
  <2>1. t \in [w : {t.w}, out : {r.out}]
    BY DEF GoodRun
  <2> HIDE DEF t
  <2> QED BY <1>4, <2>1 DEF GoodRun, WorldType
<1>7. d = MarkSlots(c, I, "held") OBVIOUS
<1> HIDE DEF d, c
<1>8. /\ DOMAIN d.slots = DOMAIN c.slots
      /\ \A i \in DOMAIN c.slots : i \notin I => d.slots[i] = c.slots[i]
      /\ \A i \in DOMAIN c.slots : i \in I => d.slots[i].st = "held" /\ d.slots[i].kind = c.slots[i].kind
  BY <1>2, <1>7, MarkFields
<1>9. d.halt = c.halt /\ d.parent = c.parent
  BY <1>2, <1>7 DEF MarkSlots, Components
<1> HIDE DEF t
<1>10. s.w = [t.w EXCEPT !.ents[e] = d] /\ s.out = r.out
  BY <1>6 DEF Put
<1>11. s.w.ents = [r.w.ents EXCEPT ![e] = d] /\ s.w.holds = r.w.holds /\ s.w.ask = r.w.ask
  BY <1>5, <1>6, <1>10
<1>12. /\ DOMAIN s.w.ents = DOMAIN r.w.ents /\ s.w.ents[e] = d
       /\ \A f \in DOMAIN r.w.ents \ {e} : s.w.ents[f] = r.w.ents[f]
  BY <1>11 DEF GoodRun, WorldType
<1> HIDE DEF s
<1>13. Holds(r, s, e)
  BY <1>3, <1>8, <1>9, <1>10, <1>11, <1>12 DEF Holds, I, c
<1> QED BY <1>1, <1>13

\* Holding slots closes and opens no gate.
LEMMA GateNewSlotsMinds ==
    ASSUME NEW r, GoodRun(r), NEW e \in DOMAIN r.w.ents, NEW X
    PROVE  Minds(r, GateNewSlots(r, e), X)
<1> DEFINE s == GateNewSlots(r, e)
<1>1. Leads(r, s) /\ (s = r \/ Holds(r, s, e))
  <2>1. r.w.ask \in BOOLEAN
    BY DEF GoodRun, WorldType
  <2> QED BY <2>1, GateNewSlotsGood, GateNewSlotsHolds
<1> HIDE DEF s
<1>2. CASE s = r
  BY <1>2, MindsSelf DEF s
<1>3. CASE Holds(r, s, e)
  <2>1. Kin(r.w, s.w)
    BY <1>3 DEF Holds, Kin
  <2>2. s.w.holds = r.w.holds /\ s.out = r.out
    BY <1>3 DEF Holds
  <2> QED BY <1>1, <2>1, <2>2 DEF Minds, s
<1> QED BY <1>1, <1>2, <1>3

\* A child's slot is settled, and its parent's turn goes on behind an open gate.
LEMMA SettleChildMinds ==
    ASSUME NEW r, GoodRun(r), NEW p \in DOMAIN r.w.ents, NEW e, NEW err \in BOOLEAN, NEW X
    PROVE  Minds(r, SettleChild(r, p, e, err), X)
<1> DEFINE I == ChildSlots(r.w, p, e)
<1>1. SettleChild(r, p, e, err) \in {r, Advance(Settle(r, p, I, err), p)}
  BY DEF SettleChild
<1> HIDE DEF I
<1> QED BY <1>1, SettleAdvanceMinds, MindsSelf

\* Drives are sent behind an open gate, or denied.
LEMMA EmitOrDenyMinds ==
    ASSUME NEW r, GoodRun(r), NEW e \in DOMAIN r.w.ents, NEW X
    PROVE  Minds(r, EmitOrDeny(r, e), X)
<1> DEFINE I == FreshSlots(r.w, e, "Peer")
           bad == FreshSlots(r.w, e, "BadPeer")
           s == Settle(r, e, bad, TRUE)
           t == Advance(Dispatch(s, e, I, "SendPeer"), e)
<1>1. EmitOrDeny(r, e) = r \/ (EmitOrDeny(r, e) = t /\ GateOpen(r.w, e))
  BY DEF EmitOrDeny
<1>2. Minds(r, s, X) /\ GoodRun(s) /\ e \in DOMAIN s.w.ents
  BY SettleMinds, SettleGood DEF Leads
<1>3. I \in SUBSET DOMAIN r.w.ents[e].slots
  BY SomeSlots
<1> HIDE DEF I, bad
<1>5. DOMAIN s.w.ents[e].slots = DOMAIN r.w.ents[e].slots
  <2> DEFINE yes == TRUE
  <2>1. s = Settle(r, e, bad, yes) OBVIOUS
  <2> HIDE DEF yes
  <2>2. DOMAIN Settle(r, e, bad, yes).w.ents[e].slots = DOMAIN r.w.ents[e].slots
    BY SettleFields
  <2> HIDE DEF s
  <2> QED BY <2>1, <2>2
<1> HIDE DEF s
<1>4. ASSUME GateOpen(r.w, e)
      PROVE  Minds(r, t, X)
  <2>1. GateOpen(s.w, e)
    BY <1>2, <1>4 DEF Minds, Kin, GateOpen
  <2>2. "SendPeer" \in WorkTypes
    BY DEF WorkTypes
  <2>3. Minds(s, t, X)
    BY <1>2, <1>3, <1>5, <2>1, <2>2, DispatchAdvanceMinds
  <2> QED BY <1>2, <2>3, MindsOn
<1> HIDE DEF t
<1> QED BY <1>1, <1>4, MindsSelf

\* A peer's answer settles the drive's slot, and the turn goes on behind an open gate.
LEMMA SettlePeerMinds ==
    ASSUME NEW r, GoodRun(r), NEW e \in DOMAIN r.w.ents, NEW cmd, NEW err \in BOOLEAN, NEW X
    PROVE  Minds(r, SettlePeerOutcome(r, e, cmd, err), X)
<1> DEFINE I == SentAs(r.w, e, "Peer", cmd)
<1>1. SettlePeerOutcome(r, e, cmd, err) \in {r, Advance(Settle(r, e, I, err), e)}
  BY DEF SettlePeerOutcome
<1> HIDE DEF I
<1> QED BY <1>1, SettleAdvanceMinds, MindsSelf

\* Tool results and responses go on behind an open gate (systems/tool.rs).
LEMMA ToolMinds ==
    ASSUME NEW r, GoodRun(r), NEW in, GoodIn(r.w, in), NEW X
    PROVE  Minds(r, ToolSystem(r, in), X)
<1> DEFINE e == in.ent
           I == SentAs(r.w, in.ent, "Local", in.cmd)
<1>1. CASE in.type = "ToolReturned"
  <2>1. ToolSystem(r, in) = Advance(Settle(r, e, I, in.err), e)
    BY <1>1 DEF ToolSystem
  <2>2. e \in DOMAIN r.w.ents /\ in.err \in BOOLEAN
    BY <1>1 DEF GoodIn, EntInputs
  <2> HIDE DEF I, e
  <2> QED BY <2>1, <2>2, SettleAdvanceMinds
<1>2. CASE in.type = "ModelResponded"
  <2>1. ToolSystem(r, in) = Advance(r, e) /\ e \in DOMAIN r.w.ents
    BY <1>2 DEF ToolSystem, GoodIn, EntInputs
  <2> HIDE DEF e
  <2> QED BY <2>1, AdvanceMinds
<1> QED BY <1>1, <1>2, MindsSelf, Ignored

\* Human actions are requested and taken back behind an open gate (systems/human.rs).
LEMMA HumanMinds ==
    ASSUME NEW r, GoodRun(r), NEW in, GoodIn(r.w, in), NEW X
    PROVE  Minds(r, HumanActionSystem(r, in), X)
<1> DEFINE e == in.ent
           I == SentAs(r.w, in.ent, "Human", in.cmd)
           J == FreshSlots(r.w, in.ent, "Human")
<1>1. CASE in.type = "HumanActionDone"
  <2>1. HumanActionSystem(r, in) = Advance(Settle(r, e, I, in.err), e)
    BY <1>1 DEF HumanActionSystem
  <2>2. e \in DOMAIN r.w.ents /\ in.err \in BOOLEAN
    BY <1>1 DEF GoodIn, EntInputs
  <2> HIDE DEF I, e
  <2> QED BY <2>1, <2>2, SettleAdvanceMinds
<1>2. CASE in.type = "HumanActionAborted"
  <2>1. HumanActionSystem(r, in) = Advance(Settle(r, e, I, TRUE), e)
    BY <1>2 DEF HumanActionSystem
  <2>2. e \in DOMAIN r.w.ents
    BY <1>2 DEF GoodIn, EntInputs
  <2> HIDE DEF I, e
  <2> QED BY <2>1, <2>2, SettleAdvanceMinds
<1>3. CASE in.type = "ModelResponded" /\ GateOpen(r.w, e)
  <2>1. HumanActionSystem(r, in) = Advance(Dispatch(r, e, J, "RequestHumanAction"), e)
    BY <1>3 DEF HumanActionSystem
  <2>2. e \in DOMAIN r.w.ents /\ "RequestHumanAction" \in WorkTypes
    BY <1>3 DEF GoodIn, EntInputs, WorkTypes
  <2>3. J \in SUBSET DOMAIN r.w.ents[e].slots
    BY SomeSlots
  <2> HIDE DEF J, e
  <2> QED BY <1>3, <2>1, <2>2, <2>3, DispatchAdvanceMinds
<1>4. CASE in.type = "ModelResponded" /\ ~ GateOpen(r.w, e)
  <2>1. HumanActionSystem(r, in) = r
    BY <1>4 DEF HumanActionSystem
  <2> QED BY <2>1, MindsSelf
<1> QED BY <1>1, <1>2, <1>3, <1>4, MindsSelf, Ignored

\* Children start and return behind an open gate (systems/subagent.rs).
LEMMA SubagentMinds ==
    ASSUME NEW r, GoodRun(r), NEW in, GoodIn(r.w, in), NEW X
    PROVE  Minds(r, SubagentSystem(r, in), X)
<1>1. CASE in.type = "ModelResponded"
  <2>1. SubagentSystem(r, in) = SpawnOrDeny(r, in.ent) /\ in.ent \in DOMAIN r.w.ents
    BY <1>1 DEF SubagentSystem, GoodIn, EntInputs
  <2> QED BY <2>1, SpawnOrDenyMinds
<1>2. CASE in.type = "ChildReturned"
  <2>1. SubagentSystem(r, in) = SettleChild(r, in.ent, in.child, in.err)
    BY <1>2 DEF SubagentSystem
  <2>2. in.ent \in DOMAIN r.w.ents /\ in.err \in BOOLEAN
    BY <1>2 DEF GoodIn, EntInputs
  <2> QED BY <2>1, <2>2, SettleChildMinds
<1> QED BY <1>1, <1>2, MindsSelf, Ignored

\* The failure of a child settles its slot, and its parent goes on behind an open gate.
LEMMA SupervisionMinds ==
    ASSUME NEW r, GoodRun(r), NEW in, GoodIn(r.w, in), NEW X
    PROVE  Minds(r, SupervisionSystem(r, in), X)
<1> DEFINE p == r.w.ents[in.ent].parent
<1>1. CASE in.type = "ModelFailed" /\ p # None
  <2>1. in.ent \in DOMAIN r.w.ents
    BY <1>1 DEF GoodIn, EntInputs
  <2>2. p \in DOMAIN r.w.ents
    BY <1>1, <2>1 DEF GoodRun, GoodEnt
  <2>3. SupervisionSystem(r, in) = SettleChild(r, p, in.ent, TRUE)
    BY <1>1 DEF SupervisionSystem
  <2> HIDE DEF p
  <2> QED BY <2>2, <2>3, SettleChildMinds
<1>2. CASE ~ (in.type = "ModelFailed" /\ p # None)
  BY <1>2, MindsSelf DEF SupervisionSystem
<1> QED BY <1>1, <1>2

\* Drives are sent and answered behind an open gate (systems/peer.rs).
LEMMA PeerDriveMinds ==
    ASSUME NEW r, GoodRun(r), NEW in, GoodIn(r.w, in), NEW X,
           in.type \notin {"DriveRequested", "PeerDelivered"}
    PROVE  Minds(r, PeerDriveSystem(r, in), X)
<1>1. CASE in.type = "ModelResponded"
  <2>1. PeerDriveSystem(r, in) = EmitOrDeny(r, in.ent) /\ in.ent \in DOMAIN r.w.ents
    BY <1>1 DEF PeerDriveSystem, GoodIn, EntInputs
  <2> QED BY <2>1, EmitOrDenyMinds
<1>2. CASE in.type = "PeerSendOutcome"
  <2>1. PeerDriveSystem(r, in) = SettlePeerOutcome(r, in.ent, in.cmd, in.err)
    BY <1>2 DEF PeerDriveSystem
  <2>2. in.ent \in DOMAIN r.w.ents /\ in.err \in BOOLEAN
    BY <1>2 DEF GoodIn, EntInputs
  <2> QED BY <2>1, <2>2, SettlePeerMinds
<1> QED BY <1>1, <1>2, MindsSelf, Ignored

\* A turn that goes on raises and answers no request.
LEMMA AdvanceRaised ==
    ASSUME NEW r, GoodRun(r), NEW e \in DOMAIN r.w.ents
    PROVE  Advance(r, e).w.raised = r.w.raised
<1> DEFINE I == FreshSlots(r.w, e, "Local")
           s == Dispatch(r, e, I, "RunTool")
           c == s.w.ents[e]
           d == WithResults(c)
           t == Think(s, e, d)
<1>1. Advance(r, e) \in {r, s, t}
  BY DEF Advance
<1>2. I \in SUBSET DOMAIN r.w.ents[e].slots /\ "RunTool" \in WorkTypes
  BY SomeSlots DEF WorkTypes
<1> HIDE DEF I
<1>3. Leads(r, s) /\ Sends(r, s, e, I, "RunTool")
  BY <1>2, DispatchGood, DispatchSends
<1> HIDE DEF s
<1>4. GoodRun(s) /\ e \in DOMAIN s.w.ents /\ s.w.raised = r.w.raised
  BY <1>3 DEF Leads, Sends
<1>5. c \in Components
  BY <1>4, EntGood
<1>6. d \in Components
  <2>1. Append(c.hist, Msg("results", c.turn)) \in Seq(Msgs)
    BY <1>5, EntFields DEF Msg, Msgs, Roles
  <2> QED BY <1>5, <2>1 DEF WithResults, Components
<1> HIDE DEF d
<1>7. t.w.raised = s.w.raised
  BY <1>4, <1>6, ThinkFields
<1> QED BY <1>1, <1>4, <1>7

\* An answer runs what it accepts whatever the gates, and takes its request back
\* (InteractionSystem::apply).
LEMMA ApplyAnswerMinds ==
    ASSUME NEW r, GoodRun(r), NEW q \in r.w.raised, q.ent \in DOMAIN r.w.ents, NEW accepted, NEW X,
           \A k \in Commands : k.type = "RunTool" => k \in X
    PROVE  /\ Minds(r, ApplyAnswer(r, q, accepted), X)
           /\ ApplyAnswer(r, q, accepted).w.raised = r.w.raised \ {q}
<1> DEFINE s == [r EXCEPT !.w.raised = @ \ {q}]
           e == q.ent
           I == Asked(r.w, q, {"fresh"})
           J == Asked(r.w, q, {"fresh", "held", "sent"})
           t == Dispatch(s, e, I, "RunTool")
           u == Settle(s, e, J, TRUE)
<1>1. ApplyAnswer(r, q, accepted) \in {Advance(t, e), Advance(u, e)}
  BY DEF ApplyAnswer
<1>2. /\ GoodRun(s) /\ s.w.ents = r.w.ents /\ s.w.raised = r.w.raised \ {q}
      /\ Minds(r, s, X)
  <2> DEFINE Q == r.w.raised \ {q}
  <2>1. s = [r EXCEPT !.w.raised = Q] OBVIOUS
  <2>2. s.w = [r.w EXCEPT !.raised = Q] /\ s.out = r.out
    BY DEF GoodRun
  <2>3. s.w.raised = Q /\ s.w.holds = r.w.holds
    BY <2>2 DEF GoodRun, WorldType
  <2>4. Q \in SUBSET r.w.raised OBVIOUS
  <2> HIDE DEF Q, s
  <2>5. Leads(r, s) /\ s.w.ents = r.w.ents
    BY <2>1, <2>4, RaisedGood
  <2>6. Minds(r, s, X)
    BY <2>2, <2>3, <2>5 DEF Minds, Kin
  <2> QED BY <2>3, <2>5, <2>6 DEF Leads, Q
<1>3. I \in SUBSET DOMAIN r.w.ents[e].slots /\ "RunTool" \in WorkTypes
  BY DEF Asked, WorkTypes
<1> HIDE DEF s, I, J, e
<1>4. e \in DOMAIN s.w.ents /\ I \in SUBSET DOMAIN s.w.ents[e].slots
  BY <1>2, <1>3 DEF e
<1>5. Minds(r, Advance(t, e), X) /\ Advance(t, e).w.raised = r.w.raised \ {q}
  <2>1. Leads(s, t) /\ Sends(s, t, e, I, "RunTool")
    BY <1>2, <1>3, <1>4, DispatchGood, DispatchSends
  <2>2. \A x \in t.out : x.type = "RunTool" => x \in X
    BY <2>1 DEF Leads, GoodRun
  <2>3. Minds(s, Advance(t, e), X)
    BY <1>2, <1>3, <1>4, <2>2, DispatchAdvanceMinds
  <2> HIDE DEF t
  <2>4. GoodRun(t) /\ e \in DOMAIN t.w.ents /\ t.w.raised = s.w.raised
    BY <1>4, <2>1 DEF Leads, Sends
  <2> QED BY <1>2, <2>3, <2>4, AdvanceRaised, MindsOn
<1>6. Minds(r, Advance(u, e), X) /\ Advance(u, e).w.raised = r.w.raised \ {q}
  <2>1. GoodRun(u) /\ e \in DOMAIN u.w.ents
    BY <1>2, <1>4, SettleGood DEF Leads
  <2>2. u.w.raised = s.w.raised
    <3> DEFINE d == SettleSlots(s.w.ents[e], J, TRUE)
    <3>1. u = Put(s, e, d)
      BY DEF Settle
    <3> HIDE DEF d, u
    <3> QED BY <1>2, <1>4, <3>1, PutFields
  <2>3. Minds(s, Advance(u, e), X)
    BY <1>2, <1>4, SettleAdvanceMinds
  <2> HIDE DEF u
  <2> QED BY <1>2, <2>1, <2>2, <2>3, AdvanceRaised, MindsOn
<1> HIDE DEF t, u
<1> QED BY <1>1, <1>5, <1>6

\* From r to s nothing is emitted, and the entity of the input starts no compaction.
Quiet(r, s, e) ==
    /\ Leads(r, s)
    /\ s.out = r.out /\ DOMAIN s.w.ents = DOMAIN r.w.ents
    /\ s.w.raised = r.w.raised
    /\ s.w.ents[e].act = "Compacting" => r.w.ents[e].act = "Compacting"

\* What is quiet composes.
LEMMA QuietOn ==
    ASSUME NEW r, NEW s, NEW t, NEW e, Quiet(r, s, e), Quiet(s, t, e)
    PROVE  Quiet(r, t, e)
BY LeadsOn DEF Quiet

\* A run as it is is quiet.
LEMMA QuietSelf == ASSUME NEW r, GoodRun(r), NEW e PROVE Quiet(r, r, e)
BY LeadsSelf DEF Quiet

\* A Put is quiet unless it starts a compaction.
LEMMA PutQuiet ==
    ASSUME NEW r, GoodRun(r), NEW e \in DOMAIN r.w.ents, NEW c, Leads(r, Put(r, e, c)),
           c.act = "Compacting" => r.w.ents[e].act = "Compacting"
    PROVE  Quiet(r, Put(r, e, c), e)
<1>1. /\ Put(r, e, c).out = r.out /\ Put(r, e, c).w.ents[e] = c
      /\ Put(r, e, c).w.raised = r.w.raised /\ DOMAIN Put(r, e, c).w.ents = DOMAIN r.w.ents
  BY PutFields
<1> QED BY <1>1 DEF Quiet

\* Late answers of a cancelled turn are absorbed quietly (CancelSystem).
LEMMA AbsorbQuiet ==
    ASSUME NEW r, GoodRun(r), NEW in, GoodIn(r.w, in), in.type \in AbsorbedInputs
    PROVE  Quiet(r, CancelSystem(r, in), in.ent)
<1> DEFINE e == in.ent
           c == r.w.ents[e]
           d == [c EXCEPT !.awaits = @ \ {in.cmd}, !.act = IF c.awaits = {in.cmd} THEN "Idle" ELSE @]
<1>1. CancelSystem(r, in) = Absorb(r, e, in.cmd) /\ e \in DOMAIN r.w.ents
  BY DEF CancelSystem, AbsorbedInputs, GoodIn, EntInputs
<1>2. \/ CancelSystem(r, in) = r
      \/ CancelSystem(r, in) = Put(r, e, d) /\ c.act = "Cancelling"
  BY <1>1 DEF Absorb
<1>3. Leads(r, CancelSystem(r, in))
  BY <1>1, AbsorbGood
<1>4. c.act = "Cancelling" => d.act # "Compacting"
  <2>1. c \in Components
    BY <1>1, EntGood
  <2>2. d.act \in {"Idle", c.act}
    BY <2>1 DEF Components
  <2> QED BY <2>2
<1> HIDE DEF d
<1> QED BY <1>1, <1>2, <1>3, <1>4, PutQuiet, QuietSelf

\* A turn ends or asks for tools quietly (systems/turn.rs).
LEMMA TurnQuiet ==
    ASSUME NEW r, GoodRun(r), NEW in, GoodIn(r.w, in),
           in.type \in {"ModelResponded", "ModelFailed", "InferenceCancelled"}
    PROVE  Quiet(r, TurnSystem(r, in), in.ent)
<1> DEFINE e == in.ent
           c == r.w.ents[e]
           s == TurnSystem(r, in)
<1>0. e \in DOMAIN r.w.ents
  BY DEF GoodIn, EntInputs
<1>1. Leads(r, s)
  BY TurnSystemGood
<1>2. \/ s = r
      \/ \E said : s = CloseTurn(r, e, said)
      \/ in.type = "ModelResponded" /\ s = BeginResolving(r, e, in.cmd, in.plan)
  BY DEF TurnSystem
<1>3. c \in Components
  BY <1>0, EntGood
<1>4. ASSUME NEW said, s = CloseTurn(r, e, said)
      PROVE  Quiet(r, s, e)
  <2> DEFINE d == [ToIdle(c) EXCEPT !.hist = @ \o said]
  <2>1. s = Put(r, e, d)
    BY <1>4 DEF CloseTurn
  <2>2. d.act = "Idle"
    BY <1>3 DEF ToIdle, Components
  <2> HIDE DEF d, s
  <2> QED BY <1>0, <1>1, <2>1, <2>2, PutQuiet
<1>5. ASSUME in.type = "ModelResponded", s = BeginResolving(r, e, in.cmd, in.plan)
      PROVE  Quiet(r, s, e)
  <2> DEFINE n == Cardinality({i \in DOMAIN in.plan : in.plan[i] = "Child"})
             m == MintEnts(r, n)
             d == [ToIdle(c) EXCEPT !.hist = Append(@, Msg("uses", in.cmd)), !.act = "Resolving",
                                    !.turn = in.cmd, !.slots = NewSlots(in.plan, r.w.nextEnt)]
  <2>1. s = Put(m, e, d)
    BY <1>5 DEF BeginResolving
  <2>2. d.act = "Resolving"
    BY <1>3 DEF ToIdle, Components
  <2>3. n \in Nat
    <3>1. in.plan \in Seq(SlotKinds)
      BY <1>5 DEF GoodIn
    <3>2. IsFiniteSet(DOMAIN in.plan)
      BY <3>1, FS_Interval
    <3> QED BY <3>2, FS_Subset, FS_CardinalityType
  <2> HIDE DEF n
  <2>4. GoodRun(m) /\ m.w.ents = r.w.ents
    BY <2>3, MintEntsGood
  <2>5. m.out = r.out /\ m.w.raised = r.w.raised
    <3>1. m.w = [r.w EXCEPT !.nextEnt = @ + n] /\ m.out = r.out
      BY DEF GoodRun, MintEnts
    <3> QED BY <3>1 DEF GoodRun, WorldType
  <2> HIDE DEF m, d, s
  <2>6. /\ s.out = m.out /\ s.w.ents[e] = d /\ s.w.raised = m.w.raised
        /\ DOMAIN s.w.ents = DOMAIN m.w.ents
    BY <1>0, <2>1, <2>4, PutFields
  <2> QED BY <1>1, <2>2, <2>4, <2>5, <2>6 DEF Quiet, s
<1> HIDE DEF s
<1> QED BY <1>2, <1>4, <1>5, QuietSelf DEF s

\* A response is counted quietly, and its refusal holds the world (systems/budget.rs,
\* guardrail.rs).
LEMMA BudgetQuiet ==
    ASSUME NEW r, GoodRun(r), NEW in, GoodIn(r.w, in), NEW s,
           s \in {BudgetSystem(r, in), GuardrailSystem(r, in)}
    PROVE  s.out = r.out /\ DOMAIN s.w.ents = DOMAIN r.w.ents
<1>1. CASE s = GuardrailSystem(r, in)
  <2> DEFINE H == r.w.holds \cup {"model-refusal"}
  <2>1. s \in {r, [r EXCEPT !.w.holds = H]}
    BY <1>1 DEF GuardrailSystem
  <2> HIDE DEF H
  <2> QED BY <2>1 DEF GoodRun, WorldType
<1>2. CASE s = BudgetSystem(r, in)
  <2>1. s = r \/ (in.ent \in DOMAIN r.w.ents /\ \E c : s = Put(r, in.ent, c))
    BY <1>2 DEF BudgetSystem, GoodIn, EntInputs
  <2> QED BY <2>1, PutFields
<1> QED BY <1>1, <1>2

\* The work an input may start whatever the gates: the continuation of a compaction, and
\* the tool an answer accepts.
Exempt(r, in) ==
    {k \in Commands :
        \/ /\ k.type = "CallModel" /\ in.type \in {"Compacted", "ModelFailed"}
           /\ k.ent = in.ent /\ r.w.ents[in.ent].act = "Compacting"
        \/ k.type = "RunTool" /\ in.type = "InteractionAnswer" /\ IsRaised(r, in)}

\* From r to s work is started behind open gates, but for what the input exempts; an answer
\* takes back its request.
Holding(r, s, in) ==
    /\ \A k \in s.out : k.type \in WorkTypes =>
          \/ /\ GateOpen(s.w, k.ent)
             /\ k.ent \notin DOMAIN r.w.ents => GateOpen(s.w, s.w.ents[k.ent].parent)
          \/ k \in Exempt(r, in)
    /\ in.type = "InteractionAnswer" /\ IsRaised(r, in) => s.w.raised # r.w.raised

\* What minds the gates after a quiet start holds what the gates hold.
LEMMA HoldingIs ==
    ASSUME NEW r, NEW in, in.type # "InteractionAnswer", r.out = {},
           NEW q, q.out = {}, DOMAIN q.w.ents = DOMAIN r.w.ents, NEW s, Minds(q, s, Exempt(r, in))
    PROVE  Holding(r, s, in)
BY DEF Minds, Kin, Leads, GoodRun, Holding

\* A response goes on behind open gates only.
LEMMA ResponseHolds ==
    ASSUME NEW r, GoodRun(r), r.out = {}, NEW in, GoodIn(r.w, in), in.type = "ModelResponded"
    PROVE  Holding(r, Ticked(r, in), in)
<1> DEFINE X == Exempt(r, in)
           a == CancelSystem(r, in)
           b == GuardrailSystem(a, in)
           c == TurnSystem(b, in)
           q == BudgetSystem(c, in)
           d == CompactionSystem(q, in)
           f == AutonomySystem(d, in)
           g == ToolSystem(f, in)
           h == HumanActionSystem(g, in)
           j == SubagentSystem(h, in)
           s == PeerDriveSystem(j, in)
<1>1. Ticked(r, in) = s
  BY Ignored DEF Ticked, Begun, TakenIn, Closed, Moved, Linked
<1>2. in.type \in AbsorbedInputs
  BY DEF AbsorbedInputs
<1>3. Quiet(r, a, in.ent)
  BY <1>2, AbsorbQuiet
<1> HIDE DEF a
<1>4. GoodRun(a) /\ GoodIn(a.w, in) /\ a.out = {}
  BY <1>3, GoodInStays DEF Quiet, Leads
<1>5. Leads(a, b) /\ b.out = a.out /\ DOMAIN b.w.ents = DOMAIN a.w.ents
  BY <1>4, GuardrailGood, BudgetQuiet
<1> HIDE DEF b
<1>6. GoodRun(b) /\ GoodIn(b.w, in) /\ b.out = {}
  BY <1>4, <1>5, GoodInStays DEF Leads
<1>7. Quiet(b, c, in.ent)
  BY <1>6, TurnQuiet
<1> HIDE DEF c
<1>8. GoodRun(c) /\ GoodIn(c.w, in) /\ c.out = {}
  BY <1>6, <1>7, GoodInStays DEF Quiet, Leads
<1>9. Leads(c, q) /\ q.out = c.out /\ DOMAIN q.w.ents = DOMAIN c.w.ents
  BY <1>8, BudgetGood, BudgetQuiet
<1> HIDE DEF q
<1>10. GoodRun(q) /\ GoodIn(q.w, in) /\ q.out = {}
  BY <1>8, <1>9, GoodInStays DEF Leads
<1> HIDE DEF X
<1>11. Minds(q, d, X)
  <2>1. ~ (in.type \in {"Compacted", "ModelFailed"} /\ q.w.ents[in.ent].act = "Compacting")
    OBVIOUS
  <2> QED BY <1>10, <2>1, CompactionMinds
<1> HIDE DEF d
<1>12. GoodRun(d) /\ GoodIn(d.w, in)
  BY <1>10, <1>11, MindsIn
<1>13. Minds(d, f, X)
  <2>1. f = GateNewSlots(d, in.ent) /\ in.ent \in DOMAIN d.w.ents
    BY <1>12 DEF AutonomySystem, GoodIn, EntInputs
  <2> HIDE DEF f
  <2> QED BY <1>12, <2>1, GateNewSlotsMinds
<1> HIDE DEF f
<1>14. GoodRun(f) /\ GoodIn(f.w, in)
  BY <1>12, <1>13, MindsIn
<1>15. Minds(f, g, X)
  BY <1>14, ToolMinds
<1> HIDE DEF g
<1>16. GoodRun(g) /\ GoodIn(g.w, in)
  BY <1>14, <1>15, MindsIn
<1>17. Minds(g, h, X)
  BY <1>16, HumanMinds
<1> HIDE DEF h
<1>18. GoodRun(h) /\ GoodIn(h.w, in)
  BY <1>16, <1>17, MindsIn
<1>19. Minds(h, j, X)
  BY <1>18, SubagentMinds
<1> HIDE DEF j
<1>20. GoodRun(j) /\ GoodIn(j.w, in)
  BY <1>18, <1>19, MindsIn
<1>21. Minds(j, s, X)
  BY <1>20, PeerDriveMinds
<1> HIDE DEF s
<1>22. Minds(q, s, X)
  BY <1>11, <1>13, <1>15, <1>17, <1>19, <1>21, MindsOn
<1>23. DOMAIN q.w.ents = DOMAIN r.w.ents
  BY <1>3, <1>5, <1>7, <1>9 DEF Quiet
<1> QED BY <1>1, <1>10, <1>22, <1>23, HoldingIs DEF X

\* The other answers go on behind open gates, but for the continuation of a compaction.
LEMMA AnswerHolds ==
    ASSUME NEW r, GoodRun(r), r.out = {}, NEW in, GoodIn(r.w, in),
           in.type \in AbsorbedInputs \ {"ModelResponded"}
    PROVE  Holding(r, Ticked(r, in), in)
<1> DEFINE X == Exempt(r, in)
           a == CancelSystem(r, in)
           q == TurnSystem(a, in)
           d == CompactionSystem(q, in)
           g == ToolSystem(d, in)
           h == HumanActionSystem(g, in)
           s == SupervisionSystem(h, in)
<1>0. in.type \in {"ToolReturned", "ToolAborted", "HumanActionDone", "HumanActionAborted",
                   "ModelFailed", "InferenceCancelled", "Compacted"}
  BY DEF AbsorbedInputs
<1>1. Ticked(r, in) = s
  BY <1>0, Ignored DEF Ticked, Begun, TakenIn, Closed, Moved, Linked
<1>3. Quiet(r, a, in.ent)
  BY AbsorbQuiet
<1> HIDE DEF a
<1>4. GoodRun(a) /\ GoodIn(a.w, in) /\ a.out = {}
  BY <1>3, GoodInStays DEF Quiet, Leads
<1>5. Quiet(a, q, in.ent)
  <2>1. CASE in.type \in {"ModelFailed", "InferenceCancelled"}
    BY <1>4, <2>1, TurnQuiet
  <2>2. CASE in.type \notin {"ModelFailed", "InferenceCancelled"}
    <3>1. q = a
      BY <1>0, <2>2, Ignored
    <3> QED BY <1>4, <3>1, QuietSelf
  <2> QED BY <2>1, <2>2
<1> HIDE DEF q
<1>6. Quiet(r, q, in.ent)
  BY <1>3, <1>5, QuietOn
<1>7. GoodRun(q) /\ GoodIn(q.w, in) /\ q.out = {}
  BY <1>6, GoodInStays DEF Quiet, Leads
<1>8. in.type \in {"Compacted", "ModelFailed"} /\ q.w.ents[in.ent].act = "Compacting" =>
          \A k \in Commands : k.type = "CallModel" /\ k.ent = in.ent => k \in X
  BY <1>6 DEF Quiet, Exempt
<1> HIDE DEF X
<1>11. Minds(q, d, X)
  BY <1>7, <1>8, CompactionMinds
<1> HIDE DEF d
<1>12. GoodRun(d) /\ GoodIn(d.w, in)
  BY <1>7, <1>11, MindsIn
<1>15. Minds(d, g, X)
  BY <1>12, ToolMinds
<1> HIDE DEF g
<1>16. GoodRun(g) /\ GoodIn(g.w, in)
  BY <1>12, <1>15, MindsIn
<1>17. Minds(g, h, X)
  BY <1>16, HumanMinds
<1> HIDE DEF h
<1>18. GoodRun(h) /\ GoodIn(h.w, in)
  BY <1>16, <1>17, MindsIn
<1>21. Minds(h, s, X)
  BY <1>18, SupervisionMinds
<1> HIDE DEF s
<1>22. Minds(q, s, X)
  BY <1>11, <1>15, <1>17, <1>21, MindsOn
<1>23. DOMAIN q.w.ents = DOMAIN r.w.ents
  BY <1>6 DEF Quiet
<1> QED BY <1>0, <1>1, <1>7, <1>22, <1>23, HoldingIs DEF X

\* An answer runs what it accepts, and what else goes on does so behind open gates.
LEMMA InteractionHolds ==
    ASSUME NEW r, GoodRun(r), r.out = {}, NEW in, GoodIn(r.w, in), in.type = "InteractionAnswer"
    PROVE  Holding(r, Ticked(r, in), in)
<1> DEFINE X == Exempt(r, in)
           q == Request(r, in)
           c == MarkSlots(r.w.ents[q.ent], Asked(r.w, q, {"held"}), "fresh")
           a == AutonomySystem(r, in)
           s == ApplyAnswer(a, q, in.accepted)
<1>0. in.type \notin AbsorbedInputs \cup {"Cancel"}
  BY DEF AbsorbedInputs
<1>1. Ticked(r, in) = InteractionSystem(a, in)
  BY <1>0, Ignored DEF Ticked, Begun, TakenIn, Closed, Moved, Linked
<1>2. CASE ~ IsRaised(r, in)
  <2>1. Ticked(r, in) = r
    BY <1>1, <1>2 DEF AutonomySystem, InteractionSystem
  <2> QED BY <1>2, <2>1 DEF Holding
<1>3. CASE IsRaised(r, in)
  <2>1. q \in r.w.raised /\ q.ent \in DOMAIN r.w.ents
    BY <1>3, RequestGood
  <2>2. a = Put(r, q.ent, c)
    BY <1>3 DEF AutonomySystem, RestoreHeldSlot
  <2>3. Leads(r, a)
    BY AutonomySystemGood
  <2> HIDE DEF c, q, a
  <2>4. /\ a.w.raised = r.w.raised /\ a.out = {} /\ GoodRun(a)
        /\ q.ent \in DOMAIN a.w.ents /\ DOMAIN a.w.ents = DOMAIN r.w.ents
    BY <2>1, <2>2, <2>3, PutFields DEF Leads
  <2>5. Ticked(r, in) = s
    <3>1. IsRaised(a, in) /\ Request(a, in) = q
      BY <1>3, <2>4 DEF IsRaised, Request, q
    <3> QED BY <1>1, <3>1 DEF InteractionSystem
  <2>6. \A k \in Commands : k.type = "RunTool" => k \in X
    BY <1>3 DEF Exempt
  <2> HIDE DEF X
  <2>7. Minds(a, s, X) /\ s.w.raised = a.w.raised \ {q}
    BY <2>1, <2>4, <2>6, ApplyAnswerMinds
  <2> HIDE DEF s
  <2>8. \A k \in s.out : k.type \in WorkTypes =>
            \/ /\ GateOpen(s.w, k.ent)
               /\ k.ent \notin DOMAIN r.w.ents => GateOpen(s.w, s.w.ents[k.ent].parent)
            \/ k \in X
    BY <2>4, <2>7 DEF Minds, Kin, Leads, GoodRun
  <2> QED BY <2>1, <2>4, <2>5, <2>7, <2>8 DEF Holding, X
<1> QED BY <1>2, <1>3

\* Controls, drives that arrive and cancels start no work.
LEMMA ControlHolds ==
    ASSUME NEW r, GoodRun(r), r.out = {}, NEW in, GoodIn(r.w, in),
           in.type \in {"Cancel", "Pause", "Resume", "ClearPolicyHalt", "SetAutonomy",
                        "DriveRequested", "PeerDelivered"}
    PROVE  Holding(r, Ticked(r, in), in)
<1> DEFINE s == Ticked(r, in)
<1>0. in.type \notin AbsorbedInputs /\ in.type # "InteractionAnswer"
  BY DEF AbsorbedInputs
<1>1. CASE in.type \in {"Pause", "Resume", "ClearPolicyHalt"}
  <2>1. s = GateSystem(r, in)
    BY <1>0, <1>1, Ignored DEF Ticked, Begun, TakenIn, Closed, Moved, Linked
  <2>2. GateSystem(r, in).out = r.out
    BY DEF GateSystem, GoodRun
  <2> QED BY <1>0, <2>1, <2>2 DEF Holding
<1>2. CASE in.type = "SetAutonomy"
  <2>1. s = AutonomySystem(r, in)
    BY <1>0, <1>2, Ignored DEF Ticked, Begun, TakenIn, Closed, Moved, Linked
  <2>2. AutonomySystem(r, in).out = r.out
    BY <1>2 DEF AutonomySystem, GoodRun
  <2> QED BY <1>0, <2>1, <2>2 DEF Holding
<1>3. CASE in.type \in {"DriveRequested", "PeerDelivered"}
  <2>1. s = PeerDriveSystem(r, in)
    BY <1>0, <1>3, Ignored DEF Ticked, Begun, TakenIn, Closed, Moved, Linked
  <2>2. \A c, A : [Put(r, Root, c) EXCEPT !.w.applied = A].out = r.out
    BY DEF Put, GoodRun
  <2>3. PeerDriveSystem(r, in).out = r.out
    BY <1>3, <2>2 DEF PeerDriveSystem, ApplyDrive, GoodRun
  <2> QED BY <1>0, <2>1, <2>3 DEF Holding
<1>4. CASE in.type = "Cancel"
  <2>1. s = CancelSystem(r, in)
    BY <1>0, <1>4, Ignored DEF Ticked, Begun, TakenIn, Closed, Moved, Linked
  <2>2. CancelSystem(r, in) = Cancel(r, in.ent) /\ in.ent \in DOMAIN r.w.ents
    <3>1. CancelSystem(r, in) = Cancel(r, in.ent)
      BY <1>4 DEF CancelSystem, AbsorbedInputs
    <3>2. in.ent \in DOMAIN r.w.ents
      BY <1>4 DEF GoodIn, EntInputs
    <3> QED BY <3>1, <3>2
  <2>3. \A x \in Cancel(r, in.ent).out : x.type \in CancelTypes
    <3>1. CASE r.w.ents[in.ent].act \in {"Thinking", "Compacting", "Resolving"}
      BY <2>2, <3>1, CancelFields
    <3>2. CASE r.w.ents[in.ent].act \notin {"Thinking", "Compacting", "Resolving"}
      BY <3>2 DEF Cancel
    <3> QED BY <3>1, <3>2
  <2>4. \A x \in s.out : x.type \notin WorkTypes
    BY <2>1, <2>2, <2>3 DEF CancelTypes, WorkTypes
  <2> QED BY <1>0, <2>4 DEF Holding
<1> QED BY <1>1, <1>2, <1>3, <1>4

\* Whatever comes, work is started behind open gates, but for what the input exempts.
LEMMA TickHolds ==
    ASSUME NEW r, GoodRun(r), r.out = {}, NEW in, GoodIn(r.w, in),
           in.type \in AbsorbedInputs \cup Calls \cup {"PeerSendOutcome", "Cancel"}
    PROVE  Holding(r, Ticked(r, in), in)
<1> DEFINE s == Ticked(r, in)
           X == Exempt(r, in)
<1>1. CASE in.type \in AbsorbedInputs
  BY <1>1, ResponseHolds, AnswerHolds
<1>2. CASE in.type = "InteractionAnswer"
  BY <1>2, InteractionHolds
<1>3. CASE in.type \in {"Cancel", "Pause", "Resume", "ClearPolicyHalt", "SetAutonomy",
                        "DriveRequested", "PeerDelivered"}
  BY <1>3, ControlHolds
<1>4. CASE in.type \in {"ChildReturned", "PeerSendOutcome"}
  <2>1. in.type \notin AbsorbedInputs
    BY <1>4 DEF AbsorbedInputs
  <2>2. s \in {SubagentSystem(r, in), PeerDriveSystem(r, in)}
    BY <1>4, <2>1, Ignored DEF Ticked, Begun, TakenIn, Closed, Moved, Linked
  <2>3. Minds(r, SubagentSystem(r, in), X) /\ Minds(r, PeerDriveSystem(r, in), X)
    BY <1>4, SubagentMinds, PeerDriveMinds
  <2> QED BY <1>4, <2>2, <2>3, HoldingIs
<1>5. CASE in.type = "UserMessage"
  <2> DEFINE u == SteeringSystem(r, in)
  <2>1. in.type \notin AbsorbedInputs
    BY <1>5 DEF AbsorbedInputs
  <2>2. s = IntakeSystem(u, in)
    BY <1>5, <2>1, Ignored DEF Ticked, Begun, TakenIn, Closed, Moved, Linked
  <2> HIDE DEF X
  <2>3. Minds(r, u, X)
    BY SteeringMinds
  <2> HIDE DEF u
  <2>4. GoodRun(u) /\ GoodIn(u.w, in)
    BY <2>3, MindsIn
  <2>5. Minds(u, IntakeSystem(u, in), X)
    BY <2>4, IntakeMinds
  <2>6. Minds(r, s, X)
    BY <2>2, <2>3, <2>5, MindsOn
  <2> QED BY <1>5, <2>6, HoldingIs DEF X
<1> QED BY <1>1, <1>2, <1>3, <1>4, <1>5 DEF Calls

\* What a step emits is new work of the run it folds.
LEMMA EmittedIs ==
    ASSUME GoodRun([w |-> world, out |-> owed]), NEW a, NEW s, owed' = Shell(owed \ a, s.out),
           NEW k \in Emitted
    PROVE  k \in s.out /\ k.type \in WorkTypes
<1>1. k \in owed' /\ k.cmd >= world.nextCmd
  BY DEF Emitted
<1>2. ASSUME NEW l \in owed \ a, NEW b, k = [l EXCEPT !.stop = b]
      PROVE  FALSE
  <2>1. l \in Commands /\ l.cmd \in Nat /\ l.cmd < world.nextCmd
    BY OwedGood
  <2>2. k.cmd = l.cmd
    BY <1>2, <2>1 DEF Commands
  <2>3. world.nextCmd \in Nat
    BY DEF GoodRun, WorldType
  <2> QED BY <1>1, <2>1, <2>2, <2>3
<1>3. k \in {[l EXCEPT !.stop = @ \/ \E x \in s.out : x.type \in CancelTypes /\ x.cmd = l.cmd] :
                l \in owed \ a}
        => \E l \in owed \ a : \E b : k = [l EXCEPT !.stop = b]
  OBVIOUS
<1> QED BY <1>1, <1>2, <1>3 DEF Shell

\* What a step folds starts work behind open gates, but for a compaction that goes on and a
\* tool that is accepted.
LEMMA ComesHold ==
    ASSUME GoodRun([w |-> world, out |-> owed]), NEW in, NEW a, Comes(in, a), NEW k \in Emitted
    PROVE  \/ world'.holds = {} /\ world'.ents[Opener(k)].halt = "none"
           \/ k.type = "CallModel" /\ k.ent \in Ents /\ Act(k.ent) = "Compacting"
           \/ k.type = "RunTool" /\ world'.raised # world.raised
<1>0. GoodIn(world, in) /\ Fold(in, a)
  BY DEF Comes
<1>1. PICK r, s : /\ r.w = world /\ r.out = {} /\ GoodRun(r) /\ GoodIn(r.w, in)
                  /\ s = Ticked(r, in) /\ world' = s.w
                  /\ owed' = Shell(owed \ a, s.out)
  BY <1>0, FoldIs, SMTT(30)
<1>2. in.type \in AbsorbedInputs \cup Calls \cup {"PeerSendOutcome", "Cancel"}
  BY DEF Comes, Fits, AbsorbedInputs
<1>3. Holding(r, s, in)
  BY <1>1, <1>2, TickHolds
<1>4. k \in s.out /\ k.type \in WorkTypes
  BY <1>1, EmittedIs
<1>5. \/ /\ GateOpen(s.w, k.ent)
         /\ k.ent \notin DOMAIN r.w.ents => GateOpen(s.w, s.w.ents[k.ent].parent)
      \/ k \in Exempt(r, in)
  BY <1>3, <1>4 DEF Holding
<1>6. k \in Exempt(r, in) => \/ k.type = "CallModel" /\ k.ent \in Ents /\ Act(k.ent) = "Compacting"
                             \/ k.type = "RunTool" /\ world'.raised # world.raised
  BY <1>1, <1>3 DEF Exempt, Holding, Act, Ents, GoodIn, EntInputs
<1> QED BY <1>1, <1>5, <1>6 DEF GateOpen, Opener, Ents

\* While the world's gate or an entity's own is closed no step starts work for the entity,
\* or for a child of it that is born, but for the continuation of a compaction and a tool the
\* operator accepts: whichever System a result, a response or a control reaches, and
\* whatever the other entities do (apply_gate_systems, TurnAdvance, spawn_or_deny).
THEOREM GatesHold == Spec => ClosedGateStartsNoWork
<1>1. ASSUME IInv, [Next]_vars
      PROVE  [\A k \in Emitted :
                 \/ world'.holds = {} /\ world'.ents[Opener(k)].halt = "none"
                 \/ k.type = "CallModel" /\ k.ent \in Ents /\ Act(k.ent) = "Compacting"
                 \/ k.type = "RunTool" /\ world'.raised # world.raised]_vars
  <2>1. GoodRun([w |-> world, out |-> owed]) /\ msgs \in Nat
    BY <1>1 DEF IInv
  <2>2. CASE Next
    BY <2>1, <2>2, NextComes, ComesHold
  <2>3. CASE UNCHANGED vars
    BY <2>3
  <2> QED BY <1>1, <2>2, <2>3
<1>2. Init => IInv
  BY InitGood
<1>3. IInv /\ [Next]_vars => IInv'
  BY NextGood
<1> QED BY <1>1, <1>2, <1>3, PTL DEF Spec, ClosedGateStartsNoWork

-----------------------------------------------------------------------------
\* What an approval policy holds back.

NoLocal(w, e) == FreshSlots(w, e, "Local") = {}

\* A turn that has a tool left to dispatch was planned behind a closed gate: none of its
\* slots was dispatched, held or settled, and none of its children is born.
Untouched(w, e) ==
    NoLocal(w, e) \/ \A i \in DOMAIN w.ents[e].slots :
        /\ w.ents[e].slots[i].st = "fresh"
        /\ \A x \in DOMAIN w.ents : ~ (w.ents[x].parent = e /\ w.ents[e].slots[i].child = x)

Clean(w) == \A e \in DOMAIN w.ents : Untouched(w, e)

\* From the World w to v only the slots of e change, and only e has children.
Around(w, v, e) ==
    /\ DOMAIN w.ents \subseteq DOMAIN v.ents
    /\ \A f \in DOMAIN w.ents : /\ v.ents[f].parent = w.ents[f].parent
                                /\ f # e => v.ents[f].slots = w.ents[f].slots
    /\ \A f \in DOMAIN v.ents \ DOMAIN w.ents :
          v.ents[f].parent = e /\ v.ents[f].slots = <<>>

\* A World stays clean around e when e does.
LEMMA CleanAround ==
    ASSUME NEW w, NEW v, NEW e, Clean(w), Around(w, v, e), Untouched(v, e)
    PROVE  Clean(v)
<1> SUFFICES ASSUME NEW f \in DOMAIN v.ents
             PROVE  Untouched(v, f)
  BY DEF Clean
<1>1. CASE f \notin DOMAIN w.ents
  <2>1. v.ents[f].slots = <<>>
    BY <1>1 DEF Around
  <2> QED BY <2>1 DEF Untouched, NoLocal, FreshSlots
<1>2. CASE f \in DOMAIN w.ents /\ f # e
  <2>1. v.ents[f].slots = w.ents[f].slots /\ Untouched(w, f)
    BY <1>2 DEF Around, Clean
  <2>2. CASE NoLocal(w, f)
    BY <2>1, <2>2 DEF Untouched, NoLocal, FreshSlots
  <2>3. CASE ~ NoLocal(w, f)
    <3>1. \A i \in DOMAIN v.ents[f].slots :
             /\ v.ents[f].slots[i].st = "fresh"
             /\ \A x \in DOMAIN w.ents : ~ (w.ents[x].parent = f /\ v.ents[f].slots[i].child = x)
      BY <2>1, <2>3 DEF Untouched
    <3>2. ASSUME NEW x \in DOMAIN v.ents, v.ents[x].parent = f
          PROVE  x \in DOMAIN w.ents /\ w.ents[x].parent = f
      BY <1>2, <3>2 DEF Around
    <3> QED BY <3>1, <3>2 DEF Untouched
  <2> QED BY <2>2, <2>3
<1>3. CASE f = e
  BY <1>3
<1> QED BY <1>1, <1>2, <1>3

\* Without fresh Local slots e is untouched; so it is with the slots it had, childless still.
LEMMA CleanPut ==
    ASSUME NEW r, GoodRun(r), NEW e \in DOMAIN r.w.ents, NEW c, Clean(r.w),
           c.parent = r.w.ents[e].parent,
           \/ c.slots = r.w.ents[e].slots
           \/ \A i \in DOMAIN c.slots : ~ (c.slots[i].kind = "Local" /\ c.slots[i].st = "fresh")
    PROVE  Clean(Put(r, e, c).w)
<1> DEFINE v == Put(r, e, c).w
<1>1. /\ DOMAIN v.ents = DOMAIN r.w.ents /\ v.ents[e] = c
      /\ \A f \in DOMAIN r.w.ents \ {e} : v.ents[f] = r.w.ents[f]
  BY PutFields
<1> HIDE DEF v
<1>2. Around(r.w, v, e)
  BY <1>1 DEF Around
<1>3. Untouched(v, e)
  <2>1. CASE \A i \in DOMAIN c.slots : ~ (c.slots[i].kind = "Local" /\ c.slots[i].st = "fresh")
    BY <1>1, <2>1 DEF Untouched, NoLocal, FreshSlots
  <2>2. CASE c.slots = r.w.ents[e].slots
    <3>1. \A x \in DOMAIN v.ents : x \in DOMAIN r.w.ents /\ v.ents[x].parent = r.w.ents[x].parent
      BY <1>1
    <3>2. Untouched(r.w, e) /\ v.ents[e].slots = r.w.ents[e].slots
      BY <1>1, <2>2 DEF Clean
    <3> QED BY <3>1, <3>2 DEF Untouched, NoLocal, FreshSlots
  <2> QED BY <2>1, <2>2
<1> QED BY <1>2, <1>3, CleanAround DEF v

\* From r to s the turn of e goes on: with no tool left to dispatch it dispatches none.
Turns(r, s, e) ==
    /\ Leads(r, s)
    /\ s.w.ask = r.w.ask
    /\ Around(r.w, s.w, e)
    /\ NoLocal(r.w, e) => NoLocal(s.w, e) /\ \A x \in s.out \ r.out : x.type # "RunTool"

\* A turn that does not go on.
LEMMA TurnsSelf == ASSUME NEW r, GoodRun(r), NEW e PROVE Turns(r, r, e)
BY LeadsSelf DEF Turns, Around

\* Steps of one turn compose.
LEMMA TurnsAlong ==
    ASSUME NEW r, NEW s, NEW t, NEW e \in DOMAIN r.w.ents, Turns(r, s, e), Turns(s, t, e)
    PROVE  Turns(r, t, e)
<1>1. Leads(r, t) /\ t.w.ask = r.w.ask
  BY LeadsOn DEF Turns
<1>2. Around(r.w, t.w, e)
  BY DEF Turns, Around
<1>3. NoLocal(r.w, e) => NoLocal(t.w, e) /\ \A x \in t.out \ r.out : x.type # "RunTool"
  BY DEF Turns
<1> QED BY <1>1, <1>2, <1>3 DEF Turns

\* After the turn of e a clean World is clean, if it leaves no tool of e to dispatch.
LEMMA TurnsClean ==
    ASSUME NEW r, NEW s, NEW e, Turns(r, s, e), NoLocal(s.w, e), Clean(r.w)
    PROVE  Clean(s.w)
BY CleanAround DEF Turns, Untouched

\* From r to s a clean World stays clean, and no tool is dispatched.
Cleans(r, s) ==
    /\ Leads(r, s)
    /\ Clean(r.w) => Clean(s.w)
    /\ s.w.ask = r.w.ask
    /\ \A x \in s.out \ r.out : x.type # "RunTool"

\* Settling slots goes on.
LEMMA SettleTurns ==
    ASSUME NEW r, GoodRun(r), NEW e \in DOMAIN r.w.ents, NEW I, NEW err \in BOOLEAN
    PROVE  /\ Turns(r, Settle(r, e, I, err), e)
           /\ FreshSlots(r.w, e, "Local") \subseteq I => NoLocal(Settle(r, e, I, err).w, e)
<1> DEFINE c == r.w.ents[e]
           d == SettleSlots(c, I, err)
           s == Settle(r, e, I, err)
<1>1. Leads(r, s)
  BY SettleGood
<1>2. c \in Components
  BY EntGood
<1>3. /\ d.parent = c.parent
      /\ d.slots = [i \in DOMAIN c.slots |->
                      IF i \in I THEN [c.slots[i] EXCEPT !.st = "done", !.cmd = None, !.err = err]
                      ELSE c.slots[i]]
  BY <1>2 DEF SettleSlots, Components
<1>4. /\ DOMAIN d.slots = DOMAIN c.slots
      /\ \A i \in DOMAIN c.slots : i \notin I => d.slots[i] = c.slots[i]
      /\ \A i \in DOMAIN c.slots : i \in I => d.slots[i].st = "done"
  <2>1. \A i \in DOMAIN c.slots : c.slots[i] \in ToolSlots
    BY <1>2, EntFields
  <2>2. \A i \in DOMAIN c.slots : i \in I =>
           d.slots[i] = [c.slots[i] EXCEPT !.st = "done", !.cmd = None, !.err = err]
    BY <1>3
  <2>3. \A i \in DOMAIN c.slots : i \in I => d.slots[i].st = "done"
    BY <2>1, <2>2 DEF ToolSlots
  <2> QED BY <1>3, <2>3
<1>5. s = Put(r, e, d)
  BY DEF Settle
<1> HIDE DEF d, s
<1>6. /\ DOMAIN s.w.ents = DOMAIN r.w.ents /\ s.w.ents[e] = d /\ s.out = r.out
      /\ \A f \in DOMAIN r.w.ents \ {e} : s.w.ents[f] = r.w.ents[f]
      /\ s.w.ask = r.w.ask
  BY <1>5, PutFields, PutRest
<1>7. Around(r.w, s.w, e)
  BY <1>3, <1>6 DEF Around
<1>8. /\ NoLocal(r.w, e) => NoLocal(s.w, e)
      /\ FreshSlots(r.w, e, "Local") \subseteq I => NoLocal(s.w, e)
  <2>1. \A i \in FreshSlots(s.w, e, "Local") : i \in FreshSlots(r.w, e, "Local") /\ i \notin I
    BY <1>4, <1>6 DEF FreshSlots
  <2> QED BY <2>1 DEF NoLocal
<1> QED BY <1>1, <1>6, <1>7, <1>8 DEF Turns, s

\* So does dispatching slots, tools only if there are some left.
LEMMA DispatchTurns ==
    ASSUME NEW r, GoodRun(r), NEW e \in DOMAIN r.w.ents,
           NEW I \in SUBSET DOMAIN r.w.ents[e].slots, NEW type \in WorkTypes,
           NoLocal(r.w, e) /\ type = "RunTool" => I = {}
    PROVE  /\ Turns(r, Dispatch(r, e, I, type), e)
           /\ FreshSlots(r.w, e, "Local") \subseteq I => NoLocal(Dispatch(r, e, I, type).w, e)
<1> DEFINE s == Dispatch(r, e, I, type)
<1>1. Leads(r, s) /\ Sends(r, s, e, I, type)
  BY DispatchGood, DispatchSends
<1> HIDE DEF s
<1>2. Around(r.w, s.w, e)
  BY <1>1 DEF Sends, Around
<1>3. /\ NoLocal(r.w, e) => NoLocal(s.w, e)
      /\ FreshSlots(r.w, e, "Local") \subseteq I => NoLocal(s.w, e)
  <2>1. \A i \in FreshSlots(s.w, e, "Local") : i \in FreshSlots(r.w, e, "Local") /\ i \notin I
    <3>1. /\ DOMAIN s.w.ents[e].slots = DOMAIN r.w.ents[e].slots
          /\ \A i \in DOMAIN r.w.ents[e].slots : i \notin I =>
                s.w.ents[e].slots[i] = r.w.ents[e].slots[i]
          /\ \A i \in I : s.w.ents[e].slots[i].st = "sent"
      BY <1>1 DEF Sends
    <3> QED BY <3>1 DEF FreshSlots
  <2> QED BY <2>1 DEF NoLocal
<1>4. NoLocal(r.w, e) => \A x \in s.out \ r.out : x.type # "RunTool"
  BY <1>1 DEF Sends
<1>5. s.w.ask = r.w.ask
  BY <1>1 DEF Sends
<1> QED BY <1>1, <1>2, <1>3, <1>4, <1>5 DEF Turns, s

\* A call of the model ends the turn's slots.
LEMMA ThinkTurns ==
    ASSUME NEW r, GoodRun(r), NEW e \in DOMAIN r.w.ents, NEW c, GoodEnt(r.w, c),
           c.parent = r.w.ents[e].parent
    PROVE  /\ Turns(r, Think(r, e, c), e) /\ NoLocal(Think(r, e, c).w, e)
           /\ Cleans(r, Think(r, e, c))
<1> DEFINE s == Think(r, e, c)
<1>1. Leads(r, s)
  BY ThinkGood
<1>2. c \in Components
  BY DEF GoodEnt
<1>3. /\ DOMAIN s.w.ents = DOMAIN r.w.ents
      /\ \A f \in DOMAIN r.w.ents \ {e} : s.w.ents[f] = r.w.ents[f]
      /\ s.w.ents[e].parent = c.parent /\ DOMAIN s.w.ents[e].slots = {}
      /\ s.w.ask = r.w.ask /\ s.out = r.out \cup {Command("CallModel", r.w.nextCmd, e, 0)}
  BY <1>2, ThinkFields
<1>4. Command("CallModel", r.w.nextCmd, e, 0).type = "CallModel"
  BY DEF Command
<1> HIDE DEF s
<1>5. NoLocal(s.w, e)
  BY <1>3 DEF NoLocal, FreshSlots
<1>6. Around(r.w, s.w, e)
  BY <1>3 DEF Around
<1>7. \A x \in s.out \ r.out : x.type # "RunTool"
  BY <1>3, <1>4
<1>8. Turns(r, s, e)
  BY <1>1, <1>3, <1>5, <1>6, <1>7 DEF Turns
<1> QED BY <1>1, <1>3, <1>5, <1>7, <1>8, TurnsClean DEF Cleans, s

\* A turn that goes on behind an open gate leaves no tool to dispatch.
LEMMA AdvanceTurns ==
    ASSUME NEW r, GoodRun(r), NEW e \in DOMAIN r.w.ents
    PROVE  /\ Turns(r, Advance(r, e), e)
           /\ GateOpen(r.w, e) \/ NoLocal(r.w, e) => NoLocal(Advance(r, e).w, e)
<1> DEFINE I == FreshSlots(r.w, e, "Local")
           s == Dispatch(r, e, I, "RunTool")
           c == s.w.ents[e]
           d == WithResults(c)
           t == Think(s, e, d)
<1>1. (Advance(r, e) = r /\ ~ GateOpen(r.w, e)) \/ Advance(r, e) \in {s, t}
  BY DEF Advance
<1>2. I \in SUBSET DOMAIN r.w.ents[e].slots /\ "RunTool" \in WorkTypes
  BY SomeSlots DEF WorkTypes
<1>3. NoLocal(r.w, e) => I = {}
  BY DEF NoLocal
<1>4. Turns(r, s, e) /\ NoLocal(s.w, e)
  BY <1>2, <1>3, DispatchTurns
<1> HIDE DEF I, s
<1>5. GoodRun(s) /\ e \in DOMAIN s.w.ents
  BY <1>4 DEF Turns, Leads
<1>6. c \in Components /\ GoodEnt(s.w, c)
  BY <1>5, EntGood
<1>7. GoodEnt(s.w, d) /\ d.parent = c.parent
  <2> HIDE DEF c
  <2>1. Append(c.hist, Msg("results", c.turn)) \in Seq(Msgs)
    BY <1>6, EntFields DEF Msg, Msgs, Roles
  <2>2. /\ d \in Components /\ d.parent = c.parent /\ d.awaits = c.awaits /\ d.slots = c.slots
    BY <1>6, <2>1 DEF WithResults, Components
  <2> QED BY <1>6, <2>2 DEF GoodEnt
<1> HIDE DEF d
<1>8. Turns(s, t, e) /\ NoLocal(t.w, e)
  BY <1>5, <1>7, ThinkTurns
<1> HIDE DEF t
<1>9. Turns(r, t, e)
  BY <1>4, <1>8, TurnsAlong
<1> QED BY <1>1, <1>4, <1>8, <1>9, TurnsSelf DEF Turns

\* Results and denials go on.
LEMMA SettleAdvanceTurns ==
    ASSUME NEW r, GoodRun(r), NEW e \in DOMAIN r.w.ents, NEW I, NEW err \in BOOLEAN
    PROVE  /\ Turns(r, Advance(Settle(r, e, I, err), e), e)
           /\ GateOpen(r.w, e) \/ NoLocal(r.w, e) =>
                 NoLocal(Advance(Settle(r, e, I, err), e).w, e)
<1> DEFINE s == Settle(r, e, I, err)
           t == Advance(s, e)
<1>1. Turns(r, s, e) /\ Minds(r, s, {})
  BY SettleTurns, SettleMinds
<1> HIDE DEF s
<1>2. GoodRun(s) /\ e \in DOMAIN s.w.ents /\ (GateOpen(r.w, e) => GateOpen(s.w, e))
  BY <1>1 DEF Minds, Leads, Kin, GateOpen
<1>3. Turns(s, t, e) /\ (GateOpen(s.w, e) \/ NoLocal(s.w, e) => NoLocal(t.w, e))
  BY <1>2, AdvanceTurns
<1> HIDE DEF t
<1>4. Turns(r, t, e)
  BY <1>1, <1>3, TurnsAlong
<1> QED BY <1>1, <1>2, <1>3, <1>4 DEF Turns, s, t

\* Slots that are dispatched behind an open gate go on, and leave no tool.
LEMMA DispatchAdvanceTurns ==
    ASSUME NEW r, GoodRun(r), NEW e \in DOMAIN r.w.ents,
           NEW I \in SUBSET DOMAIN r.w.ents[e].slots, NEW type \in WorkTypes, type # "RunTool"
    PROVE  Turns(r, Advance(Dispatch(r, e, I, type), e), e)
<1> DEFINE s == Dispatch(r, e, I, type)
<1>1. Turns(r, s, e)
  BY DispatchTurns
<1> HIDE DEF s
<1>2. GoodRun(s) /\ e \in DOMAIN s.w.ents
  BY <1>1 DEF Turns, Leads
<1>3. Turns(s, Advance(s, e), e)
  BY <1>2, AdvanceTurns
<1> QED BY <1>1, <1>3, TurnsAlong DEF s

\* Children are born to the entity whose turn it is, without slots.
LEMMA SpawnTurns ==
    ASSUME NEW r, GoodRun(r), NEW p \in DOMAIN r.w.ents, NEW A \in SUBSET NewChildren(r.w, p),
           Leads(r, Spawn(r, p, A))
    PROVE  Turns(r, Spawn(r, p, A), p)
<1> DEFINE c == r.w.ents[p]
           s == Spawn(r, p, A)
<1>1. c = r.w.ents[p] /\ s = Spawn(r, p, A) OBVIOUS
<1> HIDE DEF c, s
<1>2. /\ DOMAIN r.w.ents \subseteq DOMAIN s.w.ents
      /\ \A f \in DOMAIN r.w.ents \ {p} : s.w.ents[f] = r.w.ents[f]
      /\ s.w.ents[p].slots = c.slots /\ s.w.ents[p].parent = c.parent
      /\ s.w.ask = r.w.ask
      /\ \A e \in DOMAIN s.w.ents \ DOMAIN r.w.ents :
            s.w.ents[e].slots = <<>> /\ s.w.ents[e].parent = p
      /\ \A x \in s.out : \/ x \in r.out
                          \/ \E i \in A : x = Command("CallModel", r.w.nextCmd + Rank(i, A),
                                                      c.slots[i].child, 0)
  BY <1>1, SpawnFields
<1>3. Around(r.w, s.w, p)
  BY <1>1, <1>2 DEF Around
<1>4. NoLocal(r.w, p) => NoLocal(s.w, p)
  BY <1>1, <1>2 DEF NoLocal, FreshSlots
<1>5. \A x \in s.out \ r.out : x.type # "RunTool"
  BY <1>2 DEF Command
<1> QED BY <1>1, <1>2, <1>3, <1>4, <1>5 DEF Turns

\* The spawns of a response go on.
LEMMA SpawnOrDenyTurns ==
    ASSUME NEW r, GoodRun(r), NEW p \in DOMAIN r.w.ents
    PROVE  /\ Turns(r, SpawnOrDeny(r, p), p)
           /\ ~ GateOpen(r.w, p) => SpawnOrDeny(r, p) = r
<1> DEFINE A == Admitted(r.w, p)
           u == Spawn(r, p, A)
           I == NewChildren(r.w, p) \ A
           t == Advance(Settle(u, p, I, TRUE), p)
<1>1. /\ SpawnOrDeny(r, p) \in {r, t}
      /\ ~ GateOpen(r.w, p) => SpawnOrDeny(r, p) = r
  BY DEF SpawnOrDeny
<1>2. A \in SUBSET NewChildren(r.w, p)
  BY DEF Admitted
<1>3. Leads(r, u)
  BY <1>2, SpawnGood
<1> HIDE DEF A, I
<1>4. Turns(r, u, p)
  BY <1>2, <1>3, SpawnTurns
<1> HIDE DEF u
<1>5. GoodRun(u) /\ p \in DOMAIN u.w.ents
  BY <1>3 DEF Leads
<1>6. Turns(u, t, p)
  BY <1>5, SettleAdvanceTurns
<1> HIDE DEF t
<1>7. Turns(r, t, p)
  BY <1>4, <1>6, TurnsAlong
<1> QED BY <1>1, <1>7, TurnsSelf

\* The peer drives of a response go on.
LEMMA EmitOrDenyTurns ==
    ASSUME NEW r, GoodRun(r), NEW e \in DOMAIN r.w.ents
    PROVE  /\ Turns(r, EmitOrDeny(r, e), e)
           /\ ~ GateOpen(r.w, e) => EmitOrDeny(r, e) = r
<1> DEFINE I == FreshSlots(r.w, e, "Peer")
           bad == FreshSlots(r.w, e, "BadPeer")
           yes == TRUE
           s == Settle(r, e, bad, yes)
           t == Advance(Dispatch(s, e, I, "SendPeer"), e)
<1>1. /\ EmitOrDeny(r, e) \in {r, t}
      /\ ~ GateOpen(r.w, e) => EmitOrDeny(r, e) = r
  BY DEF EmitOrDeny
<1>2. I \in SUBSET DOMAIN r.w.ents[e].slots /\ yes \in BOOLEAN
  BY SomeSlots
<1> HIDE DEF I, bad, yes
<1>3. Turns(r, s, e) /\ DOMAIN s.w.ents[e].slots = DOMAIN r.w.ents[e].slots
  BY <1>2, SettleTurns, SettleFields
<1> HIDE DEF s
<1>4. GoodRun(s) /\ e \in DOMAIN s.w.ents /\ "SendPeer" \in WorkTypes
  BY <1>3 DEF Turns, Leads, WorkTypes
<1>5. Turns(s, t, e)
  BY <1>2, <1>3, <1>4, DispatchAdvanceTurns
<1> HIDE DEF t
<1>6. Turns(r, t, e)
  BY <1>3, <1>5, TurnsAlong
<1> QED BY <1>1, <1>6, TurnsSelf

\* The human actions of a response go on.
LEMMA RequestHumanTurns ==
    ASSUME NEW r, GoodRun(r), NEW in, GoodIn(r.w, in), in.type = "ModelResponded"
    PROVE  /\ Turns(r, HumanActionSystem(r, in), in.ent)
           /\ ~ GateOpen(r.w, in.ent) => HumanActionSystem(r, in) = r
<1> DEFINE e == in.ent
           I == FreshSlots(r.w, e, "Human")
           t == Advance(Dispatch(r, e, I, "RequestHumanAction"), e)
<1>1. /\ HumanActionSystem(r, in) \in {r, t}
      /\ ~ GateOpen(r.w, e) => HumanActionSystem(r, in) = r
  BY DEF HumanActionSystem
<1>2. /\ I \in SUBSET DOMAIN r.w.ents[e].slots /\ e \in DOMAIN r.w.ents
      /\ "RequestHumanAction" \in WorkTypes
  BY SomeSlots DEF GoodIn, EntInputs, WorkTypes
<1> HIDE DEF I, e
<1>3. Turns(r, t, e)
  BY <1>2, DispatchAdvanceTurns
<1> HIDE DEF t
<1> QED BY <1>1, <1>3, TurnsSelf DEF e

\* Under a policy the new slots of a response leave no tool to dispatch: they are held.
LEMMA GateNewSlotsClean ==
    ASSUME NEW r, GoodRun(r), NEW e \in DOMAIN r.w.ents, Clean(r.w),
           NEW s, s = GateNewSlots(r, e)
    PROVE  /\ Leads(r, s) /\ Clean(s.w) /\ s.out = r.out /\ s.w.ask = r.w.ask
           /\ r.w.ask => NoLocal(s.w, e)
<1>1. Leads(r, s)
  BY GateNewSlotsGood
<1>2. CASE r.w.ask
  <2>1. Holds(r, s, e)
    BY <1>2, GateNewSlotsHolds
  <2>2. NoLocal(s.w, e)
    <3>1. \A i \in DOMAIN s.w.ents[e].slots :
             \/ s.w.ents[e].slots[i].st = "held"
             \/ i \notin FreshSlots(r.w, e, "Local") /\ s.w.ents[e].slots[i] = r.w.ents[e].slots[i]
      BY <2>1 DEF Holds
    <3>2. DOMAIN s.w.ents[e].slots = DOMAIN r.w.ents[e].slots
      BY <2>1 DEF Holds
    <3>3. FreshSlots(s.w, e, "Local") = {}
      BY <3>1, <3>2 DEF FreshSlots
    <3> QED BY <3>3 DEF NoLocal
  <2>3. Around(r.w, s.w, e)
    BY <2>1 DEF Holds, Around
  <2>4. Clean(s.w)
    BY <2>2, <2>3, CleanAround DEF Untouched
  <2> QED BY <1>1, <2>1, <2>2, <2>4 DEF Holds
<1>3. CASE ~ r.w.ask
  <2>1. s = r
    BY <1>3, GateNewSlotsHolds
  <2> QED BY <1>1, <1>3, <2>1
<1> QED BY <1>2, <1>3

\* What is clean stays so.
LEMMA CleansSelf == ASSUME NEW r, GoodRun(r) PROVE Cleans(r, r)
BY LeadsSelf DEF Cleans

\* Clean steps compose.
LEMMA CleansOn ==
    ASSUME NEW r, NEW s, NEW t, Cleans(r, s), Cleans(s, t)
    PROVE  Cleans(r, t)
BY LeadsOn DEF Cleans

\* A turn without tools to dispatch goes on cleanly.
LEMMA TurnsCleanly ==
    ASSUME NEW r, NEW s, NEW e, Turns(r, s, e), NoLocal(r.w, e)
    PROVE  Cleans(r, s) /\ NoLocal(s.w, e)
BY TurnsClean DEF Turns, Cleans

\* Components with the slots they had, or with none to dispatch, are clean.
LEMMA PutCleans ==
    ASSUME NEW r, GoodRun(r), NEW e \in DOMAIN r.w.ents, NEW c, Leads(r, Put(r, e, c)),
           c.parent = r.w.ents[e].parent,
           \/ c.slots = r.w.ents[e].slots
           \/ \A i \in DOMAIN c.slots : ~ (c.slots[i].kind = "Local" /\ c.slots[i].st = "fresh")
    PROVE  Cleans(r, Put(r, e, c))
<1>1. Put(r, e, c).out = r.out /\ Put(r, e, c).w.ask = r.w.ask
  BY PutFields, PutRest
<1>2. Clean(r.w) => Clean(Put(r, e, c).w)
  BY CleanPut
<1> QED BY <1>1, <1>2 DEF Cleans

\* So is a World with the same entities.
LEMMA SameCleans ==
    ASSUME NEW r, NEW s, Leads(r, s), DOMAIN s.w.ents = DOMAIN r.w.ents, s.w.ask = r.w.ask,
           \A e \in DOMAIN r.w.ents : /\ s.w.ents[e].parent = r.w.ents[e].parent
                                      /\ s.w.ents[e].slots = r.w.ents[e].slots,
           \A x \in s.out \ r.out : x.type # "RunTool"
    PROVE  Cleans(r, s)
<1>1. ASSUME Clean(r.w), NEW e \in DOMAIN s.w.ents
      PROVE  Untouched(s.w, e)
  <2>1. Untouched(r.w, e) /\ s.w.ents[e].slots = r.w.ents[e].slots
    BY <1>1 DEF Clean
  <2> QED BY <2>1 DEF Untouched, NoLocal, FreshSlots
<1> QED BY <1>1 DEF Cleans, Clean

\* Late answers are absorbed cleanly; the slots stay as they are.
LEMMA AbsorbCleans ==
    ASSUME NEW r, GoodRun(r), NEW in, GoodIn(r.w, in), in.type \in AbsorbedInputs
    PROVE  /\ Cleans(r, CancelSystem(r, in))
           /\ NoLocal(r.w, in.ent) => NoLocal(CancelSystem(r, in).w, in.ent)
<1> DEFINE e == in.ent
           c == r.w.ents[e]
           d == [c EXCEPT !.awaits = @ \ {in.cmd}, !.act = IF c.awaits = {in.cmd} THEN "Idle" ELSE @]
<1>1. CancelSystem(r, in) = Absorb(r, e, in.cmd) /\ e \in DOMAIN r.w.ents
  <2>1. CancelSystem(r, in) = Absorb(r, e, in.cmd)
    BY DEF CancelSystem, AbsorbedInputs
  <2>2. e \in DOMAIN r.w.ents
    BY DEF AbsorbedInputs, GoodIn, EntInputs
  <2> QED BY <2>1, <2>2
<1>2. CancelSystem(r, in) \in {r, Put(r, e, d)}
  BY <1>1 DEF Absorb
<1>3. Leads(r, CancelSystem(r, in))
  BY <1>1, AbsorbGood
<1>4. d.slots = c.slots /\ d.parent = c.parent
  BY <1>1, EntGood DEF Components
<1> HIDE DEF d, e
<1>5. CASE CancelSystem(r, in) = r
  BY <1>5, CleansSelf DEF e
<1>6. CASE CancelSystem(r, in) = Put(r, e, d)
  <2>1. Put(r, e, d).w.ents[e] = d
    BY <1>1, PutFields
  <2>2. NoLocal(r.w, e) => NoLocal(Put(r, e, d).w, e)
    BY <1>4, <2>1 DEF NoLocal, FreshSlots
  <2> QED BY <1>1, <1>3, <1>4, <1>6, <2>2, PutCleans DEF e
<1> QED BY <1>2, <1>5, <1>6

\* A turn that closes has no slots; one that asks for tools has fresh ones, of children
\* that are not born (begin_resolving_tool_uses).
LEMMA TurnCleans ==
    ASSUME NEW r, GoodRun(r), NEW in, GoodIn(r.w, in),
           in.type \in {"ModelResponded", "ModelFailed", "InferenceCancelled"}
    PROVE  Cleans(r, TurnSystem(r, in))
<1> DEFINE e == in.ent
           c == r.w.ents[e]
           s == TurnSystem(r, in)
<1>0. e \in DOMAIN r.w.ents
  BY DEF GoodIn, EntInputs
<1>1. Leads(r, s)
  BY TurnSystemGood
<1>2. \/ s = r
      \/ \E said : s = CloseTurn(r, e, said)
      \/ in.type = "ModelResponded" /\ s = BeginResolving(r, e, in.cmd, in.plan)
  BY DEF TurnSystem
<1>3. c \in Components
  BY <1>0, EntGood
<1>4. ASSUME NEW said, s = CloseTurn(r, e, said)
      PROVE  Cleans(r, s)
  <2> DEFINE d == [ToIdle(c) EXCEPT !.hist = @ \o said]
  <2>1. s = Put(r, e, d)
    BY <1>4 DEF CloseTurn
  <2>2. DOMAIN d.slots = {} /\ d.parent = c.parent
    <3>1. d.slots = <<>> /\ d.parent = c.parent
      BY <1>3 DEF ToIdle, Components
    <3> HIDE DEF d
    <3> QED BY <3>1
  <2> HIDE DEF d, s
  <2> QED BY <1>0, <1>1, <2>1, <2>2, PutCleans
<1>5. ASSUME in.type = "ModelResponded", s = BeginResolving(r, e, in.cmd, in.plan)
      PROVE  Cleans(r, s)
  <2> DEFINE n == Cardinality({i \in DOMAIN in.plan : in.plan[i] = "Child"})
             m == MintEnts(r, n)
             X == NewSlots(in.plan, r.w.nextEnt)
             d == [ToIdle(c) EXCEPT !.hist = Append(@, Msg("uses", in.cmd)), !.act = "Resolving",
                                    !.turn = in.cmd, !.slots = X]
  <2>1. s = Put(m, e, d)
    BY <1>5 DEF BeginResolving
  <2>2. in.plan \in Seq(SlotKinds) /\ r.w.nextEnt \in Nat
    BY <1>5 DEF GoodIn, GoodRun, WorldType
  <2>3. n \in Nat
    <3>1. IsFiniteSet(DOMAIN in.plan)
      BY <2>2, FS_Interval
    <3> QED BY <3>1, FS_Subset, FS_CardinalityType
  <2> HIDE DEF n
  <2>4. \A i \in DOMAIN X : X[i].st = "fresh" /\ X[i].child \notin DOMAIN r.w.ents
    <3> DEFINE spawns == {i \in DOMAIN in.plan : in.plan[i] = "Child"}
    <3>1. spawns \in SUBSET (1 .. Len(in.plan)) /\ Len(in.plan) \in Nat
      BY <2>2
    <3>2. \A i \in DOMAIN X : X[i].st = "fresh" /\
             X[i].child = IF i \in spawns THEN r.w.nextEnt + Rank(i, spawns) ELSE None
      BY DEF NewSlots
    <3> HIDE DEF spawns, X
    <3>3. \A i \in spawns : Rank(i, spawns) \in Nat
      BY <3>1, RankType
    <3>4. \A f \in DOMAIN r.w.ents : f \in Nat /\ f < r.w.nextEnt
      BY DEF GoodRun, WorldType
    <3>5. \A i \in DOMAIN X : X[i].child \in DOMAIN r.w.ents => FALSE
      BY <2>2, <3>2, <3>3, <3>4 DEF None
    <3> QED BY <3>2, <3>5
  <2>5. GoodRun(m) /\ m.w.ents = r.w.ents
    BY <2>3, MintEntsGood
  <2>6. m.out = r.out /\ m.w.ask = r.w.ask
    <3>1. m.w = [r.w EXCEPT !.nextEnt = @ + n] /\ m.out = r.out
      BY DEF GoodRun, MintEnts
    <3> QED BY <3>1 DEF GoodRun, WorldType
  <2> HIDE DEF X
  <2>7. d.slots = X /\ d.parent = c.parent
    BY <1>3 DEF ToIdle, Components
  <2> HIDE DEF m, d, s, e, c
  <2>8. /\ s.out = m.out /\ s.w.ents[e] = d /\ DOMAIN s.w.ents = DOMAIN r.w.ents
        /\ \A f \in DOMAIN r.w.ents \ {e} : s.w.ents[f] = r.w.ents[f]
        /\ s.w.ask = m.w.ask
    BY <1>0, <2>1, <2>5, PutFields, PutRest
  <2>9. Around(r.w, s.w, e)
    BY <2>7, <2>8 DEF Around, c
  <2>10. Untouched(s.w, e)
    BY <2>4, <2>7, <2>8 DEF Untouched
  <2>11. Clean(r.w) => Clean(s.w)
    BY <2>9, <2>10, CleanAround
  <2> QED BY <1>1, <2>6, <2>8, <2>11 DEF Cleans, s
<1> HIDE DEF s
<1> QED BY <1>2, <1>4, <1>5, CleansSelf DEF s

\* A response is counted cleanly: a budget it exhausts denies all that is pending
\* (BudgetSystem, GuardrailSystem).
LEMMA BudgetCleans ==
    ASSUME NEW r, GoodRun(r), NEW in, GoodIn(r.w, in), in.type = "ModelResponded"
    PROVE  Cleans(r, BudgetSystem(r, in))
<1> DEFINE e == in.ent
           c == r.w.ents[e]
           spend == SaturatingAdd(c.spend, in.usage, LimitOf(e, SpendLimit))
           context == SaturatingAdd(0, in.usage, LimitOf(e, ContextLimit))
           folded == [c EXCEPT !.spend = spend, !.context = context]
           halted == [folded EXCEPT !.halt = "budget-exhausted"]
           I == Pending(r.w, e)
           d == SettleSlots(halted, I, TRUE)
           s == BudgetSystem(r, in)
<1>1. e \in DOMAIN r.w.ents
  BY DEF GoodIn, EntInputs
<1>2. c \in Components
  BY <1>1, EntGood
<1>3. s \in {Put(r, e, d), Put(r, e, folded)}
  BY DEF BudgetSystem
<1>4. Leads(r, s)
  BY BudgetGood
<1> HIDE DEF spend, context
<1>5. /\ folded.parent = c.parent /\ folded.slots = c.slots
      /\ halted.parent = c.parent /\ halted.slots = c.slots
      /\ d.parent = halted.parent
      /\ d.slots = [i \in DOMAIN halted.slots |->
                      IF i \in I THEN [halted.slots[i] EXCEPT !.st = "done", !.cmd = None, !.err = TRUE]
                      ELSE halted.slots[i]]
  BY <1>2 DEF SettleSlots, Components
<1>6. ASSUME NEW i \in DOMAIN d.slots
      PROVE  d.slots[i].st = "done"
  <2>1. i \in DOMAIN c.slots
    BY <1>5, <1>6
  <2>2. c.slots[i] \in ToolSlots
    BY <1>2, <2>1, EntFields
  <2>3. CASE i \in I
    <3>1. d.slots[i] = [c.slots[i] EXCEPT !.st = "done", !.cmd = None, !.err = TRUE]
      BY <1>5, <2>1, <2>3
    <3> HIDE DEF d
    <3> QED BY <2>2, <3>1 DEF ToolSlots
  <2>4. CASE i \notin I
    <3>1. d.slots[i] = c.slots[i]
      BY <1>5, <2>1, <2>4
    <3> QED BY <2>1, <2>4, <3>1 DEF Pending
  <2> QED BY <2>3, <2>4
<1> HIDE DEF d, folded, halted, s, I, e
<1>7. CASE s = Put(r, e, d)
  <2>1. Leads(r, Put(r, e, d)) /\ d.parent = r.w.ents[e].parent
    BY <1>4, <1>5, <1>7
  <2>2. \A i \in DOMAIN d.slots : ~ (d.slots[i].kind = "Local" /\ d.slots[i].st = "fresh")
    BY <1>6
  <2>3. Cleans(r, Put(r, e, d))
    BY <1>1, <2>1, <2>2, PutCleans
  <2> QED BY <1>7, <2>3 DEF s
<1>8. CASE s = Put(r, e, folded)
  <2>1. /\ Leads(r, Put(r, e, folded)) /\ folded.parent = r.w.ents[e].parent
        /\ folded.slots = r.w.ents[e].slots
    BY <1>4, <1>5, <1>8
  <2>2. Cleans(r, Put(r, e, folded))
    BY <1>1, <2>1, PutCleans
  <2> QED BY <1>8, <2>2 DEF s
<1> QED BY <1>3, <1>7, <1>8 DEF s

\* A World whose gate is set is as clean as before.
LEMMA HoldsCleans ==
    ASSUME NEW r, GoodRun(r), NEW H \in SUBSET {"User", "model-refusal"},
           NEW s, s = [r EXCEPT !.w.holds = H]
    PROVE  Cleans(r, s)
<1>1. s.out = r.out /\ s.w = [r.w EXCEPT !.holds = H]
  BY DEF GoodRun
<1>2. s.w.ents = r.w.ents /\ s.w.ask = r.w.ask
  BY <1>1 DEF GoodRun, WorldType
<1>3. Leads(r, s)
  BY HoldsGood
<1> QED BY <1>1, <1>2, <1>3, SameCleans

\* A refusal closes the world's gate cleanly.
LEMMA GuardrailCleans ==
    ASSUME NEW r, GoodRun(r), NEW in
    PROVE  Cleans(r, GuardrailSystem(r, in))
<1> DEFINE H == r.w.holds \cup {"model-refusal"}
           s == [r EXCEPT !.w.holds = H]
<1>1. H \in SUBSET {"User", "model-refusal"}
  BY DEF GoodRun, WorldType
<1>2. GuardrailSystem(r, in) \in {r, s}
  BY DEF GuardrailSystem
<1> HIDE DEF H
<1>3. Cleans(r, s)
  BY <1>1, HoldsCleans
<1> QED BY <1>2, <1>3, CleansSelf

\* Gates open and close cleanly (systems/gate.rs).
LEMMA GateCleans ==
    ASSUME NEW r, GoodRun(r), NEW in, GoodIn(r.w, in), NEW s, s = GateSystem(r, in)
    PROVE  Cleans(r, s)
<1>1. r.w.holds \in SUBSET {"User", "model-refusal"}
  BY DEF GoodRun, WorldType
<1>2. CASE in.type = "Pause"
  <2> DEFINE H == r.w.holds \cup {"User"}
  <2>1. s = [r EXCEPT !.w.holds = H] /\ H \in SUBSET {"User", "model-refusal"}
    BY <1>1, <1>2 DEF GateSystem
  <2> HIDE DEF H
  <2> QED BY <2>1, HoldsCleans
<1>3. CASE in.type = "Resume"
  <2> DEFINE H == r.w.holds \ {"User"}
  <2>1. s = [r EXCEPT !.w.holds = H] /\ H \in SUBSET {"User", "model-refusal"}
    BY <1>1, <1>3 DEF GateSystem
  <2> HIDE DEF H
  <2> QED BY <2>1, HoldsCleans
<1>4. CASE in.type = "ClearPolicyHalt" /\ in.auth
  <2> DEFINE H == r.w.holds \ {in.trip}
             E == [e \in DOMAIN r.w.ents |-> IF r.w.ents[e].halt = in.trip
                                             THEN [r.w.ents[e] EXCEPT !.halt = "none"]
                                             ELSE r.w.ents[e]]
  <2>1. s = [[r EXCEPT !.w.holds = H] EXCEPT !.w.ents = E]
    BY <1>4, RunFields DEF GateSystem
  <2>2. DOMAIN E = DOMAIN r.w.ents OBVIOUS
  <2>3. ASSUME NEW e \in DOMAIN r.w.ents
        PROVE  E[e].parent = r.w.ents[e].parent /\ E[e].slots = r.w.ents[e].slots
    <3>1. r.w.ents[e] \in Components
      BY EntGood
    <3>2. E[e] \in {[r.w.ents[e] EXCEPT !.halt = "none"], r.w.ents[e]} OBVIOUS
    <3> HIDE DEF E
    <3>3. ASSUME NEW c \in Components
          PROVE  LET d == [c EXCEPT !.halt = "none"]
                 IN  d.parent = c.parent /\ d.slots = c.slots
      BY DEF Components
    <3> QED BY <3>1, <3>2, <3>3
  <2> HIDE DEF E, H
  <2>4. s.out = r.out /\ s.w = [[r.w EXCEPT !.holds = H] EXCEPT !.ents = E]
    BY <2>1 DEF GoodRun
  <2>5. s.w.ents = E /\ s.w.ask = r.w.ask
    BY <2>4 DEF GoodRun, WorldType
  <2>6. Leads(r, s)
    BY GateGood
  <2> QED BY <2>2, <2>3, <2>4, <2>5, <2>6, SameCleans
<1>5. CASE ~ (in.type = "Pause" \/ in.type = "Resume" \/ (in.type = "ClearPolicyHalt" /\ in.auth))
  <2>1. s = r
    BY <1>5 DEF GateSystem
  <2> QED BY <2>1, CleansSelf
<1> QED BY <1>2, <1>3, <1>4, <1>5

\* A message is parked, or starts a turn, cleanly.
LEMMA MessageCleans ==
    ASSUME NEW r, GoodRun(r), NEW in, GoodIn(r.w, in)
    PROVE  Cleans(r, SteeringSystem(r, in)) /\ Cleans(r, IntakeSystem(r, in))
<1> DEFINE e == in.to
           c == r.w.ents[e]
           x == BoundedEnqueue(c.inbox, in.msg, LimitOf(e, InboxCapacity))
           d == [c EXCEPT !.inbox = x]
           cap == LimitOf(e, LoopCap)
           wrapUp == IF Reached(c.turns + 1, cap) THEN <<Msg("note", 0)>> ELSE <<>>
           h == c.hist \o UserMsgs(c.inbox) \o <<Msg("user", in.msg)>> \o wrapUp
           b == [c EXCEPT !.hist = h, !.inbox = <<>>, !.turns = @ + 1]
<1>1. CASE in.type = "UserMessage"
  <2>1. e \in DOMAIN r.w.ents /\ in.msg \in Nat
    BY <1>1 DEF GoodIn
  <2>2. c \in Components /\ GoodEnt(r.w, c)
    BY <2>1, EntGood
  <2>3. SteeringSystem(r, in) \in {r, Put(r, e, d)} /\ Leads(r, SteeringSystem(r, in))
    BY SteeringGood DEF SteeringSystem
  <2>4. d.slots = c.slots /\ d.parent = c.parent
    BY <2>2 DEF Components
  <2>5. IntakeSystem(r, in) \in {r, Think(r, e, b)}
    BY DEF IntakeSystem
  <2>6. h \in Seq(Msgs)
    <3>1. c.hist \in Seq(Msgs) /\ UserMsgs(c.inbox) \in Seq(Msgs)
      BY <2>2, EntFields, UserMsgsType
    <3>2. Msg("user", in.msg) \in Msgs /\ Msg("note", 0) \in Msgs
      BY <2>1 DEF Msg, Msgs, Roles
    <3>3. <<Msg("user", in.msg)>> \in Seq(Msgs) /\ wrapUp \in Seq(Msgs)
      BY <3>2
    <3> HIDE DEF c, wrapUp
    <3> QED BY <3>1, <3>3
  <2> HIDE DEF c, h, d
  <2>7. <<>> \in Seq(Nat) /\ c.turns + 1 \in Nat
    BY <2>2 DEF Components
  <2>8. b \in Components /\ b.parent = c.parent /\ b.slots = c.slots /\ b.awaits = c.awaits
    BY <2>2, <2>6, <2>7 DEF Components
  <2> HIDE DEF b
  <2>9. GoodEnt(r.w, b)
    BY <2>2, <2>8, SameIdsGood
  <2>10. Cleans(r, Think(r, e, b))
    BY <2>1, <2>8, <2>9, ThinkTurns DEF c
  <2>11. SteeringSystem(r, in) = Put(r, e, d) => Cleans(r, SteeringSystem(r, in))
    BY <2>1, <2>3, <2>4, PutCleans DEF c
  <2> QED BY <2>3, <2>5, <2>10, <2>11, CleansSelf
<1>2. CASE in.type # "UserMessage"
  BY <1>2, Ignored, CleansSelf
<1> QED BY <1>1, <1>2

\* A compaction starts cleanly: its entity has no turn.
LEMMA StartCompactionCleans ==
    ASSUME NEW r, GoodRun(r), NEW e \in DOMAIN r.w.ents
    PROVE  Cleans(r, StartCompaction(r, e))
<1> DEFINE c == r.w.ents[e]
           k == r.w.nextCmd
           m == Mint(r, 1)
           d == ToWaiting(c, "Compacting", k)
           p == Put(m, e, d)
           x == Command("Compact", k, e, SplitPoint(c.hist))
           s == StartCompaction(r, e)
<1>1. s \in {r, Emit(p, {x})}
  BY DEF StartCompaction
<1>2. Leads(r, s)
  BY StartCompactionGood
<1>3. GoodRun(m) /\ m.w.ents = r.w.ents /\ m.out = r.out
  BY MintGood
<1>4. m.w.ask = r.w.ask
  <2>1. m.w = [r.w EXCEPT !.nextCmd = @ + 1]
    BY DEF GoodRun, Mint
  <2> QED BY <2>1 DEF GoodRun, WorldType
<1>5. d.slots = <<>> /\ d.parent = c.parent
  <2>1. c \in Components
    BY EntGood
  <2> QED BY <2>1 DEF ToWaiting, ToIdle, Components
<1>6. x.type # "RunTool"
  BY DEF Command
<1>7. Emit(p, {x}).w = p.w /\ Emit(p, {x}).out = p.out \cup {x}
  BY DEF Emit, Put
<1> HIDE DEF m, d, x, s
<1>8. /\ p.w.ents[e] = d /\ p.out = r.out /\ p.w.ask = r.w.ask /\ DOMAIN p.w.ents = DOMAIN r.w.ents
      /\ \A f \in DOMAIN r.w.ents \ {e} : p.w.ents[f] = r.w.ents[f]
  BY <1>3, <1>4, PutFields, PutRest
<1>9. CASE s = Emit(p, {x})
  <2>1. s.w = p.w /\ s.out = r.out \cup {x}
    BY <1>7, <1>8, <1>9
  <2> HIDE DEF p
  <2>2. Around(r.w, s.w, e)
    BY <1>5, <1>8, <2>1 DEF Around
  <2>3. Untouched(s.w, e)
    <3>1. s.w.ents[e].slots = <<>>
      BY <1>5, <1>8, <2>1
    <3> QED BY <3>1 DEF Untouched
  <2>4. Clean(r.w) => Clean(s.w)
    BY <2>2, <2>3, CleanAround
  <2> QED BY <1>2, <1>6, <1>8, <2>1, <2>4 DEF Cleans, s
<1>10. CASE s = r
  BY <1>10, CleansSelf DEF s
<1> QED BY <1>1, <1>9, <1>10

\* A compaction goes on cleanly (systems/compaction.rs).
LEMMA CompactionCleans ==
    ASSUME NEW r, GoodRun(r), NEW in, GoodIn(r.w, in)
    PROVE  Cleans(r, CompactionSystem(r, in))
<1> DEFINE c == r.w.ents[in.ent]
<1>1. ASSUME NEW e \in DOMAIN r.w.ents, NEW hist \in Seq(Msgs)
      PROVE  Cleans(r, Continue(r, e, hist))
  <2> DEFINE b == r.w.ents[e]
             h == hist \o UserMsgs(b.inbox)
             d == [b EXCEPT !.hist = h, !.inbox = <<>>]
  <2>1. b \in Components /\ GoodEnt(r.w, b)
    BY EntGood
  <2>2. h \in Seq(Msgs)
    <3>1. UserMsgs(b.inbox) \in Seq(Msgs)
      BY <2>1, EntFields, UserMsgsType
    <3> QED BY <3>1
  <2>3. Continue(r, e, hist) = Think(r, e, d)
    BY DEF Continue
  <2> HIDE DEF b, h
  <2>4. <<>> \in Seq(Nat) OBVIOUS
  <2>5. d \in Components /\ d.parent = b.parent /\ d.slots = b.slots /\ d.awaits = b.awaits
    BY <2>1, <2>2, <2>4 DEF Components
  <2> HIDE DEF d
  <2>6. GoodEnt(r.w, d)
    BY <2>1, <2>5, SameIdsGood
  <2> QED BY <2>3, <2>5, <2>6, ThinkTurns DEF b
<1>2. CASE in.type = "ModelResponded"
  <2>1. CompactionSystem(r, in) = StartCompaction(r, in.ent) /\ in.ent \in DOMAIN r.w.ents
    BY <1>2 DEF CompactionSystem, GoodIn, EntInputs
  <2> QED BY <2>1, StartCompactionCleans
<1>3. CASE in.type = "Compacted"
  <2>1. in.ent \in DOMAIN r.w.ents /\ in.n \in Nat /\ in.cmd \in Nat
    BY <1>3 DEF GoodIn, EntInputs
  <2>2. Summarised(c.hist, in) \in Seq(Msgs)
    BY <2>1, EntGood, EntFields, SummarisedType
  <2>3. CompactionSystem(r, in) \in {r, Continue(r, in.ent, Summarised(c.hist, in))}
    BY <1>3 DEF CompactionSystem
  <2> QED BY <1>1, <2>1, <2>2, <2>3, CleansSelf
<1>4. CASE in.type = "ModelFailed"
  <2>1. in.ent \in DOMAIN r.w.ents
    BY <1>4 DEF GoodIn, EntInputs
  <2>2. c.hist \in Seq(Msgs)
    BY <2>1, EntGood, EntFields
  <2>3. CompactionSystem(r, in) \in {r, Continue(r, in.ent, c.hist)}
    BY <1>4 DEF CompactionSystem
  <2> QED BY <1>1, <2>1, <2>2, <2>3, CleansSelf
<1> QED BY <1>2, <1>3, <1>4, Ignored, CleansSelf

\* A Cancel keeps the lineage.
LEMMA CancelParent ==
    ASSUME NEW r, GoodRun(r), NEW e \in DOMAIN r.w.ents
    PROVE  Cancel(r, e).w.ents[e].parent = r.w.ents[e].parent
<1> DEFINE c == r.w.ents[e]
           awaiting == IF c.act = "Resolving" THEN SentCmds(c) ELSE c.awaits
           Q == r.w.raised \ HeldRequests(r.w, e)
           v == [r EXCEPT !.w.raised = Q]
           d == [ToIdle(c) EXCEPT !.act = IF awaiting = {} THEN "Idle" ELSE "Cancelling",
                                  !.awaits = awaiting]
           p == Put(v, e, d)
<1>1. Cancel(r, e) \in {r, Emit(p, CancelCommands(c, e))}
  BY DEF Cancel
<1>2. GoodRun(v) /\ v.w.ents = r.w.ents
  <2>1. Q \in SUBSET r.w.raised OBVIOUS
  <2> HIDE DEF Q
  <2> QED BY <2>1, RaisedGood DEF Leads
<1>3. d.parent = c.parent
  <2>1. c \in Components
    BY EntGood
  <2> QED BY <2>1 DEF ToIdle, Components
<1> HIDE DEF v, d
<1>4. p.w.ents[e] = d
  BY <1>2, PutFields
<1>5. \A X : Emit(p, X).w = p.w
  BY DEF Emit, Put
<1> HIDE DEF p
<1> QED BY <1>1, <1>3, <1>4, <1>5

\* A cancelled turn has no slots.
LEMMA CancelCleans ==
    ASSUME NEW r, GoodRun(r), r.out = {}, NEW e \in DOMAIN r.w.ents,
           NEW s, s = Cancel(r, e)
    PROVE  (Clean(r.w) => Clean(s.w)) /\ \A x \in s.out : x.type # "RunTool"
<1> DEFINE c == r.w.ents[e]
           A == InFlight(c)
<1>1. CASE c.act \in {"Thinking", "Compacting", "Resolving"}
  <2>1. /\ DOMAIN s.w.ents = DOMAIN r.w.ents
        /\ \A f \in DOMAIN r.w.ents \ {e} : s.w.ents[f] = r.w.ents[f]
        /\ DOMAIN s.w.ents[e].slots = {}
        /\ \A x \in s.out : x.type \in CancelTypes
    BY <1>1, CancelFields
  <2>2. \A f \in DOMAIN r.w.ents \ {e} : Untouched(r.w, f) => Untouched(s.w, f)
    <3> SUFFICES ASSUME NEW f \in DOMAIN r.w.ents \ {e}, Untouched(r.w, f)
                 PROVE  Untouched(s.w, f)
      OBVIOUS
    <3>1. s.w.ents[e].parent = r.w.ents[e].parent
      BY <1>1, CancelParent
    <3>2. \A x \in DOMAIN s.w.ents : x \in DOMAIN r.w.ents /\ s.w.ents[x].parent = r.w.ents[x].parent
      BY <2>1, <3>1
    <3>3. s.w.ents[f].slots = r.w.ents[f].slots
      BY <2>1
    <3>4. CASE NoLocal(r.w, f)
      BY <3>3, <3>4 DEF Untouched, NoLocal, FreshSlots
    <3>5. CASE ~ NoLocal(r.w, f)
      <4>1. \A i \in DOMAIN s.w.ents[f].slots :
               /\ s.w.ents[f].slots[i].st = "fresh"
               /\ \A x \in DOMAIN r.w.ents :
                     ~ (r.w.ents[x].parent = f /\ s.w.ents[f].slots[i].child = x)
        BY <3>3, <3>5 DEF Untouched
      <4> QED BY <3>2, <4>1 DEF Untouched
    <3> QED BY <3>4, <3>5
  <2>3. Untouched(s.w, e)
    BY <2>1 DEF Untouched
  <2>4. \A x \in s.out : x.type # "RunTool"
    BY <2>1 DEF CancelTypes
  <2> QED BY <2>1, <2>2, <2>3, <2>4 DEF Clean
<1>2. CASE c.act \notin {"Thinking", "Compacting", "Resolving"}
  BY <1>2 DEF Cancel
<1> QED BY <1>1, <1>2

\* A peer's drive is parked cleanly.
LEMMA DriveCleans ==
    ASSUME NEW r, GoodRun(r), NEW in, GoodIn(r.w, in), r.out = {},
           in.type \in {"DriveRequested", "PeerDelivered"}, NEW s, s = PeerDriveSystem(r, in)
    PROVE  Cleans(r, s)
<1> DEFINE c == r.w.ents[Root]
           d == [c EXCEPT !.inbox = Append(@, in.prompt)]
           envelope == in.envelope
           applied(t) == [t EXCEPT !.w.applied = @ \cup {envelope}]
           p == Put(r, Root, d)
<1>1. ASSUME NEW t, GoodRun(t)
      PROVE  /\ applied(t).out = t.out /\ applied(t).w.ents = t.w.ents
             /\ applied(t).w.ask = t.w.ask
  <2> DEFINE u == applied(t)
  <2>1. u.out = t.out /\ u.w = [t.w EXCEPT !.applied = @ \cup {envelope}]
    BY <1>1 DEF GoodRun
  <2> QED BY <1>1, <2>1 DEF GoodRun, WorldType
<1>2. Leads(r, s)
  BY PeerDriveSystemGood
<1>3. s \in {r, applied(r), applied(p)}
  BY DEF PeerDriveSystem, ApplyDrive
<1>4. s = applied(p) => in.type = "DriveRequested" \/ s \in {r, applied(r)}
  BY DEF PeerDriveSystem
<1>5. s \in {r, applied(r)} => Cleans(r, s)
  <2> HIDE DEF applied
  <2>1. /\ applied(r).out = r.out /\ applied(r).w.ents = r.w.ents
        /\ applied(r).w.ask = r.w.ask
    BY <1>1
  <2>2. CASE s = applied(r)
    BY <1>2, <2>1, <2>2, SameCleans
  <2> QED BY <2>2, CleansSelf
<1>6. ASSUME s = applied(p), in.type = "DriveRequested"
      PROVE  Cleans(r, s)
  <2>1. Root \in DOMAIN r.w.ents
    BY DEF GoodRun, WorldType
  <2>2. c \in Components /\ GoodEnt(r.w, c) /\ in.prompt \in Nat
    BY <1>6, <2>1, EntGood DEF GoodIn
  <2>3. Append(c.inbox, in.prompt) \in Seq(Nat)
    BY <2>2, EntFields, AppendProperties
  <2>4. d \in Components /\ d.parent = c.parent /\ d.slots = c.slots /\ d.awaits = c.awaits
    BY <2>2, <2>3 DEF Components
  <2> HIDE DEF d
  <2>5. GoodRun(p)
    <3>1. GoodEnt(r.w, d)
      <4> HIDE DEF c
      <4> QED BY <2>2, <2>4, SameIdsGood
    <3> QED BY <2>1, <3>1, PutGood
  <2>6. /\ DOMAIN p.w.ents = DOMAIN r.w.ents /\ p.w.ents[Root] = d /\ p.out = r.out
        /\ \A f \in DOMAIN r.w.ents \ {Root} : p.w.ents[f] = r.w.ents[f]
        /\ p.w.ask = r.w.ask
    BY <2>1, PutFields, PutRest
  <2> HIDE DEF p, applied
  <2>7. s.w.ents = p.w.ents /\ s.out = p.out /\ s.w.ask = p.w.ask
    BY <1>1, <1>6, <2>5
  <2> QED BY <1>2, <2>4, <2>6, <2>7, SameCleans
<1> HIDE DEF applied, p
<1> QED BY <1>3, <1>4, <1>5, <1>6

\* A turn of which a slot was dispatched, held or settled has no tool left to dispatch.
LEMMA BegunNoLocal ==
    ASSUME NEW w, NEW e, Untouched(w, e), NEW i \in DOMAIN w.ents[e].slots,
           w.ents[e].slots[i].st # "fresh"
    PROVE  NoLocal(w, e)
BY DEF Untouched

\* Neither has a turn that has a child.
LEMMA ParentNoLocal ==
    ASSUME NEW w, NEW e, Untouched(w, e), NEW x \in DOMAIN w.ents, w.ents[x].parent = e,
           ChildSlots(w, e, x) # {}
    PROVE  NoLocal(w, e)
<1>1. PICK i \in DOMAIN w.ents[e].slots : w.ents[e].slots[i].child = x
  BY DEF ChildSlots, Pending
<1> QED BY <1>1 DEF Untouched

\* Neither has one that waits for a tool or a human action, nor a cancelled one.
LEMMA AwaitedNoLocal ==
    ASSUME NEW w, NEW e, Untouched(w, e), Shape(w.ents[e]), NEW k, WaitsFor(w.ents[e], k),
           k.type \in {"RunTool", "RequestHumanAction"}
    PROVE  NoLocal(w, e)
<1>1. CASE w.ents[e].act = "Cancelling"
  BY <1>1 DEF Shape, NoLocal, FreshSlots
<1>2. CASE w.ents[e].act # "Cancelling"
  <2>1. PICK i \in DOMAIN w.ents[e].slots : w.ents[e].slots[i].st = "sent"
    BY <1>2 DEF WaitsFor
  <2> QED BY <2>1, BegunNoLocal
<1> QED BY <1>1, <1>2

\* The parent of a settled child goes on cleanly.
LEMMA SettleChildCleans ==
    ASSUME NEW r, GoodRun(r), Clean(r.w), NEW p \in DOMAIN r.w.ents, NEW x \in DOMAIN r.w.ents,
           r.w.ents[x].parent = p, NEW err \in BOOLEAN
    PROVE  Cleans(r, SettleChild(r, p, x, err))
<1> DEFINE I == ChildSlots(r.w, p, x)
           t == Advance(Settle(r, p, I, err), p)
<1>1. SettleChild(r, p, x, err) = IF I # {} THEN t ELSE r
  BY DEF SettleChild
<1>2. CASE I = {}
  BY <1>1, <1>2, CleansSelf
<1>3. CASE I # {}
  <2>1. Untouched(r.w, p)
    BY DEF Clean
  <2>2. NoLocal(r.w, p)
    BY <1>3, <2>1, ParentNoLocal
  <2> HIDE DEF I
  <2>3. Turns(r, t, p)
    BY SettleAdvanceTurns
  <2> HIDE DEF t
  <2> QED BY <1>1, <1>3, <2>2, <2>3, TurnsCleanly
<1> QED BY <1>2, <1>3

\* x is the command of the slot that q names.
Runs(w, q, x) ==
    /\ q.ent = x.ent /\ q.slot \in DOMAIN w.ents[q.ent].slots
    /\ w.ents[q.ent].slots[q.slot].cmd = x.cmd

\* From r to s a clean World stays clean, and a tool that runs under an approval policy was
\* held and its request is taken back.
Approves(r, s) ==
    /\ Clean(s.w)
    /\ r.w.ask /\ s.w.ask => \A x \in s.out : x.type = "RunTool" =>
          \E q \in r.w.raised \ s.w.raised :
              r.w.ents[q.ent].slots[q.slot].st = "held" /\ Runs(s.w, q, x)

\* A clean step runs nothing that needs approval.
LEMMA CleansApproves ==
    ASSUME NEW r, NEW s, Clean(r.w), r.out = {}, Cleans(r, s)
    PROVE  Approves(r, s)
BY DEF Cleans, Approves

\* A clean step keeps an input addressed.
LEMMA CleansIn ==
    ASSUME NEW r, NEW s, Cleans(r, s), NEW in, GoodIn(r.w, in)
    PROVE  GoodRun(s) /\ GoodIn(s.w, in)
BY GoodInStays DEF Cleans, Leads

\* The slots a response leaves to dispatch are dispatched at once, or none is.
LEMMA WorkCleans ==
    ASSUME NEW f, GoodRun(f), Clean(f.w), NEW in, GoodIn(f.w, in), in.type = "ModelResponded",
           NEW s, s = PeerDriveSystem(SubagentSystem(HumanActionSystem(ToolSystem(f, in), in), in), in)
    PROVE  /\ Clean(s.w) /\ s.w.ask = f.w.ask
           /\ NoLocal(f.w, in.ent) => \A x \in s.out \ f.out : x.type # "RunTool"
<1> DEFINE e == in.ent
           g == ToolSystem(f, in)
           h == HumanActionSystem(g, in)
           j == SubagentSystem(h, in)
<1>0. e \in DOMAIN f.w.ents
  BY DEF GoodIn, EntInputs
<1>1. g = Advance(f, e)
  BY DEF ToolSystem
<1>2. Turns(f, g, e) /\ (GateOpen(f.w, e) \/ NoLocal(f.w, e) => NoLocal(g.w, e))
  BY <1>0, <1>1, AdvanceTurns
<1>3. ~ GateOpen(f.w, e) => g = f
  BY <1>1 DEF Advance
<1> HIDE DEF g
<1>4. GoodRun(g) /\ GoodIn(g.w, in) /\ e \in DOMAIN g.w.ents
  BY <1>0, <1>2, GoodInStays DEF Turns, Leads
<1>5. Turns(g, h, e) /\ (~ GateOpen(g.w, e) => h = g)
  BY <1>4, RequestHumanTurns
<1> HIDE DEF h
<1>6. GoodRun(h) /\ e \in DOMAIN h.w.ents
  BY <1>4, <1>5 DEF Turns, Leads
<1>7. j = SpawnOrDeny(h, e)
  BY DEF SubagentSystem
<1>8. Turns(h, j, e) /\ (~ GateOpen(h.w, e) => j = h)
  BY <1>6, <1>7, SpawnOrDenyTurns
<1> HIDE DEF j
<1>9. GoodRun(j) /\ e \in DOMAIN j.w.ents
  BY <1>6, <1>8 DEF Turns, Leads
<1>10. s = EmitOrDeny(j, e)
  BY DEF PeerDriveSystem, j, h, g
<1>11. Turns(j, s, e) /\ (~ GateOpen(j.w, e) => s = j)
  BY <1>9, <1>10, EmitOrDenyTurns
<1>12. Turns(g, s, e)
  <2>1. Turns(g, j, e)
    BY <1>4, <1>5, <1>8, TurnsAlong
  <2> QED BY <1>4, <1>11, <2>1, TurnsAlong
<1>13. Turns(f, s, e)
  BY <1>0, <1>2, <1>12, TurnsAlong
<1>14. CASE GateOpen(f.w, e) \/ NoLocal(f.w, e)
  <2>1. NoLocal(s.w, e)
    BY <1>2, <1>12, <1>14 DEF Turns
  <2> QED BY <1>13, <2>1, TurnsClean DEF Turns
<1>15. CASE ~ GateOpen(f.w, e)
  <2>1. s = f
    BY <1>3, <1>5, <1>8, <1>11, <1>15
  <2> QED BY <2>1
<1> QED BY <1>14, <1>15

\* A response dispatches its tools behind an open gate, or leaves them all; under an approval
\* policy it holds them.
LEMMA ResponseApproves ==
    ASSUME NEW r, GoodRun(r), r.out = {}, Clean(r.w), NEW in, GoodIn(r.w, in),
           in.type = "ModelResponded"
    PROVE  Approves(r, Ticked(r, in))
<1> DEFINE a == CancelSystem(r, in)
           b == GuardrailSystem(a, in)
           c == TurnSystem(b, in)
           q == BudgetSystem(c, in)
           d == CompactionSystem(q, in)
           f == AutonomySystem(d, in)
           s == PeerDriveSystem(SubagentSystem(HumanActionSystem(ToolSystem(f, in), in), in), in)
<1>1. Ticked(r, in) = s
  BY Ignored DEF Ticked, Begun, TakenIn, Closed, Moved, Linked
<1>2. in.type \in AbsorbedInputs
  BY DEF AbsorbedInputs
<1>3. Cleans(r, a)
  BY <1>2, AbsorbCleans
<1> HIDE DEF a
<1>4. GoodRun(a) /\ GoodIn(a.w, in)
  BY <1>3, CleansIn
<1>5. Cleans(a, b)
  BY <1>4, GuardrailCleans
<1> HIDE DEF b
<1>6. GoodRun(b) /\ GoodIn(b.w, in)
  BY <1>4, <1>5, CleansIn
<1>7. Cleans(b, c)
  BY <1>6, TurnCleans
<1> HIDE DEF c
<1>8. GoodRun(c) /\ GoodIn(c.w, in)
  BY <1>6, <1>7, CleansIn
<1>9. Cleans(c, q)
  BY <1>8, BudgetCleans
<1> HIDE DEF q
<1>10. GoodRun(q) /\ GoodIn(q.w, in)
  BY <1>8, <1>9, CleansIn
<1>11. Cleans(q, d)
  BY <1>10, CompactionCleans
<1> HIDE DEF d
<1>12. Cleans(r, d)
  BY <1>3, <1>5, <1>7, <1>9, <1>11, CleansOn
<1>13. GoodRun(d) /\ GoodIn(d.w, in) /\ in.ent \in DOMAIN d.w.ents
  <2>1. GoodRun(d) /\ GoodIn(d.w, in)
    BY <1>10, <1>11, CleansIn
  <2> QED BY <2>1 DEF GoodIn, EntInputs
<1>14. f = GateNewSlots(d, in.ent)
  BY DEF AutonomySystem
<1> HIDE DEF f
<1>15. /\ Leads(d, f) /\ Clean(f.w) /\ f.out = d.out /\ f.w.ask = d.w.ask
       /\ d.w.ask => NoLocal(f.w, in.ent)
  <2>1. Clean(d.w)
    BY <1>12 DEF Cleans
  <2> QED BY <1>13, <1>14, <2>1, GateNewSlotsClean
<1>16. GoodRun(f) /\ GoodIn(f.w, in)
  BY <1>13, <1>15, GoodInStays DEF Leads
<1> HIDE DEF s
<1>17. /\ Clean(s.w) /\ s.w.ask = f.w.ask
       /\ NoLocal(f.w, in.ent) => \A x \in s.out \ f.out : x.type # "RunTool"
  BY <1>15, <1>16, WorkCleans DEF s
<1>18. \A x \in f.out : x.type # "RunTool"
  BY <1>12, <1>15 DEF Cleans
<1> QED BY <1>1, <1>15, <1>17, <1>18 DEF Approves

\* The other answers settle slots of turns that have no tool left to dispatch.
LEMMA AnswerApproves ==
    ASSUME NEW r, GoodRun(r), r.out = {}, Clean(r.w), NEW in, GoodIn(r.w, in),
           in.type \in AbsorbedInputs \ {"ModelResponded"},
           in.type \in {"ToolReturned", "HumanActionDone", "HumanActionAborted"} =>
               NoLocal(r.w, in.ent)
    PROVE  Approves(r, Ticked(r, in))
<1> DEFINE e == in.ent
           a == CancelSystem(r, in)
           s == Ticked(r, in)
<1>0. /\ in.type \in {"ToolReturned", "ToolAborted", "HumanActionDone", "HumanActionAborted",
                      "ModelFailed", "InferenceCancelled", "Compacted"}
      /\ e \in DOMAIN r.w.ents
  <2>1. in.type \in {"ToolReturned", "ToolAborted", "HumanActionDone", "HumanActionAborted",
                     "ModelFailed", "InferenceCancelled", "Compacted"}
    BY DEF AbsorbedInputs
  <2> QED BY <2>1 DEF GoodIn, EntInputs
<1>1. s = SupervisionSystem(HumanActionSystem(ToolSystem(
              CompactionSystem(TurnSystem(a, in), in), in), in), in)
  BY <1>0, Ignored DEF Ticked, Begun, TakenIn, Closed, Moved, Linked
<1>2. Cleans(r, a) /\ (NoLocal(r.w, e) => NoLocal(a.w, e))
  BY AbsorbCleans
<1> HIDE DEF a, s
<1>3. GoodRun(a) /\ GoodIn(a.w, in) /\ e \in DOMAIN a.w.ents /\ Clean(a.w)
  <2>1. GoodRun(a) /\ GoodIn(a.w, in)
    BY <1>2, CleansIn
  <2> QED BY <1>0, <1>2, <2>1 DEF Cleans, Leads
<1>4. Cleans(a, s)
  <2>1. CASE in.type = "ToolReturned"
    <3> DEFINE I == SentAs(a.w, e, "Local", in.cmd)
               t == Advance(Settle(a, e, I, in.err), e)
    <3>1. s = t
      <4>1. ToolSystem(a, in) = t
        BY <2>1 DEF ToolSystem
      <4> QED BY <1>1, <2>1, <4>1, Ignored
    <3>2. in.err \in BOOLEAN
      BY <2>1 DEF GoodIn
    <3> HIDE DEF I
    <3>3. Turns(a, t, e)
      BY <1>3, <3>2, SettleAdvanceTurns
    <3> HIDE DEF t
    <3> QED BY <1>2, <2>1, <3>1, <3>3, TurnsCleanly
  <2>2. CASE in.type \in {"HumanActionDone", "HumanActionAborted"}
    <3> DEFINE I == SentAs(a.w, e, "Human", in.cmd)
               t(b) == Advance(Settle(a, e, I, b), e)
    <3>1. \E b \in BOOLEAN : s = t(b)
      <4>1. in.type = "HumanActionDone" => in.err \in BOOLEAN
        BY DEF GoodIn
      <4>2. \E b \in BOOLEAN : HumanActionSystem(a, in) = t(b)
        BY <2>2, <4>1 DEF HumanActionSystem
      <4> QED BY <1>1, <2>2, <4>2, Ignored
    <3> HIDE DEF I
    <3>2. \A b \in BOOLEAN : Turns(a, t(b), e)
      BY <1>3, SettleAdvanceTurns
    <3> HIDE DEF t
    <3> QED BY <1>2, <2>2, <3>1, <3>2, TurnsCleanly
  <2>3. CASE in.type = "ToolAborted"
    <3>1. s = a
      BY <1>1, <2>3, Ignored
    <3> QED BY <1>3, <3>1, CleansSelf
  <2>4. CASE in.type \in {"InferenceCancelled", "Compacted"}
    <3>1. s \in {TurnSystem(a, in), CompactionSystem(a, in)}
      BY <1>1, <2>4, Ignored
    <3>2. in.type = "Compacted" => TurnSystem(a, in) = a
      BY Ignored
    <3>3. Cleans(a, TurnSystem(a, in))
      BY <1>3, <2>4, <3>2, TurnCleans, CleansSelf
    <3> QED BY <1>3, <3>1, <3>3, CompactionCleans
  <2>5. CASE in.type = "ModelFailed"
    <3> DEFINE q == TurnSystem(a, in)
               d == CompactionSystem(q, in)
    <3>1. s = SupervisionSystem(d, in)
      BY <1>1, <2>5, Ignored
    <3>2. Cleans(a, q)
      BY <1>3, <2>5, TurnCleans
    <3> HIDE DEF q
    <3>3. GoodRun(q) /\ GoodIn(q.w, in)
      BY <1>3, <3>2, CleansIn
    <3>4. Cleans(q, d)
      BY <3>3, CompactionCleans
    <3> HIDE DEF d
    <3>5. GoodRun(d) /\ GoodIn(d.w, in) /\ Cleans(a, d)
      BY <3>2, <3>3, <3>4, CleansIn, CleansOn
    <3>6. e \in DOMAIN d.w.ents /\ Clean(d.w)
      BY <1>3, <3>5 DEF Cleans, Leads
    <3>7. Cleans(d, s)
      <4> DEFINE p == d.w.ents[e].parent
                 yes == TRUE
      <4>1. CASE p # None
        <5>1. s = SettleChild(d, p, e, yes)
          BY <2>5, <3>1, <4>1 DEF SupervisionSystem
        <5>2. p \in DOMAIN d.w.ents /\ yes \in BOOLEAN
          BY <3>5, <3>6, <4>1 DEF GoodRun, GoodEnt
        <5> HIDE DEF yes
        <5> QED BY <3>5, <3>6, <5>1, <5>2, SettleChildCleans
      <4>2. CASE p = None
        <5>1. s = d
          BY <3>1, <4>2 DEF SupervisionSystem
        <5> QED BY <3>5, <5>1, CleansSelf
      <4> QED BY <4>1, <4>2
    <3> QED BY <3>5, <3>7, CleansOn
  <2> QED BY <1>0, <2>1, <2>2, <2>3, <2>4, <2>5
<1>5. Cleans(r, s)
  BY <1>2, <1>4, CleansOn
<1> QED BY <1>5, CleansApproves DEF s

\* Settled children, peer outcomes, messages, drives, cancels and controls run no tool.
LEMMA OtherApproves ==
    ASSUME NEW r, GoodRun(r), r.out = {}, Clean(r.w), NEW in, GoodIn(r.w, in),
           in.type \in {"ChildReturned", "PeerSendOutcome", "UserMessage", "DriveRequested",
                        "PeerDelivered", "Cancel", "Pause", "Resume", "ClearPolicyHalt",
                        "SetAutonomy"},
           in.type = "ChildReturned" => in \in ChildReturns(r.w)
    PROVE  Approves(r, Ticked(r, in))
<1> DEFINE s == Ticked(r, in)
<1>0. in.type \notin AbsorbedInputs
  BY DEF AbsorbedInputs
<1>1. CASE in.type = "ChildReturned"
  <2>1. s = SettleChild(r, in.ent, in.child, in.err)
    <3>1. s = SubagentSystem(r, in)
      BY <1>0, <1>1, Ignored DEF Ticked, Begun, TakenIn, Closed, Moved, Linked
    <3> QED BY <1>1, <3>1 DEF SubagentSystem
  <2>2. in.ent \in DOMAIN r.w.ents /\ in.err \in BOOLEAN
    BY <1>1 DEF GoodIn, EntInputs
  <2>3. in.child \in DOMAIN r.w.ents /\ r.w.ents[in.child].parent = in.ent
    BY <1>1 DEF ChildReturns
  <2>4. Cleans(r, s)
    BY <2>1, <2>2, <2>3, SettleChildCleans
  <2> QED BY <2>4, CleansApproves
<1>2. CASE in.type = "PeerSendOutcome"
  <2> DEFINE e == in.ent
             I == SentAs(r.w, e, "Peer", in.cmd)
             t == Advance(Settle(r, e, I, in.err), e)
  <2>1. s = IF I # {} THEN t ELSE r
    <3>1. s = PeerDriveSystem(r, in)
      BY <1>0, <1>2, Ignored DEF Ticked, Begun, TakenIn, Closed, Moved, Linked
    <3>2. PeerDriveSystem(r, in) = SettlePeerOutcome(r, e, in.cmd, in.err)
      BY <1>2 DEF PeerDriveSystem
    <3>3. SettlePeerOutcome(r, e, in.cmd, in.err) = IF I # {} THEN t ELSE r
      BY DEF SettlePeerOutcome
    <3> QED BY <3>1, <3>2, <3>3
  <2>2. e \in DOMAIN r.w.ents /\ in.err \in BOOLEAN
    BY <1>2 DEF GoodIn, EntInputs
  <2>3. I # {} => NoLocal(r.w, e)
    <3>1. Untouched(r.w, e)
      BY <2>2 DEF Clean
    <3>2. \A i \in I : i \in DOMAIN r.w.ents[e].slots /\ r.w.ents[e].slots[i].st = "sent"
      BY DEF SentAs
    <3> QED BY <3>1, <3>2, BegunNoLocal
  <2> HIDE DEF I, s
  <2>4. Turns(r, t, e)
    BY <2>2, SettleAdvanceTurns
  <2> HIDE DEF t
  <2>5. Cleans(r, s)
    BY <2>1, <2>3, <2>4, TurnsCleanly, CleansSelf
  <2> QED BY <2>5, CleansApproves DEF s
<1>3. CASE in.type = "UserMessage"
  <2> DEFINE u == SteeringSystem(r, in)
  <2>1. s = IntakeSystem(u, in)
    BY <1>0, <1>3, Ignored DEF Ticked, Begun, TakenIn, Closed, Moved, Linked
  <2>2. Cleans(r, u)
    BY MessageCleans
  <2> HIDE DEF u, s
  <2>3. GoodRun(u) /\ GoodIn(u.w, in)
    BY <2>2, CleansIn
  <2>4. Cleans(u, s)
    BY <2>1, <2>3, MessageCleans
  <2> QED BY <2>2, <2>4, CleansOn, CleansApproves DEF s
<1>4. CASE in.type \in {"DriveRequested", "PeerDelivered"}
  <2>1. s = PeerDriveSystem(r, in)
    BY <1>0, <1>4, Ignored DEF Ticked, Begun, TakenIn, Closed, Moved, Linked
  <2> QED BY <1>4, <2>1, DriveCleans, CleansApproves
<1>5. CASE in.type = "Cancel"
  <2>1. s = CancelSystem(r, in)
    BY <1>0, <1>5, Ignored DEF Ticked, Begun, TakenIn, Closed, Moved, Linked
  <2>2. CancelSystem(r, in) = Cancel(r, in.ent)
    BY <1>5 DEF CancelSystem, AbsorbedInputs
  <2>3. in.ent \in DOMAIN r.w.ents
    BY <1>5 DEF GoodIn, EntInputs
  <2>4. Clean(s.w) /\ \A x \in s.out : x.type # "RunTool"
    BY <2>1, <2>2, <2>3, CancelCleans
  <2> QED BY <2>4 DEF Approves
<1>6. CASE in.type \in {"Pause", "Resume", "ClearPolicyHalt"}
  <2>1. s = GateSystem(r, in)
    BY <1>0, <1>6, Ignored DEF Ticked, Begun, TakenIn, Closed, Moved, Linked
  <2> QED BY <2>1, GateCleans, CleansApproves
<1>7. CASE in.type = "SetAutonomy"
  <2> DEFINE ask == in.ask
  <2>1. s = AutonomySystem(r, in)
    BY <1>0, <1>7, Ignored DEF Ticked, Begun, TakenIn, Closed, Moved, Linked
  <2>2. AutonomySystem(r, in) = [r EXCEPT !.w.ask = ask]
    BY <1>7 DEF AutonomySystem
  <2> HIDE DEF ask, s
  <2>3. s.out = r.out /\ s.w = [r.w EXCEPT !.ask = ask]
    BY <2>1, <2>2 DEF GoodRun
  <2>4. s.w.ents = r.w.ents
    BY <2>3 DEF GoodRun, WorldType
  <2> QED BY <2>3, <2>4 DEF Approves, Clean, Untouched, NoLocal, FreshSlots, s
<1> QED BY <1>1, <1>2, <1>3, <1>4, <1>5, <1>6, <1>7

\* Taking back a request changes nothing else.
LEMMA UnraisedIs ==
    ASSUME NEW r, GoodRun(r), NEW q, NEW s, s = [r EXCEPT !.w.raised = @ \ {q}]
    PROVE  Leads(r, s) /\ s.w.ents = r.w.ents /\ s.out = r.out
<1> DEFINE Q == r.w.raised \ {q}
<1>1. s = [r EXCEPT !.w.raised = Q] /\ Q \in SUBSET r.w.raised OBVIOUS
<1>2. s.out = r.out
  BY DEF GoodRun
<1> HIDE DEF Q
<1> QED BY <1>1, <1>2, RaisedGood

\* A turn that waits for slot i and has no tool left to dispatch does not go on.
LEMMA AdvanceStands ==
    ASSUME NEW r, GoodRun(r), NEW e \in DOMAIN r.w.ents, NoLocal(r.w, e),
           NEW i \in Pending(r.w, e), NEW s, s = Advance(r, e)
    PROVE  /\ i \in DOMAIN s.w.ents[e].slots
           /\ s.w.ents[e].slots[i] = r.w.ents[e].slots[i]
<1> DEFINE I == FreshSlots(r.w, e, "Local")
           t == Dispatch(r, e, I, "RunTool")
<1>1. I = {} /\ I \in SUBSET DOMAIN r.w.ents[e].slots /\ "RunTool" \in WorkTypes
  BY DEF NoLocal, WorkTypes
<1>2. Pending(t.w, e) = {} \/ s \in {r, t}
  BY DEF Advance
<1> HIDE DEF I
<1>3. Sends(r, t, e, I, "RunTool")
  BY <1>1, DispatchSends
<1> HIDE DEF t
<1>4. i \in DOMAIN r.w.ents[e].slots /\ r.w.ents[e].slots[i].st # "done"
  BY DEF Pending
<1>5. i \in DOMAIN t.w.ents[e].slots /\ t.w.ents[e].slots[i] = r.w.ents[e].slots[i]
  BY <1>1, <1>3, <1>4 DEF Sends
<1> QED BY <1>2, <1>4, <1>5 DEF Pending

\* The answered tool is the one its turn has left to dispatch: an accepted one is run, a
\* rejected one settled, and the turn goes on without.
LEMMA AnsweredTurns ==
    ASSUME NEW a, GoodRun(a), NEW q, q.ent \in DOMAIN a.w.ents, a.out = {},
           FreshSlots(a.w, q.ent, "Local") \subseteq Asked(a.w, q, {"fresh"}),
           NEW accepted, NEW s, s = ApplyAnswer(a, q, accepted)
    PROVE  /\ Around(a.w, s.w, q.ent) /\ NoLocal(s.w, q.ent)
           /\ \A x \in s.out : x.type = "RunTool" => Runs(s.w, q, x)
<1> DEFINE e == q.ent
           v == [a EXCEPT !.w.raised = @ \ {q}]
           I == Asked(a.w, q, {"fresh"})
           J == Asked(a.w, q, {"fresh", "held", "sent"})
           yes == TRUE
           t == Dispatch(v, e, I, "RunTool")
           u == Settle(v, e, J, yes)
<1>1. s \in {Advance(t, e), Advance(u, e)}
  BY DEF ApplyAnswer
<1>2. Leads(a, v) /\ v.w.ents = a.w.ents /\ v.out = a.out
  BY UnraisedIs
<1>3. /\ I \in SUBSET DOMAIN a.w.ents[e].slots /\ I \subseteq J
      /\ I \subseteq FreshSlots(a.w, e, "Local")
      /\ "RunTool" \in WorkTypes /\ yes \in BOOLEAN
  BY DEF Asked, FreshSlots, WorkTypes
<1>4. FreshSlots(a.w, e, "Local") \subseteq I OBVIOUS
<1> HIDE DEF v, I, J, yes
<1>5. /\ GoodRun(v) /\ e \in DOMAIN v.w.ents /\ I \in SUBSET DOMAIN v.w.ents[e].slots
      /\ FreshSlots(v.w, e, "Local") = FreshSlots(a.w, e, "Local")
      /\ \A z : Around(v.w, z, e) => Around(a.w, z, e)
  BY <1>2, <1>3 DEF Leads, FreshSlots, Around
<1>6. ASSUME NEW y, Turns(v, y, e), NoLocal(y.w, e),
             \A x \in y.out : x.type = "RunTool" =>
                 Runs(y.w, q, x) /\ y.w.ents[e].slots[q.slot].st = "sent",
             s = Advance(y, e)
      PROVE  /\ Around(a.w, s.w, e) /\ NoLocal(s.w, e)
             /\ \A x \in s.out : x.type = "RunTool" => Runs(s.w, q, x)
  <2>1. GoodRun(y) /\ e \in DOMAIN y.w.ents
    BY <1>5, <1>6 DEF Turns, Leads
  <2>2. Turns(y, s, e) /\ NoLocal(s.w, e)
    BY <1>6, <2>1, AdvanceTurns
  <2>3. Turns(v, s, e)
    BY <1>5, <1>6, <2>2, TurnsAlong
  <2>4. \A x \in s.out \ y.out : x.type # "RunTool"
    BY <1>6, <2>2 DEF Turns
  <2>5. ASSUME NEW x \in s.out, x.type = "RunTool"
        PROVE  Runs(s.w, q, x)
    <3>1. Runs(y.w, q, x) /\ y.w.ents[e].slots[q.slot].st = "sent"
      BY <1>6, <2>4, <2>5
    <3>2. q.slot \in Pending(y.w, e)
      BY <3>1 DEF Runs, Pending
    <3>3. /\ q.slot \in DOMAIN s.w.ents[e].slots
          /\ s.w.ents[e].slots[q.slot] = y.w.ents[e].slots[q.slot]
      BY <1>6, <2>1, <3>2, AdvanceStands
    <3> QED BY <3>1, <3>3 DEF Runs
  <2> QED BY <1>5, <1>6, <2>2, <2>3, <2>5 DEF Turns
<1>7. CASE s = Advance(t, e)
  <2>1. NoLocal(v.w, e) => I = {}
    BY <1>3, <1>5 DEF NoLocal
  <2>2. Turns(v, t, e) /\ NoLocal(t.w, e)
    BY <1>3, <1>4, <1>5, <2>1, DispatchTurns
  <2>3. \A x \in t.out : x.type = "RunTool" =>
            Runs(t.w, q, x) /\ t.w.ents[e].slots[q.slot].st = "sent"
    <3>1. Sends(v, t, e, I, "RunTool")
      BY <1>3, <1>5, DispatchSends
    <3>2. I \subseteq {q.slot}
      BY DEF I, Asked
    <3> HIDE DEF t
    <3> QED BY <1>2, <1>5, <3>1, <3>2 DEF Sends, Runs
  <2> HIDE DEF t
  <2> QED BY <1>6, <1>7, <2>2, <2>3
<1>8. CASE s = Advance(u, e)
  <2>1. Turns(v, u, e) /\ NoLocal(u.w, e)
    BY <1>3, <1>4, <1>5, SettleTurns
  <2>2. \A x \in u.out : x.type # "RunTool"
    <3> DEFINE d == SettleSlots(v.w.ents[e], J, yes)
    <3>1. u = Put(v, e, d)
      BY DEF Settle
    <3> HIDE DEF d, u
    <3> QED BY <1>2, <1>5, <3>1, PutFields
  <2> HIDE DEF u
  <2> QED BY <1>6, <1>8, <2>1, <2>2
<1> QED BY <1>1, <1>7, <1>8

\* An answer runs the held tool it accepts, and no other.
LEMMA InteractionApproves ==
    ASSUME NEW r, GoodRun(r), r.out = {}, Clean(r.w), NEW K, Sound(r.w, K, r.w.raised),
           NEW in, GoodIn(r.w, in), in.type = "InteractionAnswer"
    PROVE  Approves(r, Ticked(r, in))
<1> DEFINE q == Request(r, in)
           e == q.ent
           c == r.w.ents[e]
           H == Asked(r.w, q, {"held"})
           d == MarkSlots(c, H, "fresh")
           a == AutonomySystem(r, in)
           s == ApplyAnswer(a, q, in.accepted)
<1>0. in.type \notin AbsorbedInputs \cup {"Cancel"}
  BY DEF AbsorbedInputs
<1>1. Ticked(r, in) = InteractionSystem(a, in)
  BY <1>0, Ignored DEF Ticked, Begun, TakenIn, Closed, Moved, Linked
<1>2. CASE ~ IsRaised(r, in)
  <2>1. Ticked(r, in) = r
    BY <1>1, <1>2 DEF AutonomySystem, InteractionSystem
  <2> QED BY <2>1 DEF Approves
<1>3. CASE IsRaised(r, in)
  <2>1. q \in r.w.raised /\ e \in DOMAIN r.w.ents
    BY <1>3, RequestGood
  <2>2. a = Put(r, e, d)
    BY <1>3 DEF AutonomySystem, RestoreHeldSlot
  <2>3. Leads(r, a)
    BY AutonomySystemGood
  <2> HIDE DEF q
  <2>4. HeldFor(r.w.raised, e, c) /\ Shape(c) /\ Untouched(r.w, e)
    BY <2>1 DEF Sound, EntSound, Clean
  <2>5. /\ q.turn = c.turn /\ q.slot \in DOMAIN c.slots
        /\ c.slots[q.slot].st = "held" /\ c.slots[q.slot].kind = "Local"
    BY <2>1, <2>4 DEF HeldFor, Shape
  <2>6. NoLocal(r.w, e)
    BY <2>4, <2>5, BegunNoLocal
  <2>7. c \in Components
    BY <2>1, EntGood
  <2>8. H = {q.slot}
    BY <2>5 DEF Asked
  <2> HIDE DEF H
  <2>9. /\ d.parent = c.parent /\ d.turn = c.turn
        /\ d.slots = [i \in DOMAIN c.slots |->
                        IF i \in H THEN [c.slots[i] EXCEPT !.st = "fresh"] ELSE c.slots[i]]
    BY <2>7 DEF MarkSlots, Components
  <2>10. /\ DOMAIN d.slots = DOMAIN c.slots
         /\ \A i \in DOMAIN c.slots : i # q.slot => d.slots[i] = c.slots[i]
         /\ d.slots[q.slot].kind = "Local" /\ d.slots[q.slot].st = "fresh"
    <3>1. c.slots[q.slot] \in ToolSlots
      BY <2>5, <2>7, EntFields
    <3>2. d.slots[q.slot] = [c.slots[q.slot] EXCEPT !.st = "fresh"]
      BY <2>5, <2>8, <2>9
    <3> QED BY <2>5, <2>8, <2>9, <3>1, <3>2 DEF ToolSlots
  <2> HIDE DEF d, a
  <2>11. /\ DOMAIN a.w.ents = DOMAIN r.w.ents /\ a.w.ents[e] = d
         /\ \A f \in DOMAIN r.w.ents \ {e} : a.w.ents[f] = r.w.ents[f]
         /\ a.w.raised = r.w.raised /\ a.out = {} /\ GoodRun(a)
    BY <2>1, <2>2, <2>3, PutFields DEF Leads
  <2>12. Ticked(r, in) = s
    <3>1. IsRaised(a, in) /\ Request(a, in) = q
      BY <1>3, <2>11 DEF IsRaised, Request, q
    <3> QED BY <1>1, <3>1 DEF InteractionSystem
  <2>13. FreshSlots(a.w, e, "Local") \subseteq Asked(a.w, q, {"fresh"})
    <3>1. ASSUME NEW i \in FreshSlots(a.w, e, "Local"), i # q.slot
          PROVE  FALSE
      <4>1. i \in DOMAIN c.slots /\ c.slots[i].kind = "Local" /\ c.slots[i].st = "fresh"
        BY <2>10, <2>11, <3>1 DEF FreshSlots
      <4> QED BY <2>6, <4>1 DEF NoLocal, FreshSlots
    <3>2. q.slot \in Asked(a.w, q, {"fresh"})
      BY <2>5, <2>9, <2>10, <2>11 DEF Asked
    <3> QED BY <3>1, <3>2
  <2> HIDE DEF s
  <2>14. /\ Around(a.w, s.w, e) /\ NoLocal(s.w, e)
         /\ \A x \in s.out : x.type = "RunTool" => Runs(s.w, q, x)
    BY <2>1, <2>11, <2>13, AnsweredTurns DEF s
  <2>15. Around(r.w, s.w, e)
    <3>1. \A f \in DOMAIN r.w.ents : /\ a.w.ents[f].parent = r.w.ents[f].parent
                                     /\ f # e => a.w.ents[f].slots = r.w.ents[f].slots
      BY <2>9, <2>11
    <3> HIDE DEF e
    <3> QED BY <2>11, <2>14, <3>1 DEF Around
  <2>16. Clean(s.w)
    <3>1. Untouched(s.w, e)
      BY <2>14 DEF Untouched
    <3> QED BY <2>15, <3>1, CleanAround
  <2>17. s.w.raised = r.w.raised \ {q}
    <3>1. \A k \in Commands : k.type = "RunTool" => k \in Commands OBVIOUS
    <3>2. q \in a.w.raised /\ e \in DOMAIN a.w.ents
      BY <2>1, <2>11
    <3>3. s.w.raised = a.w.raised \ {q}
      BY <2>11, <3>1, <3>2, ApplyAnswerMinds DEF s
    <3> QED BY <2>11, <3>3
  <2> QED BY <2>1, <2>5, <2>12, <2>14, <2>16, <2>17 DEF Approves
<1> QED BY <1>2, <1>3

\* Whatever comes, a clean World stays clean and every tool that runs is approved.
LEMMA TickApproves ==
    ASSUME NEW r, GoodRun(r), r.out = {}, Clean(r.w), NEW K, Sound(r.w, K, r.w.raised),
           NEW in, GoodIn(r.w, in),
           in.type \in AbsorbedInputs \cup Calls \cup {"PeerSendOutcome", "Cancel"},
           in.type = "ChildReturned" => in \in ChildReturns(r.w),
           in.type \in {"ToolReturned", "HumanActionDone", "HumanActionAborted"} =>
               NoLocal(r.w, in.ent)
    PROVE  Approves(r, Ticked(r, in))
<1>1. CASE in.type = "ModelResponded"
  BY <1>1, ResponseApproves
<1>2. CASE in.type \in AbsorbedInputs \ {"ModelResponded"}
  BY <1>2, AnswerApproves
<1>3. CASE in.type = "InteractionAnswer"
  BY <1>3, InteractionApproves
<1>4. CASE in.type \in (Calls \cup {"PeerSendOutcome", "Cancel"}) \ {"InteractionAnswer"}
  <2>1. in.type \in {"ChildReturned", "PeerSendOutcome", "UserMessage", "DriveRequested",
                     "PeerDelivered", "Cancel", "Pause", "Resume", "ClearPolicyHalt",
                     "SetAutonomy"}
    BY <1>4 DEF Calls
  <2> QED BY <2>1, OtherApproves
<1> QED BY <1>1, <1>2, <1>3, <1>4

\* What a step folds keeps the World clean and runs no tool without approval.
LEMMA ComesApprove ==
    ASSUME GoodRun([w |-> world, out |-> owed]), Waits, Clean(world), NEW in, NEW a, Comes(in, a)
    PROVE  /\ Clean(world')
           /\ world.ask /\ world'.ask => \A k \in Emitted : k.type = "RunTool" =>
                 \E q \in world.raised \ world'.raised :
                     /\ q.ent = k.ent /\ Slots(q.ent)[q.slot].st = "held"
                     /\ q.slot \in DOMAIN world'.ents[q.ent].slots
                     /\ world'.ents[q.ent].slots[q.slot].cmd = k.cmd
<1>0. GoodIn(world, in) /\ Fold(in, a)
  BY DEF Comes
<1>1. PICK r, s : /\ r.w = world /\ r.out = {} /\ GoodRun(r) /\ GoodIn(r.w, in)
                  /\ s = Ticked(r, in) /\ world' = s.w
                  /\ owed' = Shell(owed \ a, s.out)
  BY <1>0, FoldIs, SMTT(30)
<1>2. /\ in.type \in AbsorbedInputs \cup Calls \cup {"PeerSendOutcome", "Cancel"}
      /\ in.type = "ChildReturned" => in \in ChildReturns(world)
  BY DEF Comes, Fits, AbsorbedInputs
<1>3. Sound(world, owed, world.raised)
  BY DEF Waits
<1>4. ASSUME in.type \in {"ToolReturned", "HumanActionDone", "HumanActionAborted"}
      PROVE  NoLocal(world, in.ent)
  <2>1. in.type \notin Calls \cup {"Cancel"}
    BY <1>4 DEF Calls
  <2>2. PICK k \in owed : in.ent = k.ent /\ in.cmd = k.cmd /\ Fits(in, k)
    BY <2>1 DEF Comes
  <2>3. k.type \in {"RunTool", "RequestHumanAction"}
    BY <1>4, <2>2 DEF Fits
  <2>4. in.ent \in DOMAIN world.ents
    BY <1>0, <1>4 DEF GoodIn, EntInputs
  <2>5. Shape(world.ents[in.ent]) /\ WaitsFor(world.ents[in.ent], k) /\ Untouched(world, in.ent)
    BY <1>3, <2>2, <2>4 DEF Sound, EntSound, Clean
  <2> QED BY <2>3, <2>5, AwaitedNoLocal
<1>5. Approves(r, s)
  BY <1>1, <1>2, <1>3, <1>4, TickApproves
<1>6. \A k \in Emitted : k \in s.out
  BY <1>1, EmittedIs
<1> QED BY <1>1, <1>5, <1>6 DEF Approves, Runs, Slots

\* In a fresh session no turn has begun.
LEMMA InitClean == Init => Clean(world)
<1> SUFFICES ASSUME Init, NEW e \in DOMAIN world.ents
             PROVE  Untouched(world, e)
  BY DEF Clean
<1> DEFINE c == Newborn(None, 0, <<>>)
<1>1. c.slots = <<>>
  BY DEF Newborn
<1> HIDE DEF c
<1>2. world.ents = [x \in {Root} |-> c]
  BY DEF Init, Genesis, c
<1> QED BY <1>1, <1>2 DEF Untouched, NoLocal, FreshSlots

\* Every step keeps the World clean.
LEMMA NextClean == IInv /\ Waits /\ Clean(world) /\ [Next]_vars => Clean(world)'
<1> SUFFICES ASSUME IInv, Waits, Clean(world), [Next]_vars
             PROVE  Clean(world')
  OBVIOUS
<1>1. GoodRun([w |-> world, out |-> owed]) /\ msgs \in Nat
  BY DEF IInv
<1>2. CASE Next
  BY <1>1, <1>2, NextComes, ComesApprove
<1>3. CASE UNCHANGED vars
  BY <1>3 DEF vars
<1> QED BY <1>2, <1>3

\* Under an approval policy every tool that runs was held, and the answer that runs it takes
\* back the request for its own slot: no result, response, control or reopened gate dispatches a tool
\* planned behind a closed gate, since nothing advances its turn (AutonomySystem,
\* InteractionSystem, TurnAdvance).
THEOREM RunsAreApproved == Spec => ApprovedBeforeRun
<1>1. ASSUME IInv, Waits, Clean(world), [Next]_vars
      PROVE  [world.ask /\ world'.ask =>
                \A k \in Emitted : k.type = "RunTool" =>
                  \E q \in world.raised \ world'.raised :
                      /\ q.ent = k.ent /\ Slots(q.ent)[q.slot].st = "held"
                      /\ q.slot \in DOMAIN world'.ents[q.ent].slots
                      /\ world'.ents[q.ent].slots[q.slot].cmd = k.cmd]_vars
  <2>1. GoodRun([w |-> world, out |-> owed]) /\ msgs \in Nat
    BY <1>1 DEF IInv
  <2>2. CASE Next
    BY <1>1, <2>1, <2>2, NextComes, ComesApprove
  <2>3. CASE UNCHANGED vars
    BY <2>3
  <2> QED BY <1>1, <2>2, <2>3
<1>2. Init => IInv /\ Waits /\ Clean(world)
  BY InitGood, InitWaits, InitClean
<1>3. IInv /\ Waits /\ Clean(world) /\ [Next]_vars => (IInv /\ Waits /\ Clean(world))'
  BY NextGood, NextWaits, NextClean
<1> QED BY <1>1, <1>2, <1>3, PTL DEF Spec, ApprovedBeforeRun
===============================================================================
