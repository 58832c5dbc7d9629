---------------------------- MODULE BranchesProofs ----------------------------
(***************************************************************************)
(* Counterfactual branches (Branches): a branch forked once is loaded as   *)
(* it was forked, or as its bare prefix once it was swept, or not at all,  *)
(* and a sweep takes nothing a root needs, for any branches, logs, crashes *)
(* and any grace.                                                          *)
(***************************************************************************)
EXTENDS Branches, WellFoundedInduction, SequenceTheorems, TLAPS

Events == [at : Nat, in : Inputs]
Descriptors == [id : Ids, fork : Nat, digest : Seq(Events), pin : BOOLEAN,
                tombstone : BOOLEAN, born : Nat]
Loads == [ok : BOOLEAN, events : Seq(Events)]

Typed ==
    /\ main \in Seq(Events) /\ tails \in [Ids -> Seq(Events)]
    /\ index \in Seq(Descriptors)
    /\ writing \in [id : Ids \cup {Main}, rest : Seq(Events), desc : Seq(Descriptors)]
    /\ handles \subseteq Described /\ now \in Nat
    /\ forked \in [Ids -> Seq(Seq(Events))]

\* A branch that is being written has one descriptor to come, and was forked.
WritingIsForked ==
    writing # NotWriting =>
        /\ writing.id \in Ids /\ Len(forked[writing.id]) > 0
        /\ Len(writing.desc) = 1 /\ writing.desc[1].id = writing.id

\* Nothing is on disk of a branch that was never forked.  Of one forked once, the tail on disk
\* with what is left to write is the tail it was forked with, until its descriptor makes it
\* known; then the tail stays, or is swept.
NeverForked(id) == id \notin Described /\ tails[id] = <<>> /\ writing.id # id
BeingWritten(id) ==
    /\ id \notin Described
    /\ forked[id][1] = writing.desc[1].digest \o (tails[id] \o writing.rest)
Written(id) ==
    \A i \in DOMAIN index : index[i].id = id =>
        /\ tails[id] # <<>> => forked[id][1] = index[i].digest \o tails[id]
        /\ IsPrefix(index[i].digest, forked[id][1])
TailsAreForked ==
    \A id \in Ids :
        /\ Len(forked[id]) = 0 => NeverForked(id)
        /\ Len(forked[id]) = 1 => IF writing.id = id THEN BeingWritten(id) ELSE Written(id)

IInv == Typed /\ WritingIsForked /\ TailsAreForked
-----------------------------------------------------------------------------
\* Recursion over the naturals.

\* The order of the naturals is well-founded.
LEMMA LessIsWellFounded ==
    \E R : IsWellFoundedOn(R, Nat) /\ \A j, i \in Nat : j < i => <<j, i>> \in R
<1> WITNESS OpToRel(<, Nat)
<1>1. \A j, i \in Nat : j < i => <<j, i>> \in OpToRel(<, Nat)
  BY DEF OpToRel
<1>2. IsWellFoundedOn(OpToRel(<, Nat), Nat)
  BY NatLessThanWellFounded
<1> QED
  BY Zenon, <1>1, <1>2

\* A set of naturals has a least element.
LEMMA NatMin ==
    ASSUME NEW S \in SUBSET Nat, S # {}
    PROVE  \E i \in S : \A j \in S : i <= j
<1>1. PICK R : IsWellFoundedOn(R, Nat) /\ \A j, i \in Nat : j < i => <<j, i>> \in R
  BY LessIsWellFounded
<1>2. S \subseteq Nat
  OBVIOUS
<1>3. PICK i \in S : \A j \in S : ~ (<<j, i>> \in R)
  <2>1. IsWellFoundedOn(R, Nat)
    BY <1>1
  <2>2. \E x \in S : \A y \in S : ~ (<<y, x>> \in R)
    BY ONLY <2>1, <1>2, S # {}, WFMin
  <2> QED
    BY <2>2
<1>4. \A j \in S : ~ (j < i)
  BY Zenon, <1>1, <1>2, <1>3
<1> QED
  BY <1>2, <1>4

\* A function whose values stay in a set from one number to the next.
LEMMA StaysIn ==
    ASSUME NEW S, NEW N \in Nat, NEW f, f[0] \in S,
           \A n \in 1 .. N : f[n - 1] \in S => f[n] \in S
    PROVE  \A n \in 0 .. N : f[n] \in S
<1> DEFINE Bad == {n \in 0 .. N : f[n] \notin S}
<1> SUFFICES ASSUME Bad # {} PROVE FALSE
  OBVIOUS
<1>1. Bad \in SUBSET Nat
  OBVIOUS
<1>2. PICK n \in Bad : \A m \in Bad : n <= m
  <2> HIDE DEF Bad
  <2> QED
    BY <1>1, NatMin
<1>3. n \in 0 .. N /\ f[n] \notin S
  OBVIOUS
<1>4. n \in 1 .. N /\ n - 1 \in 0 .. N
  BY <1>3
<1>5. n - 1 \notin Bad
  <2> HIDE DEF Bad
  <2> QED
    BY <1>1, <1>2, <1>4
<1> QED
  BY <1>3, <1>4, <1>5

\* f goes from a by g, one number at a time.
Recurs(f, S, N, a, g) ==
    /\ f \in [0 .. N -> S]
    /\ \A n \in 0 .. N : f[n] = IF n = 0 THEN a ELSE g[<<f[n - 1], n>>]

\* A recursive function on an interval exists.
LEMMA RecursionExists ==
    ASSUME NEW S, NEW a, NEW N, NEW g, a \in S, N \in Nat, g \in [S \X (1 .. N) -> S]
    PROVE  \E f : Recurs(f, S, N, a, g)
<1> DEFINE Upto(f, k) == \A n \in 0 .. k : f[n] = IF n = 0 THEN a ELSE g[<<f[n - 1], n>>]
           Has(k) == \E f \in [0 .. k -> S] : Upto(f, k)
           Bad == {k \in 0 .. N : ~ Has(k)}
<1>1. Has(0)
  <2> DEFINE h == [n \in 0 .. 0 |-> a]
  <2>1. h \in [0 .. 0 -> S] /\ Upto(h, 0)
    OBVIOUS
  <2> QED
    BY <2>1
<1>2. ASSUME NEW k \in 1 .. N, Has(k - 1) PROVE Has(k)
  <2>1. PICK f \in [0 .. k - 1 -> S] : Upto(f, k - 1)
    BY <1>2
  <2> DEFINE h == [n \in 0 .. k |-> IF n = k THEN g[<<f[k - 1], k>>] ELSE f[n]]
  <2>2. f[k - 1] \in S /\ g[<<f[k - 1], k>>] \in S
    OBVIOUS
  <2>3. h \in [0 .. k -> S]
    BY <2>2
  <2>4. ASSUME NEW n \in 0 .. k PROVE h[n] = IF n = 0 THEN a ELSE g[<<h[n - 1], n>>]
    <3>1. CASE n = k
      <4>1. h[n] = g[<<f[k - 1], k>>] /\ h[n - 1] = f[k - 1] /\ n # 0
        BY <3>1
      <4> QED
        BY <3>1, <4>1
    <3>2. CASE n # k
      <4>1. n \in 0 .. k - 1 /\ h[n] = f[n] /\ (n # 0 => h[n - 1] = f[n - 1])
        BY <3>2
      <4> QED
        BY <2>1, <4>1
    <3> QED
      BY <3>1, <3>2
  <2> QED
    BY <2>3, <2>4
<1> HIDE DEF Has
<1>3. Bad = {}
  <2> SUFFICES ASSUME Bad # {} PROVE FALSE
    OBVIOUS
  <2>1. Bad \in SUBSET Nat
    OBVIOUS
  <2>2. PICK k \in Bad : \A j \in Bad : k <= j
    <3> HIDE DEF Bad
    <3> QED
      BY <2>1, NatMin
  <2>3. k \in 0 .. N /\ ~ Has(k)
    OBVIOUS
  <2>4. k \in 1 .. N /\ k - 1 \in 0 .. N
    BY <1>1, <2>3
  <2>5. k - 1 \notin Bad
    <3> HIDE DEF Bad
    <3> QED
      BY <2>1, <2>2, <2>4
  <2> QED
    BY <1>2, <2>3, <2>4, <2>5
<1>4. Has(N)
  BY <1>3
<1> QED
  BY <1>4 DEF Has, Recurs

-----------------------------------------------------------------------------
\* What is read of a log.

\* The events of some ticks are events.
LEMMA DuringType ==
    ASSUME NEW events \in Seq(Events), NEW ticks
    PROVE  During(events, ticks) \in Seq(Events)
<1> DEFINE N == Len(events)
           E(s, n) == IF events[n].at \in ticks THEN Append(s, events[n]) ELSE s
           Is(f) == f = [n \in 0 .. N |-> IF n = 0 THEN <<>> ELSE E(f[n - 1], n)]
           f == CHOOSE h : Is(h)
           g == [x \in Seq(Events) \X (1 .. N) |-> E(x[1], x[2])]
<1>1. N \in Nat
  OBVIOUS
<1>2. \A s \in Seq(Events), n \in 1 .. N : E(s, n) \in Seq(Events)
  OBVIOUS
<1>3. <<>> \in Seq(Events)
  OBVIOUS
<1>4. During(events, ticks) = f[N]
  BY DEF During
<1> HIDE DEF E, N
<1>5. g \in [Seq(Events) \X (1 .. N) -> Seq(Events)]
  BY <1>2
<1>6. PICK h \in [0 .. N -> Seq(Events)] :
         \A n \in 0 .. N : h[n] = IF n = 0 THEN <<>> ELSE g[<<h[n - 1], n>>]
  <2> DEFINE S == Seq(Events)
             a == <<>>
  <2>1. a \in S /\ N \in Nat /\ g \in [S \X (1 .. N) -> S]
    BY <1>1, <1>3, <1>5
  <2>2. \E h : Recurs(h, S, N, a, g)
    <3> HIDE DEF g, S, a
    <3> QED
      BY <2>1, RecursionExists
  <2> QED
    BY <2>2 DEF Recurs
<1>7. Is(h)
  <2>1. ASSUME NEW n \in 0 .. N PROVE h[n] = IF n = 0 THEN <<>> ELSE E(h[n - 1], n)
    <3>1. CASE n = 0
      BY <1>6, <3>1
    <3>2. CASE n # 0
      <4>1. n \in 1 .. N /\ n - 1 \in 0 .. N
        BY <1>1, <3>2
      <4>2. <<h[n - 1], n>> \in Seq(Events) \X (1 .. N)
        BY <4>1
      <4> QED
        BY <1>6, <3>2, <4>2
    <3> QED
      BY <3>1, <3>2
  <2> QED
    BY <2>1
<1>8. Is(f)
  <2> HIDE DEF Is
  <2> QED
    BY <1>7
<1> HIDE DEF f, g
<1>9. f[0] \in Seq(Events) /\ \A n \in 1 .. N : f[n - 1] \in Seq(Events) => f[n] \in Seq(Events)
  <2>1. 0 \in 0 .. N /\ \A n \in 1 .. N : n \in 0 .. N /\ n # 0
    BY <1>1
  <2>2. f[0] = <<>>
    BY <1>8, <2>1
  <2>3. \A n \in 1 .. N : f[n] = E(f[n - 1], n)
    BY <1>8, <2>1
  <2> QED
    BY <1>2, <1>3, <2>2, <2>3
<1>10. \A n \in 0 .. N : f[n] \in Seq(Events)
  BY <1>1, <1>9, StaysIn
<1> QED
  BY <1>1, <1>4, <1>10

\* The latest line of a branch is one of its lines.
LEMMA DescriptorIs ==
    ASSUME index \in Seq(Descriptors), NEW id \in Described
    PROVE  \E i \in DOMAIN index : Descriptor(id) = index[i] /\ index[i].id = id
<1> DEFINE Latest(i) == index[i].id = id /\ \A j \in DOMAIN index : index[j].id = id => j <= i
           n == Len(index)
           Lines == {i \in DOMAIN index : index[i].id = id}
           Back == {n - i : i \in Lines}
<1>1. n \in Nat /\ DOMAIN index = 1 .. n
  OBVIOUS
<1>2. Lines # {} /\ Lines \subseteq 1 .. n
  BY <1>1 DEF Described
<1>3. Back \in SUBSET Nat /\ Back # {}
  BY <1>1, <1>2
<1>4. PICK k \in Back : \A l \in Back : k <= l
  <2> HIDE DEF Back
  <2> QED
    BY <1>3, NatMin
<1>5. PICK i \in Lines : k = n - i
  OBVIOUS
<1>6. ASSUME NEW j \in Lines PROVE j <= i
  <2>1. n - j \in Back
    OBVIOUS
  <2>2. n - i <= n - j
    BY <1>4, <1>5, <2>1
  <2>3. i \in Nat /\ j \in Nat
    BY <1>1, <1>2
  <2> QED
    BY <1>1, <2>2, <2>3
<1>7. i \in DOMAIN index /\ Latest(i)
  BY <1>5, <1>6
<1>8. (CHOOSE m \in DOMAIN index : Latest(m)) \in Lines
  <2>1. \E m \in DOMAIN index : Latest(m)
    BY <1>7
  <2> QED
    BY <2>1
<1> QED
  BY <1>8 DEF Descriptor

\* The latest line of a branch describes it.
LEMMA DescriptorType ==
    ASSUME index \in Seq(Descriptors), NEW id \in Described
    PROVE  Descriptor(id) \in Descriptors /\ Descriptor(id).id = id /\ id \in Ids
<1>1. PICK i \in DOMAIN index : Descriptor(id) = index[i] /\ index[i].id = id
  BY DescriptorIs
<1>2. index[i] \in Descriptors
  OBVIOUS
<1> QED
  BY <1>1, <1>2 DEF Descriptors

\* A branch extends what its parents load to, and is itself the last step of the path to it.
LEMMA LoadIs ==
    ASSUME Typed, NEW id \in Seq(Edits)
    PROVE  /\ Load(id) \in Loads
           /\ id # <<>> => \E parent \in Loads : Load(id) = Extend(parent, id)
<1> DEFINE N == Len(id)
           First == [ok |-> TRUE, events |-> main]
           E(s, n) == Extend(s, SubSeq(id, 1, n))
           Is(f) == f = [n \in 0 .. N |-> IF n = 0 THEN First ELSE E(f[n - 1], n)]
           f == CHOOSE h : Is(h)
           g == [x \in Loads \X (1 .. N) |-> E(x[1], x[2])]
<1>1. N \in Nat
  OBVIOUS
<1>2. \A s \in Loads, n \in 1 .. N : E(s, n) \in Loads
  <2> SUFFICES ASSUME NEW s \in Loads, NEW b PROVE Extend(s, b) \in Loads
    OBVIOUS
  <2>1. Fails \in Loads
    BY DEF Fails, Loads
  <2>2. CASE b \in Described
    <3>1. Descriptor(b) \in Descriptors /\ b \in Ids
      BY <2>2, DescriptorType DEF Typed
    <3>2. s.events \in Seq(Events) /\ tails[b] \in Seq(Events)
      BY <3>1 DEF Loads, Typed
    <3>3. Before(s.events, Descriptor(b).fork) \in Seq(Events)
      BY <3>2, DuringType DEF Before
    <3>4. Before(s.events, Descriptor(b).fork) \o tails[b] \in Seq(Events)
      BY <3>2, <3>3
    <3> QED
      BY <2>1, <3>4 DEF Extend, Loads
  <2>3. CASE b \notin Described
    BY <2>1, <2>3 DEF Extend
  <2> QED
    BY <2>2, <2>3
<1>3. First \in Loads
  BY DEF Loads, Typed
<1>4. Load(id) = f[N]
  BY DEF Load, LoadAlong
<1> HIDE DEF E, N, First
<1>5. g \in [Loads \X (1 .. N) -> Loads]
  BY <1>2
<1>6. PICK h \in [0 .. N -> Loads] :
         \A n \in 0 .. N : h[n] = IF n = 0 THEN First ELSE g[<<h[n - 1], n>>]
  <2> DEFINE S == Loads
             a == First
  <2>1. a \in S /\ N \in Nat /\ g \in [S \X (1 .. N) -> S]
    BY <1>1, <1>3, <1>5
  <2>2. \E h : Recurs(h, S, N, a, g)
    <3> HIDE DEF g, S, a
    <3> QED
      BY <2>1, RecursionExists
  <2> QED
    BY <2>2 DEF Recurs
<1>7. Is(h)
  <2>1. ASSUME NEW n \in 0 .. N PROVE h[n] = IF n = 0 THEN First ELSE E(h[n - 1], n)
    <3>1. CASE n = 0
      BY <1>6, <3>1
    <3>2. CASE n # 0
      <4>1. n \in 1 .. N /\ n - 1 \in 0 .. N
        BY <1>1, <3>2
      <4>2. <<h[n - 1], n>> \in Loads \X (1 .. N)
        BY <4>1
      <4> QED
        BY <1>6, <3>2, <4>2
    <3> QED
      BY <3>1, <3>2
  <2> QED
    BY <2>1
<1>8. Is(f)
  <2> HIDE DEF Is
  <2> QED
    BY <1>7
<1> HIDE DEF f, g
<1>9. f[0] \in Loads /\ \A n \in 1 .. N : f[n] = E(f[n - 1], n)
  <2>1. 0 \in 0 .. N /\ \A n \in 1 .. N : n \in 0 .. N /\ n # 0
    BY <1>1
  <2> QED
    BY <1>3, <1>8, <2>1
<1>10. \A n \in 0 .. N : f[n] \in Loads
  <2>1. \A n \in 1 .. N : f[n - 1] \in Loads => f[n] \in Loads
    BY <1>2, <1>9
  <2> QED
    BY <1>1, <1>9, <2>1, StaysIn
<1>11. ASSUME id # <<>> PROVE \E parent \in Loads : Load(id) = Extend(parent, id)
  <2>1. N \in 1 .. N /\ N - 1 \in 0 .. N
    BY <1>1, <1>11 DEF N
  <2>2. SubSeq(id, 1, N) = id
    BY DEF N
  <2> QED
    BY <1>4, <1>9, <1>10, <2>1, <2>2 DEF E
<1> QED
  BY <1>1, <1>4, <1>10, <1>11

-----------------------------------------------------------------------------
\* What is forked.

\* What is read of a log before, at and after a tick are events.
LEMMA ReadsType ==
    ASSUME NEW events \in Seq(Events), NEW t
    PROVE  /\ Before(events, t) \in Seq(Events) /\ At(events, t) \in Seq(Events)
           /\ After(events, t) \in Seq(Events)
BY DuringType DEF Before, At, After

\* The tail of a fork is a log.
LEMMA ForkTailType ==
    ASSUME NEW events \in Seq(Events), NEW t \in Nat, NEW kind
    PROVE  ForkTail(events, t, kind) \in Seq(Events)
<1> DEFINE e == Edited(events, t, kind)
<1>1. e \in Seq(Events)
  <2>1. Event(t, "edited") \in Events
    BY DEF Event, Events, Inputs
  <2>2. <<Event(t, "edited")>> \in Seq(Events) /\ <<>> \in Seq(Events)
    BY <2>1
  <2>3. /\ At(events, t) \in Seq(Events) /\ After(events, t) \in Seq(Events)
    BY ReadsType
  <2> DEFINE a == IF kind = "Replace" THEN <<>> ELSE At(events, t)
             b == <<Event(t, "edited")>>
             c == After(events, t)
  <2>4. a \in Seq(Events) /\ b \in Seq(Events) /\ c \in Seq(Events)
    BY <2>2, <2>3
  <2>5. e = a \o b \o c
    BY DEF Edited
  <2> HIDE DEF e, a, b, c
  <2> QED
    BY <2>4, <2>5
<1> HIDE DEF e
<1>2. \A i \in 1 .. Len(e) : [e[i] EXCEPT !.at = t + i - 1] \in Events
  <2> SUFFICES ASSUME NEW i \in 1 .. Len(e) PROVE [e[i] EXCEPT !.at = t + i - 1] \in Events
    OBVIOUS
  <2>1. e[i] \in Events /\ t + i - 1 \in Nat
    BY <1>1
  <2> QED
    BY <2>1 DEF Events
<1>3. DOMAIN e = 1 .. Len(e) /\ Len(e) \in Nat
  BY <1>1
<1>4. Restamp(e, t) = [i \in 1 .. Len(e) |-> [e[i] EXCEPT !.at = t + i - 1]]
  BY <1>3 DEF Restamp
<1>5. Restamp(e, t) \in Seq(Events)
  BY <1>2, <1>3, <1>4
<1> QED
  BY <1>5 DEF ForkTail, e

\* An id forked has a parent, an edit and no other id's parent.
LEMMA IdIs ==
    ASSUME NEW id \in Ids
    PROVE  /\ id \in Seq(Edits) /\ id # <<>> /\ id # Main
           /\ Parent(id) \in Seq(Edits)
           /\ Last(id).at \in Nat
<1>1. id \in Seq(Edits) /\ id # <<>>
  BY BranchesAssumption
<1>2. Len(id) \in Nat /\ Len(id) # 0
  BY <1>1
<1>3. SubSeq(id, 1, Len(id) - 1) \in Seq(Edits)
  BY <1>1, <1>2
<1>4. Parent(id) = SubSeq(id, 1, Len(id) - 1)
  BY DEF Parent, Front
<1>5. Last(id) = id[Len(id)]
  BY DEF Last
<1>6. id[Len(id)] \in Edits
  BY <1>1, <1>2
<1> QED
  BY <1>1, <1>3, <1>4, <1>5, <1>6 DEF Edits, Main

-----------------------------------------------------------------------------
\* Every step keeps the invariant.

\* The index only grows: a line of it is an old one or the new one.
LEMMA IndexGrows ==
    ASSUME index \in Seq(Descriptors), NEW d \in Descriptors, index' = index \o <<d>>
    PROVE  /\ index' \in Seq(Descriptors)
           /\ \A i \in DOMAIN index' :
                 (i \in DOMAIN index /\ index'[i] = index[i]) \/ index'[i] = d
           /\ Described \subseteq Described'
           /\ Described' \subseteq Described \cup {d.id}
<1>1. <<d>> \in Seq(Descriptors) /\ Len(<<d>>) = 1 /\ <<d>>[1] = d
  OBVIOUS
<1>2. index' \in Seq(Descriptors) /\ Len(index') = Len(index) + 1
  BY <1>1
<1>3. \A i \in 1 .. Len(index) : index'[i] = index[i]
  BY <1>1
<1>4. index'[Len(index) + 1] = d
  BY <1>1
<1>5. DOMAIN index = 1 .. Len(index) /\ DOMAIN index' = 1 .. Len(index) + 1 /\ Len(index) \in Nat
  BY <1>2
<1>6. \A i \in DOMAIN index' : (i \in DOMAIN index /\ index'[i] = index[i]) \/ index'[i] = d
  <2>1. \A i \in DOMAIN index' : i \in DOMAIN index \/ i = Len(index) + 1
    BY <1>5
  <2> QED
    BY <1>3, <1>4, <1>5, <2>1
<1>7. Described \subseteq Described'
  <2> SUFFICES ASSUME NEW i \in DOMAIN index PROVE index[i].id \in Described'
    BY DEF Described
  <2>1. i \in DOMAIN index' /\ index'[i] = index[i]
    BY <1>3, <1>5
  <2>2. Described' = {index'[j].id : j \in DOMAIN index'}
    BY DEF Described
  <2> QED
    BY <2>1, <2>2
<1>8. Described' \subseteq Described \cup {d.id}
  <2>1. Described' = {index'[j].id : j \in DOMAIN index'}
    BY DEF Described
  <2>2. Described = {index[j].id : j \in DOMAIN index}
    BY DEF Described
  <2> QED
    BY <1>6, <2>1, <2>2
<1> QED
  BY <1>2, <1>6, <1>7, <1>8

\* The clock and the recorded log are not the branches'.
LEMMA MainMoves ==
    ASSUME Typed, WritingIsForked, TailsAreForked, main' \in Seq(Events), now' \in Nat,
           UNCHANGED <<tails, index, writing, handles, forked>>
    PROVE  IInv'
<1>1. Described' = Described
  BY DEF Described
<1>2. Typed'
  BY <1>1 DEF Typed
<1>3. WritingIsForked'
  BY DEF WritingIsForked, NotWriting, Main
<1>4. TailsAreForked'
  BY <1>1 DEF TailsAreForked, NeverForked, BeingWritten, Written
<1> QED
  BY <1>2, <1>3, <1>4 DEF IInv

\* The live session appends to its log.
LEMMA AppendStays == ASSUME IInv, AppendMain \/ PassTime PROVE IInv'
<1>1. CASE AppendMain
  <2>1. main \in Seq(Events) /\ now' = now /\ now \in Nat
    BY <1>1 DEF AppendMain, IInv, Typed
  <2>2. PICK in \in {"user", "model"}, batch \in BOOLEAN :
           /\ batch => main # <<>> /\ in = "model" /\ main[Len(main)].in = "model"
           /\ main' = Append(main,
                             Event(IF batch THEN NextTick(main) - 1 ELSE NextTick(main), in))
    BY <1>1 DEF AppendMain
  <2>3. NextTick(main) \in Nat /\ (main # <<>> => NextTick(main) - 1 \in Nat)
    <3>1. CASE main = <<>>
      BY <3>1 DEF NextTick
    <3>2. CASE main # <<>>
      <4>1. Len(main) \in 1 .. Len(main)
        BY <2>1, <3>2
      <4>2. main[Len(main)] \in Events
        BY <2>1, <4>1
      <4> QED
        BY <3>2, <4>2 DEF NextTick, Events
    <3> QED
      BY <3>1, <3>2
  <2> DEFINE t == IF batch THEN NextTick(main) - 1 ELSE NextTick(main)
  <2>4. t \in Nat /\ in \in Inputs
    BY <2>2, <2>3 DEF Inputs
  <2>5. Event(t, in) \in Events
    BY <2>4 DEF Event, Events
  <2>6. main' \in Seq(Events)
    BY <2>1, <2>2, <2>5
  <2>7. UNCHANGED <<tails, index, writing, handles, forked>>
    BY <1>1 DEF AppendMain
  <2> QED
    BY <2>1, <2>6, <2>7, MainMoves DEF IInv
<1>2. CASE PassTime
  <2>1. /\ main' \in Seq(Events) /\ now' \in Nat
        /\ UNCHANGED <<tails, index, writing, handles, forked>>
    BY <1>2 DEF PassTime, IInv, Typed
  <2> QED
    BY <2>1, MainMoves DEF IInv
<1> QED
  BY <1>1, <1>2

\* A fork begins a branch: nothing of it is on disk if it is the first.
LEMMA ForkStays == ASSUME IInv, Fork PROVE IInv'
<1> DEFINE P(id) == Load(Parent(id))
           B(id) == Before(P(id).events, Last(id).at)
           T(id) == ForkTail(P(id).events, Last(id).at, Last(id).kind)
           D(id) == [id |-> id, fork |-> Last(id).at, digest |-> B(id),
                     pin |-> FALSE, tombstone |-> FALSE, born |-> now]
<1>1. PICK id \in Ids :
         /\ writing' = [id |-> id, rest |-> T(id), desc |-> <<D(id)>>]
         /\ forked' = [forked EXCEPT ![id] = Append(@, B(id) \o T(id))]
  BY DEF Fork
<1>2. writing = NotWriting /\ UNCHANGED <<main, tails, index, handles, now>>
  BY DEF Fork
<1>3. Typed /\ TailsAreForked
  BY DEF IInv
<1>4. /\ id \in Seq(Edits) /\ id # <<>> /\ id # Main
      /\ Parent(id) \in Seq(Edits) /\ Last(id).at \in Nat
  BY IdIs
<1>5. P(id).events \in Seq(Events)
  <2>1. P(id) \in Loads
    BY <1>3, <1>4, LoadIs
  <2> QED
    BY <2>1 DEF Loads
<1> HIDE DEF P
<1>6. B(id) \in Seq(Events) /\ T(id) \in Seq(Events)
  BY <1>4, <1>5, ReadsType, ForkTailType
<1> HIDE DEF B, T
<1>7. B(id) \o T(id) \in Seq(Events)
  BY <1>6
<1>8. D(id) \in Descriptors
  <2>1. now \in Nat
    BY <1>3 DEF Typed
  <2> QED
    BY <1>4, <1>6, <2>1 DEF Descriptors
<1>9. <<D(id)>> \in Seq(Descriptors) /\ Len(<<D(id)>>) = 1 /\ <<D(id)>>[1] = D(id)
  BY <1>8
<1>10. D(id).id = id /\ D(id).digest = B(id)
  OBVIOUS
<1> HIDE DEF D
<1>11. Described' = Described
  BY <1>2 DEF Described
<1>12. /\ writing'.id = id /\ writing'.rest = T(id) /\ writing'.desc = <<D(id)>>
       /\ writing' \in [id : Ids \cup {Main}, rest : Seq(Events), desc : Seq(Descriptors)]
  BY <1>1, <1>6, <1>9
<1>13. forked \in [Ids -> Seq(Seq(Events))]
  BY <1>3 DEF Typed
<1>14. forked[id] \in Seq(Seq(Events))
  BY <1>13
<1>15. /\ forked'[id] = Append(forked[id], B(id) \o T(id))
       /\ \A x \in Ids : x # id => forked'[x] = forked[x]
  BY <1>1, <1>13
<1>16. Append(forked[id], B(id) \o T(id)) \in Seq(Seq(Events))
  BY <1>7, <1>14
<1>17. forked' \in [Ids -> Seq(Seq(Events))]
  BY <1>1, <1>13, <1>16
<1>18. Typed'
  BY <1>2, <1>3, <1>11, <1>12, <1>17 DEF Typed
<1>19. WritingIsForked'
  <2>1. Len(Append(forked[id], B(id) \o T(id))) > 0
    <3>1. Len(Append(forked[id], B(id) \o T(id))) = Len(forked[id]) + 1 /\ Len(forked[id]) \in Nat
      BY <1>14
    <3> QED
      BY <3>1
  <2> QED
    BY <1>9, <1>10, <1>12, <1>15, <2>1 DEF WritingIsForked
<1>20. TailsAreForked'
  <2> SUFFICES ASSUME NEW x \in Ids
               PROVE  /\ Len(forked'[x]) = 0 => NeverForked(x)'
                      /\ Len(forked'[x]) = 1 =>
                            IF writing'.id = x THEN BeingWritten(x)' ELSE Written(x)'
    BY DEF TailsAreForked
  <2>1. /\ Len(forked[x]) = 0 => NeverForked(x)
        /\ Len(forked[x]) = 1 => IF writing.id = x THEN BeingWritten(x) ELSE Written(x)
    BY <1>3 DEF TailsAreForked
  <2>2. CASE x = id
    <3> DEFINE l == B(id) \o T(id)
    <3>1. /\ Len(forked'[x]) = Len(forked[x]) + 1 /\ Len(forked[x]) \in Nat
          /\ forked'[x][Len(forked[x]) + 1] = l
      <4>1. forked'[x] = Append(forked[x], l) /\ forked[x] \in Seq(Seq(Events))
        BY <1>14, <1>15, <2>2
      <4>2. l \in Seq(Events)
        BY <1>7
      <4> HIDE DEF l
      <4> QED
        BY <4>1, <4>2, AppendProperties
    <3>2. ASSUME Len(forked'[x]) = 1 PROVE BeingWritten(x)'
      <4> HIDE DEF l
      <4>1. Len(forked[x]) = 0
        BY <3>1, <3>2
      <4>7. forked'[x][1] = l
        BY <3>1, <4>1
      <4>2. id \notin Described /\ tails[id] = <<>>
        BY <2>1, <2>2, <4>1 DEF NeverForked
      <4>3. <<>> \o T(id) = T(id)
        BY <1>6
      <4>4. writing'.desc[1].digest = B(id)
        BY <1>9, <1>10, <1>12
      <4>5. forked'[x][1] = writing'.desc[1].digest \o (tails'[x] \o writing'.rest)
        BY <1>2, <1>12, <2>2, <4>7, <4>2, <4>3, <4>4 DEF l
      <4>6. x \notin Described'
        BY <1>11, <2>2, <4>2
      <4> QED
        BY <4>5, <4>6 DEF BeingWritten
    <3>3. Len(forked'[x]) # 0
      BY <3>1
    <3> QED
      BY <1>12, <2>2, <3>2, <3>3
  <2>3. CASE x # id
    <3>1. forked'[x] = forked[x] /\ writing'.id # x
      BY <1>12, <1>15, <2>3
    <3>2. writing.id # x
      BY <1>2, IdIs DEF NotWriting
    <3>3. NeverForked(x) => NeverForked(x)'
      BY <1>2, <1>11, <3>1 DEF NeverForked
    <3>4. Written(x) => Written(x)'
      BY <1>2, <3>1 DEF Written
    <3> QED
      BY <2>1, <3>1, <3>2, <3>3, <3>4
  <2> QED
    BY <2>2, <2>3
<1> QED
  BY <1>18, <1>19, <1>20 DEF IInv

\* An event goes from what is left to write to what is on disk.
LEMMA WriteTailStays == ASSUME IInv, WriteTail PROVE IInv'
<1> DEFINE w == writing.id
           e == Head(writing.rest)
           r == Tail(writing.rest)
<1>1. Typed /\ WritingIsForked /\ TailsAreForked
  BY DEF IInv
<1>2. /\ writing.rest # <<>> /\ UNCHANGED <<main, index, handles, now, forked>>
      /\ tails' = [tails EXCEPT ![w] = Append(@, e)]
      /\ writing' = [writing EXCEPT !.rest = r]
  BY DEF WriteTail
<1>3. writing # NotWriting
  BY <1>2 DEF NotWriting
<1>4. w \in Ids /\ Len(forked[w]) > 0
  BY <1>1, <1>3 DEF WritingIsForked
<1>5. writing \in [id : Ids \cup {Main}, rest : Seq(Events), desc : Seq(Descriptors)]
  BY <1>1 DEF Typed
<1>6. /\ writing.rest \in Seq(Events)
      /\ writing' = [id |-> w, rest |-> r, desc |-> writing.desc]
      /\ writing.desc \in Seq(Descriptors)
  BY <1>2, <1>5
<1>7. e \in Events /\ r \in Seq(Events)
  BY <1>2, <1>6
<1>8. tails \in [Ids -> Seq(Events)]
  BY <1>1 DEF Typed
<1>9. tails[w] \in Seq(Events) /\ Append(tails[w], e) \in Seq(Events)
  BY <1>4, <1>7, <1>8
<1>10. /\ tails' \in [Ids -> Seq(Events)] /\ tails'[w] = Append(tails[w], e)
       /\ \A x \in Ids : x # w => tails'[x] = tails[x]
  BY <1>2, <1>4, <1>8, <1>9
<1>11. tails[w] \o writing.rest = tails'[w] \o r
  <2>1. writing.rest = <<e>> \o r
    BY <1>2, <1>6
  <2>2. tails'[w] = Append(tails[w], e)
    BY <1>10
  <2>3. <<e>> \in Seq(Events)
    BY <1>7
  <2> DEFINE t == tails[w]
  <2>4. t \in Seq(Events) /\ e \in Events /\ r \in Seq(Events)
    BY <1>7, <1>9
  <2> HIDE DEF e, r, t
  <2>5. Append(t, e) = t \o <<e>>
    BY <2>4, AppendIsConcat
  <2>6. t \o (<<e>> \o r) = (t \o <<e>>) \o r
    BY <2>3, <2>4, ConcatAssociative
  <2> QED
    BY <2>1, <2>2, <2>5, <2>6 DEF t
<1>12. Described' = Described
  BY <1>2 DEF Described
<1>13. writing'.id = w /\ writing'.rest = r /\ writing'.desc = writing.desc
  BY <1>6
<1> HIDE DEF w, e, r
<1>14. Typed'
  <2>1. writing' \in [id : Ids \cup {Main}, rest : Seq(Events), desc : Seq(Descriptors)]
    BY <1>4, <1>6, <1>7
  <2> QED
    BY <1>1, <1>2, <1>10, <1>12, <2>1 DEF Typed
<1>15. WritingIsForked'
  <2>1. Len(writing.desc) = 1 /\ writing.desc[1].id = w
    BY <1>1, <1>3 DEF WritingIsForked, w
  <2> QED
    BY <1>2, <1>4, <1>13, <2>1 DEF WritingIsForked
<1>16. TailsAreForked'
  <2> SUFFICES ASSUME NEW x \in Ids
               PROVE  /\ Len(forked'[x]) = 0 => NeverForked(x)'
                      /\ Len(forked'[x]) = 1 =>
                            IF writing'.id = x THEN BeingWritten(x)' ELSE Written(x)'
    BY DEF TailsAreForked
  <2>1. /\ Len(forked[x]) = 0 => NeverForked(x)
        /\ Len(forked[x]) = 1 => IF writing.id = x THEN BeingWritten(x) ELSE Written(x)
    BY <1>1 DEF TailsAreForked
  <2>2. CASE x = w
    <3>1. Len(forked'[x]) # 0
      BY <1>2, <1>4, <2>2
    <3>2. BeingWritten(x) => BeingWritten(x)'
      BY <1>2, <1>11, <1>12, <1>13, <2>2 DEF BeingWritten
    <3> QED
      BY <1>2, <1>13, <2>1, <2>2, <3>1, <3>2 DEF w
  <2>3. CASE x # w
    <3>1. forked'[x] = forked[x] /\ writing'.id # x /\ writing.id # x /\ tails'[x] = tails[x]
      BY <1>2, <1>10, <1>13, <2>3 DEF w
    <3>2. NeverForked(x) => NeverForked(x)'
      BY <1>12, <3>1 DEF NeverForked
    <3>3. Written(x) => Written(x)'
      BY <1>2, <3>1 DEF Written
    <3> QED
      BY <2>1, <3>1, <3>2, <3>3
  <2> QED
    BY <2>2, <2>3
<1> QED
  BY <1>14, <1>15, <1>16 DEF IInv

\* A log is a prefix of what it is continued to.
LEMMA PrefixOfConcat ==
    ASSUME NEW s \in Seq(Events), NEW t \in Seq(Events) PROVE IsPrefix(s, s \o t)
<1>1. /\ Len(s) \in Nat /\ Len(t) \in Nat /\ s \o t \in Seq(Events)
      /\ Len(s \o t) = Len(s) + Len(t) /\ SubSeq(s, 1, Len(s)) = s
  OBVIOUS
<1>2. SubSeq(s \o t, 1, Len(s)) = s
  OBVIOUS
<1> QED
  BY <1>1, <1>2 DEF IsPrefix

\* The descriptor makes the branch known, with all of its tail on disk.
LEMMA DescribeStays == ASSUME IInv, Describe PROVE IInv'
<1> DEFINE w == writing.id
           d == writing.desc[1]
<1>1. Typed /\ WritingIsForked /\ TailsAreForked
  BY DEF IInv
<1>2. /\ writing # NotWriting /\ writing.rest = <<>> /\ index' = index \o writing.desc
      /\ writing' = NotWriting /\ UNCHANGED <<main, tails, handles, now, forked>>
  BY DEF Describe
<1>3. w \in Ids /\ Len(writing.desc) = 1 /\ d.id = w /\ writing.desc \in Seq(Descriptors)
  BY <1>1, <1>2 DEF WritingIsForked, Typed
<1>4. d \in Descriptors /\ writing.desc = <<d>>
  <2> DEFINE s == writing.desc
  <2>1. s \in Seq(Descriptors) /\ Len(s) = 1
    BY <1>3
  <2> HIDE DEF s
  <2>2. s[1] \in Descriptors /\ s = <<s[1]>>
    BY <2>1
  <2> QED
    BY <2>2 DEF s
<1>5. index' = index \o <<d>> /\ index \in Seq(Descriptors)
  BY <1>1, <1>2, <1>4 DEF Typed
<1> HIDE DEF d
<1>6. /\ index' \in Seq(Descriptors)
      /\ \A i \in DOMAIN index' : (i \in DOMAIN index /\ index'[i] = index[i]) \/ index'[i] = d
      /\ Described \subseteq Described' /\ Described' \subseteq Described \cup {w}
  BY <1>3, <1>4, <1>5, IndexGrows
<1>7. Typed'
  <2>1. writing' \in [id : Ids \cup {Main}, rest : Seq(Events), desc : Seq(Descriptors)]
    BY <1>2 DEF NotWriting
  <2> QED
    BY <1>1, <1>2, <1>6, <2>1 DEF Typed
<1>8. WritingIsForked'
  BY <1>2 DEF WritingIsForked, NotWriting, Main
<1>9. TailsAreForked'
  <2> SUFFICES ASSUME NEW x \in Ids
               PROVE  /\ Len(forked'[x]) = 0 => NeverForked(x)'
                      /\ Len(forked'[x]) = 1 =>
                            IF writing'.id = x THEN BeingWritten(x)' ELSE Written(x)'
    BY DEF TailsAreForked
  <2>1. /\ Len(forked[x]) = 0 => NeverForked(x)
        /\ Len(forked[x]) = 1 => IF writing.id = x THEN BeingWritten(x) ELSE Written(x)
    BY <1>1 DEF TailsAreForked
  <2>2. writing'.id # x
    BY <1>2, IdIs DEF NotWriting
  <2>3. NeverForked(x) => NeverForked(x)'
    BY <1>2, <1>6, <2>2 DEF NeverForked
  <2>4. CASE x = w
    <3>1. ASSUME BeingWritten(x) PROVE Written(x)'
      <4>1. x \notin Described /\ forked[x][1] = d.digest \o (tails[x] \o <<>>)
        BY <1>2, <3>1 DEF BeingWritten, d
      <4>2. tails[x] \in Seq(Events)
        BY <1>1 DEF Typed
      <4>3. tails[x] \o <<>> = tails[x]
        BY <4>2, ConcatEmptySeq
      <4>4. \A i \in DOMAIN index' : index'[i].id = x => index'[i] = d
        BY <1>6, <4>1 DEF Described
      <4>5. IsPrefix(d.digest, d.digest \o tails[x])
        BY <1>4, <4>2, PrefixOfConcat DEF Descriptors
      <4> QED
        BY <1>2, <4>1, <4>3, <4>4, <4>5 DEF Written
    <3> QED
      BY <1>2, <2>1, <2>2, <2>3, <2>4, <3>1
  <2>5. CASE x # w
    <3>1. Written(x) => Written(x)'
      <4>1. \A i \in DOMAIN index' : index'[i].id = x => i \in DOMAIN index /\ index'[i] = index[i]
        BY <1>3, <1>6, <2>5 DEF d
      <4> QED
        BY <1>2, <4>1 DEF Written
    <3> QED
      BY <1>2, <2>1, <2>2, <2>3, <2>5, <3>1
  <2> QED
    BY <2>4, <2>5
<1> QED
  BY <1>7, <1>8, <1>9 DEF IInv

\* What a crash leaves on disk is of no branch that is known.
LEMMA CrashStays == ASSUME IInv, Crash PROVE IInv'
<1>1. Typed /\ WritingIsForked /\ TailsAreForked
  BY DEF IInv
<1>2. /\ writing # NotWriting /\ writing' = NotWriting /\ handles' = {}
      /\ UNCHANGED <<main, tails, index, now, forked>>
  BY DEF Crash
<1>3. Described' = Described
  BY <1>2 DEF Described
<1>4. Typed'
  <2>1. writing' \in [id : Ids \cup {Main}, rest : Seq(Events), desc : Seq(Descriptors)]
    BY <1>2 DEF NotWriting
  <2> QED
    BY <1>1, <1>2, <2>1 DEF Typed
<1>5. WritingIsForked'
  BY <1>2 DEF WritingIsForked, NotWriting, Main
<1>6. TailsAreForked'
  <2> SUFFICES ASSUME NEW x \in Ids
               PROVE  /\ Len(forked'[x]) = 0 => NeverForked(x)'
                      /\ Len(forked'[x]) = 1 =>
                            IF writing'.id = x THEN BeingWritten(x)' ELSE Written(x)'
    BY DEF TailsAreForked
  <2>1. /\ Len(forked[x]) = 0 => NeverForked(x)
        /\ Len(forked[x]) = 1 => IF writing.id = x THEN BeingWritten(x) ELSE Written(x)
    BY <1>1 DEF TailsAreForked
  <2>2. writing'.id # x
    BY <1>2, IdIs DEF NotWriting
  <2>3. NeverForked(x) => NeverForked(x)'
    BY <1>2, <1>3, <2>2 DEF NeverForked
  <2>4. Written(x) => Written(x)'
    BY <1>2 DEF Written
  <2>5. BeingWritten(x) => Written(x)'
    BY <1>2 DEF BeingWritten, Written, Described
  <2> QED
    BY <1>2, <2>1, <2>2, <2>3, <2>4, <2>5
<1> QED
  BY <1>4, <1>5, <1>6 DEF IInv

\* A line with another flag says of the branch what its latest line said.
LEMMA MutateStays ==
    ASSUME IInv, NEW id \in Described, NEW d \in Descriptors, Mutate(id, d),
           d.id = id, d.digest = Descriptor(id).digest
    PROVE  IInv'
<1>1. Typed /\ WritingIsForked /\ TailsAreForked
  BY DEF IInv
<1>2. /\ writing = NotWriting /\ index' = Append(index, d)
      /\ UNCHANGED <<main, tails, writing, handles, now, forked>>
  BY DEF Mutate
<1>3. index \in Seq(Descriptors)
  BY <1>1 DEF Typed
<1>4. index' = index \o <<d>>
  BY <1>2, <1>3, AppendIsConcat
<1>5. /\ index' \in Seq(Descriptors)
      /\ \A i \in DOMAIN index' : (i \in DOMAIN index /\ index'[i] = index[i]) \/ index'[i] = d
      /\ Described \subseteq Described' /\ Described' \subseteq Described \cup {d.id}
  BY <1>3, <1>4, IndexGrows
<1>6. Described' = Described
  BY <1>5
<1>7. Typed'
  BY <1>1, <1>2, <1>5, <1>6 DEF Typed
<1>8. WritingIsForked'
  BY <1>2 DEF WritingIsForked, NotWriting
<1>9. TailsAreForked'
  <2> SUFFICES ASSUME NEW x \in Ids
               PROVE  /\ Len(forked'[x]) = 0 => NeverForked(x)'
                      /\ Len(forked'[x]) = 1 =>
                            IF writing'.id = x THEN BeingWritten(x)' ELSE Written(x)'
    BY DEF TailsAreForked
  <2>1. /\ Len(forked[x]) = 0 => NeverForked(x)
        /\ Len(forked[x]) = 1 => IF writing.id = x THEN BeingWritten(x) ELSE Written(x)
    BY <1>1 DEF TailsAreForked
  <2>2. writing.id # x
    BY <1>2, IdIs DEF NotWriting
  <2>3. NeverForked(x) => NeverForked(x)'
    BY <1>2, <1>6 DEF NeverForked
  <2>4. ASSUME Written(x) PROVE Written(x)'
    <3>1. PICK i \in DOMAIN index : Descriptor(id) = index[i] /\ index[i].id = id
      BY <1>3, DescriptorIs
    <3>2. \A j \in DOMAIN index' :
             index'[j].id = x => \E k \in DOMAIN index : index[k].id = x
                                                        /\ index[k].digest = index'[j].digest
      <4> SUFFICES ASSUME NEW j \in DOMAIN index', index'[j].id = x
                   PROVE  \E k \in DOMAIN index : index[k].id = x
                                                  /\ index[k].digest = index'[j].digest
        OBVIOUS
      <4>1. CASE j \in DOMAIN index /\ index'[j] = index[j]
        BY <4>1
      <4>2. CASE index'[j] = d
        BY <3>1, <4>2
      <4> QED
        BY <1>5, <4>1, <4>2
    <3> QED
      BY <1>2, <2>4, <3>2 DEF Written
  <2> QED
    BY <1>2, <2>1, <2>2, <2>3, <2>4
<1> QED
  BY <1>7, <1>8, <1>9 DEF IInv

\* A branch is pinned, unpinned or dropped.
LEMMA FlagStays == ASSUME IInv, Pin \/ DropBranch PROVE IInv'
<1>1. index \in Seq(Descriptors)
  BY DEF IInv, Typed
<1>2. CASE Pin
  <2>1. PICK id \in Described, pin \in BOOLEAN : Mutate(id, [Descriptor(id) EXCEPT !.pin = pin])
    BY <1>2 DEF Pin
  <2> DEFINE o == Descriptor(id)
             d == [o EXCEPT !.pin = pin]
  <2>2. o \in Descriptors /\ o.id = id
    BY <1>1, DescriptorType
  <2> HIDE DEF o
  <2>3. d \in Descriptors /\ d.id = id /\ d.digest = o.digest
    BY <2>2 DEF Descriptors
  <2>4. Mutate(id, d)
    BY <2>1 DEF o
  <2> HIDE DEF d
  <2> QED
    BY <2>3, <2>4, MutateStays DEF o
<1>3. CASE DropBranch
  <2>1. PICK id \in Described : Mutate(id, [Descriptor(id) EXCEPT !.tombstone = TRUE])
    BY <1>3 DEF DropBranch
  <2> DEFINE o == Descriptor(id)
             d == [o EXCEPT !.tombstone = TRUE]
  <2>2. o \in Descriptors /\ o.id = id
    BY <1>1, DescriptorType
  <2> HIDE DEF o
  <2>3. d \in Descriptors /\ d.id = id /\ d.digest = o.digest
    BY <2>2 DEF Descriptors
  <2>4. Mutate(id, d)
    BY <2>1 DEF o
  <2> HIDE DEF d
  <2> QED
    BY <2>3, <2>4, MutateStays DEF o
<1> QED
  BY <1>2, <1>3

\* A handle is opened or closed.
LEMMA HandleStays == ASSUME IInv, Handle PROVE IInv'
<1>1. Typed /\ WritingIsForked /\ TailsAreForked
  BY DEF IInv
<1>2. UNCHANGED <<main, tails, index, writing, now, forked>>
  BY DEF Handle
<1>3. Described' = Described
  BY <1>2 DEF Described
<1>4. handles' \subseteq Described
  BY <1>1 DEF Handle, Typed
<1>5. Typed'
  BY <1>1, <1>2, <1>3, <1>4 DEF Typed
<1>6. WritingIsForked'
  BY <1>1, <1>2 DEF WritingIsForked, NotWriting, Main
<1>7. TailsAreForked'
  BY <1>1, <1>2, <1>3 DEF TailsAreForked, NeverForked, BeingWritten, Written
<1> QED
  BY <1>5, <1>6, <1>7 DEF IInv

\* What is swept loads to a branch with no tail.
LEMMA SweepStays == ASSUME IInv, Sweep PROVE IInv'
<1>1. Typed /\ WritingIsForked /\ TailsAreForked
  BY DEF IInv
<1>2. PICK dead \in SUBSET Reclaimable :
         tails' = [id \in Ids |-> IF id \in dead THEN <<>> ELSE tails[id]]
  BY DEF Sweep
<1>3. writing = NotWriting /\ UNCHANGED <<main, index, writing, handles, now, forked>>
  BY DEF Sweep
<1>4. Described' = Described
  BY <1>3 DEF Described
<1>5. /\ tails' \in [Ids -> Seq(Events)]
      /\ \A x \in Ids : tails'[x] = <<>> \/ tails'[x] = tails[x]
  BY <1>1, <1>2 DEF Typed
<1>6. Typed'
  BY <1>1, <1>3, <1>4, <1>5 DEF Typed
<1>7. WritingIsForked'
  BY <1>3 DEF WritingIsForked, NotWriting
<1>8. TailsAreForked'
  <2> SUFFICES ASSUME NEW x \in Ids
               PROVE  /\ Len(forked'[x]) = 0 => NeverForked(x)'
                      /\ Len(forked'[x]) = 1 =>
                            IF writing'.id = x THEN BeingWritten(x)' ELSE Written(x)'
    BY DEF TailsAreForked
  <2>1. /\ Len(forked[x]) = 0 => NeverForked(x)
        /\ Len(forked[x]) = 1 => IF writing.id = x THEN BeingWritten(x) ELSE Written(x)
    BY <1>1 DEF TailsAreForked
  <2>2. writing.id # x
    BY <1>3, IdIs DEF NotWriting
  <2>3. NeverForked(x) => NeverForked(x)'
    BY <1>3, <1>4, <1>5 DEF NeverForked
  <2>4. Written(x) => Written(x)'
    BY <1>3, <1>5 DEF Written
  <2> QED
    BY <1>3, <2>1, <2>2, <2>3, <2>4
<1> QED
  BY <1>6, <1>7, <1>8 DEF IInv

\* A fresh store has no branch.
LEMMA InitStarts == ASSUME Init PROVE IInv
<1>1. Described = {}
  BY DEF Init, Described
<1>2. Typed
  BY <1>1 DEF Init, Typed, NotWriting
<1>3. WritingIsForked
  BY DEF Init, WritingIsForked
<1>4. TailsAreForked
  <2> SUFFICES ASSUME NEW x \in Ids PROVE Len(forked[x]) = 0 /\ NeverForked(x)
    BY DEF TailsAreForked
  <2>1. forked[x] = <<>> /\ tails[x] = <<>> /\ writing.id = Main
    BY DEF Init, NotWriting
  <2>2. x # Main
    BY IdIs
  <2> QED
    BY <1>1, <2>1, <2>2 DEF NeverForked
<1> QED
  BY <1>2, <1>3, <1>4 DEF IInv

\* Every step, and a stuttering one, keeps the invariant.
LEMMA NextStays == ASSUME IInv, [Next]_vars PROVE IInv'
<1>1. CASE UNCHANGED vars
  <2>1. /\ main' \in Seq(Events) /\ now' \in Nat
        /\ UNCHANGED <<tails, index, writing, handles, forked>>
    BY <1>1 DEF IInv, Typed, vars
  <2> QED
    BY <2>1, MainMoves DEF IInv
<1>2. CASE Next
  BY <1>2, AppendStays, ForkStays, WriteTailStays, DescribeStays, CrashStays, FlagStays,
     HandleStays, SweepStays DEF Next
<1> QED
  BY <1>1, <1>2

\* The invariant holds of every reachable state.
LEMMA InvariantIsKept == Spec => []IInv
<1>1. Init => IInv
  BY InitStarts
<1>2. IInv /\ [Next]_vars => IInv'
  BY NextStays
<1> QED
  BY <1>1, <1>2, PTL DEF Spec

-----------------------------------------------------------------------------
\* What the invariant says of a load and of a sweep.

\* A load that succeeds gives the recorded prefix and the tail on disk.
LEMMA LoadIsRecorded ==
    ASSUME Typed, NEW id \in Described, Load(id).ok
    PROVE  Load(id).events = Descriptor(id).digest \o tails[id]
<1>1. id \in Ids
  BY DescriptorType DEF Typed
<1>2. id \in Seq(Edits) /\ id # <<>>
  BY <1>1, IdIs
<1>3. PICK parent \in Loads : Load(id) = Extend(parent, id)
  BY <1>2, LoadIs
<1> DEFINE prefix == Before(parent.events, Descriptor(id).fork)
<1>4. ~ (~ parent.ok \/ id \notin Described \/ prefix # Descriptor(id).digest)
  <2> SUFFICES ASSUME ~ parent.ok \/ id \notin Described \/ prefix # Descriptor(id).digest
               PROVE  Extend(parent, id) = Fails
    BY <1>3 DEF Fails
  <2> QED
    BY DEF Extend
<1>5. Extend(parent, id) = [ok |-> TRUE, events |-> prefix \o tails[id]]
  BY <1>4 DEF Extend
<1>6. prefix = Descriptor(id).digest
  BY <1>4
<1> HIDE DEF prefix
<1>7. Load(id).events = prefix \o tails[id]
  BY <1>3, <1>5
<1> QED
  BY <1>6, <1>7

\* A branch forked once loads as it was forked, up to a tail that was swept.
LEMMA LoadIsForked == ASSUME IInv PROVE LoadNeverLies
<1> SUFFICES ASSUME NEW id \in Described, OnceForked(id), Load(id).ok
             PROVE  IF tails[id] # <<>> THEN Load(id).events = forked[id][1]
                    ELSE IsPrefix(Load(id).events, forked[id][1])
  BY DEF LoadNeverLies
<1>1. Typed /\ TailsAreForked
  BY DEF IInv
<1>2. index \in Seq(Descriptors)
  BY <1>1 DEF Typed
<1>3. id \in Ids
  BY <1>2, DescriptorType
<1>4. Load(id).events = Descriptor(id).digest \o tails[id]
  BY <1>1, LoadIsRecorded
<1>5. PICK i \in DOMAIN index : Descriptor(id) = index[i] /\ index[i].id = id
  BY <1>2, DescriptorIs
<1>6. Written(id)
  BY <1>1, <1>3 DEF TailsAreForked, OnceForked
<1>7. Descriptor(id).digest \in Seq(Events)
  <2>1. index[i] \in Descriptors
    BY <1>2, <1>5
  <2> QED
    BY <1>5, <2>1 DEF Descriptors
<1>8. tails[id] = <<>> => Load(id).events = Descriptor(id).digest
  BY <1>4, <1>7
<1> QED
  BY <1>4, <1>5, <1>6, <1>8 DEF Written

\* A branch forked once is loaded as it was forked, or as the bare prefix of that once its own
\* tail was swept, or not at all, whatever the recorded log and the parents have become,
\* whenever the process crashed and whatever was swept (load_full and its prefix_digest).
THEOREM ForkIsLoaded == Spec => []LoadNeverLies
<1>1. IInv => LoadNeverLies
  BY LoadIsForked
<1> QED
  BY <1>1, InvariantIsKept, PTL

\* A log is a prefix of itself, and of itself with one more event.
LEMMA PrefixIs ==
    ASSUME NEW s \in Seq(Events)
    PROVE  IsPrefix(s, s) /\ \A e \in Events : IsPrefix(s, Append(s, e))
<1>1. Len(s) \in Nat /\ SubSeq(s, 1, Len(s)) = s
  OBVIOUS
<1>2. \A e \in Events : SubSeq(Append(s, e), 1, Len(s)) = s /\ Len(Append(s, e)) = Len(s) + 1
  OBVIOUS
<1> QED
  BY <1>1, <1>2 DEF IsPrefix

\* No step takes anything from a root or from a branch a root is resolved through.
LEMMA StepsKeepRoots ==
    ASSUME IInv, [Next]_vars, NEW r \in Roots, NEW n \in 1 .. Len(r)
    PROVE  LET id == SubSeq(r, 1, n) IN IsPrefix(tails[id], tails'[id])
<1> DEFINE id == SubSeq(r, 1, n)
<1> SUFFICES IsPrefix(tails[id], tails'[id])
  OBVIOUS
<1>1. Typed /\ WritingIsForked
  BY DEF IInv
<1>2. r \in Described
  BY <1>1 DEF Roots, Typed
<1>3. r \in Ids
  BY <1>1, <1>2, DescriptorType DEF Typed
<1>4. id \in Ids
  BY <1>3, BranchesAssumption
<1>5. tails[id] \in Seq(Events)
  BY <1>1, <1>4 DEF Typed
<1>6. IsPrefix(id, r)
  <2>1. r \in Seq(Edits)
    BY <1>3, IdIs
  <2>2. Len(id) = n /\ n <= Len(r) /\ SubSeq(r, 1, Len(id)) = id
    BY <2>1
  <2> QED
    BY <2>2 DEF IsPrefix
<1> HIDE DEF id
<1>7. CASE UNCHANGED tails
  <2>1. tails'[id] = tails[id]
    BY <1>7
  <2> QED
    BY <1>5, <2>1, PrefixIs
<1>8. CASE WriteTail
  <2>1. tails \in [Ids -> Seq(Events)] /\ writing.rest \in Seq(Events) /\ writing.rest # <<>>
    BY <1>1, <1>8 DEF Typed, WriteTail
  <2>2. Head(writing.rest) \in Events
    BY <2>1
  <2>3. tails'[id] = tails[id] \/ tails'[id] = Append(tails[id], Head(writing.rest))
    BY <1>4, <1>8, <2>1 DEF WriteTail
  <2> QED
    BY <1>5, <2>2, <2>3, PrefixIs
<1>9. CASE Sweep
  <2>1. PICK dead \in SUBSET Reclaimable :
           tails' = [x \in Ids |-> IF x \in dead THEN <<>> ELSE tails[x]]
    BY <1>9 DEF Sweep
  <2>2. id \notin dead
    BY <1>6, <2>1 DEF Reclaimable, Reachable
  <2>3. tails'[id] = tails[id]
    BY <1>4, <2>1, <2>2
  <2> QED
    BY <1>5, <2>3, PrefixIs
<1>10. UNCHANGED tails \/ WriteTail \/ Sweep
  BY DEF Next, vars, AppendMain, PassTime, Fork, Describe, Crash, Pin, DropBranch, Mutate, Handle
<1> QED
  BY <1>7, <1>8, <1>9, <1>10

\* A sweep takes nothing from a pinned or open branch: neither its tail nor that of a branch its
\* prefix is resolved through, whatever the grace, the flags and the clock (collect_roots,
\* reachable, sweep).
THEOREM SweepKeepsRoots == Spec => RootsAreKept
<1> DEFINE Kept == \A r \in Roots : \A n \in 1 .. Len(r) :
                      LET id == SubSeq(r, 1, n) IN IsPrefix(tails[id], tails'[id])
<1>1. ASSUME IInv, [Next]_vars PROVE Kept
  BY <1>1, StepsKeepRoots
<1>2. IInv /\ [Next]_vars => [Kept]_vars
  BY <1>1
<1> QED
  BY <1>2, InvariantIsKept, PTL DEF Spec, RootsAreKept
===============================================================================
