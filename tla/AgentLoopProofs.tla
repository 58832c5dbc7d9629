---------------------------- MODULE AgentLoopProofs ----------------------------
(***************************************************************************)
(* The event loop (AgentLoop): messages keep their order, replies go to    *)
(* who asked, calls stay next to their results, and the loop is suspended  *)
(* exactly for the tasks at work, for any number of messages, turns,       *)
(* tasks, cancellations, failed writes and crashes.                        *)
(***************************************************************************)
EXTENDS AgentLoop, FiniteSetTheorems, SequenceTheorems, WellFoundedInduction, TLAPS

\* The types, of sequences and of what the groups hold as well.
Entries ==
    {e \in [kind : EntryKinds, of : 0 .. MaxMsg + MaxTask, tools : 0 .. MaxTask + 1] :
        e.kind = "tool" => e.of # 0}
Groups == [left : Nat \ {0}, done : Seq(1 .. MaxTask), origin : 0 .. MaxMsg]

LoopTypes ==
    /\ pc \in {"Select", "Turn", "Call", "Down", "Off"} /\ driver \in {"message", "group"}
    /\ state \in {"Idle", "Waiting", "Processing"}
    /\ tokens \in Nat /\ origin \in 0 .. MaxMsg /\ retried \in BOOLEAN
    /\ stopped \in BOOLEAN /\ clash \in BOOLEAN /\ gap \in BOOLEAN
    /\ sent \in 0 .. MaxMsg /\ calls \in Nat /\ tasks \in 0 .. MaxTask /\ lost \subseteq 1 .. sent
EntryTypes == history \in Seq(Entries) /\ file \in Seq(Entries) /\ unsaved \in Seq(Entries)
MessageTypes ==
    input \in Seq(0 .. MaxMsg) /\ pending \in Seq(1 .. MaxMsg) /\ heard \in Seq(1 .. MaxMsg)
TaskTypes ==
    running \subseteq Tasks /\ dead \subseteq Tasks /\ results \in [Kinds -> Seq(Tasks)]
BookTypes ==
    /\ groups \in [DOMAIN groups -> Groups] /\ DOMAIN groups \subseteq Nat
    /\ owner \in [DOMAIN owner -> Nat] /\ DOMAIN owner \subseteq 1 .. tasks
Typed == LoopTypes /\ EntryTypes /\ MessageTypes /\ TaskTypes /\ BookTypes

\* The messages heard, parked and queued are those sent and not lost, in their order; those in
\* the file, or about to be, are in it in the order they were heard.
Increasing(s) == \A i, j \in DOMAIN s : i < j => s[i] < s[j]
KnownMessages == heard \o pending \o Queued
KnownInOrder == Increasing(KnownMessages) /\ ToSet(KnownMessages) = (1 .. sent) \ lost
OnFile == Messages(file) \o Messages(unsaved)
FileInOrder == Increasing(OnFile) /\ ToSet(OnFile) \subseteq ToSet(heard)

\* A turn, and the tasks it waits for, are those of the message heard last.
Asker ==
    /\ state # "Idle" => heard # <<>> /\ origin = Last(heard)
    /\ state # "Processing" => DOMAIN groups = {}
    /\ \A g \in DOMAIN groups : groups[g].origin = origin
    /\ IF pc \in {"Turn", "Call"} THEN state = "Waiting" ELSE state # "Waiting"
    /\ pc = "Down" => state = "Idle"

\* A group waits for its tasks and for no others.
OwnedBy(o, g) == {i \in DOMAIN o : o[i] = g}
Waits ==
    /\ state = "Processing" => DOMAIN groups # {}
    /\ \A g, h \in DOMAIN groups : g = h
    /\ \A i \in DOMAIN owner :
          owner[i] \in DOMAIN groups /\ \E t \in Outstanding : t.id = i
    /\ \A g \in DOMAIN groups : groups[g].left = Cardinality(OwnedBy(owner, g))
WaitsForTasks == clash \/ Waits

\* Calls are next to their results, in the history and in the file.
Called(e) == IF e.kind = "assistant" THEN e.tools ELSE 0
Paired(h) ==
    \A i \in DOMAIN h :
        /\ \A n \in 1 .. Called(h[i]) : i + n \in DOMAIN h /\ h[i + n] = Entry("tool", n)
        /\ h[i].kind = "tool" => h[i].of < i /\ Called(h[i - h[i].of]) >= h[i].of
Blocks ==
    /\ pc = "Down" => unsaved = <<>>
    /\ gap \/ (Paired(history) /\ Paired(file \o unsaved))

IInv == Typed /\ KnownInOrder /\ FileInOrder /\ Asker /\ WaitsForTasks /\ Blocks
-----------------------------------------------------------------------------
\* Recursion over the naturals.

\* The order of the naturals is well-founded.
LEMMA LessIsWellFounded ==
    \E R : IsWellFoundedOn(R, Nat) /\ \A j, i \in Nat : j < i => <<j, i>> \in R
<1> WITNESS OpToRel(<, Nat)
<1>1. \A j, i \in Nat : j < i => <<j, i>> \in OpToRel(<, Nat)
  BY DEF OpToRel
<1>2. IsWellFoundedOn(OpToRel(<, Nat), Nat)
  BY NatLessThanWellFounded
<1> QED
  BY Zenon, <1>1, <1>2

\* A set of naturals has a least element.
LEMMA NatMin ==
    ASSUME NEW S \in SUBSET Nat, S # {}
    PROVE  \E i \in S : \A j \in S : i <= j
<1>1. PICK R : IsWellFoundedOn(R, Nat) /\ \A j, i \in Nat : j < i => <<j, i>> \in R
  BY LessIsWellFounded
<1>2. S \subseteq Nat
  OBVIOUS
<1>3. PICK i \in S : \A j \in S : ~ (<<j, i>> \in R)
  <2>1. IsWellFoundedOn(R, Nat)
    BY <1>1
  <2>2. \E x \in S : \A y \in S : ~ (<<y, x>> \in R)
    BY ONLY <2>1, <1>2, S # {}, WFMin
  <2> QED
    BY <2>2
<1>4. \A j \in S : ~ (j < i)
  BY Zenon, <1>1, <1>2, <1>3
<1> QED
  BY <1>2, <1>4

\* A set that holds 0 and, with a number, the next one, up to N.
LEMMA UpTo ==
    ASSUME NEW N \in Nat, NEW S, 0 \in S, \A n \in 1 .. N : n - 1 \in S => n \in S
    PROVE  \A n \in 0 .. N : n \in S
<1> DEFINE Bad == {n \in 0 .. N : n \notin S}
<1> SUFFICES ASSUME Bad # {} PROVE FALSE
  OBVIOUS
<1>1. Bad \in SUBSET Nat
  OBVIOUS
<1>2. PICK n \in Bad : \A m \in Bad : n <= m
  <2> HIDE DEF Bad
  <2> QED
    BY <1>1, NatMin
<1>3. n \in 0 .. N /\ n \notin S
  OBVIOUS
<1>4. n \in 1 .. N /\ n - 1 \in 0 .. N
  BY <1>3
<1>5. n - 1 \notin Bad
  <2> HIDE DEF Bad
  <2> QED
    BY <1>1, <1>2, <1>4
<1> QED
  BY <1>3, <1>4, <1>5

\* f goes from a by g, one number at a time.
Recurs(f, S, N, a, g) ==
    /\ f \in [0 .. N -> S]
    /\ \A n \in 0 .. N : f[n] = IF n = 0 THEN a ELSE g[<<f[n - 1], n>>]

\* A recursive function on an interval exists.
LEMMA RecursionExists ==
    ASSUME NEW S, NEW a, NEW N, NEW g, a \in S, N \in Nat, g \in [S \X (1 .. N) -> S]
    PROVE  \E f : Recurs(f, S, N, a, g)
<1> DEFINE Upto(f, k) == \A n \in 0 .. k : f[n] = IF n = 0 THEN a ELSE g[<<f[n - 1], n>>]
           Has(k) == \E f \in [0 .. k -> S] : Upto(f, k)
           Bad == {k \in 0 .. N : ~ Has(k)}
<1>1. Has(0)
  <2> DEFINE h == [n \in 0 .. 0 |-> a]
  <2>1. h \in [0 .. 0 -> S] /\ Upto(h, 0)
    OBVIOUS
  <2> QED
    BY <2>1
<1>2. ASSUME NEW k \in 1 .. N, Has(k - 1) PROVE Has(k)
  <2>1. PICK f \in [0 .. k - 1 -> S] : Upto(f, k - 1)
    BY <1>2
  <2> DEFINE h == [n \in 0 .. k |-> IF n = k THEN g[<<f[k - 1], k>>] ELSE f[n]]
  <2>2. f[k - 1] \in S /\ g[<<f[k - 1], k>>] \in S
    OBVIOUS
  <2>3. h \in [0 .. k -> S]
    BY <2>2
  <2>4. ASSUME NEW n \in 0 .. k PROVE h[n] = IF n = 0 THEN a ELSE g[<<h[n - 1], n>>]
    <3>1. CASE n = k
      <4>1. h[n] = g[<<f[k - 1], k>>] /\ h[n - 1] = f[k - 1] /\ n # 0
        BY <3>1
      <4> QED
        BY <3>1, <4>1
    <3>2. CASE n # k
      <4>1. n \in 0 .. k - 1 /\ h[n] = f[n] /\ (n # 0 => h[n - 1] = f[n - 1])
        BY <3>2
      <4> QED
        BY <2>1, <4>1
    <3> QED
      BY <3>1, <3>2
  <2> QED
    BY <2>3, <2>4
<1> HIDE DEF Has
<1>3. Bad = {}
  <2> SUFFICES ASSUME Bad # {} PROVE FALSE
    OBVIOUS
  <2>1. Bad \in SUBSET Nat
    OBVIOUS
  <2>2. PICK k \in Bad : \A j \in Bad : k <= j
    <3> HIDE DEF Bad
    <3> QED
      BY <2>1, NatMin
  <2>3. k \in 0 .. N /\ ~ Has(k)
    OBVIOUS
  <2>4. k \in 1 .. N /\ k - 1 \in 0 .. N
    BY <1>1, <2>3
  <2>5. k - 1 \notin Bad
    <3> HIDE DEF Bad
    <3> QED
      BY <2>1, <2>2, <2>4
  <2> QED
    BY <1>2, <2>3, <2>4, <2>5
<1>4. Has(N)
  BY <1>3
<1> QED
  BY <1>4 DEF Has, Recurs

-----------------------------------------------------------------------------
\* The elements of a sequence that are in a set.

\* They are found one element at a time.
Finds(f, s, set) ==
    /\ f[0] = <<>> /\ f[Len(s)] = Within(s, set)
    /\ \A n \in 1 .. Len(s) :
          f[n] = IF s[n] \in set THEN Append(f[n - 1], s[n]) ELSE f[n - 1]

\* What is found is a sequence of the same elements.
LEMMA WithinIs ==
    ASSUME NEW T, NEW s \in Seq(T), NEW set
    PROVE  \E f \in [0 .. Len(s) -> Seq(T \intersect set)] : Finds(f, s, set)
<1> DEFINE N == Len(s)
           U == T \intersect set
           E(r, n) == IF s[n] \in set THEN Append(r, s[n]) ELSE r
           Is(f) == f = [n \in 0 .. N |-> IF n = 0 THEN <<>> ELSE E(f[n - 1], n)]
           f == CHOOSE h : Is(h)
           g == [x \in Seq(U) \X (1 .. N) |-> E(x[1], x[2])]
<1>1. N \in Nat /\ \A n \in 1 .. N : s[n] \in T
  OBVIOUS
<1>2. \A r \in Seq(U), n \in 1 .. N : E(r, n) \in Seq(U)
  BY <1>1
<1>3. <<>> \in Seq(U)
  OBVIOUS
<1>4. Within(s, set) = f[N]
  BY DEF Within
<1> HIDE DEF N
<1>5. g \in [Seq(U) \X (1 .. N) -> Seq(U)]
  <2> HIDE DEF E
  <2> QED
    BY <1>2
<1>6. PICK h \in [0 .. N -> Seq(U)] :
         \A n \in 0 .. N : h[n] = IF n = 0 THEN <<>> ELSE g[<<h[n - 1], n>>]
  <2> DEFINE S == Seq(U)
             a == <<>>
  <2>1. a \in S /\ N \in Nat /\ g \in [S \X (1 .. N) -> S]
    BY <1>1, <1>3, <1>5
  <2>2. \E h : Recurs(h, S, N, a, g)
    <3> HIDE DEF g, S, a
    <3> QED
      BY <2>1, RecursionExists
  <2> QED
    BY <2>2 DEF Recurs
<1>7. \A n \in 0 .. N : h[n] = IF n = 0 THEN <<>> ELSE E(h[n - 1], n)
  <2> SUFFICES ASSUME NEW n \in 0 .. N PROVE h[n] = IF n = 0 THEN <<>> ELSE E(h[n - 1], n)
    OBVIOUS
  <2> HIDE DEF E
  <2>1. CASE n = 0
    BY <1>6, <2>1
  <2>2. CASE n # 0
    <3>1. n \in 1 .. N /\ n - 1 \in 0 .. N
      BY <1>1, <2>2
    <3>2. <<h[n - 1], n>> \in Seq(U) \X (1 .. N)
      BY <3>1
    <3> QED
      BY <1>6, <2>2, <3>2
  <2> QED
    BY <2>1, <2>2
<1>8. Is(h)
  <2> HIDE DEF E
  <2> QED
    BY <1>7
<1>9. Is(f)
  <2> HIDE DEF Is
  <2> QED
    BY <1>8
<1> HIDE DEF f, g
<1>10. /\ f[0] = <<>> /\ DOMAIN f = 0 .. N
       /\ \A n \in 1 .. N : f[n] = E(f[n - 1], n)
  <2>1. 0 \in 0 .. N /\ \A n \in 1 .. N : n \in 0 .. N /\ n # 0
    BY <1>1
  <2> HIDE DEF E
  <2> QED
    BY <1>9, <2>1
<1>11. \A n \in 0 .. N : f[n] \in Seq(U)
  <2> DEFINE Good == {n \in 0 .. N : f[n] \in Seq(U)}
  <2>1. 0 \in Good
    <3>1. f[0] \in Seq(U)
      <4>1. f[0] = <<>>
        BY <1>10
      <4> QED
        BY <1>3, <4>1
    <3>2. 0 \in 0 .. N
      BY <1>1
    <3> QED
      BY <3>1, <3>2
  <2>2. \A n \in 1 .. N : n - 1 \in Good => n \in Good
    <3> SUFFICES ASSUME NEW n \in 1 .. N, n - 1 \in Good PROVE n \in Good
      OBVIOUS
    <3>1. f[n - 1] \in Seq(U) /\ n \in 0 .. N
      BY <1>1
    <3> HIDE DEF E, Good
    <3>2. E(f[n - 1], n) \in Seq(U)
      BY <1>2, <3>1
    <3>3. f[n] \in Seq(U)
      BY <1>10, <3>2
    <3> QED
      BY <3>1, <3>3 DEF Good
  <2>3. \A n \in 0 .. N : n \in Good
    <3> HIDE DEF Good
    <3> QED
      BY <1>1, <2>1, <2>2, UpTo
  <2> QED
    BY <2>3
<1>12. f \in [0 .. N -> Seq(U)]
  <2>1. f = [n \in 0 .. N |-> f[n]]
    <3> HIDE DEF E
    <3> QED
      BY <1>9
  <2> QED
    BY <1>11, <2>1
<1>13. Finds(f, s, set)
  BY <1>4, <1>10 DEF Finds, N
<1> QED
  BY <1>12, <1>13 DEF N

\* An element appended to two sequences in a row is appended to the second.
LEMMA AppendToConcat ==
    ASSUME NEW T, NEW r \in Seq(T), NEW s \in Seq(T), NEW x \in T
    PROVE  r \o Append(s, x) = Append(r \o s, x)
<1>1. r \o s \in Seq(T) /\ <<x>> \in Seq(T)
  OBVIOUS
<1>2. Append(r \o s, x) = (r \o s) \o <<x>> /\ Append(s, x) = s \o <<x>>
  BY <1>1, AppendIsConcat
<1>3. (r \o s) \o <<x>> = r \o (s \o <<x>>)
  BY <1>1, ConcatAssociative
<1> QED
  BY <1>2, <1>3

\* Those of two sequences in a row are those of the first, then those of the second.
LEMMA WithinConcat ==
    ASSUME NEW T, NEW s \in Seq(T), NEW t \in Seq(T), NEW set
    PROVE  Within(s \o t, set) = Within(s, set) \o Within(t, set)
<1> DEFINE U == T \intersect set
           M == Len(s)
           N == Len(t)
           u == s \o t
<1>1. u \in Seq(T) /\ Len(u) = M + N /\ M \in Nat /\ N \in Nat
  OBVIOUS
<1>2. \A n \in 1 .. M : u[n] = s[n]
  OBVIOUS
<1>3. \A n \in 1 .. N : u[M + n] = t[n]
  OBVIOUS
<1>4. PICK f \in [0 .. Len(u) -> Seq(U)] : Finds(f, u, set)
  <2> HIDE DEF u
  <2> QED
    BY <1>1, WithinIs
<1>5. PICK g \in [0 .. M -> Seq(U)] : Finds(g, s, set)
  BY WithinIs
<1>6. PICK h \in [0 .. N -> Seq(U)] : Finds(h, t, set)
  BY WithinIs
<1>f. /\ f[0] = <<>> /\ f[M + N] = Within(u, set)
      /\ \A n \in 1 .. M + N :
            f[n] = IF u[n] \in set THEN Append(f[n - 1], u[n]) ELSE f[n - 1]
  <2> HIDE DEF u, M, N
  <2> QED
    BY <1>1, <1>4 DEF Finds
<1>g. /\ g[0] = <<>> /\ g[M] = Within(s, set)
      /\ \A n \in 1 .. M : g[n] = IF s[n] \in set THEN Append(g[n - 1], s[n]) ELSE g[n - 1]
  BY <1>5 DEF Finds
<1>h. /\ h[0] = <<>> /\ h[N] = Within(t, set)
      /\ \A n \in 1 .. N : h[n] = IF t[n] \in set THEN Append(h[n - 1], t[n]) ELSE h[n - 1]
  BY <1>6 DEF Finds
<1>t. \A n \in 1 .. N : t[n] \in set => t[n] \in U
  OBVIOUS
<1> HIDE DEF u, M, N, U
<1>7. \A n \in 0 .. M : f[n] = g[n]
  <2> DEFINE Good == {n \in 0 .. M : f[n] = g[n]}
  <2>1. 0 \in Good
    BY <1>1, <1>f, <1>g
  <2>2. \A n \in 1 .. M : n - 1 \in Good => n \in Good
    <3> SUFFICES ASSUME NEW n \in 1 .. M, n - 1 \in Good PROVE n \in Good
      OBVIOUS
    <3>1. f[n - 1] = g[n - 1] /\ n \in 0 .. M /\ n \in 1 .. M + N
      BY <1>1
    <3>2. f[n] = IF s[n] \in set THEN Append(f[n - 1], s[n]) ELSE f[n - 1]
      BY <1>2, <1>f, <3>1
    <3>3. g[n] = IF s[n] \in set THEN Append(g[n - 1], s[n]) ELSE g[n - 1]
      BY <1>g
    <3>4. f[n] = g[n]
      BY <3>1, <3>2, <3>3
    <3> QED
      BY <3>1, <3>4
  <2> HIDE DEF Good
  <2>3. \A n \in 0 .. M : n \in Good
    BY <1>1, <2>1, <2>2, UpTo
  <2> QED
    BY <2>3 DEF Good
<1>8. \A n \in 0 .. N : f[M + n] = g[M] \o h[n]
  <2> DEFINE Good == {n \in 0 .. N : f[M + n] = g[M] \o h[n]}
  <2>1. 0 \in Good
    <3>1. g[M] \in Seq(U) /\ 0 \in 0 .. N /\ M \in 0 .. M /\ M + 0 = M
      BY <1>1, <1>5
    <3>2. g[M] \o <<>> = g[M]
      BY <3>1
    <3>3. f[M + 0] = g[M] \o h[0]
      BY <1>7, <1>h, <3>1, <3>2
    <3> QED
      BY <3>1, <3>3
  <2>2. \A n \in 1 .. N : n - 1 \in Good => n \in Good
    <3> SUFFICES ASSUME NEW n \in 1 .. N, n - 1 \in Good PROVE n \in Good
      OBVIOUS
    <3> DEFINE m == M + n
               e == t[n]
    <3>n. /\ n \in 0 .. N /\ n - 1 \in 0 .. N /\ m \in 1 .. M + N
          /\ m - 1 = M + (n - 1) /\ M \in 0 .. M
      BY <1>1
    <3>1. f[m - 1] = g[M] \o h[n - 1]
      BY <3>n
    <3>2. u[m] = e
      BY <1>3
    <3>3. g[M] \in Seq(U) /\ h[n - 1] \in Seq(U)
      BY <1>5, <1>6, <3>1, <3>n
    <3>4. h[n] = IF e \in set THEN Append(h[n - 1], e) ELSE h[n - 1]
      BY <1>h
    <3>5. e \in set => e \in U
      BY <1>t
    <3> HIDE DEF m, e, Good
    <3>6. f[m] = IF e \in set THEN Append(g[M] \o h[n - 1], e) ELSE g[M] \o h[n - 1]
      BY <1>f, <3>1, <3>2, <3>n
    <3>7. ASSUME e \in set PROVE g[M] \o Append(h[n - 1], e) = Append(g[M] \o h[n - 1], e)
      <4>1. e \in U
        BY <3>5, <3>7
      <4>2. \A p, q \in Seq(U) : p \o Append(q, e) = Append(p \o q, e)
        BY <4>1, AppendToConcat
      <4> QED
        BY <3>3, <4>2
    <3>8. f[m] = g[M] \o h[n]
      BY <3>4, <3>6, <3>7
    <3> QED
      BY <3>8, <3>n DEF Good, m
  <2> HIDE DEF Good
  <2>3. \A n \in 0 .. N : n \in Good
    BY <1>1, <2>1, <2>2, UpTo
  <2> QED
    BY <2>3 DEF Good
<1>9. f[M + N] = g[M] \o h[N]
  <2>1. N \in 0 .. N
    BY <1>1
  <2> QED
    BY <1>8, <2>1
<1> QED
  BY <1>9, <1>f, <1>g, <1>h DEF u

\* Nothing is in the empty sequence.
LEMMA WithinEmpty == ASSUME NEW set PROVE Within(<<>>, set) = <<>>
<1> DEFINE e == <<>>
<1>1. e \in Seq({}) /\ Len(e) = 0
  OBVIOUS
<1>2. PICK f \in [0 .. Len(e) -> Seq({} \intersect set)] : Finds(f, e, set)
  <2> HIDE DEF e
  <2> QED
    BY <1>1, WithinIs
<1> HIDE DEF e
<1>3. f[0] = <<>> /\ f[Len(e)] = Within(e, set)
  BY <1>2 DEF Finds
<1> QED
  BY <1>1, <1>3 DEF e

\* One element is found or is not.
LEMMA WithinOne ==
    ASSUME NEW x, NEW set
    PROVE  Within(<<x>>, set) = IF x \in set THEN <<x>> ELSE <<>>
<1> DEFINE e == <<x>>
<1>1. e \in Seq({x}) /\ Len(e) = 1 /\ e[1] = x
  OBVIOUS
<1>2. PICK f \in [0 .. Len(e) -> Seq({x} \intersect set)] : Finds(f, e, set)
  <2> HIDE DEF e
  <2> QED
    BY <1>1, WithinIs
<1> HIDE DEF e
<1>3. /\ f[0] = <<>> /\ f[1] = Within(e, set)
      /\ f[1] = IF e[1] \in set THEN Append(f[1 - 1], e[1]) ELSE f[1 - 1]
  BY <1>1, <1>2 DEF Finds
<1>4. f[1] = IF x \in set THEN Append(<<>>, x) ELSE <<>>
  BY <1>1, <1>3
<1>5. Append(<<>>, x) = <<x>>
  OBVIOUS
<1> QED
  BY <1>3, <1>4, <1>5 DEF e

\* What is found are elements of the sequence and of the set.
LEMMA WithinType ==
    ASSUME NEW T, NEW s \in Seq(T), NEW set
    PROVE  Within(s, set) \in Seq(T \intersect set)
<1>1. PICK f \in [0 .. Len(s) -> Seq(T \intersect set)] : Finds(f, s, set)
  BY WithinIs
<1>2. Len(s) \in 0 .. Len(s) /\ f[Len(s)] = Within(s, set)
  BY <1>1 DEF Finds
<1> QED
  BY <1>1, <1>2

\* If none of its elements is in the set, none is found.
LEMMA WithinNone ==
    ASSUME NEW T, NEW s \in Seq(T), NEW set, T \intersect set = {}
    PROVE  Within(s, set) = <<>>
<1>1. Within(s, set) \in Seq(T \intersect set)
  BY WithinType
<1>2. \A r : r \in Seq({}) => r = <<>>
  OBVIOUS
<1> QED
  BY <1>1, <1>2

-----------------------------------------------------------------------------
\* The messages of a sequence of entries.

\* They are user messages.
LEMMA MessagesType ==
    ASSUME NEW s \in Seq(Entries) PROVE Messages(s) \in Seq(1 .. MaxMsg)
<1> DEFINE users == Within(s, UserEntries)
           M == 1 .. MaxMsg
<1>1. users \in Seq(Entries \intersect UserEntries)
  BY WithinType
<1>2. \A e \in UserEntries : e.of \in M
  BY DEF UserEntries, Entry
<1>3. Messages(s) = [i \in DOMAIN users |-> users[i].of]
  BY DEF Messages
<1> HIDE DEF users, M
<1>4. DOMAIN users = 1 .. Len(users) /\ Len(users) \in Nat
      /\ \A i \in 1 .. Len(users) : users[i] \in UserEntries
  BY <1>1
<1>5. [i \in DOMAIN users |-> users[i].of] \in [1 .. Len(users) -> M]
  BY <1>2, <1>4
<1>6. \A n \in Nat : \A r \in [1 .. n -> M] : r \in Seq(M)
  OBVIOUS
<1> QED
  BY <1>3, <1>4, <1>5, <1>6 DEF M

\* Those of two sequences in a row are those of the first, then those of the second.
LEMMA MessagesConcat ==
    ASSUME NEW s \in Seq(Entries), NEW t \in Seq(Entries)
    PROVE  Messages(s \o t) = Messages(s) \o Messages(t)
<1> DEFINE a == Within(s, UserEntries)
           b == Within(t, UserEntries)
           ab == Within(s \o t, UserEntries)
           Of(r) == [i \in DOMAIN r |-> r[i].of]
           E == Entries \intersect UserEntries
<1>1. a \in Seq(E) /\ b \in Seq(E)
  BY WithinType
<1>2. ab = a \o b
  BY WithinConcat
<1>3. Messages(s \o t) = Of(ab) /\ Messages(s) = Of(a) /\ Messages(t) = Of(b)
  BY DEF Messages
<1> HIDE DEF a, b, ab, E
<1>4. Of(a \o b) = Of(a) \o Of(b)
  <2>1. /\ Len(a) \in Nat /\ DOMAIN a = 1 .. Len(a)
        /\ Len(b) \in Nat /\ DOMAIN b = 1 .. Len(b)
    BY <1>1
  <2>2. /\ DOMAIN (a \o b) = 1 .. Len(a) + Len(b)
        /\ \A i \in 1 .. Len(a) + Len(b) :
              (a \o b)[i] = IF i <= Len(a) THEN a[i] ELSE b[i - Len(a)]
    BY <1>1
  <2> DEFINE p == Of(a)
             q == Of(b)
  <2>3. /\ DOMAIN p = 1 .. Len(a) /\ \A i \in 1 .. Len(a) : p[i] = a[i].of
        /\ DOMAIN q = 1 .. Len(b) /\ \A i \in 1 .. Len(b) : q[i] = b[i].of
    BY <2>1
  <2>4. /\ p \in Seq({e.of : e \in E}) /\ q \in Seq({e.of : e \in E})
        /\ Len(p) = Len(a) /\ Len(q) = Len(b)
    <3> DEFINE V == {e.of : e \in E}
    <3>1. \A i \in 1 .. Len(a) : a[i].of \in V
      BY <1>1
    <3>2. \A i \in 1 .. Len(b) : b[i].of \in V
      BY <1>1
    <3> HIDE DEF V
    <3>3. p \in [1 .. Len(a) -> V] /\ q \in [1 .. Len(b) -> V]
      BY <2>1, <3>1, <3>2
    <3>4. \A n \in Nat : \A r \in [1 .. n -> V] : r \in Seq(V) /\ Len(r) = n
      OBVIOUS
    <3> QED
      BY <2>1, <3>3, <3>4 DEF V
  <2> HIDE DEF p, q
  <2>5. /\ DOMAIN (p \o q) = 1 .. Len(a) + Len(b)
        /\ \A i \in 1 .. Len(a) + Len(b) :
              (p \o q)[i] = IF i <= Len(a) THEN p[i] ELSE q[i - Len(a)]
        /\ p \o q = [i \in DOMAIN (p \o q) |-> (p \o q)[i]]
    <3> DEFINE V == {e.of : e \in E}
    <3>1. p \in Seq(V) /\ q \in Seq(V) /\ Len(p) = Len(a) /\ Len(q) = Len(b)
      BY <2>4
    <3> HIDE DEF V
    <3>2. \A z \in Seq(V) : z = [i \in DOMAIN z |-> z[i]]
      OBVIOUS
    <3>3. p \o q \in Seq(V)
      BY <3>1
    <3>4. p \o q = [i \in DOMAIN (p \o q) |-> (p \o q)[i]]
      BY <3>2, <3>3
    <3>5. /\ DOMAIN (p \o q) = 1 .. Len(a) + Len(b)
          /\ \A i \in 1 .. Len(a) + Len(b) :
                (p \o q)[i] = IF i <= Len(a) THEN p[i] ELSE q[i - Len(a)]
      <4>1. /\ DOMAIN (p \o q) = 1 .. Len(p) + Len(q)
            /\ \A i \in 1 .. Len(p) + Len(q) :
                  (p \o q)[i] = IF i <= Len(p) THEN p[i] ELSE q[i - Len(p)]
        <5>1. \A y, z \in Seq(V) :
                 /\ DOMAIN (y \o z) = 1 .. Len(y) + Len(z)
                 /\ \A i \in 1 .. Len(y) + Len(z) :
                       (y \o z)[i] = IF i <= Len(y) THEN y[i] ELSE z[i - Len(y)]
          OBVIOUS
        <5> QED
          BY <3>1, <5>1
      <4> QED
        BY <3>1, <4>1
    <3> QED
      BY <3>4, <3>5
  <2>6. \A i \in 1 .. Len(a) + Len(b) : (a \o b)[i].of = (p \o q)[i]
    <3> SUFFICES ASSUME NEW i \in 1 .. Len(a) + Len(b) PROVE (a \o b)[i].of = (p \o q)[i]
      OBVIOUS
    <3>1. CASE i <= Len(a)
      <4>1. i \in 1 .. Len(a)
        BY <2>1, <3>1
      <4> QED
        BY <2>2, <2>3, <2>5, <3>1, <4>1
    <3>2. CASE ~ (i <= Len(a))
      <4>1. i - Len(a) \in 1 .. Len(b)
        BY <2>1, <3>2
      <4> QED
        BY <2>2, <2>3, <2>5, <3>2, <4>1
    <3> QED
      BY <3>1, <3>2
  <2>7. [i \in DOMAIN (a \o b) |-> (a \o b)[i].of] = [i \in DOMAIN (p \o q) |-> (p \o q)[i]]
    BY <2>2, <2>5, <2>6
  <2> QED
    BY <2>5, <2>7 DEF p, q
<1> HIDE DEF Of
<1> QED
  BY <1>2, <1>3, <1>4

\* A user message is one.
LEMMA MessagesOne ==
    ASSUME NEW m \in 1 .. MaxMsg PROVE Messages(<<Entry("user", m)>>) = <<m>>
<1> DEFINE e == Entry("user", m)
<1>1. e \in UserEntries /\ e.of = m
  BY DEF UserEntries, Entry
<1> HIDE DEF e
<1>2. Within(<<e>>, UserEntries) = <<e>>
  BY <1>1, WithinOne
<1>3. Messages(<<e>>) = [i \in DOMAIN <<e>> |-> <<e>>[i].of]
  BY <1>2 DEF Messages
<1>4. DOMAIN <<e>> = 1 .. 1 /\ <<e>>[1] = e
  OBVIOUS
<1>5. [i \in DOMAIN <<e>> |-> <<e>>[i].of] = [i \in 1 .. 1 |-> m]
  BY <1>1, <1>4
<1>6. [i \in 1 .. 1 |-> m] = <<m>>
  OBVIOUS
<1> QED
  BY <1>3, <1>5, <1>6 DEF e

\* Other entries are none.
LEMMA MessagesNone ==
    ASSUME NEW s \in Seq(Entries), \A i \in DOMAIN s : s[i].kind # "user"
    PROVE  Messages(s) = <<>>
<1> DEFINE T == {e \in Entries : e.kind # "user"}
<1>1. s \in Seq(T)
  <2>1. \A i \in 1 .. Len(s) : s[i] \in T
    OBVIOUS
  <2>2. Len(s) \in Nat /\ s \in [1 .. Len(s) -> Entries] /\ DOMAIN s = 1 .. Len(s)
    OBVIOUS
  <2> HIDE DEF T
  <2>3. s \in [1 .. Len(s) -> T]
    BY <2>1, <2>2
  <2> QED
    BY <2>2, <2>3
<1>2. T \intersect UserEntries = {}
  BY DEF UserEntries, Entry
<1> HIDE DEF T
<1>3. Within(s, UserEntries) = <<>>
  BY <1>1, <1>2, WithinNone
<1>4. DOMAIN <<>> = {}
  OBVIOUS
<1>5. Messages(s) = [i \in {} |-> <<>>[i].of]
  BY <1>3, <1>4 DEF Messages
<1>6. [i \in {} |-> <<>>[i].of] = <<>>
  OBVIOUS
<1> QED
  BY <1>5, <1>6

-----------------------------------------------------------------------------
\* The entries the loop makes, and what compaction keeps.

\* Entries and replies have their types.
LEMMA EntryIs ==
    /\ \A kind \in EntryKinds, of \in 0 .. MaxMsg + MaxTask :
          kind # "tool" \/ of # 0 => Entry(kind, of) \in Entries
    /\ \A n \in 0 .. MaxTask + 1 : Reply(n) \in Entries /\ Answer(n) \in Entries
    /\ MaxTask \in Nat /\ MaxMsg \in Nat /\ TokenBudget \in Nat /\ Prompts \subseteq Nat
<1>1. MaxTask \in Nat /\ MaxMsg \in Nat /\ TokenBudget \in Nat /\ Prompts \subseteq Nat
  BY AgentLoopAssumption
<1>2. \A kind \in EntryKinds, of \in 0 .. MaxMsg + MaxTask :
         kind # "tool" \/ of # 0 => Entry(kind, of) \in Entries
  <2>1. 0 \in 0 .. MaxTask + 1
    BY <1>1
  <2> QED
    BY <2>1 DEF Entry, Entries
<1>3. \A n \in 0 .. MaxTask + 1 : Reply(n) \in Entries /\ Answer(n) \in Entries
  <2>1. 0 \in 0 .. MaxMsg + MaxTask
    BY <1>1
  <2>2. "assistant" \in EntryKinds /\ "answer" \in EntryKinds
    BY DEF EntryKinds
  <2> QED
    BY <2>1, <2>2 DEF Reply, Answer, Entries
<1> QED
  BY <1>1, <1>2, <1>3

\* The results of n calls are n entries.
LEMMA ToolEntriesAre ==
    ASSUME NEW n \in 1 .. MaxMsg + MaxTask
    PROVE  /\ ToolEntries(n) \in Seq(Entries) /\ Len(ToolEntries(n)) = n
           /\ \A i \in 1 .. n : ToolEntries(n)[i] = Entry("tool", i)
<1>1. n \in Nat /\ \A i \in 1 .. n : i \in 0 .. MaxMsg + MaxTask /\ i # 0
  BY EntryIs
<1>2. \A i \in 1 .. n : Entry("tool", i) \in Entries
  <2>1. "tool" \in EntryKinds
    BY DEF EntryKinds
  <2> QED
    BY <1>1, <2>1, EntryIs
<1>3. ToolEntries(n) \in [1 .. n -> Entries]
  BY <1>2 DEF ToolEntries
<1>4. \A k \in Nat : \A r \in [1 .. k -> Entries] : r \in Seq(Entries) /\ Len(r) = k
  OBVIOUS
<1>5. \A i \in 1 .. n : ToolEntries(n)[i] = Entry("tool", i)
  BY DEF ToolEntries
<1> QED
  BY <1>1, <1>3, <1>4, <1>5

\* A reply is followed by the results of its calls.
LEMMA CallsAre ==
    ASSUME NEW n \in 1 .. MaxTask + 1, n <= MaxMsg + MaxTask
    PROVE  /\ <<Reply(n)>> \o ToolEntries(n) \in Seq(Entries)
           /\ Len(<<Reply(n)>> \o ToolEntries(n)) = n + 1
           /\ (<<Reply(n)>> \o ToolEntries(n))[1] = Reply(n)
           /\ \A i \in 1 .. n : (<<Reply(n)>> \o ToolEntries(n))[i + 1] = Entry("tool", i)
<1> DEFINE t == ToolEntries(n)
           r == <<Reply(n)>>
<1>1. n \in 1 .. MaxMsg + MaxTask /\ n \in 0 .. MaxTask + 1
  BY EntryIs
<1>2. t \in Seq(Entries) /\ Len(t) = n /\ \A i \in 1 .. n : t[i] = Entry("tool", i)
  BY <1>1, ToolEntriesAre
<1>3. r \in Seq(Entries) /\ Len(r) = 1 /\ r[1] = Reply(n)
  <2>1. Reply(n) \in Entries
    BY <1>1, EntryIs
  <2> HIDE DEF t
  <2> QED
    BY <2>1
<1> HIDE DEF t, r
<1>4. \A y, z \in Seq(Entries) :
         /\ y \o z \in Seq(Entries) /\ Len(y \o z) = Len(y) + Len(z)
         /\ \A i \in 1 .. Len(y) + Len(z) :
               (y \o z)[i] = IF i <= Len(y) THEN y[i] ELSE z[i - Len(y)]
  OBVIOUS
<1>5. /\ r \o t \in Seq(Entries) /\ Len(r \o t) = 1 + n
      /\ \A i \in 1 .. 1 + n : (r \o t)[i] = IF i <= 1 THEN r[i] ELSE t[i - 1]
  <2>1. /\ r \o t \in Seq(Entries) /\ Len(r \o t) = Len(r) + Len(t)
        /\ \A i \in 1 .. Len(r) + Len(t) :
              (r \o t)[i] = IF i <= Len(r) THEN r[i] ELSE t[i - Len(r)]
    BY <1>2, <1>3, <1>4
  <2> QED
    BY <1>2, <1>3, <2>1
<1>6. (r \o t)[1] = r[1] /\ \A i \in 1 .. n : (r \o t)[i + 1] = t[i]
  <2>1. 1 \in 1 .. 1 + n
    BY <1>1
  <2>2. ASSUME NEW i \in 1 .. n PROVE (r \o t)[i + 1] = t[i]
    <3> DEFINE j == i + 1
    <3>1. j \in 1 .. 1 + n /\ ~ (j <= 1) /\ j - 1 = i
      BY <1>1
    <3> HIDE DEF j
    <3>2. (r \o t)[j] = t[i]
      BY <1>5, <3>1
    <3> QED
      BY <3>2 DEF j
  <2>3. (r \o t)[1] = r[1]
    BY <1>5, <2>1
  <2> QED
    BY <2>2, <2>3
<1> QED
  BY <1>2, <1>3, <1>5, <1>6 DEF t, r

\* Compaction keeps what precedes the first turn, and what begins with some turn.
LEMMA CompactedIs ==
    ASSUME NEW s \in Seq(Entries)
    PROVE  \/ Compacted(s) = s
           \/ \E i \in Starts(s), k \in Starts(s) \union {Len(s) + 1} :
                 /\ i <= k
                 /\ Compacted(s) = SubSeq(s, 1, i - 1) \o SubSeq(s, k, Len(s))
<1> DEFINE L == Len(s) + 1
           R == (Starts(s) \ Evicted(s)) \union {L}
<1>1. Len(s) \in Nat
  OBVIOUS
<1>2. Starts(s) \in SUBSET Nat /\ R \in SUBSET Nat /\ R # {} /\ R \subseteq Starts(s) \union {L}
      /\ \A j \in Starts(s) : j <= L
  <2>1. Starts(s) \subseteq 2 .. Len(s)
    BY DEF Starts
  <2> HIDE DEF L
  <2>2. \A j \in 2 .. Len(s) : j \in Nat /\ j <= L
    BY <1>1 DEF L
  <2>3. L \in Nat
    BY <1>1 DEF L
  <2> QED
    BY <2>1, <2>2, <2>3
<1>3. CASE Starts(s) = {}
  BY <1>3 DEF Compacted
<1>4. CASE Starts(s) # {}
  <2>1. \A S \in SUBSET Nat : S # {} => Min(S) \in S /\ \A j \in S : Min(S) <= j
    <3> SUFFICES ASSUME NEW S \in SUBSET Nat, S # {}
                 PROVE  Min(S) \in S /\ \A j \in S : Min(S) <= j
      OBVIOUS
    <3>1. \E i \in S : \A j \in S : i <= j
      BY NatMin
    <3> QED
      BY Zenon, <3>1 DEF Min
  <2> DEFINE i == Min(Starts(s))
             k == Min(R)
  <2>2. i \in Starts(s) /\ k \in R /\ \A j \in Starts(s) : i <= j
    <3> HIDE DEF R
    <3> QED
      BY <1>2, <1>4, <2>1
  <2>3. k \in Starts(s) \union {L} /\ i <= k
    <3> HIDE DEF R, i, k
    <3>1. k \in Starts(s) \union {L}
      BY <1>2, <2>2
    <3>2. k = L => i <= k
      <4> HIDE DEF L
      <4> QED
        BY <1>2, <2>2
    <3> QED
      BY <2>2, <3>1, <3>2
  <2>4. Compacted(s) = SubSeq(s, 1, i - 1) \o SubSeq(s, k, Len(s))
    BY <1>4 DEF Compacted
  <2> HIDE DEF i, k
  <2> QED
    BY <2>2, <2>3, <2>4
<1> QED
  BY <1>3, <1>4

\* It keeps entries.
LEMMA CompactedType == ASSUME NEW s \in Seq(Entries) PROVE Compacted(s) \in Seq(Entries)
<1>1. CASE Compacted(s) = s
  BY <1>1
<1>2. CASE \E i \in Starts(s), k \in Starts(s) \union {Len(s) + 1} :
               Compacted(s) = SubSeq(s, 1, i - 1) \o SubSeq(s, k, Len(s))
  <2>1. PICK i \in Starts(s), k \in Starts(s) \union {Len(s) + 1} :
           Compacted(s) = SubSeq(s, 1, i - 1) \o SubSeq(s, k, Len(s))
    BY <1>2
  <2>2. i \in 2 .. Len(s) /\ k \in 1 .. Len(s) + 1 /\ Len(s) \in Nat
    BY DEF Starts
  <2>3. SubSeq(s, 1, i - 1) \in Seq(Entries) /\ SubSeq(s, k, Len(s)) \in Seq(Entries)
    BY <2>2
  <2> QED
    BY <2>1, <2>3
<1> QED
  BY <1>1, <1>2, CompactedIs

-----------------------------------------------------------------------------
\* The tasks of a turn.

\* The image of a finite set under a function onto it is finite and no larger.
LEMMA Onto ==
    ASSUME NEW S, NEW T, NEW f \in [S -> T], IsFiniteSet(S), \A t \in T : \E s \in S : f[s] = t
    PROVE  IsFiniteSet(T) /\ Cardinality(T) <= Cardinality(S)
<1>1. f \in Surjection(S, T)
  BY DEF Surjection
<1> QED
  BY <1>1, FS_Surjection

\* A turn starts at most n tasks, with at most as many ids, none used before.
LEMMA StartedIs ==
    ASSUME tasks \in 0 .. MaxTask, NEW n \in 1 .. MaxTask - tasks,
           NEW kinds \in [1 .. n -> Kinds], NEW started \in Started(n, kinds)
    PROVE  /\ started \subseteq Tasks /\ started # {}
           /\ IsFiniteSet(started) /\ Cardinality(started) \in Nat \ {0}
           /\ Cardinality(started) <= n
           /\ IsFiniteSet(Ids(started)) /\ Cardinality(Ids(started)) <= Cardinality(started)
           /\ Ids(started) \subseteq tasks + 1 .. tasks + n
<1> DEFINE D == 1 .. n
           First(i) == Min({j \in 1 .. n : kinds[j] = kinds[i]})
           Fresh(i) == [no |-> tasks + i, id |-> tasks + i, kind |-> kinds[i]]
           Same(i) == [no |-> tasks + i, kind |-> kinds[i], id |-> tasks + First(i)]
           A == {Fresh(i) : i \in D}
           B == {Same(i) : i \in D}
<1>1. n \in Nat /\ IsFiniteSet(D) /\ Cardinality(D) = n /\ 1 \in D /\ tasks \in Nat
      /\ MaxTask \in Nat
  <2>1. n \in Nat /\ 1 \in D /\ tasks \in Nat /\ MaxTask \in Nat
    BY EntryIs
  <2>2. 1 \in Int /\ n \in Int
    BY <2>1
  <2>3. IsFiniteSet(1 .. n) /\ Cardinality(1 .. n) = IF 1 > n THEN 0 ELSE n - 1 + 1
    BY <2>2, FS_Interval
  <2> QED
    BY <2>1, <2>3
<1>2. started = A \/ started = B
  BY DEF Started
<1>3. \A i \in D : tasks + i \in 1 .. MaxTask /\ tasks + i \in tasks + 1 .. tasks + n
  BY <1>1
<1>k. \A i \in D : kinds[i] \in Kinds /\ First(i) \in D
  <2> SUFFICES ASSUME NEW i \in D PROVE kinds[i] \in Kinds /\ First(i) \in D
    OBVIOUS
  <2> DEFINE S == {j \in 1 .. n : kinds[j] = kinds[i]}
  <2>1. S \in SUBSET Nat /\ i \in S /\ S \subseteq D
    BY <1>1
  <2> HIDE DEF S
  <2>2. Min(S) \in S
    BY <2>1, NatMin DEF Min
  <2> QED
    BY <2>1, <2>2 DEF S
<1> HIDE DEF D, First
<1>4. ASSUME NEW f, DOMAIN f = D, started = {f[i] : i \in D},
             \A i \in D : /\ f[i] \in Tasks /\ f[i].id \in tasks + 1 .. tasks + n
      PROVE  /\ started \subseteq Tasks /\ started # {}
             /\ IsFiniteSet(started) /\ Cardinality(started) <= n
             /\ Ids(started) \subseteq tasks + 1 .. tasks + n
  <2>1. started \subseteq Tasks /\ started # {}
    BY <1>1, <1>4
  <2> DEFINE h == [i \in D |-> f[i]]
  <2>2. h \in [D -> started] /\ \A t \in started : \E i \in D : h[i] = t
    BY <1>4
  <2>3. IsFiniteSet(started) /\ Cardinality(started) <= Cardinality(D)
    <3> HIDE DEF h
    <3> QED
      BY <1>1, <2>2, Onto
  <2>4. Ids(started) \subseteq tasks + 1 .. tasks + n
    BY <1>4 DEF Ids
  <2> QED
    BY <1>1, <2>1, <2>3, <2>4
<1>5. /\ started \subseteq Tasks /\ started # {}
      /\ IsFiniteSet(started) /\ Cardinality(started) <= n
      /\ Ids(started) \subseteq tasks + 1 .. tasks + n
  <2>1. CASE started = A
    <3> DEFINE f == [i \in D |-> Fresh(i)]
    <3>1. DOMAIN f = D /\ started = {f[i] : i \in D}
      BY <2>1
    <3>2. \A i \in D : f[i] \in Tasks /\ f[i].id \in tasks + 1 .. tasks + n
      BY <1>3, <1>k DEF Tasks
    <3> HIDE DEF f
    <3> QED
      BY <1>4, <3>1, <3>2
  <2>2. CASE started = B
    <3> DEFINE f == [i \in D |-> Same(i)]
    <3>1. DOMAIN f = D /\ started = {f[i] : i \in D}
      BY <2>2
    <3>2. \A i \in D : f[i] \in Tasks /\ f[i].id \in tasks + 1 .. tasks + n
      BY <1>3, <1>k DEF Tasks
    <3> HIDE DEF f
    <3> QED
      BY <1>4, <3>1, <3>2
  <2> QED
    BY <1>2, <2>1, <2>2
<1>6. Cardinality(started) \in Nat \ {0}
  <2>1. Cardinality(started) \in Nat
    BY <1>5, FS_CardinalityType
  <2>2. Cardinality(started) # 0
    BY <1>5, FS_EmptySet
  <2> QED
    BY <2>1, <2>2
<1>7. IsFiniteSet(Ids(started)) /\ Cardinality(Ids(started)) <= Cardinality(started)
  <2> DEFINE f == [t \in started |-> t.id]
             I == Ids(started)
  <2>1. f \in [started -> I] /\ \A i \in I : \E t \in started : f[t] = i
    BY DEF Ids
  <2> HIDE DEF f, I
  <2>2. IsFiniteSet(I) /\ Cardinality(I) <= Cardinality(started)
    BY <1>5, <2>1, Onto
  <2> QED
    BY <2>2 DEF I
<1> QED
  BY <1>5, <1>6, <1>7

-----------------------------------------------------------------------------
\* The types are kept.

\* The front of a sequence and what follows it.
LEMMA FrontIs ==
    ASSUME NEW T, NEW s \in Seq(T)
    PROVE  /\ Front(s) \in Seq(T) /\ (s = <<>> => Front(s) = <<>>)
           /\ s # <<>> => s[Len(s)] \in T /\ s = Front(s) \o <<s[Len(s)]>>
<1>1. CASE s = <<>>
  BY <1>1 DEF Front
<1>2. CASE s # <<>>
  <2>1. Len(s) \in 1 .. Len(s) /\ Len(s) \in Nat
    BY <1>2
  <2>2. Front(s) \in Seq(T) /\ s[Len(s)] \in T
    BY <2>1 DEF Front
  <2>3. s = Front(s) \o <<s[Len(s)]>>
    BY <2>1 DEF Front
  <2> QED
    BY <1>2, <2>2, <2>3
<1> QED
  BY <1>1, <1>2

\* The head of a sequence and what follows it.
LEMMA HeadIs ==
    ASSUME NEW T, NEW s \in Seq(T), s # <<>>
    PROVE  Head(s) \in T /\ Tail(s) \in Seq(T) /\ s = <<Head(s)>> \o Tail(s)
<1>1. Head(s) \in T /\ Tail(s) \in Seq(T) /\ Len(s) \in Nat /\ Len(s) # 0
  BY HeadTailProperties, EmptySeq
<1>2. SubSeq(s, 1, Len(s)) = <<s[1]>> \o SubSeq(s, 1 + 1, Len(s))
  <2>1. 1 \in 1 .. Len(s) /\ Len(s) \in 1 .. Len(s)
    BY <1>1
  <2> QED
    BY <2>1, SubSeqRecursiveFirst
<1>3. SubSeq(s, 1, Len(s)) = s
  BY SubSeqFull
<1>4. Tail(s) = SubSeq(s, 2, Len(s)) /\ Head(s) = s[1] /\ 1 + 1 = 2
  BY TailIsSubSeq
<1> QED
  BY <1>1, <1>2, <1>3, <1>4

\* The group that counts a result, with one task less to wait for.
GroupAfter(g, t) == [groups[g] EXCEPT !.left = @ - 1, !.done = Append(@, t.no)]

\* The result taken is a task's, and the group that counts it is one of the table.
LEMMA ResultIs ==
    ASSUME TaskTypes, BookTypes, results[NextKind] # <<>>,
           NEW t, t = Head(results[NextKind])
    PROVE  /\ NextKind \in Kinds /\ t \in Tasks /\ Tail(results[NextKind]) \in Seq(Tasks)
           /\ results[NextKind] = <<t>> \o Tail(results[NextKind])
           /\ Known(t) =>
                 /\ owner[t.id] \in DOMAIN groups /\ groups[owner[t.id]] \in Groups
                 /\ LET group == GroupAfter(owner[t.id], t)
                    IN  /\ group.left = groups[owner[t.id]].left - 1 /\ group.left \in Nat
                        /\ group.done \in Seq(1 .. MaxTask)
                        /\ group.origin = groups[owner[t.id]].origin
                        /\ group.left > 0 => group \in Groups
<1>1. NextKind \in Kinds
  BY DEF NextKind, Kinds
<1>2. results[NextKind] \in Seq(Tasks)
  BY <1>1 DEF TaskTypes
<1>3. t \in Tasks /\ Tail(results[NextKind]) \in Seq(Tasks)
      /\ results[NextKind] = <<t>> \o Tail(results[NextKind])
  BY <1>2, HeadIs
<1>4. ASSUME Known(t)
      PROVE  /\ owner[t.id] \in DOMAIN groups /\ groups[owner[t.id]] \in Groups
             /\ LET group == GroupAfter(owner[t.id], t)
                IN  /\ group.left = groups[owner[t.id]].left - 1 /\ group.left \in Nat
                    /\ group.done \in Seq(1 .. MaxTask)
                    /\ group.origin = groups[owner[t.id]].origin
                    /\ group.left > 0 => group \in Groups
  <2> DEFINE g == owner[t.id]
             old == groups[g]
             group == GroupAfter(g, t)
  <2>1. g \in DOMAIN groups /\ old \in Groups
    BY <1>4 DEF Known, BookTypes
  <2>2. t.no \in 1 .. MaxTask
    BY <1>3 DEF Tasks
  <2>3. group = [left |-> old.left - 1, done |-> Append(old.done, t.no), origin |-> old.origin]
    <3>1. \A r \in Groups : \A x :
             [r EXCEPT !.left = @ - 1, !.done = Append(@, x)]
               = [left |-> r.left - 1, done |-> Append(r.done, x), origin |-> r.origin]
      <4>1. \A r \in Groups : r = [left |-> r.left, done |-> r.done, origin |-> r.origin]
        BY DEF Groups
      <4>2. \A r, x :
               [r EXCEPT !.left = @ - 1, !.done = Append(@, x)]
                 = [[r EXCEPT !.left = r.left - 1] EXCEPT !.done = Append(r.done, x)]
        BY Zenon
      <4>3. \A a, b, c, l :
               [[left |-> a, done |-> b, origin |-> c] EXCEPT !.left = l]
                 = [left |-> l, done |-> b, origin |-> c]
        OBVIOUS
      <4>4. \A a, b, c, d :
               [[left |-> a, done |-> b, origin |-> c] EXCEPT !.done = d]
                 = [left |-> a, done |-> d, origin |-> c]
        OBVIOUS
      <4>5. ASSUME NEW r \in Groups, NEW x
            PROVE  [[r EXCEPT !.left = r.left - 1] EXCEPT !.done = Append(r.done, x)]
                     = [left |-> r.left - 1, done |-> Append(r.done, x), origin |-> r.origin]
        <5> DEFINE l == r.left - 1
                   d == Append(r.done, x)
        <5> HIDE DEF l, d
        <5>1. [r EXCEPT !.left = l] = [left |-> l, done |-> r.done, origin |-> r.origin]
          BY <4>1
        <5>2. [[r EXCEPT !.left = l] EXCEPT !.done = d]
                = [left |-> l, done |-> d, origin |-> r.origin]
          <6> DEFINE q == [r EXCEPT !.left = l]
          <6>1. q = [left |-> l, done |-> r.done, origin |-> r.origin]
            BY <5>1
          <6> HIDE DEF q
          <6>2. [q EXCEPT !.done = d] = [left |-> l, done |-> d, origin |-> r.origin]
            BY <6>1
          <6> QED
            BY <6>2 DEF q
        <5> QED
          BY <5>2 DEF l, d
      <4> QED
        BY Zenon, <4>2, <4>5
    <3>2. group = [old EXCEPT !.left = @ - 1, !.done = Append(@, t.no)]
      BY DEF GroupAfter
    <3> HIDE DEF old, group
    <3> QED
      BY <2>1, <3>1, <3>2
  <2>4. old.left \in Nat \ {0} /\ old.done \in Seq(1 .. MaxTask) /\ old.origin \in 0 .. MaxMsg
    <3> HIDE DEF old
    <3> QED
      BY <2>1 DEF Groups
  <2>5. old.left - 1 \in Nat
    <3> DEFINE n == old.left
    <3>1. n \in Nat \ {0}
      BY <2>4
    <3> HIDE DEF n
    <3>2. n - 1 \in Nat
      BY <3>1
    <3> QED
      BY <3>2 DEF n
  <2>6. Append(old.done, t.no) \in Seq(1 .. MaxTask)
    <3> DEFINE d == old.done
               x == t.no
    <3>1. d \in Seq(1 .. MaxTask) /\ x \in 1 .. MaxTask
      BY <2>2, <2>4
    <3> HIDE DEF d, x
    <3>2. Append(d, x) \in Seq(1 .. MaxTask)
      BY <3>1, AppendProperties
    <3> QED
      BY <3>2 DEF d, x
  <2> HIDE DEF g, old
  <2>7. /\ group.left = old.left - 1 /\ group.left \in Nat
        /\ group.done \in Seq(1 .. MaxTask) /\ group.origin = old.origin
    <3> DEFINE n == old.left - 1
               d == Append(old.done, t.no)
    <3>1. n \in Nat /\ d \in Seq(1 .. MaxTask)
      BY <2>5, <2>6
    <3>2. group = [left |-> n, done |-> d, origin |-> old.origin]
      BY <2>3
    <3> HIDE DEF n, d, group
    <3>3. group.left = n /\ group.done = d /\ group.origin = old.origin
      BY <3>2
    <3> QED
      BY <3>1, <3>3 DEF n
  <2>8. group.left > 0 => group \in Groups
    <3> DEFINE n == old.left - 1
               d == Append(old.done, t.no)
    <3>1. n \in Nat /\ d \in Seq(1 .. MaxTask) /\ group.left = n
      BY <2>5, <2>6, <2>7
    <3>2. group = [left |-> n, done |-> d, origin |-> old.origin]
      BY <2>3
    <3> HIDE DEF n, d, group
    <3>3. n > 0 => n \in Nat \ {0}
      BY <3>1
    <3> QED
      BY <2>4, <3>1, <3>2, <3>3 DEF Groups
  <2> HIDE DEF group
  <2> QED
    BY <2>1, <2>7, <2>8 DEF g, old, group
<1> QED
  BY <1>1, <1>3, <1>4

\* What a line that is appended, in full or not, makes of the file.
LEMMA WrittenIs ==
    ASSUME EntryTypes, LoopTypes, NEW e \in Entries, WriteLine(e) \/ WriteCut(e)
    PROVE  /\ file' \in Seq(Entries) /\ file' \in {Append(file, e), file, Front(file)}
           /\ gap' \in BOOLEAN /\ (gap' \/ (~ gap /\ file' = Append(file, e)))
           /\ WriteCut(e) => gap' \/ ~ (Len(unsaved) > 1)
<1>1. gap \in BOOLEAN /\ file \in Seq(Entries)
  BY DEF EntryTypes, LoopTypes
<1>2. Append(file, e) \in Seq(Entries) /\ Front(file) \in Seq(Entries)
  BY <1>1, AppendProperties, FrontIs
<1>3. file' \in {Append(file, e), file, Front(file)}
  BY DEF WriteLine, WriteCut, disk
<1>4. gap' \in BOOLEAN /\ (gap' \/ (~ gap /\ file' = Append(file, e)))
  <2>1. CASE WriteLine(e)
    BY <1>1, <2>1 DEF WriteLine
  <2>2. CASE WriteCut(e)
    BY <1>1, <2>2 DEF WriteCut
  <2> QED
    BY <2>1, <2>2
<1>5. WriteCut(e) => gap' \/ ~ (Len(unsaved) > 1)
  BY DEF WriteCut
<1> QED
  BY <1>1, <1>2, <1>3, <1>4, <1>5

\* The types of what the loop counts and of where it is.
LEMMA LoopTypesStay == ASSUME Typed, Asker, [Next]_vars PROVE LoopTypes'
<1> USE DEF turn, queues, disk, book, bounds
<1>e. MaxTask \in Nat /\ MaxMsg \in Nat /\ Prompts \subseteq Nat
  BY EntryIs
<1>t. LoopTypes /\ MessageTypes
  BY DEF Typed
<1>p. ASSUME NEW m \in 1 .. MaxMsg, ProcessMessage(m)
      PROVE  /\ origin' \in 0 .. MaxMsg /\ retried' = FALSE /\ tokens' = tokens
             /\ state' = "Waiting" /\ driver' = "message" /\ pc' = "Turn"
  BY <1>e, <1>p DEF ProcessMessage
<1>m. Measure => tokens' \in Nat
  BY <1>e, <1>t DEF Measure, LoopTypes
<1>1. CASE Save
  <2>1. Head(unsaved) \in Entries
    BY <1>1, HeadIs DEF Save, Typed, EntryTypes
  <2>2. gap' \in BOOLEAN
    BY <1>t, <1>1, <2>1, WrittenIs DEF Save, Typed
  <2> QED
    BY <1>t, <1>1, <2>2 DEF Save, LoopTypes
<1>2. CASE TakePending
  <2>1. Head(pending) \in 1 .. MaxMsg
    BY <1>t, <1>2, HeadIs DEF TakePending, MustDrain, MessageTypes
  <2>2. ProcessMessage(Head(pending))
    BY <1>2 DEF TakePending
  <2> QED
    BY <1>t, <1>2, <1>p, <2>1, <2>2 DEF TakePending, LoopTypes
<1>3. CASE Stop
  BY <1>t, <1>3 DEF Stop, LoopTypes
<1>4. CASE TakeInput
  <2>1. Head(input) \in 0 .. MaxMsg
    BY <1>t, <1>4, HeadIs DEF TakeInput, MessageTypes
  <2>2. CASE Head(input) # 0 /\ state = "Idle" /\ ProcessMessage(Head(input))
    <3>1. Head(input) \in 1 .. MaxMsg
      BY <1>e, <2>1, <2>2
    <3> QED
      BY <1>t, <1>4, <1>p, <2>2, <3>1 DEF TakeInput, LoopTypes
  <2>3. CASE ~ (Head(input) # 0 /\ state = "Idle" /\ ProcessMessage(Head(input)))
    BY <1>t, <1>4, <2>3 DEF TakeInput, LoopTypes
  <2> QED
    BY <2>2, <2>3
<1>5. CASE TakeResult
  <2> DEFINE t == Head(results[NextKind])
  <2>1. CASE Orphaned(t)
    BY <1>t, <1>5, <2>1 DEF TakeResult, Orphaned, LoopTypes
  <2>2. CASE Known(t) /\ Counted(t)
    <3>1. results[NextKind] # <<>>
      BY <1>5 DEF TakeResult
    <3>2. groups[owner[t.id]] \in Groups /\ GroupAfter(owner[t.id], t).origin \in 0 .. MaxMsg
      <4>1. groups[owner[t.id]] \in Groups
            /\ GroupAfter(owner[t.id], t).origin = groups[owner[t.id]].origin
        BY <2>2, <3>1, ResultIs DEF Typed
      <4> HIDE DEF t
      <4> QED
        BY <4>1 DEF Groups
    <3>3. \/ UNCHANGED <<pc, turn>>
          \/ /\ origin' = GroupAfter(owner[t.id], t).origin
             /\ state' = "Waiting" /\ driver' = "group" /\ pc' = "Turn"
             /\ UNCHANGED <<tokens, pending, retried>>
      <4> HIDE DEF t
      <4> QED
        BY <2>2 DEF Counted, GroupAfter
    <3>4. UNCHANGED <<stopped, bounds>>
      BY <1>5 DEF TakeResult
    <3> HIDE DEF t
    <3> QED
      BY <1>t, <3>2, <3>3, <3>4 DEF LoopTypes
  <2> QED
    BY <1>5, <2>1, <2>2 DEF TakeResult
<1>6. CASE BeginTurn
  <2>1. tokens \div 2 \in Nat
    BY <1>t DEF LoopTypes
  <2>2. tokens' \in Nat
    BY <1>t, <1>6, <2>1 DEF BeginTurn, LoopTypes
  <2> QED
    BY <1>t, <1>6, <2>2 DEF BeginTurn, LoopTypes
<1>a. ASSUME NEW n \in {0, 1}, AnswerWith(n) PROVE calls' \in Nat
  BY <1>t, <1>a DEF AnswerWith, LoopTypes
<1>7. CASE AnswerText
  BY <1>t, <1>m, <1>a, <1>7 DEF AnswerText, LoopTypes
<1>8. CASE AnswerRejected
  BY <1>t, <1>m, <1>a, <1>8 DEF AnswerRejected, LoopTypes
<1>9. CASE AnswerFailed
  BY <1>t, <1>9 DEF AnswerFailed, LoopTypes
<1>10. CASE AnswerTools
  <2>1. calls' \in Nat
    BY <1>t, <1>10 DEF AnswerTools, LoopTypes
  <2> QED
    BY <1>t, <1>m, <1>10, <2>1 DEF AnswerTools, LoopTypes
<1>11. CASE AnswerTasks
  <2>1. calls' \in Nat /\ tasks' \in 0 .. MaxTask /\ clash' \in BOOLEAN
    <3>1. PICK n, started :
             /\ n \in 1 .. MaxTask - tasks /\ tasks' = tasks + n
             /\ clash' = (clash \/ Cardinality(Ids(started)) < n)
      BY <1>11 DEF AnswerTasks
    <3>2. tasks' \in 0 .. MaxTask /\ calls' \in Nat
      BY <1>e, <1>t, <1>11, <3>1 DEF AnswerTasks, LoopTypes
    <3>3. clash' \in BOOLEAN
      BY <3>1
    <3> QED
      BY <3>2, <3>3
  <2> QED
    BY <1>t, <1>m, <1>11, <2>1 DEF AnswerTasks, LoopTypes
<1>12. CASE Say
  <2>1. sent' \in 0 .. MaxMsg /\ 1 .. sent \subseteq 1 .. sent'
    BY <1>e, <1>t, <1>12 DEF Say, LoopTypes
  <2> QED
    BY <1>t, <1>12, <2>1 DEF Say, LoopTypes
<1>13. CASE Inform
  BY <1>t, <1>13 DEF Inform, LoopTypes
<1>14. CASE CancelLoop
  BY <1>t, <1>14 DEF CancelLoop, LoopTypes
<1>15. CASE \E t \in running : TaskEnds(t) \/ TaskDies(t)
  BY <1>t, <1>15 DEF TaskEnds, TaskDies, LoopTypes
<1>16. CASE Crash
  <2>1. gap' \in BOOLEAN
    <3>1. CASE unsaved = <<>>
      BY <1>t, <1>16, <3>1 DEF Crash, LoopTypes
    <3>2. CASE unsaved # <<>> /\ WriteCut(Head(unsaved))
      <4>1. Head(unsaved) \in Entries
        BY <3>2, HeadIs DEF Typed, EntryTypes
      <4> QED
        BY <1>t, <3>2, <4>1, WrittenIs DEF Typed
    <3> QED
      BY <1>16, <3>1, <3>2 DEF Crash
  <2>2. lost' \subseteq 1 .. sent'
    BY <1>16 DEF Crash
  <2>3. 0 \in 0 .. MaxMsg /\ 0 \in Nat
    BY <1>e
  <2> QED
    BY <1>t, <1>16, <2>1, <2>2, <2>3 DEF Crash, LoopTypes
<1>17. CASE Restart
  BY <1>t, <1>17 DEF Restart, LoopTypes
<1>18. CASE UNCHANGED vars
  BY <1>t, <1>18 DEF vars, LoopTypes
<1> QED
  BY <1>1, <1>2, <1>3, <1>4, <1>5, <1>6, <1>7, <1>8, <1>9, <1>10, <1>11, <1>12, <1>13, <1>14,
     <1>15, <1>16, <1>17, <1>18 DEF Next

\* The result entries of a group.
LEMMA ResultsAre ==
    ASSUME NEW d \in Seq(1 .. MaxTask)
    PROVE  /\ [i \in DOMAIN d |-> Entry("result", d[i])] \in Seq(Entries)
           /\ \A i \in DOMAIN [j \in DOMAIN d |-> Entry("result", d[j])] :
                 [j \in DOMAIN d |-> Entry("result", d[j])][i] = Entry("result", d[i])
<1>1. Len(d) \in Nat /\ DOMAIN d = 1 .. Len(d) /\ \A i \in 1 .. Len(d) : d[i] \in 1 .. MaxTask
  BY LenProperties, ElementOfSeq
<1>2. \A n \in 1 .. MaxTask : Entry("result", n) \in Entries
  <2>1. "result" \in EntryKinds
    BY DEF EntryKinds
  <2>2. \A n \in 1 .. MaxTask : n \in 0 .. MaxMsg + MaxTask
    BY EntryIs
  <2> QED
    BY <2>1, <2>2, EntryIs
<1>3. [i \in DOMAIN d |-> Entry("result", d[i])] \in [1 .. Len(d) -> Entries]
  BY <1>1, <1>2
<1>4. \A n \in Nat : \A r \in [1 .. n -> Entries] : r \in Seq(Entries)
  OBVIOUS
<1> QED
  BY <1>1, <1>3, <1>4

\* The context updates drained.
Updates == [i \in DOMAIN ContextUpdates |-> Entry("context", 0)]
LEMMA UpdatesAre ==
    ASSUME input \in Seq(0 .. MaxMsg)
    PROVE  /\ Updates \in Seq(Entries)
           /\ \A i \in DOMAIN Updates : Updates[i] = Entry("context", 0)
<1>1. ContextUpdates \in Seq((0 .. MaxMsg) \intersect {0})
  BY WithinType DEF ContextUpdates
<1>2. Len(ContextUpdates) \in Nat /\ DOMAIN ContextUpdates = 1 .. Len(ContextUpdates)
  BY <1>1
<1>3. Entry("context", 0) \in Entries
  <2>1. "context" \in EntryKinds
    BY DEF EntryKinds
  <2>2. 0 \in 0 .. MaxMsg + MaxTask
    BY EntryIs
  <2> QED
    BY <2>1, <2>2, EntryIs
<1>4. Updates \in [1 .. Len(ContextUpdates) -> Entries]
  BY <1>2, <1>3 DEF Updates
<1>5. \A n \in Nat : \A r \in [1 .. n -> Entries] : r \in Seq(Entries)
  OBVIOUS
<1> QED
  BY <1>2, <1>4, <1>5 DEF Updates

\* An entry alone is a sequence of entries.
LEMMA OneEntry ==
    /\ \A kind \in EntryKinds \ {"tool"}, of \in 0 .. MaxMsg + MaxTask :
          /\ <<Entry(kind, of)>> \in Seq(Entries) /\ Entry(kind, of) \in Entries
    /\ \A n \in {0, 1} :
          /\ <<Answer(n)>> \in Seq(Entries) /\ Answer(n) \in Entries
          /\ <<Answer(n), Entry("correction", 0)>> \in Seq(Entries)
    /\ <<Entry("correction", 0)>> \in Seq(Entries)
    /\ <<System>> \in Seq(Entries) /\ <<Entry("context", 0)>> \in Seq(Entries)
<1>1. 0 \in 0 .. MaxTask + 1 /\ 1 \in 0 .. MaxTask + 1 /\ 0 \in 0 .. MaxMsg + MaxTask
  BY EntryIs
<1>2. {"correction", "system", "context"} \subseteq EntryKinds
  BY DEF EntryKinds
<1>3. /\ \A n \in {0, 1} : Answer(n) \in Entries
      /\ Entry("correction", 0) \in Entries
      /\ Entry("system", 0) \in Entries /\ Entry("context", 0) \in Entries
  BY <1>1, <1>2, EntryIs
<1>4. \A x, y \in Entries : <<x>> \in Seq(Entries) /\ <<x, y>> \in Seq(Entries)
  OBVIOUS
<1> QED
  BY <1>3, <1>4, EntryIs DEF System

\* What a step adds to the history, if it only adds and the handler appends it to the file.
Pushes(e) == e \in Seq(Entries) /\ Push(e)

\* The entries have their types.
LEMMA EntryTypesStay == ASSUME Typed, Asker, [Next]_vars PROVE EntryTypes'
<1> USE DEF turn, queues, disk, book, bounds
<1>e. MaxTask \in Nat /\ MaxMsg \in Nat
  BY EntryIs
<1>t. /\ EntryTypes /\ MessageTypes /\ history \in Seq(Entries) /\ file \in Seq(Entries)
      /\ unsaved \in Seq(Entries) /\ <<>> \in Seq(Entries)
  BY DEF Typed, EntryTypes
<1>p. ASSUME NEW e, Pushes(e), file' = file PROVE EntryTypes'
  <2>1. history \o e \in Seq(Entries) /\ unsaved \o e \in Seq(Entries)
    BY <1>t, <1>p DEF Pushes
  <2> QED
    BY <1>t, <1>p, <2>1 DEF Pushes, Push, EntryTypes
<1>q. ASSUME NEW m \in 1 .. MaxMsg, ProcessMessage(m)
      PROVE  Pushes(<<Entry("user", m)>>)
  <2>1. "user" \in EntryKinds /\ m \in 0 .. MaxMsg + MaxTask
    BY <1>e DEF EntryKinds
  <2> QED
    BY <1>q, <2>1, OneEntry DEF ProcessMessage, Pushes
<1>1. CASE Save
  <2>1. Head(unsaved) \in Entries /\ Tail(unsaved) \in Seq(Entries)
    BY <1>t, <1>1, HeadIs DEF Save
  <2>2. file' \in Seq(Entries)
    BY <1>1, <2>1, WrittenIs DEF Save, Typed
  <2> QED
    BY <1>t, <1>1, <2>1, <2>2 DEF Save, EntryTypes
<1>2. CASE TakePending
  <2>1. Head(pending) \in 1 .. MaxMsg
    BY <1>t, <1>2, HeadIs DEF TakePending, MustDrain, MessageTypes
  <2>2. ProcessMessage(Head(pending)) /\ file' = file
    BY <1>2 DEF TakePending
  <2> QED
    BY <1>p, <1>q, <2>1, <2>2
<1>3. CASE Stop
  BY <1>t, <1>3 DEF Stop, EntryTypes
<1>4. CASE TakeInput
  <2>1. Head(input) \in 0 .. MaxMsg
    BY <1>t, <1>4, HeadIs DEF TakeInput, MessageTypes
  <2>f. file' = file
    BY <1>4 DEF TakeInput
  <2>2. CASE Push(<<Entry("context", 0)>>)
    <3>1. Pushes(<<Entry("context", 0)>>)
      BY <2>2, OneEntry DEF Pushes
    <3> QED
      BY <1>p, <2>f, <3>1
  <2>3. CASE Head(input) # 0 /\ ProcessMessage(Head(input))
    <3>1. Head(input) \in 1 .. MaxMsg
      BY <1>e, <2>1, <2>3
    <3> QED
      BY <1>p, <1>q, <2>3, <2>f, <3>1
  <2>4. CASE UNCHANGED <<history, unsaved>>
    BY <1>t, <2>4, <2>f DEF EntryTypes
  <2> QED
    BY <1>4, <2>2, <2>3, <2>4 DEF TakeInput
<1>5. CASE TakeResult
  <2> DEFINE t == Head(results[NextKind])
             group == GroupAfter(owner[t.id], t)
  <2>f. file' = file /\ results[NextKind] # <<>>
    BY <1>5 DEF TakeResult
  <2>t. t \in Tasks /\ (Known(t) => group.done \in Seq(1 .. MaxTask))
    BY <2>f, ResultIs DEF Typed
  <2>1. CASE Orphaned(t)
    <3>1. "result" \in EntryKinds /\ t.no \in 0 .. MaxMsg + MaxTask
      <4> HIDE DEF t
      <4> QED
        BY <1>e, <2>t DEF EntryKinds, Tasks
    <3>2. Pushes(<<Entry("result", t.no)>>)
      <4>1. Push(<<Entry("result", t.no)>>)
        BY <2>1 DEF Orphaned
      <4> HIDE DEF t
      <4> QED
        BY <3>1, <4>1, OneEntry DEF Pushes
    <3> QED
      BY <1>p, <2>f, <3>2
  <2>2. CASE Known(t) /\ Counted(t)
    <3>1. \/ UNCHANGED <<history, unsaved>>
          \/ Push([i \in DOMAIN group.done |-> Entry("result", group.done[i])])
      <4> HIDE DEF t
      <4> QED
        BY <2>2 DEF Counted, GroupAfter
    <3>2. CASE UNCHANGED <<history, unsaved>>
      BY <1>t, <2>f, <3>2 DEF EntryTypes
    <3>3. CASE Push([i \in DOMAIN group.done |-> Entry("result", group.done[i])])
      <4> DEFINE d == group.done
                 e == [i \in DOMAIN d |-> Entry("result", d[i])]
      <4>1. d \in Seq(1 .. MaxTask)
        BY <2>2, <2>t
      <4>2. e \in Seq(Entries)
        <5> HIDE DEF d
        <5> QED
          BY <4>1, ResultsAre
      <4>3. Pushes(e)
        BY <3>3, <4>2 DEF Pushes
      <4> HIDE DEF e
      <4> QED
        BY <1>p, <2>f, <4>3
    <3> QED
      BY <3>1, <3>2, <3>3
  <2> QED
    BY <1>5, <2>1, <2>2 DEF TakeResult
<1>6. CASE BeginTurn
  <2>1. Updates \in Seq(Entries)
    BY <1>t, UpdatesAre DEF MessageTypes
  <2>2. Compacted(history) \in Seq(Entries)
    BY <1>t, CompactedType
  <2>3. /\ unsaved' = Updates /\ file' = file
        /\ history' = history \o Updates \/ history' = Compacted(history) \o Updates
    BY <1>6 DEF BeginTurn, Updates
  <2>4. history \o Updates \in Seq(Entries) /\ Compacted(history) \o Updates \in Seq(Entries)
    BY <1>t, <2>1, <2>2
  <2> QED
    BY <1>t, <2>1, <2>3, <2>4 DEF EntryTypes
<1>7. CASE AnswerText
  <2>1. PICK n \in {0, 1} : Push(<<Answer(n)>>)
    BY <1>7 DEF AnswerText
  <2> QED
    BY <1>p, <1>7, <2>1, OneEntry DEF AnswerText, Pushes
<1>8. CASE AnswerRejected
  <2>1. PICK n \in {0, 1} : history' = history \o <<Answer(n), Entry("correction", 0)>>
    BY <1>8 DEF AnswerRejected
  <2>2. history' \in Seq(Entries)
    BY <1>t, <2>1, OneEntry
  <2> QED
    BY <1>t, <1>8, <2>2, OneEntry DEF AnswerRejected, EntryTypes
<1>9. CASE AnswerFailed
  BY <1>p, <1>9, OneEntry DEF AnswerFailed, Pushes
<1>10. CASE AnswerTools
  <2>1. heard # <<>>
    BY <1>10 DEF AnswerTools, Answered, Asker
  <2>2. 1 \in 1 .. MaxTask + 1 /\ 1 <= MaxMsg + MaxTask
    <3>1. Head(heard) \in 1 .. MaxMsg
      BY <1>t, <2>1, HeadIs DEF MessageTypes
    <3> QED
      BY <1>e, <3>1
  <2>3. Pushes(<<Reply(1)>> \o ToolEntries(1))
    BY <1>10, <2>2, CallsAre DEF AnswerTools, Pushes
  <2>4. file' = file
    BY <1>10 DEF AnswerTools
  <2> QED
    BY <1>p, <2>3, <2>4
<1>11. CASE AnswerTasks
  <2>1. PICK n \in 1 .. MaxTask - tasks : Push(<<Reply(n)>> \o ToolEntries(n))
    BY <1>11 DEF AnswerTasks
  <2>2. n \in 1 .. MaxTask + 1 /\ n <= MaxMsg + MaxTask
    BY <1>e, <1>t DEF Typed, LoopTypes
  <2>3. Pushes(<<Reply(n)>> \o ToolEntries(n))
    BY <2>1, <2>2, CallsAre DEF Pushes
  <2>4. file' = file
    BY <1>11 DEF AnswerTasks
  <2> QED
    BY <1>p, <2>3, <2>4
<1>12. CASE Say \/ Inform \/ CancelLoop
  BY <1>t, <1>12 DEF Say, Inform, CancelLoop, EntryTypes
<1>15. CASE \E t \in running : TaskEnds(t) \/ TaskDies(t)
  BY <1>t, <1>15 DEF TaskEnds, TaskDies, EntryTypes
<1>16. CASE Crash
  <2>1. file' \in Seq(Entries)
    <3>1. CASE unsaved = <<>>
      BY <1>t, <1>16, <3>1 DEF Crash
    <3>2. CASE unsaved # <<>> /\ WriteCut(Head(unsaved))
      <4>1. Head(unsaved) \in Entries
        BY <1>t, <3>2, HeadIs
      <4> QED
        BY <3>2, <4>1, WrittenIs DEF Typed
    <3> QED
      BY <1>16, <3>1, <3>2 DEF Crash
  <2> QED
    BY <1>t, <1>16, <2>1, OneEntry DEF Crash, EntryTypes
<1>17. CASE Restart
  <2>1. <<System>> \o file \in Seq(Entries)
    BY <1>t, OneEntry
  <2> QED
    BY <1>t, <1>17, <2>1 DEF Restart, EntryTypes
<1>18. CASE UNCHANGED vars
  BY <1>t, <1>18 DEF vars, EntryTypes
<1> QED
  BY <1>1, <1>2, <1>3, <1>4, <1>5, <1>6, <1>7, <1>8, <1>9, <1>10, <1>11, <1>12, <1>15, <1>16,
     <1>17, <1>18 DEF Next

\* The messages queued are messages.
LEMMA QueuedIs ==
    ASSUME NEW s \in Seq(0 .. MaxMsg)
    PROVE  Within(s, 1 .. MaxMsg) \in Seq(1 .. MaxMsg)
<1>1. (0 .. MaxMsg) \intersect (1 .. MaxMsg) = 1 .. MaxMsg
  BY EntryIs
<1>2. Within(s, 1 .. MaxMsg) \in Seq((0 .. MaxMsg) \intersect (1 .. MaxMsg))
  BY WithinType
<1> QED
  BY <1>1, <1>2

\* A number is one of those up to a bound.
LEMMA UpToSent ==
    ASSUME LoopTypes
    PROVE  sent \in Nat /\ (sent < MaxMsg => sent + 1 \in 1 .. MaxMsg) /\ 0 \in 0 .. MaxMsg
BY EntryIs DEF LoopTypes

\* The messages have their types.
LEMMA MessageTypesStay == ASSUME Typed, EntryTypes', [Next]_vars PROVE MessageTypes'
<1> USE DEF turn, queues, disk, book, bounds
<1>e. MaxMsg \in Nat /\ (\A m \in 1 .. MaxMsg : m \in 0 .. MaxMsg)
      /\ (\A m \in 0 .. MaxMsg : m # 0 => m \in 1 .. MaxMsg)
  BY EntryIs
<1>t. /\ LoopTypes /\ MessageTypes /\ input \in Seq(0 .. MaxMsg) /\ pending \in Seq(1 .. MaxMsg)
      /\ heard \in Seq(1 .. MaxMsg) /\ EntryTypes /\ file \in Seq(Entries)
  BY DEF Typed, EntryTypes, MessageTypes
<1>p. ASSUME NEW m \in 1 .. MaxMsg, ProcessMessage(m) PROVE heard' \in Seq(1 .. MaxMsg)
  BY <1>t, <1>p, AppendProperties DEF ProcessMessage
<1>1. CASE Save
  BY <1>t, <1>1 DEF Save, MessageTypes
<1>2. CASE TakePending
  <2>1. Head(pending) \in 1 .. MaxMsg /\ Tail(pending) \in Seq(1 .. MaxMsg)
    BY <1>t, <1>2, HeadIs DEF TakePending, MustDrain
  <2>2. ProcessMessage(Head(pending))
    BY <1>2 DEF TakePending
  <2>3. heard' \in Seq(1 .. MaxMsg)
    BY <1>p, <2>1, <2>2
  <2> QED
    BY <1>t, <1>2, <2>1, <2>3 DEF TakePending, MessageTypes
<1>3. CASE Stop
  BY <1>t, <1>3 DEF Stop, MessageTypes
<1>4. CASE TakeInput
  <2>1. Head(input) \in 0 .. MaxMsg /\ Tail(input) \in Seq(0 .. MaxMsg)
    BY <1>t, <1>4, HeadIs DEF TakeInput
  <2>2. CASE Head(input) = 0
    BY <1>t, <1>4, <2>1, <2>2 DEF TakeInput, MessageTypes
  <2>3. CASE Head(input) # 0
    <3>1. Head(input) \in 1 .. MaxMsg
      BY <1>e, <2>1, <2>3
    <3>2. Append(pending, Head(input)) \in Seq(1 .. MaxMsg)
      BY <1>t, <3>1, AppendProperties
    <3>3. CASE ProcessMessage(Head(input)) /\ pending' = pending
      BY <1>t, <1>p, <1>4, <2>1, <3>1, <3>3 DEF TakeInput, MessageTypes
    <3>4. CASE pending' = Append(pending, Head(input)) /\ heard' = heard
      BY <1>t, <1>4, <2>1, <3>2, <3>4 DEF TakeInput, MessageTypes
    <3> QED
      BY <1>4, <2>3, <3>3, <3>4 DEF TakeInput
  <2> QED
    BY <2>2, <2>3
<1>5. CASE TakeResult
  <2>1. pending' = pending
    BY <1>5 DEF TakeResult, Orphaned, Counted
  <2> QED
    BY <1>t, <1>5, <2>1 DEF TakeResult, MessageTypes
<1>6. CASE BeginTurn
  <2>1. pending \o Queued \in Seq(1 .. MaxMsg)
    BY <1>t, QueuedIs DEF Queued
  <2> QED
    BY <1>t, <1>6, <2>1 DEF BeginTurn, MessageTypes
<1>7. CASE ModelAnswers
  BY <1>t, <1>7 DEF ModelAnswers, AnswerText, AnswerRejected, AnswerFailed, AnswerTools,
     AnswerTasks, MessageTypes
<1>12. CASE Say
  <2>1. sent + 1 \in 1 .. MaxMsg
    BY <1>t, <1>12, UpToSent DEF Say
  <2>2. Append(input, sent + 1) \in Seq(0 .. MaxMsg)
    BY <1>e, <1>t, <2>1, AppendProperties
  <2> QED
    BY <1>t, <1>12, <2>2 DEF Say, MessageTypes
<1>13. CASE Inform
  <2>1. Append(input, 0) \in Seq(0 .. MaxMsg)
    BY <1>t, UpToSent, AppendProperties
  <2> QED
    BY <1>t, <1>13, <2>1 DEF Inform, MessageTypes
<1>14. CASE CancelLoop
  BY <1>t, <1>14 DEF CancelLoop, MessageTypes
<1>15. CASE \E t \in running : TaskEnds(t) \/ TaskDies(t)
  BY <1>t, <1>15 DEF TaskEnds, TaskDies, MessageTypes
<1>16. CASE Crash
  <2>1. Messages(file') \in Seq(1 .. MaxMsg)
    BY MessagesType DEF EntryTypes
  <2>2. <<>> \in Seq(0 .. MaxMsg) /\ <<>> \in Seq(1 .. MaxMsg)
    OBVIOUS
  <2> QED
    BY <1>16, <2>1, <2>2 DEF Crash, MessageTypes
<1>17. CASE Restart
  BY <1>t, <1>17 DEF Restart, MessageTypes
<1>18. CASE UNCHANGED vars
  BY <1>t, <1>18 DEF vars, MessageTypes
<1> QED
  BY <1>1, <1>2, <1>3, <1>4, <1>5, <1>6, <1>7, <1>12, <1>13, <1>14, <1>15,
     <1>16, <1>17, <1>18 DEF Next, ModelAnswers

\* The tasks have their types.
LEMMA TaskTypesStay == ASSUME Typed, [Next]_vars PROVE TaskTypes'
<1> USE DEF turn, queues, disk, book, bounds
<1>t. TaskTypes /\ LoopTypes /\ BookTypes
  BY DEF Typed
<1>n. results' \in [Kinds -> Seq(Tasks)] /\ running' \subseteq Tasks /\ dead' \subseteq Tasks
        => TaskTypes'
  BY DEF TaskTypes
<1>1. CASE Save \/ TakePending \/ Stop \/ TakeInput \/ BeginTurn
  BY <1>t, <1>1 DEF Save, TakePending, Stop, TakeInput, BeginTurn, TaskTypes
<1>5. CASE TakeResult
  <2> DEFINE t == Head(results[NextKind])
             k == NextKind
  <2>1. k \in Kinds /\ Tail(results[k]) \in Seq(Tasks)
    <3>1. results[NextKind] # <<>>
      BY <1>5 DEF TakeResult
    <3> QED
      BY <1>t, <3>1, ResultIs
  <2>2. results' = [results EXCEPT ![k] = Tail(@)] /\ UNCHANGED <<running, dead>>
    BY <1>5 DEF TakeResult
  <2> HIDE DEF k
  <2>3. results' \in [Kinds -> Seq(Tasks)]
    BY <1>t, <2>1, <2>2 DEF TaskTypes
  <2> QED
    BY <1>t, <2>2, <2>3 DEF TaskTypes
<1>7. CASE AnswerText \/ AnswerRejected \/ AnswerFailed \/ AnswerTools
  BY <1>t, <1>7 DEF AnswerText, AnswerRejected, AnswerFailed, AnswerTools, TaskTypes
<1>8. CASE AnswerTasks
  <2>1. PICK n \in 1 .. MaxTask - tasks : \E kinds \in [1 .. n -> Kinds] :
           \E started \in Started(n, kinds) : running' = running \union started
    BY <1>8 DEF AnswerTasks
  <2>k. PICK kinds \in [1 .. n -> Kinds] :
           \E started \in Started(n, kinds) : running' = running \union started
    BY <2>1
  <2>2. PICK started \in Started(n, kinds) : running' = running \union started
    BY <2>k
  <2>3. started \subseteq Tasks
    BY <1>t, StartedIs DEF LoopTypes
  <2>4. UNCHANGED <<results, dead>>
    BY <1>8 DEF AnswerTasks
  <2> QED
    BY <1>t, <2>2, <2>3, <2>4 DEF TaskTypes
<1>12. CASE Say \/ Inform \/ CancelLoop \/ Restart
  BY <1>t, <1>12 DEF Say, Inform, CancelLoop, Restart, TaskTypes
<1>15. CASE \E t \in running : TaskEnds(t) \/ TaskDies(t)
  <2>1. PICK t \in running : TaskEnds(t) \/ TaskDies(t)
    BY <1>15
  <2>2. t \in Tasks /\ t.kind \in Kinds
    BY <1>t, <2>1 DEF TaskTypes, Tasks
  <2>3. CASE TaskEnds(t)
    <3>1. Append(results[t.kind], t) \in Seq(Tasks)
      BY <1>t, <2>2, AppendProperties DEF TaskTypes
    <3>2. results' \in [Kinds -> Seq(Tasks)]
      BY <1>t, <2>2, <2>3, <3>1 DEF TaskEnds, TaskTypes
    <3> QED
      BY <1>t, <2>3, <3>2 DEF TaskEnds, TaskTypes
  <2>4. CASE TaskDies(t)
    BY <1>t, <2>2, <2>4 DEF TaskDies, TaskTypes
  <2> QED
    BY <2>1, <2>3, <2>4
<1>16. CASE Crash
  <2>1. [k \in Kinds |-> <<>>] \in [Kinds -> Seq(Tasks)]
    <3>1. <<>> \in Seq(Tasks)
      OBVIOUS
    <3> QED
      BY <3>1
  <2> QED
    BY <1>t, <1>16, <2>1 DEF Crash, TaskTypes
<1>18. CASE UNCHANGED vars
  BY <1>t, <1>18 DEF vars, TaskTypes
<1> QED
  BY <1>1, <1>5, <1>7, <1>8, <1>12, <1>15, <1>16, <1>18 DEF Next

\* The books have their types.
LEMMA BookTypesStay == ASSUME Typed, Asker, [Next]_vars PROVE BookTypes'
<1> USE DEF turn, queues, disk, bounds
<1>t. /\ TaskTypes /\ LoopTypes /\ BookTypes /\ calls \in Nat /\ tasks \in 0 .. MaxTask
      /\ origin \in 0 .. MaxMsg
  BY DEF Typed, LoopTypes
<1>u. ASSUME UNCHANGED <<book, tasks>> PROVE BookTypes'
  BY <1>t, <1>u DEF BookTypes, book
<1>w. ASSUME NEW i, owner' = Without(owner, i), tasks' = tasks
      PROVE  owner' \in [DOMAIN owner' -> Nat] /\ DOMAIN owner' \subseteq 1 .. tasks'
  BY <1>t, <1>w DEF Without, BookTypes
<1>1. CASE Save \/ TakePending \/ Stop \/ TakeInput \/ BeginTurn
  BY <1>u, <1>1 DEF Save, TakePending, Stop, TakeInput, BeginTurn
<1>5. CASE TakeResult
  <2> DEFINE t == Head(results[NextKind])
             g == owner[t.id]
             group == GroupAfter(g, t)
  <2>r. results[NextKind] # <<>> /\ tasks' = tasks
    BY <1>5 DEF TakeResult
  <2>1. CASE Orphaned(t)
    <3>1. owner' = Without(owner, t.id) /\ groups' = groups
      <4> HIDE DEF t
      <4> QED
        BY <2>1 DEF Orphaned
    <3> HIDE DEF t
    <3> QED
      BY <1>t, <1>w, <2>r, <3>1 DEF BookTypes
  <2>2. CASE Known(t) /\ Counted(t)
    <3>1. g \in DOMAIN groups /\ (group.left > 0 => group \in Groups)
      BY <1>t, <2>2, <2>r, ResultIs
    <3>2. /\ owner' = Without(owner, t.id)
          /\ \/ group.left > 0 /\ groups' = [groups EXCEPT ![g] = group]
             \/ groups' = Without(groups, g)
      <4> HIDE DEF t
      <4> QED
        BY <2>2 DEF Counted, GroupAfter
    <3> HIDE DEF t, g, group
    <3>3. CASE group.left > 0 /\ groups' = [groups EXCEPT ![g] = group]
      <4>1. groups' \in [DOMAIN groups' -> Groups] /\ DOMAIN groups' = DOMAIN groups
        BY <1>t, <3>1, <3>3 DEF BookTypes
      <4> QED
        BY <1>t, <1>w, <2>r, <3>2, <4>1 DEF BookTypes
    <3>4. CASE groups' = Without(groups, g)
      <4>1. groups' \in [DOMAIN groups' -> Groups] /\ DOMAIN groups' \subseteq DOMAIN groups
        BY <1>t, <3>4 DEF BookTypes, Without
      <4> QED
        BY <1>t, <1>w, <2>r, <3>2, <4>1 DEF BookTypes
    <3> QED
      BY <3>2, <3>3, <3>4
  <2> QED
    BY <1>5, <2>1, <2>2 DEF TakeResult
<1>7. CASE AnswerText \/ AnswerRejected \/ AnswerFailed \/ AnswerTools
  BY <1>u, <1>7 DEF AnswerText, AnswerRejected, AnswerFailed, AnswerTools
<1>8. CASE AnswerTasks
  <2>1. PICK n \in 1 .. MaxTask - tasks : \E kinds \in [1 .. n -> Kinds] :
           \E started \in Started(n, kinds) : Register(started) /\ tasks' = tasks + n
    BY <1>8 DEF AnswerTasks
  <2>k. PICK kinds \in [1 .. n -> Kinds] :
           \E started \in Started(n, kinds) : Register(started) /\ tasks' = tasks + n
    BY <2>1
  <2>2. PICK started \in Started(n, kinds) : Register(started) /\ tasks' = tasks + n
    BY <2>k
  <2> DEFINE I == Ids(started)
             c == Cardinality(started)
  <2>3. c \in Nat \ {0} /\ I \subseteq tasks + 1 .. tasks + n
    BY <1>t, StartedIs
  <2>4. I \subseteq 1 .. tasks' /\ 1 .. tasks \subseteq 1 .. tasks'
    <3> HIDE DEF I
    <3> QED
      BY <1>t, <2>2, <2>3
  <2>5. CASE UNCHANGED book
    BY <1>t, <2>4, <2>5 DEF BookTypes, book
  <2>6. CASE /\ owner' = [i \in I \union DOMAIN owner |-> IF i \in I THEN calls + 1 ELSE owner[i]]
             /\ groups' = [g \in {calls + 1} \union DOMAIN groups |->
                             IF g # calls + 1 THEN groups[g]
                             ELSE [left |-> c, done |-> <<>>, origin |-> origin]]
    <3>1. [left |-> c, done |-> <<>>, origin |-> origin] \in Groups
      <4>1. <<>> \in Seq(1 .. MaxTask)
        OBVIOUS
      <4> HIDE DEF c
      <4> QED
        BY <1>t, <2>3, <4>1 DEF Groups
    <3>2. calls + 1 \in Nat
      BY <1>t
    <3> DEFINE new == [left |-> c, done |-> <<>>, origin |-> origin]
               b == calls + 1
    <3> HIDE DEF I, c, new, b
    <3>3. groups' = [g \in {b} \union DOMAIN groups |-> IF g # b THEN groups[g] ELSE new]
      BY <2>6 DEF new, b
    <3>4. owner' = [i \in I \union DOMAIN owner |-> IF i \in I THEN b ELSE owner[i]]
      BY <2>6 DEF b
    <3>5. groups' \in [DOMAIN groups' -> Groups] /\ DOMAIN groups' \subseteq Nat
      BY <1>t, <3>1, <3>2, <3>3 DEF BookTypes, new, b
    <3>6. owner' \in [DOMAIN owner' -> Nat] /\ DOMAIN owner' \subseteq 1 .. tasks'
      BY <1>t, <2>4, <3>2, <3>4 DEF BookTypes, b
    <3> QED
      BY <3>5, <3>6 DEF BookTypes
  <2> QED
    BY <2>2, <2>5, <2>6 DEF Register
<1>12. CASE Say \/ Inform \/ CancelLoop \/ Restart
  BY <1>u, <1>12 DEF Say, Inform, CancelLoop, Restart
<1>15. CASE \E t \in running : TaskEnds(t) \/ TaskDies(t)
  BY <1>u, <1>15 DEF TaskEnds, TaskDies
<1>16. CASE Crash
  <2>1. groups' = <<>> /\ owner' = <<>>
    BY <1>16 DEF Crash
  <2>2. <<>> \in [DOMAIN <<>> -> Groups] /\ <<>> \in [DOMAIN <<>> -> Nat] /\ DOMAIN <<>> = {}
    OBVIOUS
  <2> QED
    BY <2>1, <2>2 DEF BookTypes
<1>18. CASE UNCHANGED vars
  BY <1>u, <1>18 DEF vars
<1> QED
  BY <1>1, <1>5, <1>7, <1>8, <1>12, <1>15, <1>16, <1>18 DEF Next

\* The types are kept.
LEMMA TypedStays == ASSUME Typed, Asker, [Next]_vars PROVE Typed'
BY LoopTypesStay, EntryTypesStay, MessageTypesStay, TaskTypesStay, BookTypesStay DEF Typed

-----------------------------------------------------------------------------
\* The asker.

\* The empty table is the one with no entries.
LEMMA EmptyTable == ASSUME NEW D, NEW f PROVE ([y \in D |-> f[y]] = <<>>) <=> D = {}
<1>1. DOMAIN [y \in D |-> f[y]] = D /\ DOMAIN <<>> = {}
  OBVIOUS
<1>2. D = {} => [y \in D |-> f[y]] = <<>>
  OBVIOUS
<1> QED
  BY <1>1, <1>2

\* A turn, and the tasks it waits for, stay those of the message heard last.
LEMMA AskerStays == ASSUME Typed, Asker, [Next]_vars PROVE Asker'
<1> USE DEF turn, queues, disk, bounds
<1>t. /\ TaskTypes /\ LoopTypes /\ BookTypes /\ heard \in Seq(1 .. MaxMsg)
      /\ pending \in Seq(1 .. MaxMsg) /\ input \in Seq(0 .. MaxMsg)
  BY DEF Typed, MessageTypes
<1>p. ASSUME NEW m \in 1 .. MaxMsg, ProcessMessage(m), state = "Idle", UNCHANGED book
      PROVE  Asker'
  <2>1. Append(heard, m) # <<>> /\ Last(Append(heard, m)) = m
    <3>1. Append(heard, m) # <<>> /\ Len(Append(heard, m)) = Len(heard) + 1
          /\ Append(heard, m)[Len(heard) + 1] = m
      BY <1>t, AppendProperties
    <3> QED
      BY <3>1 DEF Last
  <2> QED
    BY <1>p, <2>1 DEF ProcessMessage, Asker, book
<1>u. ASSUME UNCHANGED <<book, state, heard, origin>>,
             pc' = pc \/ (state = "Waiting" /\ pc' \in {"Turn", "Call"})
               \/ (state # "Waiting" /\ pc' \in {"Select", "Off"})
      PROVE  Asker'
  BY <1>u DEF Asker, book
<1>1. CASE Save
  BY <1>u, <1>1 DEF Save
<1>2. CASE TakePending
  <2>1. Head(pending) \in 1 .. MaxMsg
    BY <1>t, <1>2, HeadIs DEF TakePending, MustDrain
  <2> QED
    BY <1>p, <1>2, <2>1 DEF TakePending, MustDrain
<1>3. CASE Stop
  BY <1>u, <1>3 DEF Stop, Ready, Asker
<1>4. CASE TakeInput
  <2>1. Head(input) \in 0 .. MaxMsg
    BY <1>t, <1>4, HeadIs DEF TakeInput
  <2>2. CASE Head(input) # 0 /\ state = "Idle" /\ ProcessMessage(Head(input))
    <3>1. Head(input) \in 1 .. MaxMsg
      BY <2>1, <2>2, EntryIs
    <3> QED
      BY <1>4, <1>p, <2>2, <3>1 DEF TakeInput
  <2>3. CASE ~ (Head(input) # 0 /\ state = "Idle" /\ ProcessMessage(Head(input)))
    BY <1>4, <1>u, <2>3 DEF TakeInput
  <2> QED
    BY <2>2, <2>3
<1>5. CASE TakeResult
  <2> DEFINE t == Head(results[NextKind])
             g == owner[t.id]
             group == GroupAfter(g, t)
  <2>r. results[NextKind] # <<>> /\ heard' = heard /\ pc = "Select"
    BY <1>5 DEF TakeResult, Ready
  <2>1. CASE Orphaned(t)
    <3>1. UNCHANGED <<groups, state, heard, origin, pc>>
      <4> HIDE DEF t
      <4> QED
        BY <2>1, <2>r DEF Orphaned
    <3> QED
      BY <3>1 DEF Asker
  <2>2. CASE Known(t) /\ Counted(t)
    <3>1. g \in DOMAIN groups /\ group.origin = groups[g].origin
      BY <1>t, <2>2, <2>r, ResultIs
    <3>2. \/ group.left > 0 /\ groups' = [groups EXCEPT ![g] = group] /\ UNCHANGED <<pc, turn>>
          \/ /\ groups' = Without(groups, g)
             /\ \/ /\ groups' = <<>> /\ origin' = group.origin
                   /\ state' = "Waiting" /\ pc' = "Turn"
                \/ UNCHANGED <<pc, turn>>
      <4> HIDE DEF t
      <4> QED
        BY <2>2 DEF Counted, GroupAfter
    <3> HIDE DEF t, g, group
    <3>3. /\ state = "Processing" /\ heard # <<>> /\ origin = Last(heard)
          /\ \A h \in DOMAIN groups : groups[h].origin = origin
      BY <3>1 DEF Asker
    <3>4. CASE group.left > 0 /\ groups' = [groups EXCEPT ![g] = group] /\ UNCHANGED <<pc, turn>>
      <4>1. DOMAIN groups' = DOMAIN groups
            /\ \A h \in DOMAIN groups : groups'[h].origin = groups[h].origin
        BY <1>t, <3>1, <3>4 DEF BookTypes
      <4> QED
        BY <2>r, <3>3, <3>4, <4>1 DEF Asker
    <3>5. CASE groups' = Without(groups, g) /\ UNCHANGED <<pc, turn>>
      <4>1. DOMAIN groups' \subseteq DOMAIN groups
            /\ \A h \in DOMAIN groups' : groups'[h] = groups[h]
        BY <3>5 DEF Without
      <4> QED
        BY <2>r, <3>3, <3>5, <4>1 DEF Asker
    <3>6. CASE /\ groups' = <<>> /\ origin' = group.origin
               /\ state' = "Waiting" /\ pc' = "Turn"
      <4>1. DOMAIN groups' = {} /\ origin' = origin
        BY <3>1, <3>3, <3>6
      <4> QED
        BY <2>r, <3>3, <3>6, <4>1 DEF Asker
    <3> QED
      BY <3>2, <3>4, <3>5, <3>6
  <2> QED
    BY <1>5, <2>1, <2>2 DEF TakeResult
<1>6. CASE BeginTurn
  BY <1>6, <1>u DEF BeginTurn, Asker
<1>7. CASE AnswerText \/ AnswerFailed
  <2>1. /\ state = "Waiting" /\ heard' = heard /\ groups' = groups
        /\ state' = "Idle" /\ pc' = "Select"
    BY <1>7 DEF AnswerText, AnswerFailed, Answered, Asker, book
  <2> QED
    BY <2>1 DEF Asker
<1>8. CASE AnswerRejected \/ AnswerTools
  <2>1. /\ state = "Waiting" /\ UNCHANGED <<heard, groups, origin>>
        /\ state' = "Waiting" /\ pc' = "Turn"
    BY <1>8 DEF AnswerRejected, AnswerTools, Answered, Asker, book
  <2> QED
    BY <2>1 DEF Asker
<1>9. CASE AnswerTasks
  <2>1. /\ state = "Waiting" /\ UNCHANGED <<heard, origin>>
        /\ state' = "Processing" /\ pc' = "Select" /\ DOMAIN groups = {}
    BY <1>9 DEF AnswerTasks, Answered, Asker
  <2>2. PICK started : Register(started)
    BY <1>9 DEF AnswerTasks
  <2>3. \A g \in DOMAIN groups' : groups'[g].origin = origin
    BY <2>1, <2>2 DEF Register, book
  <2> QED
    BY <2>1, <2>3 DEF Asker
<1>12. CASE Say \/ Inform \/ CancelLoop
  BY <1>u, <1>12 DEF Say, Inform, CancelLoop
<1>15. CASE \E t \in running : TaskEnds(t) \/ TaskDies(t)
  BY <1>u, <1>15 DEF TaskEnds, TaskDies
<1>16. CASE Crash
  <2>1. DOMAIN groups' = {} /\ state' = "Idle" /\ pc' = "Down"
    <3>1. DOMAIN <<>> = {}
      OBVIOUS
    <3> QED
      BY <1>16, <3>1 DEF Crash
  <2> QED
    BY <2>1 DEF Asker
<1>17. CASE Restart
  BY <1>u, <1>17 DEF Restart, Asker
<1>18. CASE UNCHANGED vars
  BY <1>u, <1>18 DEF vars
<1> QED
  BY <1>1, <1>2, <1>3, <1>4, <1>5, <1>6, <1>7, <1>8, <1>9, <1>12, <1>15, <1>16,
     <1>17, <1>18 DEF Next

-----------------------------------------------------------------------------
\* The order of messages.

\* Two sequences in a row hold what both hold.
LEMMA ToSetConcat ==
    ASSUME NEW T, NEW s \in Seq(T), NEW t \in Seq(T)
    PROVE  ToSet(s \o t) = ToSet(s) \union ToSet(t)
<1> DEFINE st == s \o t
<1>1. /\ Len(s) \in Nat /\ Len(t) \in Nat
      /\ DOMAIN s = 1 .. Len(s) /\ DOMAIN t = 1 .. Len(t)
      /\ DOMAIN st = 1 .. Len(s) + Len(t)
      /\ \A i \in 1 .. Len(s) + Len(t) : st[i] = IF i <= Len(s) THEN s[i] ELSE t[i - Len(s)]
  OBVIOUS
<1> HIDE DEF st
<1>2. ASSUME NEW x \in ToSet(st) PROVE x \in ToSet(s) \union ToSet(t)
  <2>1. PICK i \in 1 .. Len(s) + Len(t) : x = st[i]
    BY <1>1, <1>2 DEF ToSet
  <2>2. CASE i <= Len(s)
    <3>1. i \in 1 .. Len(s) /\ x = s[i]
      BY <1>1, <2>1, <2>2
    <3> QED
      BY <1>1, <3>1 DEF ToSet
  <2>3. CASE ~ (i <= Len(s))
    <3>1. i - Len(s) \in 1 .. Len(t) /\ x = t[i - Len(s)]
      BY <1>1, <2>1, <2>3
    <3> QED
      BY <1>1, <3>1 DEF ToSet
  <2> QED
    BY <2>2, <2>3
<1>3. ASSUME NEW x \in ToSet(s) PROVE x \in ToSet(st)
  <2>1. PICK i \in 1 .. Len(s) : x = s[i]
    BY <1>1, <1>3 DEF ToSet
  <2>2. i \in 1 .. Len(s) + Len(t) /\ x = st[i]
    BY <1>1, <2>1
  <2> QED
    BY <1>1, <2>2 DEF ToSet
<1>4. ASSUME NEW x \in ToSet(t) PROVE x \in ToSet(st)
  <2>1. PICK i \in 1 .. Len(t) : x = t[i]
    BY <1>1, <1>4 DEF ToSet
  <2> DEFINE j == Len(s) + i
  <2>2. j \in 1 .. Len(s) + Len(t) /\ ~ (j <= Len(s)) /\ j - Len(s) = i
    BY <1>1
  <2> HIDE DEF j
  <2>3. x = st[j]
    BY <1>1, <2>1, <2>2
  <2> QED
    BY <1>1, <2>2, <2>3 DEF ToSet
<1> QED
  BY <1>2, <1>3, <1>4 DEF st

\* Two sequences in a row increase if both do and the second begins above the first.
LEMMA IncreasingConcat ==
    ASSUME NEW T, T \subseteq Int, NEW s \in Seq(T), NEW t \in Seq(T)
    PROVE  Increasing(s \o t) <=>
              /\ Increasing(s) /\ Increasing(t)
              /\ \A x \in ToSet(s), y \in ToSet(t) : x < y
<1> DEFINE st == s \o t
<1>1. /\ Len(s) \in Nat /\ Len(t) \in Nat
      /\ DOMAIN s = 1 .. Len(s) /\ DOMAIN t = 1 .. Len(t)
      /\ DOMAIN st = 1 .. Len(s) + Len(t)
      /\ \A i \in 1 .. Len(s) + Len(t) : st[i] = IF i <= Len(s) THEN s[i] ELSE t[i - Len(s)]
  OBVIOUS
<1> HIDE DEF st
<1>2. \A i \in 1 .. Len(s) : i \in 1 .. Len(s) + Len(t) /\ st[i] = s[i]
  BY <1>1
<1>3. ASSUME NEW i \in 1 .. Len(t)
      PROVE  Len(s) + i \in 1 .. Len(s) + Len(t) /\ st[Len(s) + i] = t[i]
  <2> DEFINE j == Len(s) + i
  <2>1. j \in 1 .. Len(s) + Len(t) /\ ~ (j <= Len(s)) /\ j - Len(s) = i
    BY <1>1
  <2> HIDE DEF j
  <2>2. st[j] = t[i]
    BY <1>1, <2>1
  <2> QED
    BY <2>1, <2>2 DEF j
<1>4. ASSUME Increasing(st)
      PROVE  /\ Increasing(s) /\ Increasing(t)
             /\ \A x \in ToSet(s), y \in ToSet(t) : x < y
  <2>1. Increasing(s)
    BY <1>1, <1>2, <1>4 DEF Increasing
  <2>2. ASSUME NEW i \in 1 .. Len(t), NEW j \in 1 .. Len(t), i < j PROVE t[i] < t[j]
    <3>1. Len(s) + i < Len(s) + j
      BY <1>1, <2>2
    <3>2. st[Len(s) + i] < st[Len(s) + j]
      BY <1>1, <1>3, <1>4, <3>1 DEF Increasing
    <3> QED
      BY <1>3, <3>2
  <2>3. ASSUME NEW i \in 1 .. Len(s), NEW j \in 1 .. Len(t) PROVE s[i] < t[j]
    <3>1. i < Len(s) + j
      BY <1>1
    <3>2. st[i] < st[Len(s) + j]
      BY <1>1, <1>2, <1>3, <1>4, <3>1 DEF Increasing
    <3> QED
      BY <1>2, <1>3, <3>2
  <2>4. Increasing(t)
    BY <1>1, <2>2 DEF Increasing
  <2>5. \A x \in ToSet(s), y \in ToSet(t) : x < y
    BY <1>1, <2>3 DEF ToSet
  <2> QED
    BY <2>1, <2>4, <2>5
<1>5. ASSUME Increasing(s), Increasing(t), \A x \in ToSet(s), y \in ToSet(t) : x < y
      PROVE  Increasing(st)
  <2> SUFFICES ASSUME NEW i \in 1 .. Len(s) + Len(t), NEW j \in 1 .. Len(s) + Len(t), i < j
               PROVE  st[i] < st[j]
    BY <1>1 DEF Increasing
  <2>1. CASE j <= Len(s)
    <3>1. i \in DOMAIN s /\ j \in DOMAIN s /\ st[i] = s[i] /\ st[j] = s[j]
      BY <1>1, <2>1
    <3> QED
      BY <1>5, <3>1 DEF Increasing
  <2>2. CASE ~ (j <= Len(s))
    <3>1. j - Len(s) \in DOMAIN t /\ st[j] = t[j - Len(s)]
      BY <1>1, <2>2
    <3>2. CASE i <= Len(s)
      <4>1. i \in DOMAIN s /\ st[i] = s[i]
        BY <1>1, <3>2
      <4>2. s[i] \in ToSet(s) /\ t[j - Len(s)] \in ToSet(t)
        BY <3>1, <4>1 DEF ToSet
      <4> QED
        BY <1>5, <3>1, <4>1, <4>2
    <3>3. CASE ~ (i <= Len(s))
      <4>1. i - Len(s) \in DOMAIN t /\ st[i] = t[i - Len(s)] /\ i - Len(s) < j - Len(s)
        BY <1>1, <3>3
      <4> QED
        BY <1>5, <3>1, <4>1 DEF Increasing
    <3> QED
      BY <3>2, <3>3
  <2> QED
    BY <2>1, <2>2
<1> QED
  BY <1>4, <1>5 DEF st

\* What a sequence holds, and a sequence of one number.
LEMMA ToSetIs ==
    /\ \A T : \A s \in Seq(T) : ToSet(s) \subseteq T
    /\ \A x : ToSet(<<x>>) = {x} /\ Increasing(<<x>>)
    /\ ToSet(<<>>) = {} /\ Increasing(<<>>)
<1>1. \A T : \A s \in Seq(T) : ToSet(s) \subseteq T
  BY DEF ToSet
<1>2. \A x : ToSet(<<x>>) = {x} /\ Increasing(<<x>>)
  <2> SUFFICES ASSUME NEW x PROVE ToSet(<<x>>) = {x} /\ Increasing(<<x>>)
    OBVIOUS
  <2>1. DOMAIN <<x>> = {1} /\ <<x>>[1] = x
    OBVIOUS
  <2> QED
    BY <2>1 DEF ToSet, Increasing
<1>3. ToSet(<<>>) = {} /\ Increasing(<<>>)
  BY DEF ToSet, Increasing
<1> QED
  BY <1>1, <1>2, <1>3

\* Messages in a row.
LEMMA Rows ==
    /\ \A a, b \in Seq(1 .. MaxMsg) : a \o b \in Seq(1 .. MaxMsg)
    /\ \A a, b, c \in Seq(1 .. MaxMsg) : (a \o b) \o c = a \o (b \o c)
    /\ \A a \in Seq(1 .. MaxMsg) : a \o <<>> = a /\ <<>> \o a = a
    /\ \A m \in 1 .. MaxMsg : <<m>> \in Seq(1 .. MaxMsg)
    /\ \A a \in Seq(1 .. MaxMsg), m \in 1 .. MaxMsg : Append(a, m) = a \o <<m>>
    /\ <<>> \in Seq(1 .. MaxMsg) /\ 1 .. MaxMsg \subseteq Int
<1> DEFINE M == 1 .. MaxMsg
<1>0. M \subseteq Int
  OBVIOUS
<1> HIDE DEF M
<1>1. \A a, b \in Seq(M) : a \o b \in Seq(M)
  BY ConcatProperties
<1>2. \A a, b, c \in Seq(M) : (a \o b) \o c = a \o (b \o c)
  BY ConcatAssociative
<1>3. \A a \in Seq(M) : a \o <<>> = a /\ <<>> \o a = a
  BY ConcatEmptySeq
<1>4. \A m \in M : <<m>> \in Seq(M)
  OBVIOUS
<1>5. \A a \in Seq(M), m \in M : Append(a, m) = a \o <<m>>
  BY AppendIsConcat
<1>6. <<>> \in Seq(M)
  OBVIOUS
<1> QED
  BY <1>0, <1>1, <1>2, <1>3, <1>4, <1>5, <1>6 DEF M

\* What they hold, and when they increase.
LEMMA RowsIncrease ==
    /\ \A a, b \in Seq(1 .. MaxMsg) : ToSet(a \o b) = ToSet(a) \union ToSet(b)
    /\ \A a, b \in Seq(1 .. MaxMsg) :
          Increasing(a \o b) <=>
             /\ Increasing(a) /\ Increasing(b)
             /\ \A x \in ToSet(a), y \in ToSet(b) : x < y
<1> DEFINE M == 1 .. MaxMsg
<1>1. M \subseteq Int
  OBVIOUS
<1> HIDE DEF M
<1>2. \A a, b \in Seq(M) : ToSet(a \o b) = ToSet(a) \union ToSet(b)
  BY ToSetConcat
<1>3. \A a, b \in Seq(M) :
         Increasing(a \o b) <=>
            /\ Increasing(a) /\ Increasing(b)
            /\ \A x \in ToSet(a), y \in ToSet(b) : x < y
  BY <1>1, IncreasingConcat
<1> QED
  BY <1>2, <1>3 DEF M

\* The head of the queue is a message, or is none.
LEMMA QueueIs ==
    ASSUME NEW s \in Seq(0 .. MaxMsg), s # <<>>
    PROVE  LET rest == Within(Tail(s), 1 .. MaxMsg)
           IN  /\ rest \in Seq(1 .. MaxMsg) /\ Head(s) \in 0 .. MaxMsg
               /\ Head(s) # 0 => /\ Head(s) \in 1 .. MaxMsg
                                 /\ Within(s, 1 .. MaxMsg) = <<Head(s)>> \o rest
               /\ Head(s) = 0 => Within(s, 1 .. MaxMsg) = rest
<1> DEFINE M == 1 .. MaxMsg
           N == 0 .. MaxMsg
           x == Head(s)
           r == Tail(s)
           rest == Within(r, M)
<1>1. x \in N /\ r \in Seq(N) /\ s = <<x>> \o r
  BY HeadIs
<1>2. (\A m \in N : m # 0 => m \in M) /\ 0 \notin M
  BY EntryIs
<1>3. rest \in Seq(M)
  <2>1. r \in Seq(N)
    BY <1>1
  <2> HIDE DEF r
  <2> QED
    BY <2>1, QueuedIs
<1>4. Within(s, M) = Within(<<x>>, M) \o rest
  <2>1. <<x>> \in Seq(N) /\ r \in Seq(N) /\ s = <<x>> \o r
    <3> HIDE DEF r, x, N
    <3> QED
      BY <1>1
  <2> HIDE DEF r, x, M, N
  <2>2. Within(<<x>> \o r, M) = Within(<<x>>, M) \o Within(r, M)
    <3>1. \A p, q \in Seq(N) : Within(p \o q, M) = Within(p, M) \o Within(q, M)
      BY WithinConcat
    <3> QED
      BY <2>1, <3>1
  <2> QED
    BY <2>1, <2>2
<1>5. Within(<<x>>, M) = IF x \in M THEN <<x>> ELSE <<>>
  <2> HIDE DEF M, x
  <2> QED
    BY WithinOne
<1>6. <<>> \o rest = rest
  <2> HIDE DEF rest
  <2> QED
    BY <1>3, Rows
<1> HIDE DEF rest, x, M, N
<1>7. /\ rest \in Seq(M) /\ x \in N
      /\ x # 0 => x \in M /\ Within(s, M) = <<x>> \o rest
      /\ x = 0 => Within(s, M) = rest
  BY <1>1, <1>2, <1>3, <1>4, <1>5, <1>6
<1> QED
  BY <1>7 DEF rest, x, M, N


\* A line that is appended, in full or not, leaves the file in the order of the messages.
LEMMA WrittenInOrder ==
    ASSUME Typed, FileInOrder, unsaved # <<>>,
           WriteLine(Head(unsaved)) \/ WriteCut(Head(unsaved))
    PROVE  LET left == Messages(file') \o Messages(Tail(unsaved))
           IN  Increasing(left) /\ ToSet(left) \subseteq ToSet(heard)
<1> DEFINE M == 1 .. MaxMsg
           x == Head(unsaved)
           G == Front(file)
           Y == Messages(<<file[Len(file)]>>)
           F == Messages(file)
           X == Messages(<<x>>)
           V == Messages(Tail(unsaved))
           U == Messages(unsaved)
           N == Messages(file')
<1>t. file \in Seq(Entries) /\ unsaved \in Seq(Entries) /\ EntryTypes /\ LoopTypes
  BY DEF Typed, EntryTypes
<1>1. x \in Entries /\ Tail(unsaved) \in Seq(Entries) /\ unsaved = <<x>> \o Tail(unsaved)
  BY <1>t, HeadIs
<1>2. \A e \in Entries : <<e>> \in Seq(Entries)
  OBVIOUS
<1>c. \A y, z \in Seq(Entries) : Messages(y \o z) = Messages(y) \o Messages(z)
  BY MessagesConcat
<1>3. file' \in {Append(file, x), file, G}
  <2> HIDE DEF x
  <2> QED
    BY <1>t, <1>1, WrittenIs DEF x
<1>4. U = X \o V /\ X \in Seq(M) /\ V \in Seq(M) /\ F \in Seq(M)
  <2>1. <<x>> \in Seq(Entries)
    BY <1>1, <1>2
  <2>2. X \in Seq(M) /\ V \in Seq(M) /\ F \in Seq(M)
    BY <1>t, <1>1, <2>1, MessagesType
  <2> HIDE DEF x
  <2> QED
    BY <1>1, <1>c, <2>1, <2>2
<1>5. /\ Increasing(F) /\ Increasing(U) /\ \A a \in ToSet(F), b \in ToSet(U) : a < b
      /\ ToSet(F) \union ToSet(U) \subseteq ToSet(heard)
      /\ Increasing(F \o U) /\ ToSet(F \o U) \subseteq ToSet(heard)
  <2>1. Increasing(F \o U) /\ ToSet(F \o U) \subseteq ToSet(heard)
    BY DEF FileInOrder, OnFile
  <2>2. U \in Seq(M)
    BY <1>t, MessagesType
  <2>3. F \in Seq(M)
    BY <1>4
  <2> HIDE DEF F, U
  <2>4. ToSet(F \o U) = ToSet(F) \union ToSet(U)
    BY <2>2, <2>3, RowsIncrease
  <2>5. Increasing(F) /\ Increasing(U) /\ \A a \in ToSet(F), b \in ToSet(U) : a < b
    BY <2>1, <2>2, <2>3, RowsIncrease
  <2> QED
    BY <2>1, <2>4, <2>5
<1>6. Increasing(V) /\ ToSet(V) \subseteq ToSet(U)
  <2> HIDE DEF F, U, X, V
  <2> QED
    BY <1>4, <1>5, RowsIncrease
<1> SUFFICES Increasing(N \o V) /\ ToSet(N \o V) \subseteq ToSet(heard)
  OBVIOUS
<1>7. CASE file' = Append(file, x)
  <2>1. N = F \o X
    <3>1. file' = file \o <<x>> /\ <<x>> \in Seq(Entries)
      <4> HIDE DEF x
      <4> QED
        BY <1>t, <1>1, <1>2, <1>7, AppendIsConcat
    <3> HIDE DEF x
    <3> QED
      BY <1>t, <1>c, <3>1
  <2> HIDE DEF F, U, X, V, N, x
  <2>2. (F \o X) \o V = F \o U
    <3>1. F \in Seq(M) /\ X \in Seq(M) /\ V \in Seq(M)
      BY <1>4
    <3> QED
      BY <1>4, <3>1, Rows
  <2> QED
    BY <1>5, <2>1, <2>2
<1>8. ASSUME NEW g \in Seq(M), N = g, Increasing(g), ToSet(g) \subseteq ToSet(F)
      PROVE  Increasing(N \o V) /\ ToSet(N \o V) \subseteq ToSet(heard)
  <2> HIDE DEF F, U, X, V, N, x
  <2>1. \A a \in ToSet(g), b \in ToSet(V) : a < b
    BY <1>5, <1>6, <1>8
  <2>2. Increasing(g \o V) /\ ToSet(g \o V) = ToSet(g) \union ToSet(V)
    BY <1>4, <1>6, <1>8, <2>1, RowsIncrease
  <2> QED
    BY <1>5, <1>6, <1>8, <2>2
<1>9. CASE file' = file
  BY <1>4, <1>5, <1>8, <1>9
<1>10. CASE file' = G /\ file # <<>>
  <2>1. G \in Seq(Entries) /\ file[Len(file)] \in Entries /\ file = G \o <<file[Len(file)]>>
    BY <1>t, <1>10, FrontIs
  <2> DEFINE g == Messages(G)
  <2>2. F = g \o Y /\ g \in Seq(M) /\ Y \in Seq(M) /\ N = g
    <3>1. <<file[Len(file)]>> \in Seq(Entries)
      BY <1>2, <2>1
    <3>2. g \in Seq(M) /\ Y \in Seq(M) /\ N = g
      BY <1>10, <2>1, <3>1, MessagesType
    <3> HIDE DEF G
    <3> QED
      BY <1>c, <2>1, <3>1, <3>2
  <2>3. Increasing(g) /\ ToSet(g) \subseteq ToSet(F)
    <3> HIDE DEF F, g, Y, U
    <3> QED
      BY <1>5, <2>2, RowsIncrease
  <2> QED
    BY <1>8, <2>2, <2>3
<1>11. CASE file' = G /\ file = <<>>
  <2>1. file' = file
    BY <1>t, <1>11, FrontIs
  <2> QED
    BY <1>9, <2>1
<1> QED
  BY <1>3, <1>7, <1>9, <1>10, <1>11

\* What a crash leaves of the file is in the order of the messages.
LEMMA CrashLeavesOrder ==
    ASSUME Typed, FileInOrder, Crash, EntryTypes'
    PROVE  /\ Messages(file') \in Seq(1 .. MaxMsg) /\ Increasing(Messages(file'))
           /\ ToSet(Messages(file')) \subseteq ToSet(heard)
<1> DEFINE M == 1 .. MaxMsg
           N == Messages(file')
<1>1. N \in Seq(M)
  BY MessagesType DEF EntryTypes
<1>2. PICK V \in Seq(M) : Increasing(N \o V) /\ ToSet(N \o V) \subseteq ToSet(heard)
  <2>1. CASE unsaved = <<>>
    <3>1. file' = file
      BY <2>1 DEF Crash, disk
    <3>2. Increasing(N \o Messages(unsaved)) /\ ToSet(N \o Messages(unsaved)) \subseteq ToSet(heard)
      BY <3>1 DEF FileInOrder, OnFile
    <3>3. Messages(unsaved) \in Seq(M)
      BY MessagesType DEF Typed, EntryTypes
    <3> QED
      BY <3>2, <3>3
  <2>2. CASE unsaved # <<>> /\ WriteCut(Head(unsaved))
    <3>1. Tail(unsaved) \in Seq(Entries)
      BY <2>2, HeadIs DEF Typed, EntryTypes
    <3>2. Messages(Tail(unsaved)) \in Seq(M)
      BY <3>1, MessagesType
    <3>3. /\ Increasing(N \o Messages(Tail(unsaved)))
          /\ ToSet(N \o Messages(Tail(unsaved))) \subseteq ToSet(heard)
      BY <2>2, WrittenInOrder
    <3> QED
      BY <3>2, <3>3
  <2> QED
    BY <2>1, <2>2 DEF Crash
<1> HIDE DEF N
<1> QED
  BY <1>1, <1>2, RowsIncrease DEF N

\* Every message sent and not lost is known, in its order.
LEMMA KnownStays ==
    ASSUME Typed, EntryTypes', KnownInOrder, FileInOrder, [Next]_vars PROVE KnownInOrder'
<1> USE DEF turn, queues, disk, book, bounds
<1> DEFINE M == 1 .. MaxMsg
           Q == Within(input, M)
           R == Within(input', M)
<1>t. /\ LoopTypes /\ heard \in Seq(M) /\ pending \in Seq(M) /\ input \in Seq(0 .. MaxMsg)
      /\ Q \in Seq(M) /\ EntryTypes
  BY QueuedIs DEF Typed, MessageTypes
<1>k. KnownMessages = heard \o pending \o Q /\ KnownMessages' = heard' \o pending' \o R
  BY DEF KnownMessages, Queued
<1>u. ASSUME UNCHANGED <<sent, lost>>, heard' \o pending' \o R = heard \o pending \o Q
      PROVE  KnownInOrder'
  <2>1. KnownMessages' = KnownMessages
    BY <1>k, <1>u
  <2> QED
    BY <1>u, <2>1 DEF KnownInOrder
<1>s. ASSUME UNCHANGED <<sent, lost, heard, pending, input>> PROVE KnownInOrder'
  BY <1>s, <1>u
<1>p. ASSUME NEW m \in M, ProcessMessage(m) PROVE heard' = heard \o <<m>>
  BY <1>t, <1>p, Rows DEF ProcessMessage
<1>1. CASE Save
  BY <1>s, <1>1 DEF Save
<1>2. CASE TakePending
  <2> DEFINE m == Head(pending)
             p == Tail(pending)
  <2>1. m \in M /\ p \in Seq(M) /\ pending = <<m>> \o p
    BY <1>t, <1>2, HeadIs DEF TakePending, MustDrain
  <2>2. ProcessMessage(m) /\ UNCHANGED <<sent, lost, input>> /\ pending' = p
    BY <1>2 DEF TakePending
  <2>3. heard' = heard \o <<m>>
    <3> HIDE DEF m
    <3> QED
      BY <1>p, <2>1, <2>2
  <2> HIDE DEF m, p, Q
  <2>4. (heard \o <<m>>) \o p = heard \o pending
    BY <1>t, <2>1, Rows
  <2> QED
    BY <1>u, <2>2, <2>3, <2>4 DEF Q
<1>3. CASE Stop
  BY <1>s, <1>3 DEF Stop
<1>4. CASE TakeInput
  <2> DEFINE m == Head(input)
  <2>1. /\ R \in Seq(M) /\ m \in 0 .. MaxMsg
        /\ m # 0 => m \in M /\ Q = <<m>> \o R
        /\ m = 0 => Q = R
    <3>1. input # <<>> /\ input' = Tail(input)
      BY <1>4 DEF TakeInput
    <3> QED
      BY <1>t, <3>1, QueueIs
  <2>2. UNCHANGED <<sent, lost>>
    BY <1>4 DEF TakeInput
  <2>3. CASE m = 0 /\ UNCHANGED <<heard, pending>>
    BY <1>u, <2>1, <2>2, <2>3
  <2>4. CASE m # 0 /\ state = "Idle" /\ ProcessMessage(m) /\ pending' = pending
    <3>1. heard' = heard \o <<m>> /\ pending = <<>>
      <4>1. pending = <<>>
        BY <1>4, <2>4 DEF TakeInput, MustDrain
      <4> HIDE DEF m
      <4> QED
        BY <1>p, <2>1, <2>4, <4>1
    <3> HIDE DEF m, Q, R
    <3>2. (heard \o <<>>) \o (<<m>> \o R) = ((heard \o <<m>>) \o <<>>) \o R
      <4>1. heard \o <<>> = heard /\ (heard \o <<m>>) \o <<>> = heard \o <<m>>
        BY <1>t, <2>1, <2>4, Rows
      <4>2. (heard \o <<m>>) \o R = heard \o (<<m>> \o R)
        <5>1. <<m>> \in Seq(M) /\ R \in Seq(M) /\ heard \in Seq(M)
          BY <1>t, <2>1, <2>4, Rows
        <5> QED
          BY <5>1, Rows
      <4> QED
        BY <4>1, <4>2
    <3> QED
      BY <1>u, <2>1, <2>2, <2>4, <3>1, <3>2
  <2>5. CASE m # 0 /\ pending' = Append(pending, m) /\ heard' = heard
    <3> HIDE DEF m, Q, R
    <3>1. m \in M /\ Q = <<m>> \o R /\ pending' = pending \o <<m>>
      BY <1>t, <2>1, <2>5, Rows
    <3>2. (heard \o (pending \o <<m>>)) \o R = (heard \o pending) \o (<<m>> \o R)
      <4>1. (heard \o pending) \o <<m>> = heard \o (pending \o <<m>>)
        <5>1. heard \in Seq(M) /\ pending \in Seq(M) /\ <<m>> \in Seq(M)
          BY <1>t, <3>1, Rows
        <5> QED
          BY <5>1, Rows
      <4>2. ((heard \o pending) \o <<m>>) \o R = (heard \o pending) \o (<<m>> \o R)
        <5>1. <<m>> \in Seq(M) /\ R \in Seq(M) /\ heard \o pending \in Seq(M)
          BY <1>t, <2>1, <3>1, Rows
        <5> QED
          BY <5>1, Rows
      <4> QED
        BY <4>1, <4>2
    <3> QED
      BY <1>u, <2>2, <2>5, <3>1, <3>2
  <2> QED
    BY <1>4, <2>3, <2>4, <2>5 DEF TakeInput
<1>5. CASE TakeResult
  BY <1>s, <1>5 DEF TakeResult, Orphaned, Counted
<1>6. CASE BeginTurn
  <2>1. UNCHANGED <<sent, lost, heard>> /\ pending' = pending \o Q /\ R = <<>>
    BY <1>6, WithinEmpty DEF BeginTurn, Queued
  <2> HIDE DEF R, Q
  <2>2. (heard \o (pending \o Q)) \o <<>> = (heard \o pending) \o Q
    <3>1. heard \in Seq(M) /\ pending \in Seq(M) /\ Q \in Seq(M)
      BY <1>t
    <3>2. (heard \o pending) \o Q = heard \o (pending \o Q)
      BY <3>1, Rows
    <3>3. (heard \o pending) \o Q \in Seq(M)
      BY <3>1, Rows
    <3> DEFINE z == (heard \o pending) \o Q
    <3>4. z \o <<>> = z
      <4> HIDE DEF z
      <4>1. z \in Seq(M)
        BY <3>3 DEF z
      <4> QED
        BY <4>1, Rows
    <3> QED
      BY <3>2, <3>4
  <2> QED
    BY <1>u, <2>1, <2>2
<1>7. CASE ModelAnswers
  BY <1>s, <1>7 DEF ModelAnswers, AnswerText, AnswerRejected, AnswerFailed, AnswerTools,
     AnswerTasks
<1>12. CASE Say
  <2> DEFINE m == sent + 1
             K == KnownMessages
  <2>1. /\ m \in M /\ sent \in Nat /\ input' = Append(input, m) /\ sent' = m
        /\ UNCHANGED <<heard, pending, lost>>
    BY <1>t, <1>12, UpToSent DEF Say
  <2>2. R = Q \o <<m>>
    <3>1. m \in 0 .. MaxMsg /\ <<m>> \in Seq(0 .. MaxMsg)
      BY <2>1
    <3>2. input' = input \o <<m>>
      <4> DEFINE N == 0 .. MaxMsg
      <4>1. input \in Seq(N) /\ m \in N
        BY <1>t, <3>1
      <4> HIDE DEF N, m
      <4> QED
        BY <2>1, <4>1, AppendIsConcat
    <3>3. Within(<<m>>, M) = <<m>>
      <4> HIDE DEF M, m
      <4> QED
        BY <2>1, WithinOne
    <3>4. Within(input \o <<m>>, M) = Within(input, M) \o Within(<<m>>, M)
      <4> DEFINE N == 0 .. MaxMsg
      <4>1. input \in Seq(N) /\ <<m>> \in Seq(N)
        BY <1>t, <3>1
      <4> HIDE DEF N, M, m
      <4>2. \A p, q \in Seq(N) : Within(p \o q, M) = Within(p, M) \o Within(q, M)
        BY WithinConcat
      <4> QED
        BY <4>1, <4>2
    <3> QED
      BY <3>2, <3>3, <3>4
  <2>3. K \in Seq(M)
    <3> HIDE DEF Q
    <3> QED
      BY <1>t, <1>k, Rows
  <2>4. KnownMessages' = K \o <<m>>
    <3> HIDE DEF m, Q, R
    <3>1. KnownMessages' = (heard \o pending) \o (Q \o <<m>>)
      BY <1>k, <2>1, <2>2
    <3>2. ((heard \o pending) \o Q) \o <<m>> = (heard \o pending) \o (Q \o <<m>>)
      <4>1. <<m>> \in Seq(M) /\ Q \in Seq(M) /\ heard \o pending \in Seq(M)
        BY <1>t, <2>1, Rows
      <4> QED
        BY <4>1, Rows
    <3> QED
      BY <1>k, <3>1, <3>2
  <2>5. Increasing(K) /\ ToSet(K) = (1 .. sent) \ lost
    BY DEF KnownInOrder
  <2>6. <<m>> \in Seq(M) /\ ToSet(<<m>>) = {m} /\ Increasing(<<m>>)
    <3> HIDE DEF m
    <3> QED
      BY <2>1, Rows, ToSetIs
  <2>7. \A x \in ToSet(K), y \in {m} : x < y
    BY <2>1, <2>5
  <2>8. (1 .. m) \ lost = ((1 .. sent) \ lost) \union {m}
    <3>1. lost \subseteq 1 .. sent
      BY <1>t DEF LoopTypes
    <3>2. 1 .. m = (1 .. sent) \union {m} /\ m \notin 1 .. sent
      BY <2>1
    <3> HIDE DEF m
    <3> QED
      BY <3>1, <3>2
  <2> HIDE DEF m, K, M
  <2>9. Increasing(K \o <<m>>) /\ ToSet(K \o <<m>>) = ToSet(K) \union {m}
    <3>1. M \subseteq Int
      BY Rows DEF M
    <3>2. K \in Seq(1 .. MaxMsg) /\ <<m>> \in Seq(1 .. MaxMsg)
      BY <2>3, <2>6 DEF M
    <3>3. ToSet(K \o <<m>>) = ToSet(K) \union ToSet(<<m>>)
      BY <3>2, RowsIncrease
    <3>4. \A x \in ToSet(K), y \in ToSet(<<m>>) : x < y
      BY <2>6, <2>7
    <3>5. Increasing(K) /\ Increasing(<<m>>)
      BY <2>5, <2>6
    <3>6. Increasing(K \o <<m>>)
      BY <3>2, <3>4, <3>5, RowsIncrease
    <3> QED
      BY <2>6, <3>3, <3>6
  <2> QED
    BY <2>1, <2>4, <2>5, <2>8, <2>9 DEF KnownInOrder
<1>13. CASE Inform
  <2>1. /\ input' = Append(input, 0) /\ UNCHANGED <<heard, pending, sent, lost>>
    BY <1>13 DEF Inform
  <2>2. R = Q
    <3> DEFINE N == 0 .. MaxMsg
    <3>1. 0 \in N /\ 0 \notin M /\ input \in Seq(N) /\ <<0>> \in Seq(N)
      BY <1>t, UpToSent
    <3>2. input' = input \o <<0>>
      <4> HIDE DEF N
      <4> QED
        BY <2>1, <3>1, AppendIsConcat
    <3>3. Within(input \o <<0>>, M) = Within(input, M) \o Within(<<0>>, M)
      <4> HIDE DEF N, M
      <4>2. \A p, q \in Seq(N) : Within(p \o q, M) = Within(p, M) \o Within(q, M)
        BY WithinConcat
      <4> QED
        BY <3>1, <4>2
    <3>4. Within(<<0>>, M) = <<>>
      <4> HIDE DEF M
      <4> QED
        BY <3>1, WithinOne
    <3>5. Q \o <<>> = Q
      <4> HIDE DEF Q
      <4> QED
        BY <1>t, Rows
    <3> QED
      BY <3>2, <3>3, <3>4, <3>5
  <2> QED
    BY <1>u, <2>1, <2>2
<1>14. CASE CancelLoop
  BY <1>s, <1>14 DEF CancelLoop
<1>15. CASE \E t \in running : TaskEnds(t) \/ TaskDies(t)
  BY <1>s, <1>15 DEF TaskEnds, TaskDies
<1>16. CASE Crash
  <2> DEFINE F == Messages(file')
             K == KnownMessages
  <2>1. /\ heard' = F /\ pending' = <<>> /\ R = <<>> /\ sent' = sent
        /\ lost' = (1 .. sent) \ ToSet(F)
    BY <1>16, WithinEmpty DEF Crash
  <2>2. F \in Seq(M)
    BY <1>16, CrashLeavesOrder
  <2>3. Increasing(F) /\ ToSet(F) \subseteq ToSet(heard)
    BY <1>16, CrashLeavesOrder
  <2>4. ToSet(heard) \subseteq ToSet(K)
    <3> HIDE DEF Q
    <3>1. ToSet(heard \o pending) = ToSet(heard) \union ToSet(pending)
          /\ heard \o pending \in Seq(M)
      BY <1>t, Rows, RowsIncrease
    <3>2. ToSet((heard \o pending) \o Q) = ToSet(heard \o pending) \union ToSet(Q)
      BY <1>t, <3>1, RowsIncrease
    <3> QED
      BY <1>k, <3>1, <3>2
  <2>5. ToSet(F) \subseteq 1 .. sent
    BY <2>3, <2>4 DEF KnownInOrder
  <2>6. KnownMessages' = F
    <3> HIDE DEF F, R
    <3>1. (F \o <<>>) \o <<>> = F
      BY <2>2, Rows
    <3> QED
      BY <1>k, <2>1, <3>1
  <2> HIDE DEF F, K, M
  <2> QED
    BY <2>1, <2>3, <2>5, <2>6 DEF KnownInOrder
<1>17. CASE Restart
  BY <1>s, <1>17 DEF Restart
<1>18. CASE UNCHANGED vars
  BY <1>s, <1>18 DEF vars
<1> QED
  BY <1>1, <1>2, <1>3, <1>4, <1>5, <1>6, <1>7, <1>12, <1>13, <1>14, <1>15, <1>16,
     <1>17, <1>18 DEF Next, ModelAnswers

\* No entry is a user message.
Plain(e) == \A i \in DOMAIN e : e[i].kind # "user"

\* One entry, or two.
LEMMA PlainOnes ==
    /\ \A x : x.kind # "user" => Plain(<<x>>)
    /\ \A x, y : x.kind # "user" /\ y.kind # "user" => Plain(<<x, y>>)
    /\ \A k, n : Entry(k, n).kind = k /\ Called(Entry(k, n)) = 0 /\ Entry(k, n).of = n
    /\ \A n : Reply(n).kind = "assistant" /\ Called(Reply(n)) = n
    /\ \A n : Answer(n).kind = "answer" /\ Called(Answer(n)) = 0
<1>1. \A x : DOMAIN <<x>> = {1} /\ <<x>>[1] = x
  OBVIOUS
<1>2. \A x, y : DOMAIN <<x, y>> = {1, 2} /\ <<x, y>>[1] = x /\ <<x, y>>[2] = y
  OBVIOUS
<1>3. /\ \A k, n : Entry(k, n).kind = k /\ Called(Entry(k, n)) = 0 /\ Entry(k, n).of = n
      /\ \A n : Reply(n).kind = "assistant" /\ Called(Reply(n)) = n
      /\ \A n : Answer(n).kind = "answer" /\ Called(Answer(n)) = 0
  BY DEF Entry, Reply, Answer, Called
<1>4. \A x : x.kind # "user" => Plain(<<x>>)
  BY <1>1 DEF Plain
<1>5. \A x, y : x.kind # "user" /\ y.kind # "user" => Plain(<<x, y>>)
  BY <1>2 DEF Plain
<1> QED
  BY <1>3, <1>4, <1>5

\* A reply with the results of its calls.
LEMMA PlainCalls ==
    ASSUME NEW n \in 1 .. MaxTask + 1, n <= MaxMsg + MaxTask
    PROVE  Plain(<<Reply(n)>> \o ToolEntries(n))
<1> DEFINE c == <<Reply(n)>> \o ToolEntries(n)
<1>1. /\ c \in Seq(Entries) /\ Len(c) = n + 1 /\ c[1] = Reply(n)
      /\ \A i \in 1 .. n : c[i + 1] = Entry("tool", i)
  BY CallsAre
<1>2. n \in Nat /\ DOMAIN c = 1 .. n + 1
  <2> HIDE DEF c
  <2> QED
    BY <1>1, EntryIs
<1> HIDE DEF c
<1>3. ASSUME NEW j \in 1 .. n + 1 PROVE c[j].kind # "user"
  <2>1. CASE j = 1
    BY <1>1, <2>1, PlainOnes
  <2>2. CASE j # 1
    <3> DEFINE i == j - 1
    <3>1. i \in 1 .. n /\ i + 1 = j
      BY <1>2, <2>2
    <3> HIDE DEF i
    <3>2. c[j] = Entry("tool", i)
      BY <1>1, <3>1
    <3> QED
      BY <3>2, PlainOnes
  <2> QED
    BY <2>1, <2>2
<1> QED
  BY <1>2, <1>3 DEF c, Plain

\* The entries of the file, and those that are to follow, are in the order of the messages.
LEMMA FileStays ==
    ASSUME Typed, Asker, EntryTypes', KnownInOrder, KnownInOrder', FileInOrder, [Next]_vars
    PROVE  FileInOrder'
<1> USE DEF turn, queues, disk, book, bounds
<1> DEFINE M == 1 .. MaxMsg
           F == Messages(file)
           U == Messages(unsaved)
           V == Messages(unsaved')
<1>t. /\ LoopTypes /\ heard \in Seq(M) /\ pending \in Seq(M) /\ input \in Seq(0 .. MaxMsg)
      /\ file \in Seq(Entries) /\ unsaved \in Seq(Entries) /\ F \in Seq(M) /\ U \in Seq(M)
  BY MessagesType DEF Typed, MessageTypes, EntryTypes
<1>m. /\ MessageTypes' /\ heard' \in Seq(M) /\ pending' \in Seq(M)
      /\ Within(input', M) \in Seq(M)
  BY MessageTypesStay, QueuedIs DEF MessageTypes
<1>f. Increasing(F \o U) /\ ToSet(F \o U) \subseteq ToSet(heard)
  BY DEF FileInOrder, OnFile
<1>s. ASSUME file' = file, heard' = heard, V = U PROVE FileInOrder'
  BY <1>f, <1>s DEF FileInOrder, OnFile
<1>e. \A e \in Seq(Entries) : Plain(e) => Messages(e) = <<>>
  BY MessagesNone DEF Plain
<1>p. ASSUME NEW e \in Seq(Entries), Plain(e), unsaved' = unsaved \o e, UNCHANGED <<file, heard>>
      PROVE  FileInOrder'
  <2>1. V = U \o Messages(e)
    <3>1. \A x, y \in Seq(Entries) : Messages(x \o y) = Messages(x) \o Messages(y)
      BY MessagesConcat
    <3> QED
      BY <1>t, <1>p, <3>1
  <2>2. U \o <<>> = U /\ Messages(e) = <<>>
    <3> HIDE DEF U
    <3> QED
      BY <1>t, <1>p, <1>e, Rows
  <2> HIDE DEF U, V
  <2> QED
    BY <1>s, <1>p, <2>1, <2>2
<1>n. ASSUME NEW e \in Seq(Entries), Plain(e), unsaved = <<>>, unsaved' = e,
             UNCHANGED <<file, heard>>
      PROVE  FileInOrder'
  <2>1. <<>> \o e = e
    BY ConcatEmptySeq
  <2> QED
    BY <1>n, <1>p, <2>1
<1>q. ASSUME NEW m \in M, ProcessMessage(m), file' = file PROVE FileInOrder'
  <2>1. heard' = heard \o <<m>> /\ <<m>> \in Seq(M)
    BY <1>t, <1>q, Rows DEF ProcessMessage
  <2>2. V = U \o <<m>>
    <3>1. <<Entry("user", m)>> \in Seq(Entries) /\ Messages(<<Entry("user", m)>>) = <<m>>
      <4>1. "user" \in EntryKinds /\ m \in 0 .. MaxMsg + MaxTask
        BY EntryIs DEF EntryKinds
      <4> QED
        BY <4>1, OneEntry, MessagesOne
    <3>2. unsaved' = unsaved \o <<Entry("user", m)>>
      BY <1>q DEF ProcessMessage, Push
    <3>3. \A x, y \in Seq(Entries) : Messages(x \o y) = Messages(x) \o Messages(y)
      BY MessagesConcat
    <3> QED
      BY <1>t, <3>1, <3>2, <3>3
  <2>3. OnFile' = (F \o U) \o <<m>>
    <3>1. OnFile' = F \o V
      BY <1>q DEF OnFile
    <3> HIDE DEF F, U, V
    <3>2. (F \o U) \o <<m>> = F \o (U \o <<m>>)
      <4>1. F \in Seq(M) /\ U \in Seq(M) /\ <<m>> \in Seq(M)
        BY <1>t, <2>1
      <4> QED
        BY <4>1, Rows
    <3> QED
      BY <2>2, <3>1, <3>2
  <2>4. \A x \in ToSet(heard), y \in ToSet(<<m>>) : x < y
    <3> DEFINE q == Within(input', M)
    <3>1. Increasing(heard' \o pending' \o q)
      BY DEF KnownInOrder, KnownMessages, Queued
    <3> HIDE DEF q
    <3>2. heard' \o pending' \in Seq(M) /\ q \in Seq(M)
      BY <1>m, Rows DEF q
    <3>3. Increasing(heard' \o pending')
      BY <3>1, <3>2, RowsIncrease
    <3>4. Increasing(heard')
      BY <1>m, <3>3, RowsIncrease
    <3> QED
      BY <1>t, <2>1, <3>4, RowsIncrease
  <2> HIDE DEF F, U
  <2>5. F \o U \in Seq(M)
    BY <1>t, Rows
  <2>6. \A x \in ToSet(F \o U), y \in ToSet(<<m>>) : x < y
    BY <1>f, <2>4
  <2>7. Increasing((F \o U) \o <<m>>)
    <3>1. Increasing(<<m>>)
      BY ToSetIs
    <3> QED
      BY <1>f, <2>1, <2>5, <2>6, <3>1, RowsIncrease
  <2>8. /\ ToSet((F \o U) \o <<m>>) = ToSet(F \o U) \union ToSet(<<m>>)
        /\ ToSet(heard') = ToSet(heard) \union ToSet(<<m>>)
    BY <1>t, <2>1, <2>5, RowsIncrease
  <2> QED
    BY <1>f, <2>3, <2>7, <2>8 DEF FileInOrder
<1>1. CASE Save
  <2>1. unsaved # <<>> /\ (WriteLine(Head(unsaved)) \/ WriteCut(Head(unsaved)))
    BY <1>1 DEF Save
  <2>2. OnFile' = Messages(file') \o Messages(Tail(unsaved)) /\ heard' = heard
    BY <1>1 DEF Save, OnFile
  <2> QED
    BY <2>1, <2>2, WrittenInOrder DEF FileInOrder
<1>2. CASE TakePending
  <2>1. Head(pending) \in M
    BY <1>t, <1>2, HeadIs DEF TakePending, MustDrain
  <2>2. ProcessMessage(Head(pending)) /\ file' = file
    BY <1>2 DEF TakePending
  <2> QED
    BY <1>q, <2>1, <2>2
<1>3. CASE Stop
  BY <1>s, <1>3 DEF Stop
<1>4. CASE TakeInput
  <2>1. Head(input) \in 0 .. MaxMsg
    BY <1>t, <1>4, HeadIs DEF TakeInput
  <2>f. file' = file
    BY <1>4 DEF TakeInput
  <2>2. CASE Push(<<Entry("context", 0)>>) /\ heard' = heard
    <3>1. <<Entry("context", 0)>> \in Seq(Entries) /\ Plain(<<Entry("context", 0)>>)
      BY OneEntry, PlainOnes
    <3> QED
      BY <1>p, <2>2, <2>f, <3>1 DEF Push
  <2>3. CASE Head(input) # 0 /\ ProcessMessage(Head(input))
    <3>1. Head(input) \in M
      BY <2>1, <2>3, EntryIs
    <3> QED
      BY <1>q, <2>3, <2>f, <3>1
  <2>4. CASE UNCHANGED <<history, unsaved, heard>>
    BY <1>s, <2>4, <2>f
  <2> QED
    BY <1>4, <2>2, <2>3, <2>4 DEF TakeInput
<1>5. CASE TakeResult
  <2> DEFINE t == Head(results[NextKind])
             group == GroupAfter(owner[t.id], t)
  <2>f. UNCHANGED <<file, heard>> /\ results[NextKind] # <<>>
    BY <1>5 DEF TakeResult
  <2>t. t \in Tasks /\ (Known(t) => group.done \in Seq(1 .. MaxTask))
    BY <2>f, ResultIs DEF Typed
  <2>1. CASE Orphaned(t)
    <3>1. "result" \in EntryKinds /\ t.no \in 0 .. MaxMsg + MaxTask
      <4> HIDE DEF t
      <4> QED
        BY <2>t, EntryIs DEF EntryKinds, Tasks
    <3>2. Push(<<Entry("result", t.no)>>)
      <4> HIDE DEF t
      <4> QED
        BY <2>1 DEF Orphaned
    <3> DEFINE n == t.no
    <3>3. n \in 0 .. MaxMsg + MaxTask /\ Push(<<Entry("result", n)>>)
      BY <3>1, <3>2
    <3> HIDE DEF n
    <3>4. <<Entry("result", n)>> \in Seq(Entries) /\ Plain(<<Entry("result", n)>>)
      BY <3>1, <3>3, OneEntry, PlainOnes
    <3> QED
      BY <1>p, <2>f, <3>3, <3>4 DEF Push
  <2>2. CASE Known(t) /\ Counted(t)
    <3> DEFINE d == group.done
               e == [i \in DOMAIN d |-> Entry("result", d[i])]
    <3>1. UNCHANGED <<history, unsaved>> \/ Push(e)
      <4> HIDE DEF t
      <4> QED
        BY <2>2 DEF Counted, GroupAfter
    <3>2. e \in Seq(Entries) /\ Plain(e)
      <4>1. d \in Seq(1 .. MaxTask)
        BY <2>2, <2>t
      <4> HIDE DEF d
      <4>2. e \in Seq(Entries) /\ \A i \in DOMAIN e : e[i] = Entry("result", d[i])
        BY <4>1, ResultsAre
      <4> HIDE DEF e
      <4> QED
        BY <4>2, PlainOnes DEF Plain
    <3> HIDE DEF e
    <3> QED
      BY <1>p, <1>s, <2>f, <3>1, <3>2 DEF Push
  <2> QED
    BY <1>5, <2>1, <2>2 DEF TakeResult
<1>6. CASE BeginTurn
  <2>1. Updates \in Seq(Entries) /\ Plain(Updates)
    BY <1>t, UpdatesAre, PlainOnes DEF Plain
  <2>2. unsaved = <<>> /\ unsaved' = Updates /\ UNCHANGED <<file, heard>>
    BY <1>6 DEF BeginTurn, Updates
  <2> QED
    BY <1>n, <2>1, <2>2
<1>7. CASE AnswerText \/ AnswerFailed
  <2>1. PICK n \in {0, 1} : Push(<<Answer(n)>>) /\ UNCHANGED <<file, heard>>
    BY <1>7 DEF AnswerText, AnswerFailed
  <2>2. <<Answer(n)>> \in Seq(Entries) /\ Plain(<<Answer(n)>>)
    BY OneEntry, PlainOnes
  <2> QED
    BY <1>p, <2>1, <2>2 DEF Push
<1>8. CASE AnswerRejected
  <2>1. <<Entry("correction", 0)>> \in Seq(Entries) /\ Plain(<<Entry("correction", 0)>>)
    BY OneEntry, PlainOnes
  <2> QED
    BY <1>8, <1>n, <2>1 DEF AnswerRejected, Answered
<1>10. CASE AnswerTools
  <2>1. heard # <<>>
    BY <1>10 DEF AnswerTools, Answered, Asker
  <2>2. 1 \in 1 .. MaxTask + 1 /\ 1 <= MaxMsg + MaxTask
    <3>1. Head(heard) \in 1 .. MaxMsg
      BY <1>t, <2>1, HeadIs
    <3> QED
      BY <3>1, EntryIs
  <2> DEFINE c == <<Reply(1)>> \o ToolEntries(1)
  <2>3. c \in Seq(Entries) /\ Plain(c)
    BY <2>2, CallsAre, PlainCalls
  <2>4. unsaved' = unsaved \o c /\ UNCHANGED <<file, heard>>
    BY <1>10 DEF AnswerTools, Push
  <2> HIDE DEF c
  <2> QED
    BY <1>p, <2>3, <2>4
<1>11. CASE AnswerTasks
  <2>1. PICK n \in 1 .. MaxTask - tasks : Push(<<Reply(n)>> \o ToolEntries(n))
    BY <1>11 DEF AnswerTasks
  <2>2. n \in 1 .. MaxTask + 1 /\ n <= MaxMsg + MaxTask
    BY <1>t, EntryIs DEF LoopTypes
  <2> DEFINE c == <<Reply(n)>> \o ToolEntries(n)
  <2>3. c \in Seq(Entries) /\ Plain(c)
    BY <2>2, CallsAre, PlainCalls
  <2>4. unsaved' = unsaved \o c /\ UNCHANGED <<file, heard>>
    BY <1>11, <2>1 DEF AnswerTasks, Push
  <2> HIDE DEF c
  <2> QED
    BY <1>p, <2>3, <2>4
<1>12. CASE Say \/ Inform \/ CancelLoop
  BY <1>s, <1>12 DEF Say, Inform, CancelLoop
<1>15. CASE \E t \in running : TaskEnds(t) \/ TaskDies(t)
  BY <1>s, <1>15 DEF TaskEnds, TaskDies
<1>16. CASE Crash
  <2> DEFINE N == Messages(file')
  <2>1. heard' = N /\ unsaved' = <<>>
    BY <1>16 DEF Crash
  <2>2. Messages(<<>>) = <<>>
    <3>1. <<>> \in Seq(Entries) /\ Plain(<<>>)
      BY DEF Plain
    <3> QED
      BY <1>e, <3>1
  <2>3. OnFile' = N \o <<>>
    BY <2>1, <2>2 DEF OnFile
  <2>4. N \in Seq(M) /\ Increasing(N)
    BY <1>16, CrashLeavesOrder
  <2> HIDE DEF N
  <2>5. N \o <<>> = N
    BY <2>4, Rows
  <2> QED
    BY <2>1, <2>3, <2>4, <2>5 DEF FileInOrder
<1>17. CASE Restart
  BY <1>s, <1>17 DEF Restart
<1>18. CASE UNCHANGED vars
  BY <1>s, <1>18 DEF vars
<1> QED
  BY <1>1, <1>2, <1>3, <1>4, <1>5, <1>6, <1>7, <1>8, <1>10, <1>11, <1>12, <1>15, <1>16,
     <1>17, <1>18 DEF Next

-----------------------------------------------------------------------------
\* The tasks the loop waits for.

\* The tasks of a group are finitely many.
LEMMA OwnedIs ==
    ASSUME BookTypes, LoopTypes, NEW g
    PROVE  IsFiniteSet(OwnedBy(owner, g)) /\ Cardinality(OwnedBy(owner, g)) \in Nat
<1>1. 1 \in Int /\ tasks \in Int
  BY DEF LoopTypes
<1>2. IsFiniteSet(1 .. tasks)
  BY <1>1, FS_Interval
<1>3. OwnedBy(owner, g) \subseteq 1 .. tasks
  BY DEF OwnedBy, BookTypes
<1> QED
  BY <1>2, <1>3, FS_Subset, FS_CardinalityType

\* A task that is taken from its queue is all that is no longer awaited.
LEMMA TakenIs ==
    ASSUME TaskTypes, NEW k \in Kinds, NEW t, NEW r \in Seq(Tasks), t \in Tasks,
           results[k] = <<t>> \o r, results' = [results EXCEPT ![k] = r],
           UNCHANGED <<running, dead>>
    PROVE  Outstanding \ {t} \subseteq Outstanding'
<1>1. \A j \in Kinds : results'[j] = IF j = k THEN r ELSE results[j]
  BY DEF TaskTypes
<1>2. ToSet(results[k]) = {t} \union ToSet(r)
  <2>1. <<t>> \in Seq(Tasks)
    OBVIOUS
  <2>2. \A p, q \in Seq(Tasks) : ToSet(p \o q) = ToSet(p) \union ToSet(q)
    BY ToSetConcat
  <2> QED
    BY <2>1, <2>2, ToSetIs
<1>3. ASSUME NEW j \in Kinds, NEW x \in ToSet(results[j]), x # t PROVE x \in ToSet(results'[j])
  BY <1>1, <1>2, <1>3
<1> QED
  BY <1>3 DEF Outstanding

\* The loop waits for the tasks of one group, and for no others.
LEMMA WaitsStay == ASSUME Typed, Asker, WaitsForTasks, [Next]_vars PROVE WaitsForTasks'
<1> USE DEF turn, queues, disk, bounds
<1>t. /\ TaskTypes /\ LoopTypes /\ BookTypes
  BY DEF Typed
<1>c. clash => clash'
  BY DEF Next, Save, TakePending, Stop, TakeInput, TakeResult, BeginTurn, AnswerText,
     AnswerRejected, AnswerFailed, AnswerTools, AnswerTasks, Say, Inform, CancelLoop,
     TaskEnds, TaskDies, Crash, Restart, vars
<1> SUFFICES ASSUME ~ clash, ~ clash', Waits PROVE Waits'
  BY <1>c DEF WaitsForTasks
<1>w. /\ state = "Processing" => DOMAIN groups # {}
      /\ \A g, h \in DOMAIN groups : g = h
      /\ \A i \in DOMAIN owner :
            owner[i] \in DOMAIN groups /\ \E t \in Outstanding : t.id = i
      /\ \A g \in DOMAIN groups : groups[g].left = Cardinality(OwnedBy(owner, g))
  BY DEF Waits
<1>s. ASSUME UNCHANGED book, state' = "Processing" => state = "Processing",
             Outstanding \subseteq Outstanding'
      PROVE  Waits'
  BY <1>w, <1>s DEF Waits, book
<1>u. ASSUME UNCHANGED <<book, running, dead, results>>,
             state' = "Processing" => state = "Processing"
      PROVE  Waits'
  <2>1. Outstanding' = Outstanding
    BY <1>u DEF Outstanding
  <2> QED
    BY <1>s, <1>u, <2>1
<1>1. CASE Save \/ Stop \/ BeginTurn \/ Restart
  BY <1>u, <1>1 DEF Save, Stop, BeginTurn, Restart
<1>2. CASE TakePending \/ TakeInput
  BY <1>u, <1>2 DEF TakePending, TakeInput, ProcessMessage
<1>5. CASE TakeResult
  <2> DEFINE t == Head(results[NextKind])
             r == Tail(results[NextKind])
             g == owner[t.id]
             group == GroupAfter(g, t)
  <2>r. /\ NextKind \in Kinds /\ t \in Tasks /\ r \in Seq(Tasks)
        /\ results[NextKind] = <<t>> \o r
    <3>1. results[NextKind] # <<>>
      BY <1>5 DEF TakeResult
    <3> QED
      BY <1>t, <3>1, ResultIs
  <2>o. Outstanding \ {t} \subseteq Outstanding'
    <3>1. results' = [results EXCEPT ![NextKind] = r] /\ UNCHANGED <<running, dead>>
      BY <1>5 DEF TakeResult
    <3> HIDE DEF t, r
    <3> QED
      BY <1>t, <2>r, <3>1, TakenIs
  <2>1. CASE Orphaned(t)
    <3>1. owner' = Without(owner, t.id) /\ UNCHANGED <<groups, state>> /\ ~ Known(t)
      <4> HIDE DEF t
      <4> QED
        BY <2>1 DEF Orphaned
    <3> HIDE DEF t
    <3>2. t.id \notin DOMAIN owner
      BY <1>w, <3>1 DEF Known
    <3>3. owner' = owner
      <4>1. owner = [y \in DOMAIN owner |-> owner[y]]
        BY <1>t DEF BookTypes
      <4>2. DOMAIN owner \ {t.id} = DOMAIN owner
        BY <3>2
      <4> QED
        BY <3>1, <4>1, <4>2 DEF Without
    <3>4. \A i \in DOMAIN owner : \E u \in Outstanding' : u.id = i
      <4> SUFFICES ASSUME NEW i \in DOMAIN owner PROVE \E u \in Outstanding' : u.id = i
        OBVIOUS
      <4>1. PICK u \in Outstanding : u.id = i
        BY <1>w
      <4>2. u # t
        BY <3>2, <4>1
      <4> QED
        BY <2>o, <4>1, <4>2
    <3> QED
      BY <1>w, <3>1, <3>3, <3>4 DEF Waits
  <2>2. CASE Known(t) /\ Counted(t)
    <3>1. /\ g \in DOMAIN groups /\ t.id \in DOMAIN owner
          /\ group.left = groups[g].left - 1 /\ group.left \in Nat
      <4>1. results[NextKind] # <<>>
        BY <1>5 DEF TakeResult
      <4>2. t.id \in DOMAIN owner
        <5> HIDE DEF t
        <5> QED
          BY <2>2 DEF Known
      <4> QED
        BY <1>t, <2>2, <4>1, <4>2, ResultIs
    <3>2. /\ owner' = Without(owner, t.id)
          /\ \/ group.left > 0 /\ groups' = [groups EXCEPT ![g] = group] /\ state' = state
             \/ /\ group.left = 0 /\ groups' = Without(groups, g)
                /\ groups' = <<>> => state' = "Waiting"
      <4> HIDE DEF t
      <4> QED
        BY <2>2 DEF Counted, GroupAfter
    <3>3. OwnedBy(owner', g) = OwnedBy(owner, g) \ {t.id} /\ t.id \in OwnedBy(owner, g)
      <4>1. DOMAIN owner' = DOMAIN owner \ {t.id} /\ \A i \in DOMAIN owner' : owner'[i] = owner[i]
        <5> HIDE DEF t
        <5> QED
          BY <3>2 DEF Without
      <4>2. t.id \in OwnedBy(owner, g)
        BY <3>1 DEF OwnedBy
      <4> HIDE DEF t, g
      <4> QED
        BY <4>1, <4>2 DEF OwnedBy
    <3>o. DOMAIN owner' = DOMAIN owner \ {t.id} /\ \A i \in DOMAIN owner' : owner'[i] = owner[i]
      <4> HIDE DEF t
      <4> QED
        BY <3>2 DEF Without
    <3> HIDE DEF t, g, group
    <3>4. /\ IsFiniteSet(OwnedBy(owner, g)) /\ Cardinality(OwnedBy(owner, g)) \in Nat
          /\ IsFiniteSet(OwnedBy(owner', g))
          /\ Cardinality(OwnedBy(owner', g)) = Cardinality(OwnedBy(owner, g)) - 1
      <4>1. IsFiniteSet(OwnedBy(owner, g)) /\ Cardinality(OwnedBy(owner, g)) \in Nat
        BY <1>t, OwnedIs
      <4>2. /\ IsFiniteSet(OwnedBy(owner, g) \ {t.id})
            /\ Cardinality(OwnedBy(owner, g) \ {t.id}) = Cardinality(OwnedBy(owner, g)) - 1
        BY <3>3, <4>1, FS_RemoveElement
      <4> QED
        BY <3>3, <4>1, <4>2
    <3>5. group.left = Cardinality(OwnedBy(owner', g))
      <4>1. groups[g].left = Cardinality(OwnedBy(owner, g))
        BY <1>w, <3>1
      <4> QED
        BY <3>1, <3>4, <4>1
    <3>6. \A i \in DOMAIN owner' :
             owner'[i] = g /\ \E u \in Outstanding' : u.id = i
      <4> SUFFICES ASSUME NEW i \in DOMAIN owner'
                   PROVE  owner'[i] = g /\ \E u \in Outstanding' : u.id = i
        OBVIOUS
      <4>1. i \in DOMAIN owner /\ i # t.id /\ owner'[i] = owner[i]
        BY <3>o
      <4>2. owner[i] = g
        BY <1>w, <3>1, <4>1
      <4>3. PICK u \in Outstanding : u.id = i
        BY <1>w, <4>1
      <4>4. u # t
        BY <4>1, <4>3
      <4> QED
        BY <2>o, <4>1, <4>2, <4>3, <4>4
    <3>7. CASE group.left > 0 /\ groups' = [groups EXCEPT ![g] = group] /\ state' = state
      <4>1. DOMAIN groups' = DOMAIN groups /\ groups'[g] = group
        BY <1>t, <3>1, <3>7 DEF BookTypes
      <4>2. \A h \in DOMAIN groups' : h = g
        BY <1>w, <3>1, <4>1
      <4> QED
        BY <3>1, <3>5, <3>6, <4>1, <4>2 DEF Waits
    <3>8. CASE /\ group.left = 0 /\ groups' = Without(groups, g)
               /\ groups' = <<>> => state' = "Waiting"
      <4>1. DOMAIN groups \ {g} = {}
        BY <1>w, <3>1
      <4>2. groups' = <<>> /\ DOMAIN groups' = {}
        <5>1. groups' = [y \in DOMAIN groups \ {g} |-> groups[y]]
          BY <3>8 DEF Without
        <5>2. groups' = <<>>
          BY <4>1, <5>1, EmptyTable
        <5>3. DOMAIN groups' = {}
          BY <4>1, <5>1
        <5> QED
          BY <5>2, <5>3
      <4>3. OwnedBy(owner', g) = {}
        BY <3>4, <3>5, <3>8, FS_EmptySet
      <4>4. DOMAIN owner' = {}
        BY <3>6, <4>3 DEF OwnedBy
      <4> QED
        BY <3>8, <4>2, <4>4 DEF Waits
    <3> QED
      BY <3>2, <3>7, <3>8
  <2> QED
    BY <1>5, <2>1, <2>2 DEF TakeResult
<1>7. CASE AnswerText \/ AnswerRejected \/ AnswerFailed \/ AnswerTools
  BY <1>u, <1>7 DEF AnswerText, AnswerRejected, AnswerFailed, AnswerTools
<1>8. CASE AnswerTasks
  <2>1. PICK n \in 1 .. MaxTask - tasks : \E kinds \in [1 .. n -> Kinds] :
           \E started \in Started(n, kinds) :
              /\ running' = running \union started /\ Register(started)
              /\ clash' = (clash \/ Cardinality(Ids(started)) < n)
    BY <1>8 DEF AnswerTasks
  <2>k. PICK kinds \in [1 .. n -> Kinds] :
           \E started \in Started(n, kinds) :
              /\ running' = running \union started /\ Register(started)
              /\ clash' = (clash \/ Cardinality(Ids(started)) < n)
    BY <2>1
  <2>2. PICK started \in Started(n, kinds) :
              /\ running' = running \union started /\ Register(started)
              /\ clash' = (clash \/ Cardinality(Ids(started)) < n)
    BY <2>k
  <2> DEFINE I == Ids(started)
             c == Cardinality(started)
             b == calls + 1
             new == [left |-> c, done |-> <<>>, origin |-> origin]
  <2>3. /\ c \in Nat \ {0} /\ c <= n /\ IsFiniteSet(I) /\ Cardinality(I) <= c
        /\ tasks \in 0 .. MaxTask
    BY <1>t, StartedIs DEF LoopTypes
  <2>4. Cardinality(I) = c
    <3>1. Cardinality(I) \in Nat
      BY <2>3, FS_CardinalityType
    <3>2. ~ (Cardinality(I) < n)
      BY Zenon, <2>2
    <3>3. n \in Nat
      OBVIOUS
    <3> HIDE DEF I, c
    <3> QED
      BY <2>3, <3>1, <3>2, <3>3
  <2>5. DOMAIN groups = {} /\ DOMAIN owner = {}
    <3>1. DOMAIN groups = {}
      BY <1>8 DEF AnswerTasks, Answered, Asker
    <3> QED
      BY <1>w, <3>1
  <2>6. /\ owner' = [i \in I \union DOMAIN owner |-> IF i \in I THEN b ELSE owner[i]]
        /\ groups' = [g \in {b} \union DOMAIN groups |-> IF g # b THEN groups[g] ELSE new]
    BY <2>2, <2>5 DEF Register
  <2>n. new.left = c
    OBVIOUS
  <2> HIDE DEF I, c, b, new
  <2>7. DOMAIN owner' = I /\ \A i \in I : owner'[i] = b
    BY <2>5, <2>6
  <2>8. DOMAIN groups' = {b} /\ groups'[b] = new
    BY <2>5, <2>6
  <2>9. OwnedBy(owner', b) = I
    BY <2>7 DEF OwnedBy
  <2>10. \A i \in I : \E u \in Outstanding' : u.id = i
    <3>1. started \subseteq Outstanding'
      BY <2>2 DEF Outstanding
    <3>2. \A i \in I : \E u \in started : u.id = i
      BY DEF I, Ids
    <3> QED
      BY <3>1, <3>2
  <2> QED
    BY <2>4, <2>7, <2>8, <2>9, <2>10, <2>n DEF Waits
<1>12. CASE Say \/ Inform \/ CancelLoop
  BY <1>u, <1>12 DEF Say, Inform, CancelLoop
<1>15. CASE \E t \in running : TaskEnds(t) \/ TaskDies(t)
  <2>1. PICK t \in running : TaskEnds(t) \/ TaskDies(t)
    BY <1>15
  <2>2. UNCHANGED <<book, state>>
    BY <2>1 DEF TaskEnds, TaskDies
  <2>3. CASE TaskDies(t)
    <3>1. Outstanding \subseteq Outstanding'
      BY <2>3 DEF TaskDies, Outstanding
    <3> QED
      BY <1>s, <2>2, <3>1
  <2>4. CASE TaskEnds(t)
    <3>1. t \in Tasks /\ t.kind \in Kinds
      BY <1>t, <2>1 DEF TaskTypes, Tasks
    <3>2. /\ running' = running \ {t} /\ dead' = dead
          /\ \A k \in Kinds :
                results'[k] = IF k = t.kind THEN Append(results[k], t) ELSE results[k]
      BY <1>t, <2>4, <3>1 DEF TaskEnds, TaskTypes
    <3>3. ASSUME NEW k \in Kinds
          PROVE  /\ ToSet(results[k]) \subseteq ToSet(results'[k])
                 /\ k = t.kind => t \in ToSet(results'[k])
      <4>1. results[k] \in Seq(Tasks) /\ <<t>> \in Seq(Tasks)
        BY <1>t, <3>1 DEF TaskTypes
      <4>2. Append(results[k], t) = results[k] \o <<t>>
        BY <3>1, <4>1, AppendIsConcat
      <4>3. ToSet(results[k] \o <<t>>) = ToSet(results[k]) \union ToSet(<<t>>)
        <5>1. \A p, q \in Seq(Tasks) : ToSet(p \o q) = ToSet(p) \union ToSet(q)
          BY ToSetConcat
        <5> QED
          BY <4>1, <5>1
      <4>4. ToSet(<<t>>) = {t}
        BY ToSetIs
      <4> QED
        BY <3>2, <4>2, <4>3, <4>4
    <3>4. Outstanding \subseteq Outstanding'
      BY <3>1, <3>2, <3>3 DEF Outstanding
    <3> QED
      BY <1>s, <2>2, <3>4
  <2> QED
    BY <2>1, <2>3, <2>4
<1>16. CASE Crash
  <2>1. groups' = <<>> /\ owner' = <<>> /\ state' = "Idle"
    BY <1>16 DEF Crash
  <2>2. DOMAIN <<>> = {}
    OBVIOUS
  <2> QED
    BY <2>1, <2>2 DEF Waits
<1>18. CASE UNCHANGED vars
  BY <1>u, <1>18 DEF vars
<1> QED
  BY <1>1, <1>2, <1>5, <1>7, <1>8, <1>12, <1>15, <1>16, <1>18 DEF Next

-----------------------------------------------------------------------------
\* Calls and their results.

\* Two sequences in a row, one index at a time.
LEMMA ConcatIs ==
    ASSUME NEW a \in Seq(Entries), NEW b \in Seq(Entries)
    PROVE  LET ab == a \o b
           IN  /\ ab \in Seq(Entries) /\ DOMAIN ab = 1 .. Len(a) + Len(b)
               /\ Len(a) \in Nat /\ Len(b) \in Nat
               /\ DOMAIN a = 1 .. Len(a) /\ DOMAIN b = 1 .. Len(b)
               /\ \A i \in 1 .. Len(a) : i \in DOMAIN ab /\ ab[i] = a[i]
               /\ \A i \in 1 .. Len(b) : Len(a) + i \in DOMAIN ab /\ ab[Len(a) + i] = b[i]
<1> DEFINE ab == a \o b
<1>1. /\ Len(a) \in Nat /\ Len(b) \in Nat /\ ab \in Seq(Entries)
      /\ DOMAIN a = 1 .. Len(a) /\ DOMAIN b = 1 .. Len(b)
      /\ DOMAIN ab = 1 .. Len(a) + Len(b)
      /\ \A i \in 1 .. Len(a) + Len(b) : ab[i] = IF i <= Len(a) THEN a[i] ELSE b[i - Len(a)]
  OBVIOUS
<1> HIDE DEF ab
<1>2. \A i \in 1 .. Len(a) : i \in DOMAIN ab /\ ab[i] = a[i]
  BY <1>1
<1>3. ASSUME NEW i \in 1 .. Len(b)
      PROVE  Len(a) + i \in DOMAIN ab /\ ab[Len(a) + i] = b[i]
  <2> DEFINE j == Len(a) + i
  <2>1. j \in 1 .. Len(a) + Len(b) /\ ~ (j <= Len(a)) /\ j - Len(a) = i
    BY <1>1
  <2> HIDE DEF j
  <2>2. j \in DOMAIN ab /\ ab[j] = b[i]
    BY <1>1, <2>1
  <2> QED
    BY <2>2 DEF j
<1> QED
  BY <1>1, <1>2, <1>3 DEF ab

\* An entry's number of calls, and the call it is the result of, are natural numbers.
LEMMA EntryNumbers ==
    \A e \in Entries : Called(e) \in Nat /\ e.of \in Nat /\ (e.kind = "tool" => e.of # 0)
<1>1. \A n \in 0 .. MaxMsg + MaxTask : n \in Nat
  BY EntryIs
<1>2. \A n \in 0 .. MaxTask + 1 : n \in Nat
  BY EntryIs
<1> QED
  BY <1>1, <1>2 DEF Entries, Called

\* Two sequences in a row are paired if both are.
LEMMA PairedConcat ==
    ASSUME NEW a \in Seq(Entries), NEW b \in Seq(Entries), Paired(a), Paired(b)
    PROVE  Paired(a \o b)
<1> DEFINE ab == a \o b
           m == Len(a)
           l == Len(b)
<1>1. /\ ab \in Seq(Entries) /\ DOMAIN ab = 1 .. m + l /\ m \in Nat /\ l \in Nat
      /\ DOMAIN a = 1 .. m /\ DOMAIN b = 1 .. l
      /\ \A i \in 1 .. m : i \in DOMAIN ab /\ ab[i] = a[i]
      /\ \A i \in 1 .. l : m + i \in DOMAIN ab /\ ab[m + i] = b[i]
  BY ConcatIs
<1>a. \A i \in 1 .. m : Called(a[i]) \in Nat /\ a[i].of \in Nat
  BY EntryNumbers
<1>b. \A i \in 1 .. l : Called(b[i]) \in Nat /\ b[i].of \in Nat
  BY EntryNumbers
<1> HIDE DEF ab, m, l
<1> SUFFICES ASSUME NEW i \in 1 .. m + l
             PROVE  /\ \A n \in 1 .. Called(ab[i]) :
                          i + n \in DOMAIN ab /\ ab[i + n] = Entry("tool", n)
                    /\ ab[i].kind = "tool" =>
                          ab[i].of < i /\ Called(ab[i - ab[i].of]) >= ab[i].of
  BY <1>1 DEF Paired, ab
<1>2. CASE i \in 1 .. m
  <2>1. /\ \A n \in 1 .. Called(a[i]) : i + n \in 1 .. m /\ a[i + n] = Entry("tool", n)
        /\ a[i].kind = "tool" => a[i].of < i /\ Called(a[i - a[i].of]) >= a[i].of
    BY <1>1, <1>2 DEF Paired
  <2> DEFINE o == a[i].of
  <2>2. o \in Nat /\ (o < i => i - o \in 1 .. m)
    BY <1>1, <1>2, <1>a
  <2>3. a[i].kind = "tool" => o < i /\ Called(ab[i - o]) >= o
    <3>1. a[i].kind = "tool" => o < i /\ Called(a[i - o]) >= o
      BY <2>1
    <3> HIDE DEF o
    <3> QED
      BY <1>1, <2>2, <3>1
  <2> QED
    BY <1>1, <1>2, <2>1, <2>3
<1>3. CASE i \notin 1 .. m
  <2> DEFINE j == i - m
  <2>1. j \in 1 .. l /\ i = m + j
    BY <1>1, <1>3
  <2> HIDE DEF j
  <2>2. /\ \A n \in 1 .. Called(b[j]) : j + n \in 1 .. l /\ b[j + n] = Entry("tool", n)
        /\ b[j].kind = "tool" => b[j].of < j /\ Called(b[j - b[j].of]) >= b[j].of
    BY <1>1, <2>1 DEF Paired
  <2>3. ab[i] = b[j] /\ Called(b[j]) \in Nat
    BY <1>1, <1>b, <2>1
  <2>4. ASSUME NEW n \in 1 .. Called(b[j])
        PROVE  i + n \in DOMAIN ab /\ ab[i + n] = Entry("tool", n)
    <3> DEFINE x == j + n
    <3>1. x \in 1 .. l /\ b[x] = Entry("tool", n) /\ i + n = m + x
      BY <1>1, <2>1, <2>2, <2>3
    <3> HIDE DEF x
    <3> QED
      BY <1>1, <3>1
  <2> DEFINE o == b[j].of
  <2>5. o \in Nat /\ (b[j].kind = "tool" => o < j /\ Called(b[j - o]) >= o)
    BY <1>b, <2>1, <2>2
  <2>6. b[j].kind = "tool" => o < i /\ Called(ab[i - o]) >= o
    <3> HIDE DEF o
    <3> SUFFICES ASSUME b[j].kind = "tool" PROVE o < i /\ Called(ab[i - o]) >= o
      OBVIOUS
    <3> DEFINE x == j - o
    <3>1. x \in 1 .. l /\ i - o = m + x /\ o < i /\ Called(b[x]) >= o
      BY <1>1, <2>1, <2>5
    <3> HIDE DEF x
    <3> QED
      BY <1>1, <3>1
  <2> QED
    BY <2>3, <2>4, <2>6
<1> QED
  BY <1>2, <1>3

\* Entries that neither call a tool nor are a tool's result are paired.
LEMMA PairedPlain ==
    ASSUME NEW e \in Seq(Entries), \A i \in DOMAIN e : Called(e[i]) = 0 /\ e[i].kind # "tool"
    PROVE  Paired(e)
BY DEF Paired

\* A reply with the results of its calls is.
LEMMA PairedCalls ==
    ASSUME NEW n \in 1 .. MaxTask + 1, n <= MaxMsg + MaxTask
    PROVE  Paired(<<Reply(n)>> \o ToolEntries(n))
<1> DEFINE c == <<Reply(n)>> \o ToolEntries(n)
<1>1. /\ c \in Seq(Entries) /\ Len(c) = n + 1 /\ c[1] = Reply(n)
      /\ \A i \in 1 .. n : c[i + 1] = Entry("tool", i)
  BY CallsAre
<1>2. n \in Nat /\ DOMAIN c = 1 .. n + 1
  <2> HIDE DEF c
  <2> QED
    BY <1>1, EntryIs
<1>r. c[1].kind = "assistant" /\ Called(c[1]) = n
  <2> HIDE DEF c
  <2> QED
    BY <1>1, PlainOnes
<1> HIDE DEF c
<1> SUFFICES ASSUME NEW j \in 1 .. n + 1
             PROVE  /\ \A k \in 1 .. Called(c[j]) :
                          j + k \in DOMAIN c /\ c[j + k] = Entry("tool", k)
                    /\ c[j].kind = "tool" =>
                          c[j].of < j /\ Called(c[j - c[j].of]) >= c[j].of
  BY <1>2 DEF Paired, c
<1>3. CASE j = 1
  <2>1. \A k \in 1 .. n : 1 + k \in DOMAIN c /\ c[1 + k] = Entry("tool", k)
    <3> SUFFICES ASSUME NEW k \in 1 .. n PROVE 1 + k \in DOMAIN c /\ c[1 + k] = Entry("tool", k)
      OBVIOUS
    <3>1. 1 + k = k + 1 /\ 1 + k \in 1 .. n + 1
      BY <1>2
    <3> QED
      BY <1>1, <1>2, <3>1
  <2> QED
    BY <1>3, <1>r, <2>1
<1>4. CASE j # 1
  <2> DEFINE i == j - 1
  <2>1. i \in 1 .. n /\ i + 1 = j /\ i < j /\ j - i = 1 /\ n >= i
    BY <1>2, <1>4
  <2> HIDE DEF i
  <2>2. c[j] = Entry("tool", i)
    BY <1>1, <2>1
  <2>3. c[j].kind = "tool" /\ c[j].of = i /\ Called(c[j]) = 0
    BY <2>2, PlainOnes
  <2> QED
    BY <1>r, <2>1, <2>3
<1> QED
  BY <1>3, <1>4

\* So are the parts of a sequence cut where no result stands.
LEMMA PairedCut ==
    ASSUME NEW s \in Seq(Entries), Paired(s), NEW k \in 1 .. Len(s) + 1,
           k \in 1 .. Len(s) => s[k].kind # "tool"
    PROVE  Paired(SubSeq(s, 1, k - 1)) /\ Paired(SubSeq(s, k, Len(s)))
<1> DEFINE L == Len(s)
           a == SubSeq(s, 1, k - 1)
           b == SubSeq(s, k, L)
<1>1. /\ L \in Nat /\ k \in Nat /\ DOMAIN s = 1 .. L
      /\ \A i \in 1 .. L : s[i] \in Entries /\ Called(s[i]) \in Nat /\ s[i].of \in Nat
  BY EntryNumbers
<1>2. DOMAIN a = 1 .. k - 1 /\ \A i \in 1 .. k - 1 : a[i] = s[i]
  <2>1. /\ 1 \in Int /\ k - 1 \in Int /\ \A i \in 1 .. k - 1 : s[i] \in Entries
        /\ (k - 1) - 1 + 1 = k - 1 /\ (IF 1 <= k - 1 THEN (k - 1) - 1 + 1 ELSE 0) = k - 1
        /\ \A i \in 1 .. k - 1 : 1 + i - 1 = i
    BY <1>1
  <2>2. /\ a \in Seq(Entries) /\ Len(a) = IF 1 <= k - 1 THEN (k - 1) - 1 + 1 ELSE 0
        /\ \A i \in 1 .. (k - 1) - 1 + 1 : a[i] = s[1 + i - 1]
    BY <2>1, SubSeqProperties
  <2> HIDE DEF a
  <2>3. DOMAIN a = 1 .. Len(a)
    BY <2>2
  <2> QED
    BY <2>1, <2>2, <2>3
<1>3. DOMAIN b = 1 .. L - k + 1 /\ \A i \in 1 .. L - k + 1 : b[i] = s[k + i - 1]
  <2>1. /\ k \in Int /\ L \in Int /\ \A i \in k .. L : s[i] \in Entries
        /\ (IF k <= L THEN L - k + 1 ELSE 0) = L - k + 1
    BY <1>1
  <2>2. /\ b \in Seq(Entries) /\ Len(b) = IF k <= L THEN L - k + 1 ELSE 0
        /\ \A i \in 1 .. L - k + 1 : b[i] = s[k + i - 1]
    <3> HIDE DEF L
    <3> QED
      BY <2>1, SubSeqProperties
  <2> HIDE DEF b
  <2>3. DOMAIN b = 1 .. Len(b)
    BY <2>2
  <2> QED
    BY <2>1, <2>2, <2>3
<1> HIDE DEF L
<1>p. ASSUME NEW i \in 1 .. L
      PROVE  /\ \A n \in 1 .. Called(s[i]) : i + n \in 1 .. L /\ s[i + n] = Entry("tool", n)
             /\ s[i].kind = "tool" => s[i].of < i /\ Called(s[i - s[i].of]) >= s[i].of
  BY <1>1 DEF Paired
<1>k. k \in 1 .. L => s[k].kind # "tool"
  BY DEF L
<1>l. k \in 1 .. L + 1
  BY DEF L
<1>4. Paired(a)
  <2> SUFFICES ASSUME NEW i \in 1 .. k - 1
               PROVE  /\ \A n \in 1 .. Called(a[i]) :
                            i + n \in 1 .. k - 1 /\ a[i + n] = Entry("tool", n)
                      /\ a[i].kind = "tool" =>
                            a[i].of < i /\ Called(a[i - a[i].of]) >= a[i].of
    <3> HIDE DEF a
    <3> QED
      BY <1>2 DEF Paired
  <2> HIDE DEF a
  <2>1. i \in 1 .. L /\ a[i] = s[i] /\ i < k
    BY <1>1, <1>2, <1>l
  <2>2. ASSUME NEW n \in 1 .. Called(s[i])
        PROVE  i + n \in 1 .. k - 1 /\ a[i + n] = Entry("tool", n)
    <3>1. i + n \in 1 .. L /\ s[i + n] = Entry("tool", n) /\ Called(s[i]) \in Nat
      BY <1>1, <1>p, <2>1
    <3>2. i + n < k
      <4> SUFFICES ASSUME ~ (i + n < k) PROVE FALSE
        OBVIOUS
      <4> DEFINE x == k - i
      <4>1. x \in 1 .. Called(s[i]) /\ i + x = k /\ k \in 1 .. L
        BY <1>1, <2>1, <3>1
      <4> HIDE DEF x
      <4>2. s[k] = Entry("tool", x)
        BY <1>p, <2>1, <4>1
      <4> QED
        BY <1>k, <4>1, <4>2, PlainOnes
    <3>3. i + n \in 1 .. k - 1
      BY <1>1, <3>1, <3>2
    <3> QED
      BY <1>2, <3>1, <3>3
  <2> DEFINE o == s[i].of
  <2>3. s[i].kind = "tool" => o < i /\ Called(a[i - o]) >= o
    <3> SUFFICES ASSUME s[i].kind = "tool" PROVE o < i /\ Called(a[i - o]) >= o
      OBVIOUS
    <3>1. o < i /\ Called(s[i - o]) >= o /\ o \in Nat
      BY <1>1, <1>p, <2>1
    <3> HIDE DEF o
    <3>2. i - o \in 1 .. k - 1
      BY <1>1, <2>1, <3>1
    <3> QED
      BY <1>2, <3>1, <3>2
  <2> QED
    BY <2>1, <2>2, <2>3
<1>5. Paired(b)
  <2> SUFFICES ASSUME NEW i \in 1 .. L - k + 1
               PROVE  /\ \A n \in 1 .. Called(b[i]) :
                            i + n \in 1 .. L - k + 1 /\ b[i + n] = Entry("tool", n)
                      /\ b[i].kind = "tool" =>
                            b[i].of < i /\ Called(b[i - b[i].of]) >= b[i].of
    <3> HIDE DEF b
    <3> QED
      BY <1>3 DEF Paired
  <2> HIDE DEF b
  <2> DEFINE j == k + i - 1
  <2>1. j \in 1 .. L /\ b[i] = s[j] /\ j >= k
    BY <1>1, <1>3, <1>l
  <2>j. \A x \in Int : i + x = (j + x) - k + 1 /\ k + (i + x) - 1 = j + x
    BY <1>1
  <2>2. ASSUME NEW n \in 1 .. Called(s[j])
        PROVE  i + n \in 1 .. L - k + 1 /\ b[i + n] = Entry("tool", n)
    <3>1. j + n \in 1 .. L /\ s[j + n] = Entry("tool", n) /\ Called(s[j]) \in Nat
      <4> HIDE DEF j
      <4> QED
        BY <1>1, <1>p, <2>1
    <3> DEFINE y == i + n
    <3>2. y \in 1 .. L - k + 1 /\ k + y - 1 = j + n
      BY <1>1, <3>1
    <3> HIDE DEF y, j
    <3>3. b[y] = s[j + n]
      BY <1>3, <3>2
    <3> QED
      BY <3>1, <3>2, <3>3 DEF y
  <2> DEFINE o == s[j].of
  <2>3. s[j].kind = "tool" => o < i /\ Called(b[i - o]) >= o
    <3> SUFFICES ASSUME s[j].kind = "tool" PROVE o < i /\ Called(b[i - o]) >= o
      OBVIOUS
    <3>1. o < j /\ Called(s[j - o]) >= o /\ o \in Nat
      <4> HIDE DEF j
      <4> QED
        BY <1>1, <1>p, <2>1
    <3> HIDE DEF o
    <3>2. j - o >= k
      <4> SUFFICES ASSUME ~ (j - o >= k) PROVE FALSE
        OBVIOUS
      <4> DEFINE x == k - (j - o)
                 z == j - o
      <4>1. z \in 1 .. L /\ Called(s[z]) \in Nat
        BY <1>1, <2>1, <3>1
      <4>2. x \in 1 .. Called(s[z]) /\ z + x = k /\ k \in 1 .. L
        <5>1. x \in 1 .. o /\ z + x = k /\ k \in 1 .. L /\ Called(s[z]) >= o
          BY <1>1, <2>1, <3>1
        <5> HIDE DEF x, z, j
        <5> QED
          BY <3>1, <4>1, <5>1
      <4> HIDE DEF x, z
      <4>3. s[k] = Entry("tool", x)
        BY <1>p, <4>1, <4>2
      <4> QED
        BY <1>k, <4>2, <4>3, PlainOnes
    <3> DEFINE y == i - o
    <3>3. o < i /\ y \in 1 .. L - k + 1 /\ k + y - 1 = j - o
      BY <1>1, <2>1, <3>1, <3>2
    <3> HIDE DEF y, j
    <3>4. b[y] = s[j - o]
      BY <1>3, <3>3
    <3> QED
      BY <3>1, <3>3, <3>4 DEF y
  <2> HIDE DEF j
  <2> QED
    BY <2>1, <2>2, <2>3
<1> QED
  BY <1>4, <1>5 DEF L

\* Compaction cuts where a turn starts.
LEMMA PairedCompacted ==
    ASSUME NEW s \in Seq(Entries), Paired(s) PROVE Paired(Compacted(s))
<1>1. CASE Compacted(s) = s
  BY <1>1
<1>2. CASE \E i \in Starts(s), k \in Starts(s) \union {Len(s) + 1} :
               Compacted(s) = SubSeq(s, 1, i - 1) \o SubSeq(s, k, Len(s))
  <2>1. PICK i \in Starts(s), k \in Starts(s) \union {Len(s) + 1} :
           Compacted(s) = SubSeq(s, 1, i - 1) \o SubSeq(s, k, Len(s))
    BY <1>2
  <2>2. Len(s) \in Nat
    OBVIOUS
  <2>3. \A j \in Starts(s) : j \in 2 .. Len(s) /\ s[j].kind # "tool"
    BY DEF Starts, StartsTurn
  <2>4. /\ i \in 1 .. Len(s) + 1 /\ s[i].kind # "tool"
        /\ k \in 1 .. Len(s) + 1 /\ (k \in 1 .. Len(s) => s[k].kind # "tool")
    BY <2>2, <2>3
  <2>5. Paired(SubSeq(s, 1, i - 1))
    BY <2>4, PairedCut
  <2>6. Paired(SubSeq(s, k, Len(s)))
    BY <2>4, PairedCut
  <2>7. SubSeq(s, 1, i - 1) \in Seq(Entries) /\ SubSeq(s, k, Len(s)) \in Seq(Entries)
    BY <2>2, <2>4
  <2>8. \A a, b \in Seq(Entries) : Paired(a) /\ Paired(b) => Paired(a \o b)
    BY PairedConcat
  <2> QED
    BY <2>1, <2>5, <2>6, <2>7, <2>8
<1> QED
  BY <1>1, <1>2, CompactedIs

\* Single entries that are neither calls nor results of calls are paired.
LEMMA PairedOnes ==
    /\ Paired(<<>>) /\ Paired(<<System>>)
    /\ \A n : Paired(<<Answer(n)>>) /\ Paired(<<Answer(n), Entry("correction", 0)>>)
    /\ \A kind \in EntryKinds \ {"tool"}, of \in 0 .. MaxMsg + MaxTask :
          Paired(<<Entry(kind, of)>>)
<1>1. \A x : DOMAIN <<x>> = {1} /\ <<x>>[1] = x
  OBVIOUS
<1>2. \A x, y : DOMAIN <<x, y>> = {1, 2} /\ <<x, y>>[1] = x /\ <<x, y>>[2] = y
  OBVIOUS
<1>3. ASSUME NEW x, Called(x) = 0, x.kind # "tool" PROVE Paired(<<x>>)
  BY <1>1, <1>3 DEF Paired
<1>4. \A n : Called(Answer(n)) = 0 /\ Answer(n).kind # "tool"
  BY PlainOnes
<1>5. \A kind \in EntryKinds \ {"tool"} : \A of :
         Called(Entry(kind, of)) = 0 /\ Entry(kind, of).kind # "tool"
  BY PlainOnes
<1>6. \A n : Paired(<<Answer(n), Entry("correction", 0)>>)
  <2>1. Called(Entry("correction", 0)) = 0 /\ Entry("correction", 0).kind # "tool"
    BY PlainOnes
  <2> QED
    BY <1>2, <1>4, <2>1 DEF Paired
<1>7. Paired(<<>>)
  BY DEF Paired
<1>8. Paired(<<System>>)
  <2>1. Called(System) = 0 /\ System.kind # "tool"
    BY PlainOnes DEF System
  <2> QED
    BY <1>3, <2>1
<1>9. \A kind \in EntryKinds \ {"tool"}, of \in 0 .. MaxMsg + MaxTask : Paired(<<Entry(kind, of)>>)
  BY <1>3, <1>5
<1> QED
  BY <1>3, <1>4, <1>6, <1>7, <1>8, <1>9

\* Three sequences of entries in a row.
LEMMA EntriesInRows == \A a, b, c \in Seq(Entries) : (a \o b) \o c = a \o (b \o c)
BY ConcatAssociative

\* Calls stay next to their results, unless a write failed or a crash lost an entry.
LEMMA BlocksStay == ASSUME Typed, Asker, Blocks, [Next]_vars PROVE Blocks'
<1> USE DEF turn, queues, disk, book, bounds
<1>t. /\ LoopTypes /\ heard \in Seq(1 .. MaxMsg) /\ input \in Seq(0 .. MaxMsg)
      /\ pending \in Seq(1 .. MaxMsg) /\ history \in Seq(Entries) /\ file \in Seq(Entries)
      /\ unsaved \in Seq(Entries) /\ gap \in BOOLEAN
  BY DEF Typed, EntryTypes, MessageTypes, LoopTypes
<1>g. gap => gap'
  BY DEF Next, Save, TakePending, Stop, TakeInput, TakeResult, BeginTurn, AnswerText,
     AnswerRejected, AnswerFailed, AnswerTools, AnswerTasks, Say, Inform, CancelLoop,
     TaskEnds, TaskDies, Crash, Restart, WriteLine, WriteCut, vars
<1>d. (pc = "Down" => unsaved = <<>>) /\ (gap \/ (Paired(history) /\ Paired(file \o unsaved)))
  BY DEF Blocks
<1>c. \A a, b \in Seq(Entries) : Paired(a) /\ Paired(b) => Paired(a \o b)
  BY PairedConcat
<1>s. ASSUME UNCHANGED <<history, file, unsaved>>, pc' = "Down" => pc = "Down" PROVE Blocks'
  BY <1>d, <1>g, <1>s DEF Blocks
<1>b. ASSUME NEW e \in Seq(Entries), NEW f \in Seq(Entries), Paired(e), Paired(f),
             history' = history \o e \/ history' = Compacted(history) \o e,
             unsaved' = unsaved \o f, file' = file, pc' # "Down"
      PROVE  Blocks'
  <2>1. CASE gap
    BY <1>b, <1>g, <2>1 DEF Blocks
  <2>2. CASE ~ gap
    <3>1. Paired(history) /\ Paired(file \o unsaved)
      BY <1>d, <2>2
    <3>2. Paired(Compacted(history)) /\ Compacted(history) \in Seq(Entries)
      BY <1>t, <3>1, PairedCompacted, CompactedType
    <3>3. Paired(history')
      BY <1>b, <1>c, <1>t, <3>1, <3>2
    <3>4. file' \o unsaved' = (file \o unsaved) \o f
      <4>1. \A a, b, c \in Seq(Entries) : (a \o b) \o c = a \o (b \o c)
        BY EntriesInRows
      <4>2. (file \o unsaved) \o f = file \o (unsaved \o f)
        <5>1. file \in Seq(Entries) /\ unsaved \in Seq(Entries) /\ f \in Seq(Entries)
          BY <1>t
        <5> QED
          BY <4>1, <5>1
      <4> QED
        BY <1>b, <4>2
    <3>5. file \o unsaved \in Seq(Entries)
      BY <1>t
    <3>6. Paired(file' \o unsaved')
      BY <1>b, <1>c, <3>1, <3>4, <3>5
    <3> QED
      BY <1>b, <3>3, <3>6 DEF Blocks
  <2> QED
    BY <2>1, <2>2
<1>p. ASSUME NEW e \in Seq(Entries), Paired(e), Push(e), file' = file, pc' # "Down" PROVE Blocks'
  BY <1>b, <1>p DEF Push
<1>q. ASSUME NEW m \in 1 .. MaxMsg, ProcessMessage(m), file' = file PROVE Blocks'
  <2>1. "user" \in EntryKinds /\ m \in 0 .. MaxMsg + MaxTask
    BY EntryIs DEF EntryKinds
  <2>2. <<Entry("user", m)>> \in Seq(Entries) /\ Paired(<<Entry("user", m)>>)
    BY <2>1, OneEntry, PairedOnes
  <2> QED
    BY <1>p, <1>q, <2>2 DEF ProcessMessage
<1>1. CASE Save
  <2> DEFINE x == Head(unsaved)
  <2>1. x \in Entries /\ unsaved' \in Seq(Entries) /\ unsaved = <<x>> \o unsaved'
        /\ history' = history /\ pc # "Down" /\ pc' = pc
    BY <1>d, <1>t, <1>1, HeadIs DEF Save
  <2>w. gap' \in BOOLEAN /\ (gap' \/ (~ gap /\ file' = Append(file, x)))
    <3>1. WriteLine(x) \/ WriteCut(x)
      BY <1>1 DEF Save
    <3> HIDE DEF x
    <3> QED
      BY <1>t, <2>1, <3>1, WrittenIs DEF Typed
  <2>2. CASE ~ gap /\ file' = Append(file, x)
    <3> HIDE DEF x
    <3>1. <<x>> \in Seq(Entries) /\ file' = file \o <<x>>
      BY <1>t, <2>1, <2>2, AppendIsConcat
    <3>2. (file \o <<x>>) \o unsaved' = file \o (<<x>> \o unsaved')
      BY <1>t, <2>1, <3>1, ConcatAssociative
    <3> QED
      BY <1>d, <2>1, <2>2, <3>1, <3>2 DEF Blocks
  <2>3. CASE gap' = TRUE
    BY <2>1, <2>3 DEF Blocks
  <2> QED
    BY <2>w, <2>2, <2>3
<1>2. CASE TakePending
  <2>1. Head(pending) \in 1 .. MaxMsg
    BY <1>t, <1>2, HeadIs DEF TakePending, MustDrain
  <2>2. ProcessMessage(Head(pending)) /\ file' = file
    BY <1>2 DEF TakePending
  <2> QED
    BY <1>q, <2>1, <2>2
<1>3. CASE Stop
  BY <1>s, <1>3 DEF Stop
<1>4. CASE TakeInput
  <2>1. Head(input) \in 0 .. MaxMsg
    BY <1>t, <1>4, HeadIs DEF TakeInput
  <2>f. file' = file /\ pc = "Select"
    BY <1>4 DEF TakeInput, Ready
  <2>2. CASE Push(<<Entry("context", 0)>>) /\ pc' = pc
    <3>1. <<Entry("context", 0)>> \in Seq(Entries) /\ Paired(<<Entry("context", 0)>>)
      <4>1. "context" \in EntryKinds \ {"tool"} /\ 0 \in 0 .. MaxMsg + MaxTask
        BY EntryIs DEF EntryKinds
      <4> QED
        BY <4>1, OneEntry, PairedOnes
    <3> QED
      BY <1>p, <2>2, <2>f, <3>1
  <2>3. CASE Head(input) # 0 /\ ProcessMessage(Head(input))
    <3>1. Head(input) \in 1 .. MaxMsg
      BY <2>1, <2>3, EntryIs
    <3> QED
      BY <1>q, <2>3, <2>f, <3>1
  <2>4. CASE UNCHANGED <<history, unsaved, pc>>
    BY <1>s, <2>4, <2>f
  <2> QED
    BY <1>4, <2>2, <2>3, <2>4 DEF TakeInput
<1>5. CASE TakeResult
  <2> DEFINE t == Head(results[NextKind])
             group == GroupAfter(owner[t.id], t)
  <2>f. file' = file /\ results[NextKind] # <<>> /\ pc = "Select"
    BY <1>5 DEF TakeResult, Ready
  <2>t. t \in Tasks /\ (Known(t) => group.done \in Seq(1 .. MaxTask))
    BY <2>f, ResultIs DEF Typed
  <2>k. "result" \in EntryKinds \ {"tool"}
    BY DEF EntryKinds
  <2>1. CASE Orphaned(t)
    <3>1. Push(<<Entry("result", t.no)>>) /\ pc' = pc
      <4> HIDE DEF t
      <4> QED
        BY <2>1 DEF Orphaned
    <3>2. t.no \in 0 .. MaxMsg + MaxTask
      <4> HIDE DEF t
      <4> QED
        BY <2>t, EntryIs DEF Tasks
    <3> DEFINE n == t.no
    <3>3. n \in 0 .. MaxMsg + MaxTask /\ Push(<<Entry("result", n)>>)
      BY <3>1, <3>2
    <3> HIDE DEF n
    <3>4. <<Entry("result", n)>> \in Seq(Entries) /\ Paired(<<Entry("result", n)>>)
      BY <2>k, <3>3, OneEntry, PairedOnes
    <3> QED
      BY <1>p, <2>f, <3>1, <3>3, <3>4
  <2>2. CASE Known(t) /\ Counted(t)
    <3> DEFINE d == group.done
               e == [i \in DOMAIN d |-> Entry("result", d[i])]
    <3>1. (UNCHANGED <<history, unsaved, pc>> \/ Push(e)) /\ pc' # "Down"
      <4>1. UNCHANGED <<history, unsaved, pc>> \/ Push(e)
        <5> HIDE DEF t
        <5> QED
          BY <2>2 DEF Counted, GroupAfter
      <4>2. pc' = pc \/ pc' = "Turn"
        <5> HIDE DEF t
        <5> QED
          BY <2>2 DEF Counted
      <4> HIDE DEF e
      <4> QED
        BY <2>f, <4>1, <4>2
    <3>2. e \in Seq(Entries) /\ Paired(e)
      <4>1. d \in Seq(1 .. MaxTask)
        BY <2>2, <2>t
      <4> HIDE DEF d
      <4>2. e \in Seq(Entries) /\ \A i \in DOMAIN e : e[i] = Entry("result", d[i])
        BY <4>1, ResultsAre
      <4> HIDE DEF e
      <4>3. \A i \in DOMAIN e : Called(e[i]) = 0 /\ e[i].kind # "tool"
        BY <4>2, PlainOnes
      <4> QED
        BY <4>2, <4>3, PairedPlain
    <3> HIDE DEF e
    <3> QED
      BY <1>p, <1>s, <2>f, <3>1, <3>2
  <2> QED
    BY <1>5, <2>1, <2>2 DEF TakeResult
<1>6. CASE BeginTurn
  <2>1. /\ Updates \in Seq(Entries) /\ Paired(Updates)
    <3>1. Updates \in Seq(Entries) /\ \A i \in DOMAIN Updates : Updates[i] = Entry("context", 0)
      BY <1>t, UpdatesAre
    <3>2. \A i \in DOMAIN Updates : Called(Updates[i]) = 0 /\ Updates[i].kind # "tool"
      BY <3>1, PlainOnes
    <3> QED
      BY <3>1, <3>2, PairedPlain
  <2>2. /\ history' = history \o Updates \/ history' = Compacted(history) \o Updates
        /\ unsaved = <<>> /\ unsaved' = Updates /\ file' = file /\ pc' # "Down"
    BY <1>6 DEF BeginTurn, Updates
  <2>3. <<>> \o Updates = Updates
    BY <2>1, ConcatEmptySeq
  <2> QED
    BY <1>b, <2>1, <2>2, <2>3
<1>7. CASE AnswerText \/ AnswerFailed
  <2>1. PICK n \in {0, 1} : Push(<<Answer(n)>>) /\ file' = file /\ pc' # "Down"
    BY <1>7 DEF AnswerText, AnswerFailed
  <2> QED
    BY <1>p, <2>1, OneEntry, PairedOnes
<1>8. CASE AnswerRejected
  <2>n. PICK n \in {0, 1} : history' = history \o <<Answer(n), Entry("correction", 0)>>
    BY <1>8 DEF AnswerRejected
  <2> DEFINE e == <<Answer(n), Entry("correction", 0)>>
             f == <<Entry("correction", 0)>>
  <2>1. e \in Seq(Entries) /\ f \in Seq(Entries) /\ Paired(e) /\ Paired(f)
    <3>1. "correction" \in EntryKinds \ {"tool"} /\ 0 \in 0 .. MaxMsg + MaxTask
      BY EntryIs DEF EntryKinds
    <3> QED
      BY <3>1, OneEntry, PairedOnes
  <2>2. history' = history \o e /\ unsaved = <<>> /\ unsaved' = f /\ file' = file /\ pc' # "Down"
    BY <1>8, <2>n DEF AnswerRejected, Answered
  <2> HIDE DEF e, f
  <2>3. <<>> \o f = f
    BY <2>1, ConcatEmptySeq
  <2> QED
    BY <1>b, <2>1, <2>2, <2>3
<1>10. CASE AnswerTools
  <2>1. heard # <<>>
    BY <1>10 DEF AnswerTools, Answered, Asker
  <2>2. 1 \in 1 .. MaxTask + 1 /\ 1 <= MaxMsg + MaxTask
    <3>1. Head(heard) \in 1 .. MaxMsg
      BY <1>t, <2>1, HeadIs
    <3> QED
      BY <3>1, EntryIs
  <2>3. <<Reply(1)>> \o ToolEntries(1) \in Seq(Entries) /\ Paired(<<Reply(1)>> \o ToolEntries(1))
    BY <2>2, CallsAre, PairedCalls
  <2> QED
    BY <1>p, <1>10, <2>3 DEF AnswerTools
<1>11. CASE AnswerTasks
  <2>1. PICK n \in 1 .. MaxTask - tasks : Push(<<Reply(n)>> \o ToolEntries(n))
    BY <1>11 DEF AnswerTasks
  <2>2. n \in 1 .. MaxTask + 1 /\ n <= MaxMsg + MaxTask
    BY <1>t, EntryIs DEF LoopTypes
  <2>3. <<Reply(n)>> \o ToolEntries(n) \in Seq(Entries) /\ Paired(<<Reply(n)>> \o ToolEntries(n))
    BY <2>2, CallsAre, PairedCalls
  <2> QED
    BY <1>p, <1>11, <2>1, <2>3 DEF AnswerTasks
<1>12. CASE Say \/ Inform \/ CancelLoop
  BY <1>s, <1>12 DEF Say, Inform, CancelLoop
<1>15. CASE \E t \in running : TaskEnds(t) \/ TaskDies(t)
  BY <1>s, <1>15 DEF TaskEnds, TaskDies
<1>16. CASE Crash
  <2>1. history' = <<System>> /\ unsaved' = <<>>
    BY <1>16 DEF Crash
  <2>2. CASE gap'
    BY <2>1, <2>2 DEF Blocks
  <2>3. CASE ~ gap' /\ unsaved = <<>>
    <3>1. ~ gap /\ file' = file
      BY <1>16, <2>3 DEF Crash
    <3> QED
      BY <1>d, <2>1, <2>3, <3>1, PairedOnes DEF Blocks
  <2>4. CASE ~ gap' /\ unsaved # <<>>
    <3> DEFINE x == Head(unsaved)
    <3>1. x \in Entries /\ Tail(unsaved) \in Seq(Entries) /\ unsaved = <<x>> \o Tail(unsaved)
      BY <1>t, <2>4, HeadIs
    <3>2. ~ gap /\ file' = Append(file, x) /\ ~ (Len(unsaved) > 1)
      <4>1. WriteCut(x)
        BY <1>16, <2>4 DEF Crash
      <4> HIDE DEF x
      <4> QED
        BY <1>t, <2>4, <3>1, <4>1, WrittenIs DEF Typed
    <3>3. unsaved = <<x>>
      <4>1. Len(unsaved) \in Nat /\ Len(unsaved) # 0
        BY <1>t, <2>4, EmptySeq
      <4> DEFINE l == Len(unsaved)
      <4>l. l \in Nat /\ l # 0 /\ ~ (l > 1)
        BY <3>2, <4>1
      <4>2. l = 1
        <5> HIDE DEF l
        <5> QED
          BY <4>l
      <4> QED
        BY <1>t, <4>2
    <3>4. file' = file \o unsaved
      <4> HIDE DEF x
      <4> QED
        BY <1>t, <3>1, <3>2, <3>3, AppendIsConcat
    <3>5. file' \o <<>> = file'
      <4>1. file' \in Seq(Entries)
        BY <1>t, <3>4
      <4> QED
        BY <4>1, ConcatEmptySeq
    <3> QED
      BY <1>d, <2>1, <3>2, <3>4, <3>5, PairedOnes DEF Blocks
  <2> QED
    BY <2>2, <2>3, <2>4
<1>17. CASE Restart
  <2>1. /\ history' = <<System>> \o file /\ unsaved = <<>> /\ pc' # "Down"
        /\ UNCHANGED <<file, unsaved, gap>>
    BY <1>d, <1>17 DEF Restart
  <2>2. CASE gap
    BY <2>1, <2>2 DEF Blocks
  <2>3. CASE ~ gap
    <3>1. Paired(file \o <<>>) /\ file \o <<>> = file
      BY <1>d, <1>t, <2>1, <2>3, ConcatEmptySeq
    <3>2. Paired(<<System>> \o file)
      BY <1>c, <1>t, <3>1, OneEntry, PairedOnes
    <3> QED
      BY <2>1, <3>1, <3>2 DEF Blocks
  <2> QED
    BY <2>2, <2>3
<1>18. CASE UNCHANGED vars
  BY <1>s, <1>18 DEF vars
<1> QED
  BY <1>1, <1>2, <1>3, <1>4, <1>5, <1>6, <1>7, <1>8, <1>10, <1>11, <1>12, <1>15, <1>16,
     <1>17, <1>18 DEF Next

-----------------------------------------------------------------------------
\* The theorems.

\* The loop starts with nothing heard and nothing at work.
LEMMA StartHolds == ASSUME Init PROVE IInv
<1>e. MaxTask \in Nat /\ MaxMsg \in Nat
  BY EntryIs
<1>i. /\ pc = "Select" /\ driver = "message" /\ history = <<System>> /\ state = "Idle"
      /\ file = <<>> /\ unsaved = <<>> /\ pending = <<>> /\ heard = <<>> /\ input = <<>>
      /\ groups = <<>> /\ owner = <<>>
  BY DEF Init
<1>d. /\ DOMAIN <<>> = {} /\ \A S : <<>> \in Seq(S)
      /\ \A S : <<>> \in [DOMAIN <<>> -> S]
  OBVIOUS
<1>1. LoopTypes
  <2>1. 0 \in 0 .. MaxMsg /\ 0 \in 0 .. MaxTask /\ 0 \in Nat /\ {} \subseteq 1 .. 0
    BY <1>e
  <2> QED
    BY <2>1 DEF Init, LoopTypes
<1>2. EntryTypes /\ MessageTypes
  BY <1>i, <1>d, OneEntry DEF EntryTypes, MessageTypes
<1>3. TaskTypes
  <2>1. results = [k \in Kinds |-> <<>>] /\ running = {} /\ dead = {}
    BY DEF Init
  <2> QED
    BY <1>d, <2>1 DEF TaskTypes
<1>4. BookTypes
  BY <1>i, <1>d DEF BookTypes
<1>m. /\ Messages(<<>>) = <<>> /\ <<>> \o <<>> = <<>>
  <2>1. <<>> \in Seq(Entries) /\ Plain(<<>>)
    BY <1>d DEF Plain
  <2>2. Messages(<<>>) = <<>>
    BY <2>1, MessagesNone DEF Plain
  <2> QED
    BY <2>2
<1>5. KnownInOrder
  <2>1. KnownMessages = <<>>
    <3>1. Within(<<>>, 1 .. MaxMsg) = <<>>
      BY WithinEmpty
    <3> QED
      BY <1>i, <1>m, <3>1 DEF KnownMessages, Queued
  <2>2. (1 .. sent) \ lost = {}
    BY DEF Init
  <2> QED
    BY <2>1, <2>2, ToSetIs DEF KnownInOrder
<1>6. FileInOrder
  <2>1. OnFile = <<>>
    BY <1>i, <1>m DEF OnFile
  <2> QED
    BY <2>1, ToSetIs DEF FileInOrder
<1>7. Asker /\ WaitsForTasks
  BY <1>i, <1>d DEF Asker, WaitsForTasks, Waits
<1>8. Blocks
  BY <1>i, <1>m, PairedOnes DEF Blocks
<1> QED
  BY <1>1, <1>2, <1>3, <1>4, <1>5, <1>6, <1>7, <1>8 DEF IInv, Typed

\* No step of the loop, its senders or its tasks breaks the invariant.
LEMMA StepKeeps == ASSUME IInv, [Next]_vars PROVE IInv'
<1>1. Typed'
  BY TypedStays DEF IInv
<1>2. KnownInOrder'
  BY <1>1, KnownStays DEF IInv, Typed
<1>3. FileInOrder'
  BY <1>1, <1>2, FileStays DEF IInv, Typed
<1>4. Asker'
  BY AskerStays DEF IInv
<1>5. WaitsForTasks'
  BY WaitsStay DEF IInv
<1>6. Blocks'
  BY BlocksStay DEF IInv
<1> QED
  BY <1>1, <1>2, <1>3, <1>4, <1>5, <1>6 DEF IInv

\* The strengthened invariant holds in every state of the loop.
THEOREM LoopInvariant == Spec => []IInv
<1>1. Init => IInv
  BY StartHolds
<1>2. IInv /\ [Next]_vars => IInv'
  BY StepKeeps
<1> QED
  BY <1>1, <1>2, PTL DEF Spec

\* The loop, the entries, the queues and the tasks of src/agent/runtime have their types.
THEOREM TypesAreKept == Spec => []TypeOK
<1>1. IInv => TypeOK
  <2> SUFFICES ASSUME IInv PROVE TypeOK
    OBVIOUS
  <2>t. LoopTypes /\ EntryTypes /\ MessageTypes /\ TaskTypes
    BY DEF IInv, Typed
  <2>1. \A e \in ToSet(history) \union ToSet(file) \union ToSet(unsaved) : e \in Entries
    BY <2>t, ToSetIs DEF EntryTypes
  <2>2. \A k \in Kinds : ToSet(results[k]) \subseteq Tasks
    BY <2>t, ToSetIs DEF TaskTypes
  <2>3. ToSet(pending) \union ToSet(heard) \subseteq 1 .. MaxMsg
    BY <2>t, ToSetIs DEF MessageTypes
  <2> QED
    BY <2>t, <2>1, <2>2, <2>3 DEF TypeOK, LoopTypes, TaskTypes, Entries
<1> QED
  BY <1>1, LoopInvariant, PTL

\* handle_event parks or answers a message, process_message drains what is queued between two
\* model calls, and take_pending serves what is parked first: none is lost or overtaken.
THEOREM MessagesStayInOrder == Spec => []MessagesKeepOrder
<1>1. IInv => MessagesKeepOrder
  BY DEF IInv, KnownInOrder, KnownMessages, Increasing, MessagesKeepOrder
<1> QED
  BY <1>1, LoopInvariant, PTL

\* handle_task_result answers on the channel its group was registered with, which is that of the
\* message process_message heard last.
THEOREM RepliesGoToAsker == Spec => []ReplyGoesToAsker
<1>1. IInv => ReplyGoesToAsker
  BY DEF IInv, Asker, ReplyGoesToAsker
<1> QED
  BY <1>1, LoopInvariant, PTL

\* The history the model is sent has each call followed by its results: pushes add whole
\* blocks, evict_oldest_turns cuts where a turn starts, and a reload takes what was appended.
THEOREM CallsKeepResults == Spec => []CallsAreAnswered
<1>1. IInv => CallsAreAnswered
  <2> SUFFICES ASSUME IInv, ~ gap, NEW i \in DOMAIN history
               PROVE  /\ history[i].kind = "assistant" =>
                            \A n \in 1 .. history[i].tools :
                               i + n \in DOMAIN history /\ history[i + n] = Entry("tool", n)
                      /\ history[i].kind = "tool" =>
                            LET call == i - history[i].of
                            IN  /\ call \in DOMAIN history
                                /\ history[call].kind = "assistant"
                                /\ history[call].tools >= history[i].of
    BY DEF CallsAreAnswered
  <2>1. Paired(history) /\ history \in Seq(Entries)
    BY DEF IInv, Blocks, Typed, EntryTypes
  <2>2. /\ \A n \in 1 .. Called(history[i]) :
              i + n \in DOMAIN history /\ history[i + n] = Entry("tool", n)
        /\ history[i].kind = "tool" =>
              history[i].of < i /\ Called(history[i - history[i].of]) >= history[i].of
    BY <2>1 DEF Paired
  <2>3. CASE history[i].kind = "assistant"
    BY <2>2, <2>3 DEF Called
  <2>4. CASE history[i].kind = "tool"
    <3> DEFINE o == history[i].of
               call == i - o
    <3>1. history[i] \in Entries /\ i \in 1 .. Len(history)
      BY <2>1
    <3>2. o \in Nat /\ o # 0
      BY <2>4, <3>1, EntryNumbers
    <3>3. o < i /\ Called(history[call]) >= o
      BY <2>2, <2>4
    <3>4. call \in DOMAIN history
      BY <2>1, <3>1, <3>2, <3>3
    <3> HIDE DEF o, call
    <3>5. history[call].kind = "assistant" /\ history[call].tools >= o
      BY <3>2, <3>3 DEF Called
    <3> QED
      BY <2>4, <3>4, <3>5 DEF o, call
  <2> QED
    BY <2>3, <2>4
<1> QED
  BY <1>1, LoopInvariant, PTL

\* TaskGroupSet::register and complete leave one group open while its tasks are at work, queued
\* or dead, and none when the loop is idle.
THEOREM SuspensionIsForTasks == Spec => []SuspendedForTasks
<1>1. ASSUME IInv, pc = "Select", ~ clash
      PROVE  /\ state \in {"Idle", "Processing"}
             /\ state = "Processing" <=> groups # <<>>
             /\ Cardinality(DOMAIN groups) <= 1
             /\ \A g \in DOMAIN groups :
                   /\ groups[g].left = Cardinality({i \in DOMAIN owner : owner[i] = g})
                   /\ \A i \in DOMAIN owner : \E t \in Outstanding : t.id = i
  <2>1. LoopTypes /\ BookTypes /\ Asker /\ Waits
    BY Zenon, <1>1 DEF IInv, Typed, WaitsForTasks
  <2>2. state \in {"Idle", "Processing"}
    BY <1>1, <2>1 DEF LoopTypes, Asker
  <2>3. groups = <<>> <=> DOMAIN groups = {}
    <3>1. groups = [y \in DOMAIN groups |-> groups[y]]
      BY <2>1 DEF BookTypes
    <3> QED
      BY <3>1, EmptyTable
  <2>4. state = "Processing" <=> groups # <<>>
    BY <2>1, <2>3 DEF Asker, Waits
  <2>5. Cardinality(DOMAIN groups) <= 1
    <3>1. CASE DOMAIN groups = {}
      BY <3>1, FS_EmptySet
    <3>2. CASE DOMAIN groups # {}
      <4>1. PICK g : g \in DOMAIN groups
        BY <3>2
      <4>2. DOMAIN groups = {g}
        BY <2>1, <4>1 DEF Waits
      <4>3. Cardinality({g}) = 1
        BY FS_Singleton
      <4> QED
        BY <4>2, <4>3
    <3> QED
      BY <3>1, <3>2
  <2>6. \A g \in DOMAIN groups :
           /\ groups[g].left = Cardinality({i \in DOMAIN owner : owner[i] = g})
           /\ \A i \in DOMAIN owner : \E t \in Outstanding : t.id = i
    BY <2>1 DEF Waits, OwnedBy
  <2> QED
    BY <2>2, <2>4, <2>5, <2>6
<1>2. IInv => SuspendedForTasks
  BY <1>1 DEF SuspendedForTasks
<1> QED
  BY <1>2, LoopInvariant, PTL
===============================================================================
