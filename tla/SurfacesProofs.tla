---------------------------- MODULE SurfacesProofs ----------------------------
(***************************************************************************)
(* One surface (Surfaces): every write is one fact of the World, and when  *)
(* nothing is on its way the World knows the screen but for what was       *)
(* dropped, for any number of edits, calls, connections and losses.        *)
(***************************************************************************)
EXTENDS Surfaces, SequenceTheorems, TLAPS

\* A person's writes and an agent's.
Edits == [by : {"human"}, no : Nat, base : {NoBase}, of : Conns]
Drives == [by : {"agent"}, no : Nat, base : Int, of : {0}]
Writes == Edits \cup Drives
Frames == [kind : {"mutation"}, write : Writes] \cup [kind : {"observation"}, version : Nat]

Typed ==
    /\ conn \in Nat /\ conn <= MaxConn /\ open \in BOOLEAN /\ (open => conn \in Conns)
    /\ shown \subseteq Writes /\ applied \in Nat /\ reported \in Nat
    /\ stale \in BOOLEAN /\ scheduled \in BOOLEAN
    /\ serving \subseteq Conns /\ sink \in Conns \cup {0}
    /\ sent \in [Conns -> Seq(Frames)] /\ drives \in Seq(Seq(Drives))
    /\ version \in Nat /\ facts \in [{"human", "agent"} -> Seq(Writes)]
    /\ facts["human"] \in Seq(Edits) /\ facts["agent"] \in Seq(Drives)
    /\ answers \in Seq(Drives) /\ refused \subseteq Drives
    /\ lost \subseteq Writes /\ edits \in Nat /\ asks \in Nat

IsEdit(f) == f.kind = "mutation" /\ f.write.by = "human"

\* What a connection carries was written on the screen; a connection carries its own edits, in
\* the order they were made.
SentInOrder ==
    \A c \in Conns :
        /\ \A i \in DOMAIN sent[c] :
              /\ sent[c][i].kind = "mutation" => sent[c][i].write \in shown
              /\ IsEdit(sent[c][i]) =>
                    sent[c][i].write.of = c /\ sent[c][i].write.no <= edits
        /\ \A i, j \in DOMAIN sent[c] :
              i < j /\ IsEdit(sent[c][i]) /\ IsEdit(sent[c][j]) =>
                  sent[c][i].write.no < sent[c][j].write.no

\* The World's edits of a connection come before those the connection still carries.
HeardInOrder ==
    LET heard == facts["human"]
    IN  /\ \A i \in DOMAIN heard : heard[i] \in shown /\ heard[i].no <= edits
        /\ \A i, j \in DOMAIN heard :
              i < j /\ heard[i].of = heard[j].of => heard[i].no < heard[j].no
        /\ \A i \in DOMAIN heard : \A c \in Conns : \A j \in DOMAIN sent[c] :
              heard[i].of = c /\ IsEdit(sent[c][j]) => heard[i].no < sent[c][j].write.no

\* An agent's writes are recorded in the order of the calls, and not those of a failed call.
AskedInOrder ==
    LET told == facts["agent"]
    IN  /\ \A i \in DOMAIN told : told[i].no <= asks
        /\ \A i, j \in DOMAIN told : i < j => told[i].no < told[j].no
        /\ \A w \in refused : w.no <= asks /\ w \notin ToSet(told)

\* An agent's write is answered when it is sent; one without a precondition is then on the
\* screen, on its way or lost, and so is a person's in the log.
Carried ==
    {f.write : f \in {g \in UNION {ToSet(sent[c]) : c \in Conns} : g.kind = "mutation"}}
Driven == UNION {ToSet(ops) : ops \in ToSet(drives)}
Answered == ToSet(facts["agent"]) \cup refused
ScreenIsTracked ==
    /\ shown \cap Drives \subseteq Answered /\ Driven \subseteq Answered
    /\ \A w \in Answered : w.base = NoBase => w \in shown \cup Driven \cup lost
    /\ \A w \in shown \cap Edits : w \in ToSet(facts["human"]) \cup Carried \cup lost

InOrder == SentInOrder /\ HeardInOrder /\ AskedInOrder
IInv == Typed /\ InOrder /\ ScreenIsTracked
-----------------------------------------------------------------------------
\* The queues of the relay.

\* A queue that is longer by one at its end, or shorter by one at its head.
LEMMA AppendIs ==
    ASSUME NEW T, NEW s \in Seq(T), NEW x \in T
    PROVE  /\ Append(s, x) \in Seq(T) /\ ToSet(Append(s, x)) = ToSet(s) \cup {x}
           /\ \A i \in DOMAIN Append(s, x) :
                 \/ i \in DOMAIN s /\ Append(s, x)[i] = s[i]
                 \/ i = Len(s) + 1 /\ Append(s, x)[i] = x /\ \A j \in DOMAIN s : j < i
           /\ DOMAIN s \subseteq Nat /\ DOMAIN Append(s, x) \subseteq Nat /\ Len(s) \in Nat
<1> DEFINE t == Append(s, x)
<1>1. /\ t \in Seq(T) /\ DOMAIN t = 1 .. Len(s) + 1 /\ DOMAIN s = 1 .. Len(s) /\ Len(s) \in Nat
      /\ \A i \in 1 .. Len(s) : t[i] = s[i]
      /\ t[Len(s) + 1] = x
  OBVIOUS
<1> HIDE DEF t
<1>2. ToSet(t) = ToSet(s) \cup {x}
  <2>1. ASSUME NEW w PROVE w \in ToSet(t) <=> w \in ToSet(s) \cup {x}
    BY <1>1 DEF ToSet
  <2> QED
    BY <2>1
<1>3. \A i \in DOMAIN t : i \in DOMAIN s \/ i = Len(s) + 1
  BY <1>1
<1>4. \A i \in DOMAIN t : \/ i \in DOMAIN s /\ t[i] = s[i]
                          \/ i = Len(s) + 1 /\ t[i] = x /\ \A j \in DOMAIN s : j < i
  BY <1>1, <1>3
<1> QED
  BY <1>1, <1>2, <1>4 DEF t

\* A queue from which the first one is taken.
LEMMA TailIs ==
    ASSUME NEW T, NEW s \in Seq(T), s # <<>>
    PROVE  /\ Tail(s) \in Seq(T) /\ Head(s) \in T /\ ToSet(s) = ToSet(Tail(s)) \cup {Head(s)}
           /\ \A i \in DOMAIN Tail(s) : i + 1 \in DOMAIN s /\ Tail(s)[i] = s[i + 1] /\ 1 < i + 1
           /\ 1 \in DOMAIN s /\ Head(s) = s[1]
           /\ DOMAIN s \subseteq Nat /\ DOMAIN Tail(s) \subseteq Nat
<1> DEFINE t == Tail(s)
<1>1. /\ t \in Seq(T) /\ DOMAIN t = 1 .. Len(s) - 1 /\ DOMAIN s = 1 .. Len(s)
      /\ Len(s) \in Nat /\ Len(s) > 0 /\ Head(s) = s[1] /\ Head(s) \in T
      /\ \A i \in 1 .. Len(s) - 1 : t[i] = s[i + 1]
  OBVIOUS
<1> HIDE DEF t
<1>2. \A i \in DOMAIN s : i = 1 \/ (i - 1 \in DOMAIN t /\ t[i - 1] = s[i])
  BY <1>1
<1>3. \A i \in DOMAIN t : i + 1 \in DOMAIN s /\ t[i] = s[i + 1] /\ 1 < i + 1
  BY <1>1
<1>4. 1 \in DOMAIN s
  BY <1>1
<1>5. ToSet(s) = ToSet(t) \cup {Head(s)}
  <2>1. ASSUME NEW w \in ToSet(s) PROVE w \in ToSet(t) \cup {Head(s)}
    BY <1>1, <1>2 DEF ToSet
  <2>2. ASSUME NEW w \in ToSet(t) PROVE w \in ToSet(s)
    BY <1>3 DEF ToSet
  <2>3. Head(s) \in ToSet(s)
    BY <1>1, <1>4 DEF ToSet
  <2> QED
    BY <2>1, <2>2, <2>3
<1> QED
  BY <1>1, <1>3, <1>4, <1>5 DEF t

\* Several are put at the end of a queue, in their order.
LEMMA ConcatIs ==
    ASSUME NEW T, NEW s \in Seq(T), NEW t \in Seq(T)
    PROVE  /\ s \o t \in Seq(T) /\ ToSet(s \o t) = ToSet(s) \cup ToSet(t)
           /\ \A i \in DOMAIN (s \o t) :
                 \/ i \in DOMAIN s /\ (s \o t)[i] = s[i]
                 \/ i - Len(s) \in DOMAIN t /\ (s \o t)[i] = t[i - Len(s)]
           /\ \A i \in DOMAIN s, j \in DOMAIN t : i < j + Len(s)
           /\ DOMAIN s \subseteq Nat /\ DOMAIN t \subseteq Nat /\ Len(s) \in Nat
           /\ DOMAIN (s \o t) \subseteq Nat
<1> DEFINE r == s \o t
<1>1. /\ r \in Seq(T) /\ Len(r) = Len(s) + Len(t)
      /\ \A j \in 1 .. Len(s) + Len(t) : r[j] = IF j <= Len(s) THEN s[j] ELSE t[j - Len(s)]
  BY ConcatProperties
<1>2. /\ DOMAIN r = 1 .. Len(s) + Len(t) /\ DOMAIN s = 1 .. Len(s) /\ DOMAIN t = 1 .. Len(t)
      /\ Len(s) \in Nat /\ Len(t) \in Nat
  BY <1>1
<1> HIDE DEF r
<1>3. \A i \in DOMAIN s : i \in DOMAIN r /\ r[i] = s[i]
  BY <1>1, <1>2
<1>4. \A i \in DOMAIN t : i + Len(s) \in DOMAIN r /\ r[i + Len(s)] = t[i]
  BY <1>1, <1>2
<1>5. \A i \in DOMAIN r : \/ i \in DOMAIN s /\ r[i] = s[i]
                          \/ i - Len(s) \in DOMAIN t /\ r[i] = t[i - Len(s)]
  BY <1>1, <1>2
<1>6. ToSet(r) = ToSet(s) \cup ToSet(t)
  <2>1. ASSUME NEW w \in ToSet(r) PROVE w \in ToSet(s) \cup ToSet(t)
    BY <1>5 DEF ToSet
  <2>2. ASSUME NEW w \in ToSet(s) \cup ToSet(t) PROVE w \in ToSet(r)
    BY <1>3, <1>4 DEF ToSet
  <2> QED
    BY <2>1, <2>2
<1>7. \A i \in DOMAIN s, j \in DOMAIN t : i < j + Len(s)
  BY <1>2
<1>8. DOMAIN s \subseteq Nat /\ DOMAIN t \subseteq Nat /\ DOMAIN r \subseteq Nat
  BY <1>2
<1> QED
  BY <1>1, <1>2, <1>5, <1>6, <1>7, <1>8 DEF r

\* What the connections carry, when one more frame is sent or one is read.
LEMMA CarriesMore ==
    ASSUME sent \in [Conns -> Seq(Frames)], NEW c \in Conns, NEW f \in Frames,
           sent' = [sent EXCEPT ![c] = Append(@, f)]
    PROVE  /\ Carried \subseteq Carried'
           /\ f.kind = "mutation" => f.write \in Carried'
<1>1. ToSet(Append(sent[c], f)) = ToSet(sent[c]) \cup {f}
  BY AppendIs
<1>2. \A d \in Conns : ToSet(sent[d]) \subseteq ToSet(sent'[d])
  BY <1>1
<1>3. f \in ToSet(sent'[c])
  BY <1>1
<1> QED
  BY <1>2, <1>3 DEF Carried

\* What they carry when several more are sent.
LEMMA CarriesMany ==
    ASSUME sent \in [Conns -> Seq(Frames)], NEW c \in Conns, NEW fs \in Seq(Frames),
           sent' = [sent EXCEPT ![c] = @ \o fs]
    PROVE  Carried \subseteq Carried'
<1>1. ToSet(sent[c] \o fs) = ToSet(sent[c]) \cup ToSet(fs)
  BY ConcatIs
<1>2. \A d \in Conns : ToSet(sent[d]) \subseteq ToSet(sent'[d])
  BY <1>1
<1> QED
  BY <1>2 DEF Carried

\* What is read from a connection was carried by it, and only that is gone.
LEMMA CarriesLess ==
    ASSUME sent \in [Conns -> Seq(Frames)], NEW c \in Conns, sent[c] # <<>>,
           sent' = [sent EXCEPT ![c] = Tail(@)]
    PROVE  \A w \in Carried :
              w \in Carried' \/ (Head(sent[c]).kind = "mutation" /\ w = Head(sent[c]).write)
<1>1. ToSet(sent[c]) = ToSet(Tail(sent[c])) \cup {Head(sent[c])}
  BY TailIs
<1> SUFFICES ASSUME NEW w \in Carried, w \notin Carried'
             PROVE  Head(sent[c]).kind = "mutation" /\ w = Head(sent[c]).write
  OBVIOUS
<1>2. PICK d \in Conns :
         \E f \in ToSet(sent[d]) : f.kind = "mutation" /\ w = f.write
  BY DEF Carried
<1>3. PICK f \in ToSet(sent[d]) : f.kind = "mutation" /\ w = f.write
  BY <1>2
<1>4. f \notin ToSet(sent'[d])
  BY <1>2, <1>3 DEF Carried
<1> QED
  BY <1>1, <1>2, <1>3, <1>4

-----------------------------------------------------------------------------
\* The steps.

\* A step that touches neither the screen, nor the queues, nor the log.
LEMMA Unmoved ==
    ASSUME InOrder, ScreenIsTracked,
           UNCHANGED <<shown, sent, drives, facts, refused, lost, edits, asks>>
    PROVE  InOrder' /\ ScreenIsTracked'
BY DEF InOrder, SentInOrder, HeardInOrder, AskedInOrder, ScreenIsTracked, Carried, Driven,
       Answered, IsEdit

\* The fields of writes and frames, and that no edit is a drive.
LEMMA FieldsOf ==
    /\ \A w \in Edits : w.by = "human" /\ w.no \in Nat /\ w.base = NoBase /\ w.of \in Conns
    /\ \A w \in Drives : w.by = "agent" /\ w.no \in Nat /\ w.base \in Int
    /\ \A f \in Frames : \/ f.kind = "mutation" /\ f.write \in Writes
                         \/ f.kind = "observation" /\ f.version \in Nat
    /\ \A w \in Writes : /\ w.by = "human" => w \in Edits
                         /\ w.by = "agent" => w \in Drives
                         /\ w.no \in Nat
    /\ Edits \cap Drives = {}
BY DEF Edits, Drives, Frames, Writes

\* Frames that are sent and that do not break the order of their connection keep every order.
LEMMA FrameInOrder ==
    ASSUME Typed, InOrder, NEW c \in Conns, NEW f \in Frames,
           sent' = [sent EXCEPT ![c] = Append(@, f)],
           UNCHANGED <<facts, refused, asks>>, shown \subseteq shown',
           edits' \in Nat, edits <= edits',
           f.kind = "mutation" => f.write \in shown',
           IsEdit(f) => f.write.of = c /\ f.write.no = edits' /\ edits < edits'
    PROVE  InOrder'
<1> DEFINE t == Append(sent[c], f)
<1>1. /\ sent[c] \in Seq(Frames)
      /\ \A i \in DOMAIN t : \/ i \in DOMAIN sent[c] /\ t[i] = sent[c][i]
                             \/ /\ i = Len(sent[c]) + 1 /\ t[i] = f
                                /\ \A j \in DOMAIN sent[c] : j < i
      /\ DOMAIN sent[c] \subseteq Nat /\ DOMAIN t \subseteq Nat /\ Len(sent[c]) \in Nat
  BY AppendIs DEF Typed
<1>2. sent'[c] = t /\ \A d \in Conns : d # c => sent'[d] = sent[d]
  BY DEF Typed
<1>3. edits \in Nat /\ \A d \in Conns : \A i \in DOMAIN sent[d] :
          IsEdit(sent[d][i]) => sent[d][i].write.no \in Nat /\ sent[d][i].write.no <= edits
  <2>1. \A d \in Conns : \A i \in DOMAIN sent[d] : sent[d][i] \in Frames
    BY DEF Typed
  <2> QED
    BY <2>1, FieldsOf DEF Typed, InOrder, SentInOrder, IsEdit
<1>4. \A i \in DOMAIN facts["human"] :
         facts["human"][i].no \in Nat /\ facts["human"][i].no <= edits
  <2>1. \A i \in DOMAIN facts["human"] : facts["human"][i] \in Edits
    BY DEF Typed
  <2> QED
    BY <2>1, FieldsOf DEF InOrder, HeardInOrder
<1> HIDE DEF t
<1>5. SentInOrder'
  <2> SUFFICES ASSUME NEW d \in Conns
               PROVE  /\ \A i \in DOMAIN sent'[d] :
                            /\ sent'[d][i].kind = "mutation" => sent'[d][i].write \in shown'
                            /\ IsEdit(sent'[d][i]) =>
                                  sent'[d][i].write.of = d /\ sent'[d][i].write.no <= edits'
                      /\ \A i, j \in DOMAIN sent'[d] :
                            i < j /\ IsEdit(sent'[d][i]) /\ IsEdit(sent'[d][j]) =>
                                sent'[d][i].write.no < sent'[d][j].write.no
    BY DEF SentInOrder, IsEdit
  <2>1. CASE d # c
    BY <1>2, <1>3, <2>1 DEF InOrder, SentInOrder
  <2>2. CASE d = c
    <3>1. \A i \in DOMAIN t :
             /\ t[i].kind = "mutation" => t[i].write \in shown'
             /\ IsEdit(t[i]) => t[i].write.of = c /\ t[i].write.no <= edits'
      BY <1>1, <1>3 DEF InOrder, SentInOrder
    <3>2. ASSUME NEW i \in DOMAIN t, NEW j \in DOMAIN t, i < j, IsEdit(t[i]), IsEdit(t[j])
          PROVE  t[i].write.no < t[j].write.no
      <4>1. i \in DOMAIN sent[c] /\ t[i] = sent[c][i]
        BY <1>1, <3>2
      <4>2. CASE j \in DOMAIN sent[c] /\ t[j] = sent[c][j]
        BY <3>2, <4>1, <4>2 DEF InOrder, SentInOrder
      <4>3. CASE t[j] = f
        BY <1>3, <3>2, <4>1, <4>3
      <4> QED
        BY <1>1, <4>2, <4>3
    <3> QED
      BY <1>2, <2>2, <3>1, <3>2
  <2> QED
    BY <2>1, <2>2
<1>6. HeardInOrder'
  <2>1. \A i \in DOMAIN facts["human"] :
           facts["human"][i] \in shown' /\ facts["human"][i].no <= edits'
    BY <1>3, <1>4 DEF InOrder, HeardInOrder
  <2>2. \A i, j \in DOMAIN facts["human"] :
           i < j /\ facts["human"][i].of = facts["human"][j].of =>
               facts["human"][i].no < facts["human"][j].no
    BY DEF InOrder, HeardInOrder
  <2>3. ASSUME NEW i \in DOMAIN facts["human"], NEW d \in Conns, NEW j \in DOMAIN sent'[d],
               facts["human"][i].of = d, IsEdit(sent'[d][j])
        PROVE  facts["human"][i].no < sent'[d][j].write.no
    <3>1. CASE j \in DOMAIN sent[d] /\ sent'[d][j] = sent[d][j]
      BY <2>3, <3>1 DEF InOrder, HeardInOrder
    <3>2. CASE sent'[d][j] = f
      BY <1>3, <1>4, <2>3, <3>2
    <3> QED
      BY <1>1, <1>2, <3>1, <3>2
  <2> QED
    BY <2>1, <2>2, <2>3 DEF HeardInOrder, IsEdit
<1>7. AskedInOrder'
  BY DEF InOrder, AskedInOrder
<1> QED
  BY <1>5, <1>6, <1>7 DEF InOrder

\* Echoes of the agent's writes, put at the end of a connection, keep every order.
LEMMA EchoesInOrder ==
    ASSUME Typed, InOrder, NEW c \in Conns, NEW fs \in Seq(Frames),
           \A i \in DOMAIN fs : fs[i].kind = "mutation" /\ fs[i].write \in shown' \cap Drives,
           sent' = [sent EXCEPT ![c] = @ \o fs],
           UNCHANGED <<facts, refused, edits, asks>>, shown \subseteq shown'
    PROVE  InOrder'
<1>1. \A i \in DOMAIN fs : ~ IsEdit(fs[i])
  BY FieldsOf DEF IsEdit
<1>2. ASSUME NEW d \in Conns, NEW i \in DOMAIN sent'[d]
      PROVE  \/ i \in DOMAIN sent[d] /\ sent'[d][i] = sent[d][i]
             \/ /\ ~ IsEdit(sent'[d][i])
                /\ sent'[d][i].kind = "mutation" => sent'[d][i].write \in shown'
  <2>1. CASE d # c
    BY <1>2, <2>1 DEF Typed
  <2>2. CASE d = c
    <3>1. sent'[c] = sent[c] \o fs /\ sent[c] \in Seq(Frames)
      BY DEF Typed
    <3> QED
      BY <1>1, <1>2, <2>2, <3>1, ConcatIs
  <2> QED
    BY <2>1, <2>2
<1>3. SentInOrder'
  <2>1. ASSUME NEW d \in Conns, NEW i \in DOMAIN sent'[d]
        PROVE  /\ sent'[d][i].kind = "mutation" => sent'[d][i].write \in shown'
               /\ IsEdit(sent'[d][i]) =>
                     sent'[d][i].write.of = d /\ sent'[d][i].write.no <= edits'
    BY <1>2 DEF InOrder, SentInOrder
  <2>2. ASSUME NEW d \in Conns, NEW i \in DOMAIN sent'[d], NEW j \in DOMAIN sent'[d],
               i < j, IsEdit(sent'[d][i]), IsEdit(sent'[d][j])
        PROVE  sent'[d][i].write.no < sent'[d][j].write.no
    BY <1>2, <2>2 DEF InOrder, SentInOrder
  <2> QED
    BY <2>1, <2>2 DEF SentInOrder, IsEdit
<1>4. HeardInOrder'
  BY <1>2 DEF InOrder, HeardInOrder, IsEdit
<1>5. AskedInOrder'
  BY DEF InOrder, AskedInOrder
<1> QED
  BY <1>3, <1>4, <1>5 DEF InOrder

\* A frame that is read, and appended to the log if it is an edit or dropped, keeps every order.
LEMMA ReadInOrder ==
    ASSUME Typed, InOrder, NEW c \in Conns, sent[c] # <<>>,
           sent' = [sent EXCEPT ![c] = Tail(@)],
           UNCHANGED <<shown, refused, edits, asks>>,
           \/ facts' = facts
           \/ /\ IsEdit(Head(sent[c]))
              /\ facts' = [facts EXCEPT !["human"] = Append(@, Head(sent[c]).write)]
    PROVE  InOrder' /\ (IsEdit(Head(sent[c])) => Head(sent[c]).write \in Edits)
<1> DEFINE t == Tail(sent[c])
           f == Head(sent[c])
           heard == facts["human"]
<1>1. /\ \A i \in DOMAIN t : i + 1 \in DOMAIN sent[c] /\ t[i] = sent[c][i + 1] /\ 1 < i + 1
      /\ 1 \in DOMAIN sent[c] /\ f = sent[c][1] /\ f \in Frames
      /\ DOMAIN sent[c] \subseteq Nat /\ DOMAIN t \subseteq Nat
  BY TailIs DEF Typed
<1>2. sent'[c] = t /\ \A d \in Conns : d # c => sent'[d] = sent[d]
  BY DEF Typed
<1>3. \A d \in Conns : \A j \in DOMAIN sent'[d] :
          \E i \in DOMAIN sent[d] : sent'[d][j] = sent[d][i] /\ (d = c => 1 < i)
  <2> HIDE DEF t, f
  <2> SUFFICES ASSUME NEW d \in Conns, NEW j \in DOMAIN sent'[d]
               PROVE  \E i \in DOMAIN sent[d] : sent'[d][j] = sent[d][i] /\ (d = c => 1 < i)
    OBVIOUS
  <2>1. CASE d = c
    <3>1. j \in DOMAIN t
      BY <1>2, <2>1
    <3>2. j + 1 \in DOMAIN sent[c] /\ t[j] = sent[c][j + 1] /\ 1 < j + 1
      BY <1>1, <3>1
    <3> QED
      BY <1>2, <2>1, <3>2
  <2>2. CASE d # c
    <3>1. sent'[d] = sent[d]
      BY <1>2, <2>2
    <3> QED
      BY <2>2, <3>1
  <2> QED
    BY <2>1, <2>2
<1>4. IsEdit(f) => f.write \in Edits /\ f.write \in shown /\ f.write.of = c /\ f.write.no <= edits
  BY <1>1, FieldsOf DEF InOrder, SentInOrder, IsEdit
<1> HIDE DEF t, f, heard
<1>5. SentInOrder'
  <2> SUFFICES ASSUME NEW d \in Conns
               PROVE  /\ \A i \in DOMAIN sent'[d] :
                            /\ sent'[d][i].kind = "mutation" => sent'[d][i].write \in shown'
                            /\ IsEdit(sent'[d][i]) =>
                                  sent'[d][i].write.of = d /\ sent'[d][i].write.no <= edits'
                      /\ \A i, j \in DOMAIN sent'[d] :
                            i < j /\ IsEdit(sent'[d][i]) /\ IsEdit(sent'[d][j]) =>
                                sent'[d][i].write.no < sent'[d][j].write.no
    BY DEF SentInOrder, IsEdit
  <2>1. CASE d # c
    BY <1>2, <2>1 DEF InOrder, SentInOrder
  <2>2. CASE d = c
    <3>1. \A i, j \in DOMAIN t : i < j => i + 1 < j + 1
      BY <1>1
    <3>2. \A i \in DOMAIN t :
             /\ t[i].kind = "mutation" => t[i].write \in shown
             /\ IsEdit(t[i]) => t[i].write.of = c /\ t[i].write.no <= edits
      BY <1>1 DEF InOrder, SentInOrder
    <3>3. ASSUME NEW i \in DOMAIN t, NEW j \in DOMAIN t, i < j, IsEdit(t[i]), IsEdit(t[j])
          PROVE  t[i].write.no < t[j].write.no
      <4>1. /\ i + 1 \in DOMAIN sent[c] /\ t[i] = sent[c][i + 1]
            /\ j + 1 \in DOMAIN sent[c] /\ t[j] = sent[c][j + 1] /\ i + 1 < j + 1
        BY <1>1, <3>1, <3>3
      <4> QED
        BY <3>3, <4>1 DEF InOrder, SentInOrder
    <3> QED
      BY <1>2, <2>2, <3>2, <3>3
  <2> QED
    BY <2>1, <2>2
<1>6. HeardInOrder'
  <2>1. CASE facts' = facts
    BY <1>3, <2>1 DEF InOrder, HeardInOrder, IsEdit
  <2>2. CASE /\ IsEdit(f)
             /\ facts' = [facts EXCEPT !["human"] = Append(@, f.write)]
    <3> DEFINE r == Append(heard, f.write)
    <3>1. facts'["human"] = r
      BY <2>2 DEF Typed, heard
    <3>2. /\ heard \in Seq(Edits)
          /\ \A i \in DOMAIN r : \/ i \in DOMAIN heard /\ r[i] = heard[i]
                                 \/ /\ i = Len(heard) + 1 /\ r[i] = f.write
                                    /\ \A j \in DOMAIN heard : j < i
          /\ DOMAIN heard \subseteq Nat /\ DOMAIN r \subseteq Nat /\ Len(heard) \in Nat
      <4>1. heard \in Seq(Edits) /\ f.write \in Edits
        BY <1>4, <2>2 DEF Typed, heard
      <4> QED
        BY <4>1, AppendIs
    <3> HIDE DEF r
    <3>3. \A i \in DOMAIN heard : heard[i] \in shown /\ heard[i].no <= edits
      BY DEF InOrder, HeardInOrder, heard
    <3>4. \A i \in DOMAIN heard : heard[i].of = c => heard[i].no < f.write.no
      BY <1>1, <2>2 DEF InOrder, HeardInOrder, heard
    <3>5. ASSUME NEW i \in DOMAIN r, NEW j \in DOMAIN r, i < j, r[i].of = r[j].of
          PROVE  r[i].no < r[j].no
      <4>1. i \in DOMAIN heard /\ r[i] = heard[i]
        BY <3>2, <3>5
      <4>2. CASE j \in DOMAIN heard /\ r[j] = heard[j]
        BY <3>5, <4>1, <4>2 DEF InOrder, HeardInOrder, heard
      <4>3. CASE r[j] = f.write
        BY <1>4, <2>2, <3>4, <3>5, <4>1, <4>3
      <4> QED
        BY <3>2, <4>2, <4>3
    <3>6. ASSUME NEW i \in DOMAIN r, NEW d \in Conns, NEW j \in DOMAIN sent'[d],
                 r[i].of = d, IsEdit(sent'[d][j])
          PROVE  r[i].no < sent'[d][j].write.no
      <4>1. PICK k \in DOMAIN sent[d] : sent'[d][j] = sent[d][k] /\ (d = c => 1 < k)
        BY <1>3
      <4>2. CASE i \in DOMAIN heard /\ r[i] = heard[i]
        BY <3>6, <4>1, <4>2 DEF InOrder, HeardInOrder, heard
      <4>3. CASE r[i] = f.write
        <5>1. d = c
          BY <1>4, <2>2, <3>6, <4>3
        <5> QED
          BY <1>1, <2>2, <3>6, <4>1, <4>3, <5>1 DEF InOrder, SentInOrder
      <4> QED
        BY <3>2, <4>2, <4>3
    <3>7. \A i \in DOMAIN r : r[i] \in shown /\ r[i].no <= edits
      BY <1>4, <2>2, <3>2, <3>3
    <3> QED
      BY <3>1, <3>5, <3>6, <3>7 DEF HeardInOrder, IsEdit
  <2> QED
    BY <2>1, <2>2 DEF f
<1>7. AskedInOrder'
  <2>1. facts'["agent"] = facts["agent"]
    BY DEF Typed
  <2> QED
    BY <2>1 DEF InOrder, AskedInOrder
<1> QED
  BY <1>4, <1>5, <1>6, <1>7 DEF InOrder, f

\* A call's ops are numbered on, forwarded in order, and recorded or refused as one (SetValue).
LEMMA SetValueIs ==
    ASSUME Typed, SetValue
    PROVE  \E ops \in Seq(Drives) :
              /\ \A i \in DOMAIN ops : ops[i].no = asks + i
              /\ asks' = asks + Len(ops) /\ drives' = Append(drives, ops)
              /\ \/ /\ facts' = [facts EXCEPT !["agent"] = @ \o ops]
                    /\ answers' = answers \o ops /\ UNCHANGED refused
                 \/ refused' = refused \cup ToSet(ops) /\ UNCHANGED <<facts, answers>>
<1> DEFINE Called(n, ops) ==
              /\ asks' = asks + n /\ drives' = Append(drives, ops)
              /\ \/ /\ facts' = [facts EXCEPT !["agent"] = @ \o ops]
                    /\ answers' = answers \o ops /\ UNCHANGED refused
                 \/ refused' = refused \cup ToSet(ops) /\ UNCHANGED <<facts, answers>>
           Bases == {NoBase} \cup {version + k : k \in Offsets}
<1>0. PICK n \in 1 .. MaxOps : \E bases \in [1 .. n -> Bases] :
         Called(n, [i \in 1 .. n |-> Drive(asks + i, bases[i])])
  BY DEF SetValue
<1>1. PICK bases \in [1 .. n -> Bases] :
         Called(n, [i \in 1 .. n |-> Drive(asks + i, bases[i])])
  BY <1>0
<1> DEFINE ops == [i \in 1 .. n |-> Drive(asks + i, bases[i])]
<1>2. n \in Nat
  BY SurfacesAssumption
<1>3. /\ \A i \in 1 .. n : Drive(asks + i, bases[i]) \in Drives
      /\ \A i \in 1 .. n : Drive(asks + i, bases[i]).no = asks + i
  <2> SUFFICES ASSUME NEW i \in 1 .. n
               PROVE  /\ Drive(asks + i, bases[i]) \in Drives
                      /\ Drive(asks + i, bases[i]).no = asks + i
    OBVIOUS
  <2>1. bases[i] \in Int
    <3>1. bases[i] \in Bases
      OBVIOUS
    <3>2. NoBase \in Int /\ \A k \in Offsets : version + k \in Int
      BY SurfacesAssumption DEF Typed, NoBase
    <3> QED
      BY <3>1, <3>2
  <2>2. asks + i \in Nat
    BY <1>2 DEF Typed
  <2> QED
    BY <2>1, <2>2 DEF Drive, Drives
<1>4. ops \in Seq(Drives) /\ Len(ops) = n /\ DOMAIN ops = 1 .. n
  BY <1>2, <1>3
<1>5. \A i \in DOMAIN ops : ops[i].no = asks + i
  BY <1>3, <1>4
<1>6. Called(n, ops)
  BY <1>1
<1> HIDE DEF ops
<1> QED
  BY <1>4, <1>5, <1>6

\* What is taken of a list is of it, with every op that has no precondition.
LEMMA TakesIs ==
    ASSUME NEW ops \in Seq(Drives), NEW current, NEW taken \in SeqOf(ToSet(ops), Len(ops)),
           Takes(taken, ops, current)
    PROVE  /\ taken \in Seq(Drives) /\ Len(taken) \in Nat /\ ToSet(taken) \subseteq ToSet(ops)
           /\ \A op \in ToSet(ops) : op.base = NoBase => op \in ToSet(taken)
<1>1. ToSet(ops) \subseteq Drives
  BY DEF ToSet
<1>2. PICK m \in 0 .. Len(ops) : taken \in [1 .. m -> ToSet(ops)]
  BY DEF SeqOf
<1>3. taken \in Seq(ToSet(ops)) /\ Len(taken) = m
  BY <1>2
<1>4. taken \in Seq(Drives)
  BY <1>1, <1>3
<1>5. ToSet(taken) \subseteq ToSet(ops)
  BY <1>2 DEF ToSet
<1>6. \A op \in ToSet(ops) : op.base = NoBase => op \in ToSet(taken)
  BY DEF Takes, Stale
<1> QED
  BY <1>3, <1>4, <1>5, <1>6

\* A drive that is popped is applied, up to its stale ops, or lost (RouteDrive, DropDrive).
LEMMA PoppedIs ==
    ASSUME Typed, RouteDrive \/ DropDrive
    PROVE  \E ops \in Seq(Drives) :
              /\ drives' \in Seq(Seq(Drives)) /\ Driven = Driven' \cup ToSet(ops)
              /\ ToSet(ops) \subseteq Drives
              /\ UNCHANGED <<facts, answers, refused, edits, asks>>
              /\ \/ /\ UNCHANGED <<shown, sent, applied, stale>>
                    /\ lost' = lost \cup ToSet(ops)
                 \/ \E taken \in Seq(Drives) :
                       /\ ToSet(taken) \subseteq ToSet(ops) /\ Len(taken) \in Nat
                       /\ \A op \in ToSet(ops) : op.base = NoBase => op \in ToSet(taken)
                       /\ conn \in Conns /\ UNCHANGED lost
                       /\ shown' = shown \cup ToSet(taken) /\ stale' \in BOOLEAN
                       /\ applied' = applied + Len(taken)
                       /\ sent' = [sent EXCEPT ![conn] =
                                     @ \o [i \in DOMAIN taken |-> Mutation(taken[i])]]
<1> DEFINE ops == Head(drives)
<1>1. drives # <<>> /\ drives' = Tail(drives) /\ UNCHANGED <<facts, answers, refused, edits, asks>>
  BY DEF RouteDrive, DropDrive, world
<1>2. /\ ops \in Seq(Drives) /\ drives' \in Seq(Seq(Drives))
      /\ ToSet(drives) = ToSet(drives') \cup {ops}
  BY <1>1, TailIs DEF Typed
<1>3. Driven = Driven' \cup ToSet(ops)
  BY <1>2 DEF Driven
<1>4. ToSet(ops) \subseteq Drives
  BY <1>2 DEF ToSet
<1>5. CASE DropDrive
  <2>1. UNCHANGED <<shown, sent, applied, stale>> /\ lost' = lost \cup ToSet(ops)
    BY <1>5 DEF DropDrive, client
  <2> HIDE DEF ops
  <2> QED
    BY <1>1, <1>2, <1>3, <1>4, <2>1
<1>6. CASE RouteDrive /\ sink = conn /\ open
  <2>1. Apply(ops) /\ UNCHANGED lost /\ conn \in Conns
    BY <1>6 DEF RouteDrive, Typed
  <2> HIDE DEF ops
  <2>2. PICK taken \in SeqOf(ToSet(ops), Len(ops)) :
           /\ Takes(taken, ops, applied)
           /\ applied' = applied + Len(taken) /\ shown' = shown \cup ToSet(taken)
           /\ sent' = [sent EXCEPT ![conn] = @ \o [i \in DOMAIN taken |-> Mutation(taken[i])]]
           /\ stale' = (stale \/ taken # <<>>)
    BY <2>1 DEF Apply
  <2>3. /\ taken \in Seq(Drives) /\ Len(taken) \in Nat /\ ToSet(taken) \subseteq ToSet(ops)
        /\ \A op \in ToSet(ops) : op.base = NoBase => op \in ToSet(taken)
    BY <1>2, <2>2, TakesIs
  <2>4. stale' \in BOOLEAN
    BY <2>2
  <2> QED
    BY <1>1, <1>2, <1>3, <1>4, <2>1, <2>2, <2>3, <2>4
<1>7. CASE RouteDrive /\ ~ (sink = conn /\ open)
  <2>1. UNCHANGED <<shown, sent, applied, stale>> /\ lost' = lost \cup ToSet(ops)
    BY <1>7 DEF RouteDrive
  <2> HIDE DEF ops
  <2> QED
    BY <1>1, <1>2, <1>3, <1>4, <2>1
<1> QED
  BY <1>5, <1>6, <1>7

\* The echoes of what the client takes are frames.
LEMMA EchoesAre ==
    ASSUME NEW taken \in Seq(Drives)
    PROVE  /\ [i \in DOMAIN taken |-> Mutation(taken[i])] \in Seq(Frames)
           /\ \A i \in DOMAIN [j \in DOMAIN taken |-> Mutation(taken[j])] :
                 LET f == [j \in DOMAIN taken |-> Mutation(taken[j])][i]
                 IN  f.kind = "mutation" /\ f.write \in ToSet(taken) /\ f.write \in Drives
<1> DEFINE fs == [i \in DOMAIN taken |-> Mutation(taken[i])]
<1>1. \A w \in Drives : Mutation(w) \in Frames /\ Mutation(w).kind = "mutation"
                            /\ Mutation(w).write = w
  BY DEF Mutation, Frames, Writes
<1>2. /\ DOMAIN taken = 1 .. Len(taken) /\ Len(taken) \in Nat
      /\ \A i \in DOMAIN taken : taken[i] \in Drives /\ taken[i] \in ToSet(taken)
  BY DEF ToSet
<1>3. fs \in [1 .. Len(taken) -> Frames]
  BY <1>1, <1>2
<1>4. fs \in Seq(Frames)
  BY <1>2, <1>3
<1>5. \A i \in DOMAIN fs :
         fs[i].kind = "mutation" /\ fs[i].write \in ToSet(taken) /\ fs[i].write \in Drives
  BY <1>1, <1>2
<1> QED
  BY <1>4, <1>5

\* Every action keeps the types.
LEMMA TypedStays ==
    ASSUME Typed, [Next]_vars
    PROVE  Typed'
<1> USE SurfacesAssumption
<1>1. CASE Open
  BY <1>1 DEF Typed, Open, host, queues, world, bounds, Conns
<1>2. CASE Quit
  BY <1>2 DEF Typed, Quit, host, queues, world, bounds
<1>3. CASE HumanEdit
  <2>1. Edit(edits + 1) \in Edits
    BY <1>3 DEF Typed, HumanEdit, Edit, Edits
  <2>2. Mutation(Edit(edits + 1)) \in Frames
    BY <2>1 DEF Mutation, Frames, Writes
  <2>3. sent' \in [Conns -> Seq(Frames)]
    <3>1. Append(sent[conn], Mutation(Edit(edits + 1))) \in Seq(Frames)
      BY <1>3, <2>2, AppendIs DEF Typed, HumanEdit
    <3> QED
      BY <1>3, <3>1 DEF Typed, HumanEdit, Send
  <2>4. shown' \subseteq Writes
    BY <1>3, <2>1 DEF Typed, HumanEdit, Writes
  <2> QED
    BY <1>3, <2>3, <2>4 DEF Typed, HumanEdit, host, world
<1>4. CASE Notice
  BY <1>4 DEF Typed, Notice, host, queues, world
<1>5. CASE Emit
  <2>1. Observation(reported + 1) \in Frames
    BY DEF Typed, Observation, Frames
  <2>2. sent' \in [Conns -> Seq(Frames)]
    <3>1. Append(sent[conn], Observation(reported + 1)) \in Seq(Frames)
      BY <1>5, <2>1, AppendIs DEF Typed, Emit
    <3> QED
      BY <1>5, <3>1 DEF Typed, Emit, Send
  <2>3. reported' \in Nat
    BY <1>5 DEF Typed, Emit
  <2> QED
    BY <1>5, <2>2, <2>3 DEF Typed, Emit, host, world, bounds
<1>6. ASSUME NEW c \in Conns, Register(c) PROVE Typed'
  BY <1>6 DEF Typed, Register, client, queues, world, bounds
<1>7. ASSUME NEW c \in Conns, Unregister(c) PROVE Typed'
  BY <1>7 DEF Typed, Unregister, client, queues, world, bounds
<1>8. ASSUME NEW c \in Conns, RouteInbound(c) PROVE Typed'
  <2>1. Tail(sent[c]) \in Seq(Frames) /\ Head(sent[c]) \in Frames
    BY <1>8, TailIs DEF Typed, RouteInbound
  <2>2. sent' \in [Conns -> Seq(Frames)]
    BY <1>8, <2>1 DEF Typed, RouteInbound
  <2>3. /\ version' \in Nat /\ facts' \in [{"human", "agent"} -> Seq(Writes)]
        /\ facts'["human"] \in Seq(Edits) /\ facts'["agent"] \in Seq(Drives)
    <3>1. CASE IsMutation(Head(sent[c]))
      <4> DEFINE w == Head(sent[c]).write
      <4>1. w \in Edits /\ w.by = "human"
        BY <2>1, <3>1, FieldsOf DEF IsMutation
      <4>2. version' = version + 1
            /\ facts' = [facts EXCEPT !["human"] = Append(@, w)]
        BY <1>8, <3>1, <4>1 DEF RouteInbound, Fold, IsMutation
      <4>3. version' \in Nat
        BY <4>2 DEF Typed
      <4> HIDE DEF w
      <4>4. Append(facts["human"], w) \in Seq(Edits) /\ Append(facts["human"], w) \in Seq(Writes)
        <5>1. w \in Writes
          BY <4>1 DEF Writes
        <5> QED
          BY <4>1, <5>1 DEF Typed
      <4> QED
        BY <4>2, <4>3, <4>4 DEF Typed
    <3>2. CASE Head(sent[c]).kind = "observation"
      <4>1. Head(sent[c]).version \in Nat
        BY <2>1, <3>2, FieldsOf
      <4> QED
        BY <1>8, <3>2, <4>1 DEF Typed, RouteInbound, Fold, IsMutation
    <3>3. CASE ~ IsMutation(Head(sent[c])) /\ Head(sent[c]).kind # "observation"
      BY <1>8, <3>3 DEF Typed, RouteInbound, Fold
    <3> QED
      BY <3>1, <3>2, <3>3
  <2> QED
    BY <1>8, <2>2, <2>3 DEF Typed, RouteInbound, client, host, bounds
<1>9. ASSUME NEW c \in Conns, DropInbound(c) PROVE Typed'
  <2>1. Tail(sent[c]) \in Seq(Frames) /\ Head(sent[c]) \in Frames
    BY <1>9, TailIs DEF Typed, DropInbound
  <2>2. sent' \in [Conns -> Seq(Frames)]
    BY <1>9, <2>1 DEF Typed, DropInbound
  <2>3. lost' \subseteq Writes
    BY <1>9, <2>1, FieldsOf DEF Typed, DropInbound
  <2> QED
    BY <1>9, <2>2, <2>3 DEF Typed, DropInbound, client, host, world
<1>10. CASE RouteDrive \/ DropDrive
  <2>1. UNCHANGED <<conn, open, reported, scheduled, host, version>>
    BY <1>10 DEF RouteDrive, DropDrive, client, world
  <2>2. PICK ops \in Seq(Drives) :
           /\ drives' \in Seq(Seq(Drives))
           /\ ToSet(ops) \subseteq Drives /\ UNCHANGED <<facts, answers, refused, edits, asks>>
           /\ \/ /\ UNCHANGED <<shown, sent, applied, stale>>
                 /\ lost' = lost \cup ToSet(ops)
              \/ \E taken \in Seq(Drives) :
                    /\ ToSet(taken) \subseteq ToSet(ops) /\ Len(taken) \in Nat
                    /\ conn \in Conns /\ UNCHANGED lost
                    /\ shown' = shown \cup ToSet(taken) /\ stale' \in BOOLEAN
                    /\ applied' = applied + Len(taken)
                    /\ sent' = [sent EXCEPT ![conn] =
                                  @ \o [i \in DOMAIN taken |-> Mutation(taken[i])]]
    BY <1>10, PoppedIs
  <2>3. Drives \subseteq Writes
    BY DEF Writes
  <2>4. CASE UNCHANGED <<shown, sent, applied, stale>> /\ lost' = lost \cup ToSet(ops)
    <3>1. lost' \subseteq Writes
      BY <2>2, <2>3, <2>4 DEF Typed
    <3> QED
      BY <2>1, <2>2, <2>4, <3>1 DEF Typed, host
  <2>5. ASSUME NEW taken \in Seq(Drives),
               ToSet(taken) \subseteq ToSet(ops), Len(taken) \in Nat,
               conn \in Conns, UNCHANGED lost,
               shown' = shown \cup ToSet(taken), stale' \in BOOLEAN,
               applied' = applied + Len(taken),
               sent' = [sent EXCEPT ![conn] = @ \o [i \in DOMAIN taken |-> Mutation(taken[i])]]
        PROVE  Typed'
    <3> DEFINE fs == [i \in DOMAIN taken |-> Mutation(taken[i])]
    <3>1. fs \in Seq(Frames)
      BY EchoesAre
    <3> HIDE DEF fs
    <3>2. sent[conn] \o fs \in Seq(Frames)
      BY <2>5, <3>1, ConcatIs DEF Typed
    <3>3. sent' \in [Conns -> Seq(Frames)]
      BY <2>5, <3>2 DEF Typed, fs
    <3>4. applied' \in Nat /\ shown' \subseteq Writes
      BY <2>2, <2>3, <2>5 DEF Typed
    <3> QED
      BY <2>1, <2>2, <2>5, <3>3, <3>4 DEF Typed, host
  <2> QED
    BY <2>2, <2>4, <2>5
<1>11. CASE PeerDrive
  <2>1. version' \in Nat
    BY <1>11 DEF Typed, PeerDrive
  <2> QED
    BY <1>11, <2>1 DEF Typed, PeerDrive, client, host, queues
<1>12. CASE SetValue
  <2>1. PICK ops \in Seq(Drives) :
           /\ asks' = asks + Len(ops) /\ drives' = Append(drives, ops)
           /\ \/ /\ facts' = [facts EXCEPT !["agent"] = @ \o ops]
                 /\ answers' = answers \o ops /\ UNCHANGED refused
              \/ refused' = refused \cup ToSet(ops) /\ UNCHANGED <<facts, answers>>
    BY <1>12, SetValueIs
  <2>2. drives' \in Seq(Seq(Drives))
    BY <2>1 DEF Typed
  <2>3. UNCHANGED <<client, host, sent, version, lost, edits>>
    BY <1>12 DEF SetValue
  <2>4. asks' \in Nat
    BY <2>1 DEF Typed
  <2>5. ToSet(ops) \subseteq Drives
    BY DEF ToSet
  <2>6. /\ facts["agent"] \o ops \in Seq(Drives) /\ answers \o ops \in Seq(Drives)
    BY ConcatIs DEF Typed
  <2>7. facts["agent"] \o ops \in Seq(Writes)
    BY <2>6 DEF Writes
  <2>8. /\ facts' \in [{"human", "agent"} -> Seq(Writes)]
        /\ facts'["human"] \in Seq(Edits) /\ facts'["agent"] \in Seq(Drives)
        /\ answers' \in Seq(Drives) /\ refused' \subseteq Drives
    BY <2>1, <2>5, <2>6, <2>7 DEF Typed
  <2> QED
    BY <2>2, <2>3, <2>4, <2>8 DEF Typed, client, host
<1>13. CASE FoldAnswers
  <2>1. PICK taken \in SeqOf(ToSet(answers), Len(answers)) :
           Takes(taken, answers, version) /\ version' = version + Len(taken)
    BY <1>13 DEF FoldAnswers
  <2>2. Len(taken) \in Nat
    BY <2>1, TakesIs DEF Typed
  <2>3. version' \in Nat /\ answers' \in Seq(Drives)
    BY <1>13, <2>1, <2>2 DEF Typed, FoldAnswers
  <2> QED
    BY <1>13, <2>3 DEF Typed, FoldAnswers, client, host, queues, bounds
<1>14. CASE UNCHANGED vars
  BY <1>14 DEF Typed, vars, client, host, queues, world, bounds
<1> QED
  BY <1>1, <1>2, <1>3, <1>4, <1>5, <1>6, <1>7, <1>8, <1>9, <1>10, <1>11, <1>12, <1>13, <1>14
     DEF Next

\* What the World does with a frame it reads: a person's edit is one more fact, and nothing else
\* is (classify_native_signal).
LEMMA FoldIs ==
    ASSUME Typed, NEW c \in Conns, RouteInbound(c)
    PROVE  \/ facts' = facts /\ ~ IsEdit(Head(sent[c]))
           \/ /\ IsEdit(Head(sent[c]))
              /\ facts' = [facts EXCEPT !["human"] = Append(@, Head(sent[c]).write)]
<1>1. Fold(Head(sent[c]))
  BY DEF RouteInbound
<1>2. CASE IsEdit(Head(sent[c]))
  BY <1>1, <1>2 DEF Fold, IsMutation, IsEdit
<1>3. CASE ~ IsEdit(Head(sent[c]))
  BY <1>1, <1>3 DEF Fold, IsMutation, IsEdit
<1> QED
  BY <1>2, <1>3

\* The steps that leave the screen, the queues and the log alone.
Rests == Open \/ Quit \/ Notice \/ PeerDrive \/ FoldAnswers \/ UNCHANGED vars
            \/ \E c \in Conns : Register(c) \/ Unregister(c)
\* None of them moves a write.
LEMMA RestsMoveNothing ==
    ASSUME Rests
    PROVE  UNCHANGED <<shown, sent, drives, facts, refused, lost, edits, asks>>
BY DEF Rests, Open, Quit, Notice, PeerDrive, FoldAnswers, Register, Unregister,
       vars, client, host, queues, world, bounds

\* Every action keeps the orders.
LEMMA OrderStays ==
    ASSUME Typed, InOrder, ScreenIsTracked, [Next]_vars
    PROVE  InOrder'
<1>1. CASE Rests
  BY <1>1, RestsMoveNothing, Unmoved
<1>2. CASE HumanEdit
  <2> DEFINE w == Edit(edits + 1)
  <2>1. w \in Edits /\ w.of = conn /\ w.no = edits + 1 /\ conn \in Conns
    BY <1>2 DEF Typed, HumanEdit, Edit, Edits
  <2>2. Mutation(w) \in Frames /\ Mutation(w).kind = "mutation" /\ Mutation(w).write = w
    BY <2>1 DEF Mutation, Frames, Writes
  <2> HIDE DEF w
  <2>3. /\ sent' = [sent EXCEPT ![conn] = Append(@, Mutation(w))]
        /\ shown' = shown \cup {w} /\ edits' = edits + 1
        /\ UNCHANGED <<facts, refused, asks>>
    BY <1>2 DEF HumanEdit, Send, world, w
  <2>4. edits' \in Nat /\ edits <= edits' /\ edits < edits'
    BY <2>3 DEF Typed
  <2> QED
    BY <2>1, <2>2, <2>3, <2>4, FrameInOrder
<1>3. CASE Emit
  <2>1. /\ UNCHANGED <<shown, facts, refused, edits, asks>> /\ edits \in Nat /\ edits <= edits'
    BY <1>3 DEF Emit, Typed, world, bounds
  <2>2. CASE stale
    <3> DEFINE f == Observation(reported + 1)
    <3>1. f \in Frames /\ f.kind = "observation"
      BY DEF Typed, Observation, Frames
    <3>2. sent' = [sent EXCEPT ![conn] = Append(@, f)] /\ conn \in Conns
      BY <1>3, <2>2 DEF Emit, Send, Typed
    <3> HIDE DEF f
    <3> QED
      BY <2>1, <3>1, <3>2, FrameInOrder DEF IsEdit
  <2>3. CASE ~ stale
    <3>1. UNCHANGED <<shown, sent, drives, facts, refused, lost, edits, asks>>
      BY <1>3, <2>3 DEF Emit, world, bounds
    <3> QED
      BY <3>1, Unmoved
  <2> QED
    BY <2>2, <2>3
<1>4. ASSUME NEW c \in Conns, RouteInbound(c) PROVE InOrder'
  <2>1. /\ sent[c] # <<>> /\ sent' = [sent EXCEPT ![c] = Tail(@)]
        /\ UNCHANGED <<shown, refused, edits, asks>>
    BY <1>4 DEF RouteInbound, client, bounds
  <2> QED
    BY <1>4, <2>1, FoldIs, ReadInOrder
<1>5. ASSUME NEW c \in Conns, DropInbound(c) PROVE InOrder'
  <2>1. /\ sent[c] # <<>> /\ sent' = [sent EXCEPT ![c] = Tail(@)]
        /\ UNCHANGED <<shown, refused, edits, asks>> /\ facts' = facts
    BY <1>5 DEF DropInbound, client, world
  <2> QED
    BY <2>1, ReadInOrder
<1>6. CASE RouteDrive \/ DropDrive
  <2>1. PICK ops \in Seq(Drives) :
           /\ UNCHANGED <<facts, answers, refused, edits, asks>>
           /\ \/ UNCHANGED <<shown, sent>>
              \/ \E taken \in Seq(Drives) :
                    /\ conn \in Conns /\ shown' = shown \cup ToSet(taken)
                    /\ sent' = [sent EXCEPT ![conn] =
                                  @ \o [i \in DOMAIN taken |-> Mutation(taken[i])]]
    BY <1>6, PoppedIs
  <2>2. CASE UNCHANGED <<shown, sent>>
    BY <2>1, <2>2 DEF InOrder, SentInOrder, HeardInOrder, AskedInOrder, IsEdit
  <2>3. ASSUME NEW taken \in Seq(Drives), conn \in Conns, shown' = shown \cup ToSet(taken),
               sent' = [sent EXCEPT ![conn] = @ \o [i \in DOMAIN taken |-> Mutation(taken[i])]]
        PROVE  InOrder'
    <3> DEFINE fs == [i \in DOMAIN taken |-> Mutation(taken[i])]
    <3>1. /\ fs \in Seq(Frames)
          /\ \A i \in DOMAIN fs : /\ fs[i].kind = "mutation"
                                  /\ fs[i].write \in ToSet(taken) /\ fs[i].write \in Drives
      BY EchoesAre
    <3>2. sent' = [sent EXCEPT ![conn] = @ \o fs]
      BY <2>3
    <3> HIDE DEF fs
    <3>3. \A i \in DOMAIN fs : fs[i].kind = "mutation" /\ fs[i].write \in shown' \cap Drives
      BY <2>3, <3>1
    <3> QED
      BY <2>1, <2>3, <3>1, <3>2, <3>3, EchoesInOrder
  <2> QED
    BY <2>1, <2>2, <2>3
<1>7. CASE SetValue
  <2>1. PICK ops \in Seq(Drives) :
           /\ \A i \in DOMAIN ops : ops[i].no = asks + i
           /\ asks' = asks + Len(ops)
           /\ \/ facts' = [facts EXCEPT !["agent"] = @ \o ops] /\ UNCHANGED refused
              \/ refused' = refused \cup ToSet(ops) /\ UNCHANGED facts
    BY <1>7, SetValueIs
  <2>2. UNCHANGED <<shown, sent, edits>>
    BY <1>7 DEF SetValue, client
  <2> DEFINE told == facts["agent"]
  <2>3. /\ told \in Seq(Drives) /\ asks \in Nat /\ Len(ops) \in Nat /\ asks <= asks'
        /\ DOMAIN ops = 1 .. Len(ops) /\ asks' \in Nat
    BY <2>1 DEF Typed
  <2>4. /\ \A i \in DOMAIN told : told[i].no \in Nat /\ told[i].no <= asks
        /\ \A i, j \in DOMAIN told : i < j => told[i].no < told[j].no
        /\ \A w \in refused : w.no \in Nat /\ w.no <= asks /\ w \notin ToSet(told)
        /\ \A w \in ToSet(told) : w.no \in Nat /\ w.no <= asks
    <3>1. \A i \in DOMAIN told : told[i] \in Drives
      BY <2>3
    <3>2. \A i \in DOMAIN told : told[i].no \in Nat
      BY <3>1, FieldsOf
    <3>3. \A w \in refused : w.no \in Nat
      BY FieldsOf DEF Typed
    <3>4. \A w \in ToSet(told) : \E i \in DOMAIN told : w = told[i]
      BY DEF ToSet
    <3> QED
      BY <3>2, <3>3, <3>4 DEF InOrder, AskedInOrder
  <2>5. /\ \A i \in DOMAIN ops : ops[i].no \in Nat /\ asks < ops[i].no /\ ops[i].no <= asks'
        /\ \A i, j \in DOMAIN ops : i < j => ops[i].no < ops[j].no
    BY <2>1, <2>3
  <2>6. \A w \in ToSet(ops) : w.no \in Nat /\ asks < w.no /\ w.no <= asks'
    BY <2>5 DEF ToSet
  <2> HIDE DEF told
  <2>7. CASE facts' = [facts EXCEPT !["agent"] = @ \o ops] /\ UNCHANGED refused
    <3> DEFINE r == told \o ops
    <3>1. facts'["agent"] = r /\ facts'["human"] = facts["human"]
      BY <2>7 DEF Typed, told
    <3>2. /\ ToSet(r) = ToSet(told) \cup ToSet(ops)
          /\ \A i \in DOMAIN r : \/ i \in DOMAIN told /\ r[i] = told[i]
                                 \/ i - Len(told) \in DOMAIN ops /\ r[i] = ops[i - Len(told)]
          /\ \A i \in DOMAIN told, j \in DOMAIN ops : i < j + Len(told)
          /\ DOMAIN told \subseteq Nat /\ DOMAIN ops \subseteq Nat /\ Len(told) \in Nat
          /\ DOMAIN r \subseteq Nat
      BY <2>3, ConcatIs
    <3> HIDE DEF r
    <3>3. \A i \in DOMAIN r : r[i].no <= asks'
      BY <2>3, <2>4, <2>5, <3>2
    <3>4. ASSUME NEW i \in DOMAIN r, NEW j \in DOMAIN r, i < j PROVE r[i].no < r[j].no
      <4>1. CASE j \in DOMAIN told /\ r[j] = told[j]
        <5>1. ~ (i - Len(told) \in DOMAIN ops)
          <6> SUFFICES ASSUME i - Len(told) \in DOMAIN ops PROVE FALSE
            OBVIOUS
          <6>1. j < (i - Len(told)) + Len(told)
            BY <3>2, <4>1
          <6> QED
            BY <3>2, <3>4, <6>1
        <5> QED
          BY <2>4, <3>2, <3>4, <4>1, <5>1
      <4>2. CASE j - Len(told) \in DOMAIN ops /\ r[j] = ops[j - Len(told)]
        <5>1. CASE i \in DOMAIN told /\ r[i] = told[i]
          <6>1. r[i].no <= asks /\ r[i].no \in Nat /\ asks < r[j].no /\ r[j].no \in Nat
            BY <2>4, <2>5, <4>2, <5>1
          <6> QED
            BY <2>3, <6>1
        <5>2. CASE i - Len(told) \in DOMAIN ops /\ r[i] = ops[i - Len(told)]
          <6>1. i - Len(told) < j - Len(told)
            BY <3>2, <3>4
          <6> QED
            BY <2>5, <4>2, <5>2, <6>1
        <5> QED
          BY <3>2, <5>1, <5>2
      <4> QED
        BY <3>2, <4>1, <4>2
    <3>5. \A w \in refused : w.no <= asks' /\ w \notin ToSet(r)
      BY <2>3, <2>4, <2>6, <3>2
    <3>6. AskedInOrder'
      BY <2>7, <3>1, <3>3, <3>4, <3>5 DEF AskedInOrder
    <3>7. SentInOrder' /\ HeardInOrder'
      BY <2>2, <3>1 DEF InOrder, SentInOrder, HeardInOrder, IsEdit
    <3> QED
      BY <3>6, <3>7 DEF InOrder
  <2>8. CASE refused' = refused \cup ToSet(ops) /\ UNCHANGED facts
    <3>1. \A w \in refused' : w.no <= asks' /\ w \notin ToSet(told)
      <4>1. \A w \in refused : w.no <= asks'
        BY <2>3, <2>4
      <4>2. \A w \in ToSet(ops) : w \notin ToSet(told)
        BY <2>3, <2>4, <2>6
      <4> QED
        BY <2>4, <2>6, <2>8, <4>1, <4>2
    <3>2. \A i \in DOMAIN told : told[i].no <= asks'
      BY <2>3, <2>4
    <3>3. AskedInOrder'
      BY <2>4, <2>8, <3>1, <3>2 DEF AskedInOrder, told
    <3>4. SentInOrder' /\ HeardInOrder'
      BY <2>2, <2>8 DEF InOrder, SentInOrder, HeardInOrder, IsEdit
    <3> QED
      BY <3>3, <3>4 DEF InOrder
  <2> QED
    BY <2>1, <2>7, <2>8
<1> QED
  BY <1>1, <1>2, <1>3, <1>4, <1>5, <1>6, <1>7 DEF Next, Rests

\* Every action keeps track of the writes.
LEMMA TrackingStays ==
    ASSUME Typed, InOrder, ScreenIsTracked, [Next]_vars
    PROVE  ScreenIsTracked'
<1>1. CASE Rests
  BY <1>1, RestsMoveNothing, Unmoved
<1>2. CASE HumanEdit
  <2> DEFINE w == Edit(edits + 1)
  <2>1. w \in Edits /\ conn \in Conns
    BY <1>2 DEF Typed, HumanEdit, Edit, Edits
  <2>2. Mutation(w) \in Frames /\ Mutation(w).kind = "mutation" /\ Mutation(w).write = w
    BY <2>1 DEF Mutation, Frames, Writes
  <2> HIDE DEF w
  <2>3. /\ sent' = [sent EXCEPT ![conn] = Append(@, Mutation(w))]
        /\ shown' = shown \cup {w} /\ UNCHANGED <<facts, refused, drives, lost>>
    BY <1>2 DEF HumanEdit, Send, world, w
  <2>4. Carried \subseteq Carried' /\ w \in Carried'
    BY <2>1, <2>2, <2>3, CarriesMore DEF Typed
  <2>5. w \notin Drives
    BY <2>1, FieldsOf
  <2> QED
    BY <2>3, <2>4, <2>5 DEF ScreenIsTracked, Driven, Answered
<1>3. CASE Emit
  <2>1. UNCHANGED <<shown, facts, refused, drives, lost>>
    BY <1>3 DEF Emit, world, bounds
  <2>2. Carried \subseteq Carried'
    <3>1. CASE stale
      <4> DEFINE f == Observation(reported + 1)
      <4>1. f \in Frames
        BY DEF Typed, Observation, Frames
      <4>2. sent' = [sent EXCEPT ![conn] = Append(@, f)] /\ conn \in Conns
        BY <1>3, <3>1 DEF Emit, Send, Typed
      <4> HIDE DEF f
      <4> QED
        BY <4>1, <4>2, CarriesMore DEF Typed
    <3>2. CASE ~ stale
      <4>1. sent' = sent
        BY <1>3, <3>2 DEF Emit
      <4> QED
        BY <4>1 DEF Carried
    <3> QED
      BY <3>1, <3>2
  <2> QED
    BY <2>1, <2>2 DEF ScreenIsTracked, Driven, Answered
<1>4. ASSUME NEW c \in Conns, RouteInbound(c) PROVE ScreenIsTracked'
  <2> DEFINE f == Head(sent[c])
  <2>1. /\ sent[c] # <<>> /\ sent' = [sent EXCEPT ![c] = Tail(@)] /\ f \in Frames
        /\ UNCHANGED <<shown, refused, drives, lost>>
    BY <1>4, TailIs DEF Typed, RouteInbound, client, bounds
  <2>2. \A w \in Carried : w \in Carried' \/ (f.kind = "mutation" /\ w = f.write)
    BY <2>1, CarriesLess DEF Typed
  <2>3. facts'["agent"] = facts["agent"]
    BY <1>4, FoldIs DEF Typed
  <2>4. /\ ToSet(facts["human"]) \subseteq ToSet(facts'["human"])
        /\ IsEdit(f) => f.write \in ToSet(facts'["human"])
    <3>1. CASE facts' = facts /\ ~ IsEdit(f)
      BY <3>1
    <3>2. CASE IsEdit(f) /\ facts' = [facts EXCEPT !["human"] = Append(@, f.write)]
      <4>1. f.write \in Edits
        BY <2>1, <3>2, FieldsOf DEF IsEdit
      <4> HIDE DEF f
      <4>2. facts'["human"] = Append(facts["human"], f.write) /\ facts["human"] \in Seq(Edits)
        BY <3>2 DEF Typed
      <4> QED
        BY <4>1, <4>2, AppendIs
    <3> QED
      BY <1>4, <3>1, <3>2, FoldIs
  <2> HIDE DEF f
  <2>5. ASSUME NEW w \in shown \cap Edits
        PROVE  w \in ToSet(facts'["human"]) \cup Carried' \cup lost
    <3>1. w.by = "human"
      BY FieldsOf
    <3> QED
      BY <2>2, <2>4, <3>1 DEF ScreenIsTracked, IsEdit
  <2> QED
    BY <2>1, <2>3, <2>5 DEF ScreenIsTracked, Driven, Answered
<1>5. ASSUME NEW c \in Conns, DropInbound(c) PROVE ScreenIsTracked'
  <2>1. /\ sent[c] # <<>> /\ sent' = [sent EXCEPT ![c] = Tail(@)]
        /\ UNCHANGED <<shown, drives, facts, refused>>
        /\ lost \subseteq lost'
        /\ IsEdit(Head(sent[c])) => Head(sent[c]).write \in lost'
    BY <1>5 DEF DropInbound, client, world, IsEdit
  <2>2. ASSUME NEW w \in Carried, w \in Edits PROVE w \in Carried' \cup lost'
    <3>1. w.by = "human"
      BY <2>2, FieldsOf
    <3> QED
      BY <2>1, <3>1, CarriesLess DEF Typed, IsEdit
  <2> QED
    BY <2>1, <2>2 DEF ScreenIsTracked, Driven, Answered
<1>6. CASE RouteDrive \/ DropDrive
  <2>1. PICK ops \in Seq(Drives) :
           /\ Driven = Driven' \cup ToSet(ops) /\ ToSet(ops) \subseteq Drives
           /\ UNCHANGED <<facts, answers, refused, edits, asks>>
           /\ \/ UNCHANGED <<shown, sent>> /\ lost' = lost \cup ToSet(ops)
              \/ \E taken \in Seq(Drives) :
                    /\ ToSet(taken) \subseteq ToSet(ops)
                    /\ \A op \in ToSet(ops) : op.base = NoBase => op \in ToSet(taken)
                    /\ conn \in Conns /\ UNCHANGED lost /\ shown' = shown \cup ToSet(taken)
                    /\ sent' = [sent EXCEPT ![conn] =
                                  @ \o [i \in DOMAIN taken |-> Mutation(taken[i])]]
    BY <1>6, PoppedIs
  <2>2. Answered' = Answered /\ Edits \cap Drives = {}
    BY <2>1, FieldsOf DEF Answered
  <2>3. CASE UNCHANGED <<shown, sent>> /\ lost' = lost \cup ToSet(ops)
    <3>1. Carried' = Carried
      BY <2>3 DEF Carried
    <3> QED
      BY <2>1, <2>2, <2>3, <3>1 DEF ScreenIsTracked
  <2>4. ASSUME NEW taken \in Seq(Drives), ToSet(taken) \subseteq ToSet(ops),
               \A op \in ToSet(ops) : op.base = NoBase => op \in ToSet(taken),
               conn \in Conns, UNCHANGED lost, shown' = shown \cup ToSet(taken),
               sent' = [sent EXCEPT ![conn] = @ \o [i \in DOMAIN taken |-> Mutation(taken[i])]]
        PROVE  ScreenIsTracked'
    <3> DEFINE fs == [i \in DOMAIN taken |-> Mutation(taken[i])]
    <3>1. fs \in Seq(Frames)
      BY EchoesAre
    <3>2. sent' = [sent EXCEPT ![conn] = @ \o fs]
      BY <2>4
    <3> HIDE DEF fs
    <3>3. Carried \subseteq Carried'
      BY <2>4, <3>1, <3>2, CarriesMany DEF Typed
    <3>4. shown' \cap Drives \subseteq Answered /\ Driven' \subseteq Answered
      BY <2>1, <2>4 DEF ScreenIsTracked
    <3>5. \A w \in Answered : w.base = NoBase => w \in shown' \cup Driven' \cup lost
      BY <2>1, <2>4 DEF ScreenIsTracked
    <3>6. shown' \cap Edits \subseteq shown \cap Edits
      BY <2>1, <2>2, <2>4
    <3> QED
      BY <2>1, <2>2, <2>4, <3>3, <3>4, <3>5, <3>6 DEF ScreenIsTracked
  <2> QED
    BY <2>1, <2>3, <2>4
<1>7. CASE SetValue
  <2>1. PICK ops \in Seq(Drives) :
           /\ drives' = Append(drives, ops)
           /\ \/ facts' = [facts EXCEPT !["agent"] = @ \o ops] /\ UNCHANGED refused
              \/ refused' = refused \cup ToSet(ops) /\ UNCHANGED facts
    BY <1>7, SetValueIs
  <2>2. UNCHANGED <<shown, sent, lost>>
    BY <1>7 DEF SetValue, client
  <2>3. Driven' = Driven \cup ToSet(ops)
    <3>1. ToSet(drives') = ToSet(drives) \cup {ops}
      BY <2>1, AppendIs DEF Typed
    <3> QED
      BY <3>1 DEF Driven
  <2>4. Answered' = Answered \cup ToSet(ops) /\ facts'["human"] = facts["human"]
    <3>1. CASE facts' = [facts EXCEPT !["agent"] = @ \o ops] /\ UNCHANGED refused
      <4>1. facts'["agent"] = facts["agent"] \o ops /\ facts'["human"] = facts["human"]
        BY <3>1 DEF Typed
      <4>2. ToSet(facts["agent"] \o ops) = ToSet(facts["agent"]) \cup ToSet(ops)
        BY ConcatIs DEF Typed
      <4> QED
        BY <3>1, <4>1, <4>2 DEF Answered
    <3>2. CASE refused' = refused \cup ToSet(ops) /\ UNCHANGED facts
      BY <3>2 DEF Answered
    <3> QED
      BY <2>1, <3>1, <3>2
  <2>5. Carried' = Carried
    BY <2>2 DEF Carried
  <2> QED
    BY <2>2, <2>3, <2>4, <2>5 DEF ScreenIsTracked
<1> QED
  BY <1>1, <1>2, <1>3, <1>4, <1>5, <1>6, <1>7 DEF Next, Rests

-----------------------------------------------------------------------------
\* The invariant and what follows from it.

\* The invariant holds at the start.
LEMMA InitIsGood ==
    ASSUME Init PROVE IInv
<1> USE SurfacesAssumption
<1>1. Typed
  <2>1. /\ sent \in [Conns -> Seq(Frames)] /\ drives \in Seq(Seq(Drives))
        /\ answers \in Seq(Drives) /\ refused \subseteq Drives
    BY DEF Init
  <2>2. /\ facts \in [{"human", "agent"} -> Seq(Writes)]
        /\ facts["human"] \in Seq(Edits) /\ facts["agent"] \in Seq(Drives)
    BY DEF Init
  <2>3. /\ ~ open /\ open \in BOOLEAN /\ shown \subseteq Writes /\ lost \subseteq Writes
        /\ serving \subseteq Conns /\ sink \in Conns \cup {0}
    BY DEF Init
  <2>5. conn \in Nat /\ conn <= MaxConn
    BY DEF Init
  <2>6. stale \in BOOLEAN /\ scheduled \in BOOLEAN
    BY DEF Init
  <2>4. applied \in Nat /\ reported \in Nat /\ version \in Nat /\ edits \in Nat /\ asks \in Nat
    BY DEF Init
  <2> QED
    BY <2>1, <2>2, <2>3, <2>4, <2>5, <2>6 DEF Typed
<1>2. \A c \in Conns : sent[c] = <<>>
  BY DEF Init
<1>3. InOrder
  BY <1>2 DEF Init, InOrder, SentInOrder, HeardInOrder, AskedInOrder, ToSet
<1>4. ScreenIsTracked
  BY DEF Init, ScreenIsTracked, Answered, Driven, ToSet
<1> QED
  BY <1>1, <1>3, <1>4 DEF IInv

\* The invariant holds for ever.
LEMMA InvariantHolds == Spec => []IInv
<1>1. Init => IInv
  BY InitIsGood
<1>2. IInv /\ [Next]_vars => IInv'
  BY TypedStays, OrderStays, TrackingStays DEF IInv
<1> QED
  BY <1>1, <1>2, PTL DEF Spec

\* The orders make each write one fact.
LEMMA OneFact == IInv => OneFactPerWrite
<1> SUFFICES ASSUME IInv PROVE OneFactPerWrite
  OBVIOUS
<1>1. /\ facts["human"] \in Seq(Edits) /\ facts["agent"] \in Seq(Drives)
      /\ InOrder
  BY DEF IInv, Typed
<1>2. IsInjective(facts["agent"])
  <2>1. DOMAIN facts["agent"] \subseteq Nat
    BY <1>1
  <2>2. \A i \in DOMAIN facts["agent"] : facts["agent"][i].no \in Nat
    BY <1>1, FieldsOf
  <2>3. \A i, j \in DOMAIN facts["agent"] : i < j => facts["agent"][i].no < facts["agent"][j].no
    BY <1>1 DEF InOrder, AskedInOrder
  <2>4. ASSUME NEW i \in DOMAIN facts["agent"], NEW j \in DOMAIN facts["agent"],
               facts["agent"][i] = facts["agent"][j]
        PROVE  i = j
    <3>1. ~ (i < j) /\ ~ (j < i)
      BY <2>2, <2>3, <2>4
    <3> QED
      BY <2>1, <3>1
  <2> QED
    BY <2>4 DEF IsInjective
<1>3. IsInjective(facts["human"])
  <2>1. DOMAIN facts["human"] \subseteq Nat
    BY <1>1
  <2>2. \A i \in DOMAIN facts["human"] : facts["human"][i].no \in Nat
    BY <1>1, FieldsOf
  <2>3. \A i, j \in DOMAIN facts["human"] :
           i < j /\ facts["human"][i].of = facts["human"][j].of =>
               facts["human"][i].no < facts["human"][j].no
    BY <1>1 DEF InOrder, HeardInOrder
  <2>4. ASSUME NEW i \in DOMAIN facts["human"], NEW j \in DOMAIN facts["human"],
               facts["human"][i] = facts["human"][j]
        PROVE  i = j
    <3>1. ~ (i < j) /\ ~ (j < i)
      BY <2>2, <2>3, <2>4
    <3> QED
      BY <2>1, <3>1
  <2> QED
    BY <2>4 DEF IsInjective
<1>4. /\ ToSet(facts["human"]) \subseteq shown
      /\ \A i, j \in DOMAIN facts["human"] :
            i < j /\ facts["human"][i].of = facts["human"][j].of =>
                facts["human"][i].no < facts["human"][j].no
  BY <1>1 DEF InOrder, HeardInOrder, ToSet
<1> QED
  BY <1>2, <1>3, <1>4 DEF OneFactPerWrite

\* What is tracked is known when nothing is on its way.
LEMMA ScreenKnown == IInv => ScreenIsKnown
<1> SUFFICES ASSUME IInv, NEW w \in (shown \cup Recorded \cup refused) \ (Underway \cup lost),
                    w.base = NoBase
             PROVE  w \in shown /\ (w \in Recorded <=> w \notin refused)
  BY DEF ScreenIsKnown
<1>1. w \notin Driven /\ w \notin Carried /\ w \notin lost
  BY DEF Underway, Carried, Driven
<1>2. refused \subseteq Drives /\ ToSet(facts["human"]) \subseteq Edits /\ Edits \cap Drives = {}
      /\ refused \cap ToSet(facts["agent"]) = {}
  BY FieldsOf DEF IInv, Typed, InOrder, AskedInOrder, ToSet
<1>3. w \in shown
  <2>1. CASE w \in ToSet(facts["human"])
    BY <2>1 DEF IInv, InOrder, HeardInOrder, ToSet
  <2>2. CASE w \in Answered
    BY <1>1, <2>2 DEF IInv, ScreenIsTracked
  <2> QED
    BY <2>1, <2>2 DEF Answered, Recorded
<1>4. w \in Recorded \/ w \in refused
  <2>1. w \in Edits \/ w \in Drives
    BY <1>3 DEF IInv, Typed, Writes
  <2> QED
    BY <1>1, <1>3, <2>1 DEF IInv, ScreenIsTracked, Recorded, Answered
<1> QED
  BY <1>2, <1>3, <1>4 DEF Recorded

\* Every write is one fact, in the order of its author and connection, for any number of edits,
\* calls, connections and losses: the echo of an agent's write is never folded as a second one.
THEOREM WritesAreOneFact == Spec => []OneFactPerWrite
BY InvariantHolds, OneFact, PTL

\* The screen and the World's log differ only by what is on its way or was dropped by a full
\* queue or a closed connection, whatever the client, the relay and the calls interleave.
THEOREM ScreenIsAccountedFor == Spec => []ScreenIsKnown
BY InvariantHolds, ScreenKnown, PTL
===============================================================================
