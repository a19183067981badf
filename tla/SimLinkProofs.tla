---------------------------- MODULE SimLinkProofs ----------------------------
(* Proofs about the thread that plays the injector, for campaigns of any     *)
(* length and mix of faults, channels of any capacity, and a host that sends *)
(* any control frames at any time, STARTs in mid-campaign included.          *)
EXTENDS SimLink, FiniteSetTheorems, SequenceTheorems, TLAPS

Frame ==
    [type : {"SENSOR"}, seq : Nat, fault_id : Nat]
      \cup [type : {"FAULT"}, fault_id : Nat, kind : Int, seq : Nat]
      \cup [type : {"JUNK"}] \cup [type : {"END"}, packets : Nat, faults : Nat]

-----------------------------------------------------------------------------
\* The properties, of any sequence of frames.

InOrder(e) ==
    \A i \in DOMAIN e :
        /\ TellsSlot(e[i]) => Numbers(e, i) = 0..e[i].seq
        /\ e[i].type = "FAULT" => e[i].fault_id = Cardinality(Notices(e, i))

Follows(e) ==
    \A i \in DOMAIN e :
        /\ e[i].type = "FAULT" =>
             \A j \in (i + 1)..Len(e) : TellsSlot(e[j]) => e[j].seq # e[i].seq
        /\ e[i].type = "SENSOR" /\ e[i].fault_id # 0 =>
             i < Len(e) /\ e[i + 1].type = "FAULT" /\ e[i + 1].fault_id = e[i].fault_id

Ends(e, packets) ==
    \A i \in DOMAIN e :
        e[i].type = "END" =>
            /\ i = Len(e) /\ e[i].packets = packets
            /\ e[i].packets = Cardinality(Numbers(e, i))
            /\ e[i].faults = Cardinality(Notices(e, i))

Kinds == FAULT_BITFLIP..FAULT_DUTY

Counters ==
    [packets : Nat, cadence_ms : Nat, kinds : SUBSET Kinds,
     seq : Nat, fault_id : Nat, sent : Nat]

\* What the counters of campaign c know of e, which has not ended.
Knows(c, e) ==
    /\ c \in Counters /\ c.sent = c.seq /\ c.sent <= c.packets
    /\ Numbers(e, Len(e)) = 0..(c.seq - 1)
    /\ c.fault_id = Cardinality(Notices(e, Len(e)))
    /\ \A i \in DOMAIN e : e[i].type # "END"

-----------------------------------------------------------------------------
TypeOK ==
    /\ outbound \in Seq(Chunks) /\ chunk \in Seq(Control)
    /\ stream \in Seq(Frame) /\ (sending \in Seq(Frame) \/ sending = <<Pong>>)
    /\ sending # <<>> => pc \in {"handle", "emit"}
    /\ pc = "slot" => cfg # None

\* A campaign that is running has sent what its counters say, for the START
\* that began it.
Campaign ==
    cfg # None => Knows(cfg, Emitted) /\ begun.packets = cfg.packets

Inv ==
    /\ TypeOK /\ Campaign
    /\ InOrder(Emitted) /\ Follows(Emitted) /\ Ends(Emitted, begun.packets)

-----------------------------------------------------------------------------
\* The frames of a slot.

\* What the frames that a slot may emit carry.
LEMMA FrameTypes ==
    ASSUME NEW seq \in Nat, NEW id \in Nat, NEW kind \in Int
    PROVE  /\ Sensor(seq, id) \in Frame /\ Notice(id, kind, seq) \in Frame /\ Junk \in Frame
           /\ Sensor(seq, id).type = "SENSOR" /\ Sensor(seq, id).seq = seq
           /\ Sensor(seq, id).fault_id = id
           /\ Notice(id, kind, seq).type = "FAULT" /\ Notice(id, kind, seq).seq = seq
           /\ Notice(id, kind, seq).fault_id = id
           /\ Junk.type = "JUNK"
  BY DEF Frame, Sensor, Notice, Junk

\* In front of the notice: measurements of the slot, the last of which carries
\* the id of the fault if it carries one, and junk.
LEMMA SlotFrames ==
    ASSUME NEW c, c.seq \in Nat, c.fault_id \in Nat, NEW kind \in Int
    PROVE  LET f == FramesOf(c, kind)
           IN  /\ f \in Seq(Frame) /\ (~IsInjected(kind) => Len(f) > 0)
               /\ Len(f) > 0 => f[Len(f)].type = "SENSOR"
               /\ \A i \in 1..Len(f) :
                     /\ f[i].type \in {"SENSOR", "JUNK"}
                     /\ f[i].type = "SENSOR" => f[i].seq = c.seq
                     /\ f[i].type = "SENSOR" /\ f[i].fault_id # 0 =>
                           i = Len(f) /\ IsInjected(kind) /\ f[i].fault_id = c.fault_id + 1
  <1> DEFINE clean == Sensor(c.seq, 0)
             bad == Sensor(c.seq, c.fault_id + 1)
             Holds(f) ==
                /\ f \in Seq(Frame) /\ (~IsInjected(kind) => Len(f) > 0)
                /\ Len(f) > 0 => f[Len(f)].type = "SENSOR"
                /\ \A i \in 1..Len(f) :
                      /\ f[i].type \in {"SENSOR", "JUNK"}
                      /\ f[i].type = "SENSOR" => f[i].seq = c.seq
                      /\ f[i].type = "SENSOR" /\ f[i].fault_id # 0 =>
                            i = Len(f) /\ IsInjected(kind) /\ f[i].fault_id = c.fault_id + 1
  <1>1. /\ clean \in Frame /\ clean.type = "SENSOR" /\ clean.seq = c.seq /\ clean.fault_id = 0
        /\ bad \in Frame /\ bad.type = "SENSOR" /\ bad.seq = c.seq
        /\ bad.fault_id = c.fault_id + 1
        /\ Junk \in Frame /\ Junk.type = "JUNK"
    BY FrameTypes
  <1> USE DEF FAULT_BITFLIP, FAULT_BYTE, FAULT_DROP, FAULT_DELAY, FAULT_REPLAY, FAULT_BURST
  <1>2. CASE kind = 1 \/ kind = 2
    <2>1. FramesOf(c, kind) = <<bad>> /\ IsInjected(kind)
      BY <1>2 DEF FramesOf, IsInjected
    <2> HIDE DEF bad
    <2>2. Holds(<<bad>>)
      BY <1>1, <2>1
    <2> QED BY <2>1, <2>2
  <1>3. CASE kind = 3
    <2>1. FramesOf(c, kind) = <<>> /\ IsInjected(kind)
      BY <1>3 DEF FramesOf, IsInjected
    <2>2. Holds(<<>>)
      BY <2>1
    <2> QED BY <2>1, <2>2
  <1>4. CASE kind = 5
    <2>1. FramesOf(c, kind) = <<clean, clean>> /\ IsInjected(kind)
      BY <1>4 DEF FramesOf, IsInjected
    <2> HIDE DEF clean
    <2>2. Holds(<<clean, clean>>)
      BY <1>1, <2>1
    <2> QED BY <2>1, <2>2
  <1>5. CASE kind = 6
    <2>1. FramesOf(c, kind) = <<Junk, clean>> /\ IsInjected(kind)
      BY <1>5 DEF FramesOf, IsInjected
    <2> HIDE DEF clean
    <2>2. Holds(<<Junk, clean>>)
      BY <1>1, <2>1
    <2> QED BY <2>1, <2>2
  <1>6. CASE kind = 4 \/ kind \notin 1..6
    <2>1. FramesOf(c, kind) = <<clean>>
      BY <1>6 DEF FramesOf, IsInjected
    <2> HIDE DEF clean
    <2>2. Holds(<<clean>>)
      BY <1>1
    <2> QED BY <2>1, <2>2
  <1> QED BY <1>2, <1>3, <1>4, <1>5, <1>6

\* The frames of a sequence behind another.
LEMMA Joined ==
    ASSUME NEW S, NEW e \in Seq(S), NEW x \in Seq(S)
    PROVE  /\ e \o x \in Seq(S) /\ Len(e \o x) = Len(e) + Len(x)
           /\ Len(e) \in Nat /\ Len(x) \in Nat
           /\ DOMAIN e = 1..Len(e) /\ DOMAIN (e \o x) = 1..(Len(e) + Len(x))
           /\ \A i \in 1..Len(e) : (e \o x)[i] = e[i]
           /\ \A i \in (Len(e) + 1)..(Len(e) + Len(x)) :
                 i - Len(e) \in 1..Len(x) /\ (e \o x)[i] = x[i - Len(e)]
  <1>1. /\ e \o x \in Seq(S) /\ Len(e \o x) = Len(e) + Len(x)
        /\ \A i \in 1..(Len(e) + Len(x)) :
              (e \o x)[i] = IF i <= Len(e) THEN e[i] ELSE x[i - Len(e)]
    BY ConcatProperties
  <1>2. Len(e) \in Nat /\ Len(x) \in Nat /\ DOMAIN e = 1..Len(e)
    OBVIOUS
  <1> QED BY <1>1, <1>2

\* A sequence is its head and what follows it.
LEMMA HeadAndTail ==
    ASSUME NEW S, NEW q \in Seq(S), q # <<>>
    PROVE  Head(q) \in S /\ Tail(q) \in Seq(S) /\ q = <<Head(q)>> \o Tail(q)
  <1> DEFINE h == <<Head(q)>>
             t == Tail(q)
             y == h \o t
  <1>1. /\ Head(q) \in S /\ t \in Seq(S) /\ Len(t) = Len(q) - 1
        /\ \A i \in 1..Len(t) : t[i] = q[i + 1]
    BY HeadTailProperties
  <1>2. h \in Seq(S) /\ Len(h) = 1 /\ h[1] = q[1]
    BY <1>1
  <1> HIDE DEF h, t
  <1>3. /\ y \in Seq(S) /\ Len(y) = 1 + Len(t)
        /\ y[1] = h[1] /\ \A i \in 2..Len(y) : i - 1 \in 1..Len(t) /\ y[i] = t[i - 1]
    <2>0. h \in Seq(S) /\ t \in Seq(S)
      BY <1>1, <1>2
    <2>1. /\ y \in Seq(S) /\ Len(y) = Len(h) + Len(t) /\ Len(t) \in Nat
          /\ \A i \in 1..Len(h) : y[i] = h[i]
          /\ \A i \in (Len(h) + 1)..(Len(h) + Len(t)) :
                i - Len(h) \in 1..Len(t) /\ y[i] = t[i - Len(h)]
      BY <2>0, Joined
    <2> HIDE DEF y
    <2> QED BY <1>2, <2>1
  <1> HIDE DEF y
  <1>4. Len(y) = Len(q) /\ \A i \in 1..Len(y) : y[i] = q[i]
    BY <1>1, <1>2, <1>3
  <1>5. y = q
    BY <1>3, <1>4, SeqEqual
  <1> QED BY <1>1, <1>5 DEF h, t, y

\* A slot tells of itself, and in the notice behind all its frames of its fault.
LEMMA SlotSends ==
    ASSUME NEW c, c.seq \in Nat, c.fault_id \in Nat, NEW kind \in Int
    PROVE  LET x == Emits(c, kind)
           IN  /\ x \in Seq(Frame) /\ Len(x) > 0 /\ TellsSlot(x[Len(x)])
               /\ x[Len(x)].type = "FAULT" <=> IsInjected(kind)
               /\ \A i \in 1..Len(x) :
                     /\ x[i].type # "END"
                     /\ TellsSlot(x[i]) => x[i].seq = c.seq
                     /\ x[i].type = "FAULT" =>
                           i = Len(x) /\ x[i].fault_id = c.fault_id + 1
                     /\ x[i].type = "SENSOR" /\ x[i].fault_id # 0 =>
                           /\ i + 1 = Len(x) /\ IsInjected(kind)
                           /\ x[i].fault_id = c.fault_id + 1
  <1> DEFINE f == FramesOf(c, kind)
             notice == Notice(c.fault_id + 1, kind, c.seq)
  <1>1. /\ f \in Seq(Frame) /\ (~IsInjected(kind) => Len(f) > 0)
        /\ Len(f) > 0 => f[Len(f)].type = "SENSOR"
        /\ \A i \in 1..Len(f) :
              /\ f[i].type \in {"SENSOR", "JUNK"}
              /\ f[i].type = "SENSOR" => f[i].seq = c.seq
              /\ f[i].type = "SENSOR" /\ f[i].fault_id # 0 =>
                    i = Len(f) /\ IsInjected(kind) /\ f[i].fault_id = c.fault_id + 1
    BY SlotFrames
  <1>2. /\ notice \in Frame /\ notice.type = "FAULT" /\ notice.seq = c.seq
        /\ notice.fault_id = c.fault_id + 1
    BY FrameTypes
  <1>3. CASE IsInjected(kind)
    <2> DEFINE x == f \o <<notice>>
    <2>1. Emits(c, kind) = x
      BY <1>3 DEF Emits, NoticesOf
    <2> HIDE DEF f, notice
    <2>2. <<notice>> \in Seq(Frame) /\ Len(<<notice>>) = 1 /\ <<notice>>[1] = notice
      BY <1>2
    <2>3. /\ x \in Seq(Frame) /\ Len(x) = Len(f) + 1 /\ Len(f) \in Nat
          /\ \A i \in 1..Len(f) : x[i] = f[i]
          /\ x[Len(f) + 1] = notice
      BY <1>1, <2>2, Joined
    <2> HIDE DEF x
    <2>4. \A i \in 1..Len(x) : i \in 1..Len(f) \/ i = Len(x)
      BY <2>3
    <2> QED BY <1>1, <1>2, <1>3, <2>1, <2>3, <2>4 DEF TellsSlot
  <1>4. CASE ~IsInjected(kind)
    <2>1. Emits(c, kind) = f
      <3>1. Emits(c, kind) = f \o <<>>
        BY <1>4 DEF Emits, NoticesOf
      <3> QED BY <1>1, <3>1, ConcatEmptySeq
    <2> HIDE DEF f
    <2> QED BY <1>1, <1>4, <2>1 DEF TellsSlot
  <1> QED BY <1>3, <1>4

-----------------------------------------------------------------------------
\* What is told when a sequence grows.

\* The notices can be counted.
LEMMA NoticesFinite ==
    ASSUME NEW e, NEW n \in Nat
    PROVE  IsFiniteSet(Notices(e, n)) /\ Cardinality(Notices(e, n)) \in Nat
  <1>1. IsFiniteSet(1..n) /\ Notices(e, n) \in SUBSET (1..n)
    BY FS_Interval DEF Notices
  <1> QED BY <1>1, FS_Subset, FS_CardinalityType

\* Only what comes up to a frame counts.
LEMMA ToldBefore ==
    ASSUME NEW e, NEW y, NEW n \in Nat, \A j \in 1..n : y[j] = e[j]
    PROVE  \A i \in 0..n : Numbers(y, i) = Numbers(e, i) /\ Notices(y, i) = Notices(e, i)
  <1> SUFFICES ASSUME NEW i \in 0..n
               PROVE  Numbers(y, i) = Numbers(e, i) /\ Notices(y, i) = Notices(e, i)
    OBVIOUS
  <1>1. \A j \in 1..i : y[j] = e[j]
    OBVIOUS
  <1> QED BY <1>1 DEF Numbers, Notices

\* A slot behind what a running campaign sent is in order, and counted.
LEMMA SlotKeeps ==
    ASSUME NEW e \in Seq(Frame), NEW c, NEW kind \in Int,
           InOrder(e), Follows(e), Knows(c, e)
    PROVE  LET y == e \o Emits(c, kind)
           IN  /\ y \in Seq(Frame) /\ InOrder(y) /\ Follows(y)
               /\ \A i \in DOMAIN y : y[i].type # "END"
               /\ Numbers(y, Len(y)) = 0..c.seq
               /\ Cardinality(Notices(y, Len(y))) =
                     c.fault_id + (IF IsInjected(kind) THEN 1 ELSE 0)
  <1> DEFINE x == Emits(c, kind)
             y == e \o x
             n == Len(e)
             m == n + Len(x)
             id == c.fault_id + 1
  <1>1. /\ c.seq \in Nat /\ c.fault_id \in Nat /\ Numbers(e, n) = 0..(c.seq - 1)
        /\ c.fault_id = Cardinality(Notices(e, n))
        /\ \A i \in DOMAIN e : e[i].type # "END"
    BY DEF Knows, Counters
  <1>2. /\ x \in Seq(Frame) /\ Len(x) > 0 /\ TellsSlot(x[Len(x)])
        /\ x[Len(x)].type = "FAULT" <=> IsInjected(kind)
        /\ \A i \in 1..Len(x) :
              /\ x[i].type # "END"
              /\ TellsSlot(x[i]) => x[i].seq = c.seq
              /\ x[i].type = "FAULT" => i = Len(x) /\ x[i].fault_id = id
              /\ x[i].type = "SENSOR" /\ x[i].fault_id # 0 =>
                    /\ i + 1 = Len(x) /\ IsInjected(kind)
                    /\ x[i].fault_id = id
    BY <1>1, SlotSends
  <1> HIDE DEF x
  <1>3. /\ y \in Seq(Frame) /\ Len(y) = m /\ n \in Nat /\ m \in Nat /\ m > n
        /\ DOMAIN e = 1..n /\ DOMAIN y = 1..m
        /\ \A i \in 1..n : y[i] = e[i]
        /\ \A i \in (n + 1)..m : i - n \in 1..Len(x) /\ y[i] = x[i - n]
    BY <1>2, Joined
  <1>4. m - n = Len(x)
    BY <1>2, <1>3
  <1> HIDE DEF y, m, n, id
  <1>5. /\ TellsSlot(y[m]) /\ (y[m].type = "FAULT" <=> IsInjected(kind))
        /\ \A i \in (n + 1)..m :
              /\ y[i].type # "END"
              /\ TellsSlot(y[i]) => y[i].seq = c.seq
              /\ y[i].type = "FAULT" => i = m /\ y[i].fault_id = id
              /\ y[i].type = "SENSOR" /\ y[i].fault_id # 0 =>
                    i + 1 = m /\ IsInjected(kind) /\ y[i].fault_id = id
    <2>1. m \in (n + 1)..m /\ y[m] = x[Len(x)]
      BY <1>3, <1>4
    <2> SUFFICES ASSUME NEW i \in (n + 1)..m
                 PROVE  /\ y[i].type # "END"
                        /\ TellsSlot(y[i]) => y[i].seq = c.seq
                        /\ y[i].type = "FAULT" => i = m /\ y[i].fault_id = id
                        /\ y[i].type = "SENSOR" /\ y[i].fault_id # 0 =>
                              i + 1 = m /\ IsInjected(kind) /\ y[i].fault_id = id
      BY <1>2, <2>1
    <2>2. i - n \in 1..Len(x) /\ y[i] = x[i - n]
          /\ (i - n = Len(x) => i = m) /\ ((i - n) + 1 = Len(x) => i + 1 = m)
      BY <1>3, <1>4
    <2> QED BY <1>2, <2>2
  <1>6. \A i \in 1..m : i \in 1..n \/ i \in (n + 1)..m
    BY <1>3
  <1>7. \A i \in 0..n : Numbers(y, i) = Numbers(e, i) /\ Notices(y, i) = Notices(e, i)
    BY <1>3, ToldBefore
  <1>8. ASSUME NEW i \in (n + 1)..m, TellsSlot(y[i])
        PROVE  Numbers(y, i) = 0..c.seq
    <2>1. /\ \A j \in 1..i : j \in 1..n \/ j \in (n + 1)..m
          /\ \A j \in 1..n : j \in 1..i
          /\ i \in 1..i
      BY <1>3
    <2>2. y[i].seq = c.seq
      BY <1>5, <1>8
    <2>3. ASSUME NEW v PROVE v \in Numbers(y, i) <=> v \in Numbers(e, n) \/ v = c.seq
      <3>1. v \in Numbers(y, i) <=> \E j \in 1..i : TellsSlot(y[j]) /\ v = y[j].seq
        BY DEF Numbers
      <3>2. v \in Numbers(e, n) <=> \E j \in 1..n : TellsSlot(e[j]) /\ v = e[j].seq
        BY DEF Numbers
      <3> QED BY <1>3, <1>5, <1>8, <2>1, <2>2, <3>1, <3>2
    <2>4. ASSUME NEW v PROVE v \in 0..c.seq <=> v \in 0..(c.seq - 1) \/ v = c.seq
      BY <1>1
    <2> QED BY <1>1, <2>3, <2>4
  <1>9. Notices(y, m) = IF IsInjected(kind) THEN Notices(e, n) \cup {m} ELSE Notices(e, n)
    <2>1. m \in 1..m /\ \A j \in 1..n : j \in 1..m
      BY <1>3
    <2> QED BY <1>3, <1>5, <1>6, <2>1 DEF Notices
  <1>10. Cardinality(Notices(y, m)) = c.fault_id + (IF IsInjected(kind) THEN 1 ELSE 0)
    <2>1. IsFiniteSet(Notices(e, n))
      BY <1>3, NoticesFinite
    <2>2. m \notin Notices(e, n)
      BY <1>3 DEF Notices
    <2>3. Cardinality(Notices(e, n) \cup {m}) = Cardinality(Notices(e, n)) + 1
      BY <2>1, <2>2, FS_AddElement
    <2> QED BY <1>1, <1>9, <2>3
  <1>11. InOrder(y)
    <2> SUFFICES ASSUME NEW i \in 1..m
                 PROVE  /\ TellsSlot(y[i]) => Numbers(y, i) = 0..y[i].seq
                        /\ y[i].type = "FAULT" =>
                              y[i].fault_id = Cardinality(Notices(y, i))
      BY <1>3 DEF InOrder
    <2>1. CASE i \in 1..n
      <3>1. y[i] = e[i] /\ i \in DOMAIN e /\ i \in 0..n
        BY <1>3, <2>1
      <3> QED BY <1>7, <3>1 DEF InOrder
    <2>2. CASE i \in (n + 1)..m
      BY <1>5, <1>8, <1>10, <2>2 DEF id, TellsSlot
    <2> QED BY <1>6, <2>1, <2>2
  <1>12. Follows(y)
    <2> SUFFICES ASSUME NEW i \in 1..m
                 PROVE  /\ y[i].type = "FAULT" =>
                              \A j \in (i + 1)..m : TellsSlot(y[j]) => y[j].seq # y[i].seq
                        /\ y[i].type = "SENSOR" /\ y[i].fault_id # 0 =>
                              /\ i < m /\ y[i + 1].type = "FAULT"
                              /\ y[i + 1].fault_id = y[i].fault_id
      BY <1>3 DEF Follows
    <2>1. CASE i \in 1..n
      <3>1. y[i] = e[i] /\ i \in DOMAIN e
        BY <1>3, <2>1
      <3>2. ASSUME e[i].type = "FAULT", NEW j \in (i + 1)..m, TellsSlot(y[j])
            PROVE  y[j].seq # e[i].seq
        <4>1. CASE j \in 1..n
          <5>1. y[j] = e[j] /\ j \in (i + 1)..n
            BY <1>3, <4>1
          <5> QED BY <3>1, <3>2, <5>1 DEF Follows, n
        <4>2. CASE j \notin 1..n
          <5>1. j \in (n + 1)..m
            BY <1>3, <2>1, <4>2
          <5>2. y[j].seq = c.seq
            BY <1>5, <3>2, <5>1
          <5>3. e[i].seq \in Numbers(e, n)
            BY <2>1, <3>2 DEF Numbers, TellsSlot
          <5> QED BY <1>1, <5>2, <5>3
        <4> QED BY <4>1, <4>2
      <3>3. ASSUME e[i].type = "SENSOR", e[i].fault_id # 0
            PROVE  i < m /\ y[i + 1].type = "FAULT" /\ y[i + 1].fault_id = e[i].fault_id
        <4>1. /\ i < n /\ e[i + 1].type = "FAULT"
              /\ e[i + 1].fault_id = e[i].fault_id
          BY <3>1, <3>3 DEF Follows, n
        <4>2. i + 1 \in 1..n /\ i < m
          BY <1>3, <2>1, <4>1
        <4> QED BY <1>3, <4>1, <4>2
      <3> QED BY <3>1, <3>2, <3>3
    <2>2. CASE i \in (n + 1)..m
      <3>1. ASSUME y[i].type = "FAULT", NEW j \in (i + 1)..m PROVE FALSE
        <4>1. i = m
          BY <1>5, <2>2, <3>1
        <4> QED BY <1>3, <3>1, <4>1
      <3>2. ASSUME y[i].type = "SENSOR", y[i].fault_id # 0
            PROVE  /\ i < m /\ y[i + 1].type = "FAULT"
                   /\ y[i + 1].fault_id = y[i].fault_id
        <4>1. i + 1 = m /\ IsInjected(kind) /\ y[i].fault_id = id
          BY <1>5, <2>2, <3>2
        <4>2. m \in (n + 1)..m /\ i < m
          BY <1>3, <4>1
        <4> QED BY <1>5, <4>1, <4>2
      <3> QED BY <3>1, <3>2
    <2> QED BY <1>6, <2>1, <2>2
  <1>13. \A i \in DOMAIN y : y[i].type # "END"
    BY <1>1, <1>3, <1>5, <1>6
  <1>14. Numbers(y, m) = 0..c.seq
    <2>1. m \in (n + 1)..m
      BY <1>3
    <2> QED BY <1>5, <1>8, <2>1
  <1> QED BY <1>3, <1>10, <1>11, <1>12, <1>13, <1>14 DEF y, x

\* The END of an exhausted campaign is true.
LEMMA EndKeeps ==
    ASSUME NEW e \in Seq(Frame), NEW c, InOrder(e), Follows(e), Knows(c, e), Exhausted(c)
    PROVE  LET y == e \o <<End(c.packets, c.fault_id)>>
           IN  y \in Seq(Frame) /\ InOrder(y) /\ Follows(y) /\ Ends(y, c.packets)
  <1> DEFINE end == End(c.packets, c.fault_id)
             y == e \o <<end>>
             n == Len(e)
  <1>1. /\ c.packets \in Nat /\ c.seq \in Nat /\ c.fault_id \in Nat
        /\ c.seq = c.packets /\ Numbers(e, n) = 0..(c.packets - 1)
        /\ c.fault_id = Cardinality(Notices(e, n))
        /\ \A i \in DOMAIN e : e[i].type # "END"
    BY DEF Knows, Counters, Exhausted
  <1>2. /\ end \in Frame /\ end.type = "END" /\ end.packets = c.packets
        /\ end.faults = c.fault_id /\ ~TellsSlot(end)
    BY <1>1 DEF End, Frame, TellsSlot
  <1> HIDE DEF end
  <1>3. <<end>> \in Seq(Frame) /\ Len(<<end>>) = 1 /\ <<end>>[1] = end
    BY <1>2
  <1>4. /\ y \in Seq(Frame) /\ Len(y) = n + 1 /\ n \in Nat
        /\ DOMAIN e = 1..n /\ DOMAIN y = 1..(n + 1)
        /\ \A i \in 1..n : y[i] = e[i]
        /\ y[n + 1] = end
    BY <1>3, Joined
  <1> HIDE DEF y, n
  <1>5. \A i \in 1..(n + 1) : i \in 1..n \/ i = n + 1
    BY <1>4
  <1>6. \A i \in 0..n : Numbers(y, i) = Numbers(e, i) /\ Notices(y, i) = Notices(e, i)
    BY <1>4, ToldBefore
  <1>7. Numbers(y, n + 1) = Numbers(e, n) /\ Notices(y, n + 1) = Notices(e, n)
    <2>1. Numbers(y, n) = Numbers(e, n) /\ Notices(y, n) = Notices(e, n)
      BY <1>4, <1>6
    <2>2. \A j \in 1..n : j \in 1..(n + 1)
      BY <1>4
    <2>3. Numbers(y, n + 1) = Numbers(y, n)
      BY <1>2, <1>4, <1>5, <2>2 DEF Numbers
    <2>4. Notices(y, n + 1) = Notices(y, n)
      BY <1>2, <1>4, <1>5, <2>2 DEF Notices
    <2> QED BY <2>1, <2>3, <2>4
  <1>8. InOrder(y)
    <2> SUFFICES ASSUME NEW i \in 1..(n + 1)
                 PROVE  /\ TellsSlot(y[i]) => Numbers(y, i) = 0..y[i].seq
                        /\ y[i].type = "FAULT" =>
                              y[i].fault_id = Cardinality(Notices(y, i))
      BY <1>4 DEF InOrder
    <2>1. CASE i \in 1..n
      <3>1. y[i] = e[i] /\ i \in DOMAIN e /\ i \in 0..n
        BY <1>4, <2>1
      <3> QED BY <1>6, <3>1 DEF InOrder
    <2>2. CASE i = n + 1
      BY <1>2, <1>4, <2>2
    <2> QED BY <1>5, <2>1, <2>2
  <1>9. Follows(y)
    <2> SUFFICES ASSUME NEW i \in 1..(n + 1)
                 PROVE  /\ y[i].type = "FAULT" =>
                              \A j \in (i + 1)..(n + 1) :
                                 TellsSlot(y[j]) => y[j].seq # y[i].seq
                        /\ y[i].type = "SENSOR" /\ y[i].fault_id # 0 =>
                              /\ i < n + 1 /\ y[i + 1].type = "FAULT"
                              /\ y[i + 1].fault_id = y[i].fault_id
      BY <1>4 DEF Follows
    <2>1. CASE i \in 1..n
      <3>1. y[i] = e[i] /\ i \in DOMAIN e
        BY <1>4, <2>1
      <3>2. ASSUME e[i].type = "FAULT", NEW j \in (i + 1)..(n + 1), TellsSlot(y[j])
            PROVE  y[j].seq # e[i].seq
        <4>1. j # n + 1
          BY <1>2, <1>4, <3>2
        <4>2. j \in (i + 1)..n /\ y[j] = e[j]
          BY <1>4, <2>1, <4>1
        <4> QED BY <3>1, <3>2, <4>2 DEF Follows, n
      <3>3. ASSUME e[i].type = "SENSOR", e[i].fault_id # 0
            PROVE  i < n + 1 /\ y[i + 1].type = "FAULT" /\ y[i + 1].fault_id = e[i].fault_id
        <4>1. /\ i < n /\ e[i + 1].type = "FAULT"
              /\ e[i + 1].fault_id = e[i].fault_id
          BY <3>1, <3>3 DEF Follows, n
        <4>2. i + 1 \in 1..n /\ i < n + 1
          BY <1>4, <2>1, <4>1
        <4> QED BY <1>4, <4>1, <4>2
      <3> QED BY <3>1, <3>2, <3>3
    <2>2. CASE i = n + 1
      BY <1>2, <1>4, <2>2
    <2> QED BY <1>5, <2>1, <2>2
  <1>10. Ends(y, c.packets)
    <2>1. Cardinality(Numbers(y, n + 1)) = c.packets
      <3>1. 0 \in Int /\ c.packets - 1 \in Int
        BY <1>1
      <3>2. Cardinality(0..(c.packets - 1)) =
               IF 0 > c.packets - 1 THEN 0 ELSE (c.packets - 1) - 0 + 1
        BY <3>1, FS_Interval
      <3>3. Cardinality(0..(c.packets - 1)) = c.packets
        BY <1>1, <3>2
      <3>4. Numbers(y, n + 1) = 0..(c.packets - 1)
        BY <1>1, <1>7
      <3> QED BY <3>3, <3>4
    <2> QED BY <1>1, <1>2, <1>4, <1>5, <1>7, <2>1 DEF Ends
  <1> QED BY <1>4, <1>8, <1>9, <1>10 DEF y, end

-----------------------------------------------------------------------------
\* The steps.

\* What was sent, or is about to be, is a sequence of frames.
LEMMA EmittedFrames ==
    ASSUME TypeOK
    PROVE  Emitted \in Seq(Frame) /\ (sending = <<>> \/ sending = <<Pong>> => Emitted = stream)
  <1>1. stream \in Seq(Frame) /\ (sending \in Seq(Frame) \/ sending = <<Pong>>)
    BY DEF TypeOK
  <1>2. stream \o <<>> = stream
    BY <1>1, ConcatEmptySeq
  <1>3. CASE sending = <<Pong>>
    BY <1>1, <1>2, <1>3 DEF Emitted
  <1>4. CASE sending # <<Pong>>
    BY <1>1, <1>2, <1>4, ConcatProperties DEF Emitted
  <1> QED BY <1>3, <1>4

\* Nothing was emitted and no campaign begun or ended.
LEMMA SameKeeps ==
    ASSUME Inv, TypeOK', Emitted' = Emitted, UNCHANGED begun, cfg' \in {cfg, None}
    PROVE  Inv'
  <1>1. Campaign'
    BY DEF Inv, Campaign
  <1>2. InOrder(Emitted') /\ Follows(Emitted') /\ Ends(Emitted', begun'.packets)
    BY DEF Inv
  <1> QED BY <1>1, <1>2 DEF Inv

\* A PONG is no frame of a campaign.
LEMMA PongIsNone == ASSUME NEW q \in Seq(Frame), q # <<>> PROVE Head(q) # Pong /\ q # <<Pong>>
  <1>1. \A g \in Frame : g # Pong
    BY DEF Frame, Pong
  <1>2. Head(q) \in Frame
    BY HeadTailProperties
  <1>3. Head(<<Pong>>) = Pong
    OBVIOUS
  <1> QED BY <1>1, <1>2, <1>3

\* The counters after a slot.
LEMMA AfterSlotCounts ==
    ASSUME NEW c, NEW d, NEW kind, NEW e, NEW y,
           Knows(c, e), ~Exhausted(c), d = AfterSlot(c, kind),
           \A i \in DOMAIN y : y[i].type # "END",
           Numbers(y, Len(y)) = 0..c.seq,
           Cardinality(Notices(y, Len(y))) = c.fault_id + (IF IsInjected(kind) THEN 1 ELSE 0)
    PROVE  Knows(d, y) /\ d.packets = c.packets
  <1> DEFINE id == IF IsInjected(kind) THEN c.fault_id + 1 ELSE c.fault_id
  <1>1. /\ c \in Counters /\ c.sent = c.seq /\ c.sent <= c.packets
        /\ c.seq \in Nat /\ c.sent \in Nat /\ c.packets \in Nat /\ c.fault_id \in Nat
    BY DEF Knows, Counters
  <1>2. d = [c EXCEPT !.seq = c.seq + 1, !.sent = c.sent + 1, !.fault_id = id] /\ id \in Nat
    BY <1>1 DEF AfterSlot
  <1>3. c.sent + 1 <= c.packets
    BY <1>1 DEF Exhausted
  <1>4. id = Cardinality(Notices(y, Len(y)))
    BY <1>1
  <1> HIDE DEF id
  <1>5. /\ d \in Counters /\ d.sent = d.seq /\ d.seq = c.seq + 1 /\ d.sent = c.sent + 1
        /\ d.fault_id = id /\ d.packets = c.packets
    <2>1. c \in [packets : Nat, cadence_ms : Nat, kinds : SUBSET Kinds,
                 seq : Nat, fault_id : Nat, sent : Nat]
      BY <1>1 DEF Counters
    <2>2. d = [packets |-> c.packets, cadence_ms |-> c.cadence_ms, kinds |-> c.kinds,
               seq |-> c.seq + 1, fault_id |-> id, sent |-> c.sent + 1]
      BY <1>2, <2>1
    <2>3. c.cadence_ms \in Nat /\ c.kinds \in SUBSET Kinds
      BY <2>1
    <2> QED BY <1>1, <1>2, <2>2, <2>3 DEF Counters
  <1> QED BY <1>1, <1>3, <1>4, <1>5 DEF Knows

\* A frame that is sent is as good as sent before.
LEMMA SendKeeps ==
    ASSUME TypeOK, Send
    PROVE  TypeOK' /\ Emitted' = Emitted
  <1>1. /\ stream \in Seq(Frame) /\ sending # <<>>
        /\ (sending \in Seq(Frame) \/ sending = <<Pong>>)
        /\ sending' = Tail(sending)
        /\ stream' = IF Head(sending) = Pong THEN stream ELSE Append(stream, Head(sending))
        /\ UNCHANGED <<outbound, chunk, pc, cfg>>
    BY DEF TypeOK, Send, hostVars
  <1>2. CASE sending = <<Pong>>
    <2>1. Head(sending) = Pong /\ Tail(sending) = <<>>
      BY <1>2
    <2>2. sending' = <<>> /\ stream' = stream /\ <<>> \in Seq(Frame) /\ <<>> # <<Pong>>
      BY <1>1, <2>1
    <2>3. TypeOK'
      BY <1>1, <2>2 DEF TypeOK
    <2> QED BY <1>2, <2>2, <2>3 DEF Emitted
  <1>3. CASE sending \in Seq(Frame)
    <2> DEFINE f == Head(sending)
               rest == Tail(sending)
    <2>1. f \in Frame /\ rest \in Seq(Frame) /\ sending = <<f>> \o rest
      BY <1>1, <1>3, HeadAndTail
    <2>2. f # Pong /\ sending # <<Pong>>
      BY <1>1, <1>3, PongIsNone
    <2>3. rest # <<Pong>>
      <3>1. CASE rest = <<>>
        BY <3>1
      <3>2. CASE rest # <<>>
        BY <2>1, <3>2, PongIsNone
      <3> QED BY <3>1, <3>2
    <2> HIDE DEF f, rest
    <2>4. stream' = Append(stream, f) /\ sending' = rest
      BY <1>1, <2>1, <2>2 DEF f, rest
    <2>5. Append(stream, f) = stream \o <<f>>
      BY <1>1, <2>1, AppendIsConcat
    <2>6. (stream \o <<f>>) \o rest = stream \o (<<f>> \o rest)
      BY <1>1, <2>1, ConcatAssociative
    <2>7. Emitted = stream \o sending /\ Emitted' = stream' \o rest
      BY <1>3, <2>1, <2>2, <2>3, <2>4 DEF Emitted
    <2>8. TypeOK'
      <3>1. stream' \in Seq(Frame)
        BY <1>1, <2>1, <2>4
      <3> QED BY <1>1, <2>1, <2>4, <3>1 DEF TypeOK
    <2> QED BY <2>1, <2>4, <2>5, <2>6, <2>7, <2>8
  <1> QED BY <1>1, <1>2, <1>3

\* The steps that neither emit nor begin anything.
LEMMA QuietStep ==
    ASSUME Inv, \/ HostHangsUp \/ ParserTakes \/ Recv \/ RecvFails \/ HandlePing \/ HandleAbort
                \/ ChunkDone \/ Wake \/ UNCHANGED linkVars \/ \E c \in Chunks : HostSends(c)
    PROVE  Inv'
  <1>1. TypeOK
    BY DEF Inv
  <1>2. UNCHANGED <<stream, begun>> /\ cfg' \in {cfg, None}
    BY DEF HostHangsUp, ParserTakes, Recv, RecvFails, HandlePing, HandleAbort, ChunkDone, Wake,
           HostSends, linkVars, simVars, hostVars
  <1>3. CASE HandlePing
    <2>1. /\ sending = <<>> /\ sending' = <<Pong>> /\ chunk' = Tail(chunk) /\ chunk # <<>>
          /\ pc = "handle" /\ UNCHANGED <<outbound, pc, cfg>>
      BY <1>3 DEF HandlePing, hostVars
    <2>2. Emitted = stream
      BY <1>1, <2>1, EmittedFrames
    <2>3. Emitted' = stream'
      <3>1. stream' \o <<>> = stream'
        BY <1>1, <1>2, ConcatEmptySeq DEF TypeOK
      <3> QED BY <2>1, <3>1 DEF Emitted
    <2>4. TypeOK'
      <3>1. chunk' \in Seq(Control)
        BY <1>1, <2>1 DEF TypeOK
      <3> QED BY <1>1, <1>2, <2>1, <3>1 DEF TypeOK
    <2> QED BY <1>2, <2>2, <2>3, <2>4, SameKeeps
  <1>4. CASE ~HandlePing
    <2>1. sending' = sending
      BY <1>4 DEF HostHangsUp, ParserTakes, Recv, RecvFails, HandleAbort, ChunkDone, Wake,
                  HostSends, linkVars, simVars, hostVars
    <2>2. TypeOK'
      <3>1. CASE Recv
        <4>1. /\ chunk' = Head(outbound) /\ outbound' = Tail(outbound) /\ outbound # <<>>
              /\ pc = "recv" /\ pc' = "handle" /\ cfg' = cfg
          BY <3>1 DEF Recv
        <4>2. Head(outbound) \in Chunks /\ Tail(outbound) \in Seq(Chunks)
          BY <1>1, <4>1, HeadTailProperties DEF TypeOK
        <4>3. chunk' \in Seq(Control)
          BY <4>1, <4>2, SimAssumption
        <4> QED BY <1>1, <1>2, <2>1, <4>1, <4>2, <4>3 DEF TypeOK
      <3>2. CASE \E c \in Chunks : HostSends(c)
        <4>1. PICK c \in Chunks : HostSends(c)
          BY <3>2
        <4>2. outbound' \in Seq(Chunks)
          BY <1>1, <4>1 DEF TypeOK, HostSends
        <4>3. UNCHANGED <<chunk, pc, cfg>>
          BY <4>1 DEF HostSends, simVars
        <4> QED BY <1>1, <1>2, <2>1, <4>2, <4>3 DEF TypeOK
      <3>3. CASE HandleAbort
        <4>1. /\ chunk # <<>> /\ chunk' = Tail(chunk) /\ pc = "handle" /\ sending = <<>>
              /\ UNCHANGED <<outbound, pc>>
          BY <3>3 DEF HandleAbort, hostVars
        <4>2. chunk' \in Seq(Control)
          BY <1>1, <4>1 DEF TypeOK
        <4> QED BY <1>1, <1>2, <2>1, <4>1, <4>2 DEF TypeOK
      <3>4. CASE ChunkDone \/ Wake \/ RecvFails
        <4>1. /\ UNCHANGED <<outbound, chunk, cfg>>
              /\ sending = <<>> \/ pc = "recv"
              /\ pc' = "slot" => cfg # None
          BY <3>4 DEF ChunkDone, Wake, RecvFails, hostVars
        <4>2. sending = <<>>
          BY <1>1, <4>1 DEF TypeOK
        <4> QED BY <1>1, <1>2, <2>1, <4>1, <4>2 DEF TypeOK
      <3>5. CASE HostHangsUp \/ ParserTakes \/ UNCHANGED linkVars
        <4>1. UNCHANGED <<outbound, chunk, pc, cfg>>
          BY <3>5 DEF HostHangsUp, ParserTakes, linkVars, simVars
        <4> QED BY <1>1, <1>2, <2>1, <4>1 DEF TypeOK
      <3> QED BY <1>4, <3>1, <3>2, <3>3, <3>4, <3>5
    <2>3. Emitted' = Emitted
      BY <1>2, <2>1 DEF Emitted
    <2> QED BY <1>2, <2>2, <2>3, SameKeeps
  <1> QED BY <1>3, <1>4

\* A START begins anew.
LEMMA StartStep == ASSUME Inv, HandleStart PROVE Inv'
  <1>1. /\ pc = "handle" /\ pc' = pc /\ sending = <<>> /\ sending' = <<>> /\ outbound' = outbound
        /\ chunk # <<>> /\ chunk' = Tail(chunk) /\ Head(chunk).kind = "START"
        /\ cfg' = NewCampaign(Head(chunk).cfg) /\ begun' = cfg' /\ stream' = <<>>
    BY DEF HandleStart, hostVars
  <1>2. TypeOK
    BY DEF Inv
  <1>3. Head(chunk) \in Control /\ chunk' \in Seq(Control)
    BY <1>1, <1>2, HeadTailProperties DEF TypeOK
  <1>4. Head(chunk).cfg \in CampaignConfig
    BY <1>1, <1>3 DEF Control, Ping, Abort
  <1>5. TypeOK'
    BY <1>1, <1>2, <1>3 DEF TypeOK
  <1>6. Emitted' = <<>>
    BY <1>1, <1>5, EmittedFrames DEF Emitted
  <1>7. Knows(cfg', <<>>)
    <2>1. cfg' \in Counters /\ cfg'.seq = 0 /\ cfg'.fault_id = 0 /\ cfg'.sent = 0
          /\ cfg'.packets \in Nat
      BY <1>1, <1>4 DEF NewCampaign, Counters, CampaignConfig, Kinds
    <2>2. Numbers(<<>>, 0) = {} /\ Notices(<<>>, 0) = {}
      BY DEF Numbers, Notices
    <2>3. 0..(0 - 1) = {} /\ Cardinality(Notices(<<>>, 0)) = 0
      BY <2>2, FS_EmptySet
    <2> QED BY <2>1, <2>2, <2>3 DEF Knows
  <1>8. Campaign'
    BY <1>1, <1>6, <1>7 DEF Campaign
  <1>9. InOrder(<<>>) /\ Follows(<<>>) /\ Ends(<<>>, begun'.packets)
    BY DEF InOrder, Follows, Ends
  <1> QED BY <1>5, <1>6, <1>8, <1>9 DEF Inv

\* A slot goes behind what was sent.
LEMMA SlotStep ==
    ASSUME Inv, NEW kind \in Int, Slot(kind)
    PROVE  Inv'
  <1>1. /\ pc = "slot" /\ pc' = "emit" /\ ~Exhausted(cfg) /\ sending' = Emits(cfg, kind)
        /\ cfg' = AfterSlot(cfg, kind) /\ UNCHANGED <<chunk, outbound, stream, begun>>
    BY DEF Slot, hostVars
  <1>2. TypeOK /\ InOrder(Emitted) /\ Follows(Emitted)
    BY DEF Inv
  <1>3. sending = <<>> /\ cfg # None /\ Emitted = stream /\ Emitted \in Seq(Frame)
    <2>1. sending = <<>> /\ cfg # None
      BY <1>1, <1>2 DEF TypeOK
    <2> QED BY <1>2, <2>1, EmittedFrames
  <1>4. Knows(cfg, Emitted) /\ begun.packets = cfg.packets
    BY <1>3 DEF Inv, Campaign
  <1>5. Emits(cfg, kind) \in Seq(Frame) /\ Emits(cfg, kind) # <<Pong>>
    <2>1. cfg.seq \in Nat /\ cfg.fault_id \in Nat
      BY <1>4 DEF Knows, Counters
    <2>2. Emits(cfg, kind) \in Seq(Frame)
      BY <2>1, SlotSends
    <2> QED BY <2>2, PongIsNone
  <1>6. TypeOK'
    BY <1>1, <1>2, <1>5 DEF TypeOK
  <1> DEFINE y == Emitted \o Emits(cfg, kind)
  <1>7. Emitted' = y
    BY <1>1, <1>3, <1>5 DEF Emitted
  <1>8. /\ y \in Seq(Frame) /\ InOrder(y) /\ Follows(y)
        /\ \A i \in DOMAIN y : y[i].type # "END"
        /\ Numbers(y, Len(y)) = 0..cfg.seq
        /\ Cardinality(Notices(y, Len(y))) =
              cfg.fault_id + (IF IsInjected(kind) THEN 1 ELSE 0)
    BY <1>2, <1>3, <1>4, SlotKeeps
  <1> HIDE DEF y
  <1>9. Knows(cfg', y) /\ cfg'.packets = cfg.packets
    BY <1>1, <1>4, <1>8, AfterSlotCounts
  <1>10. Campaign'
    BY <1>1, <1>4, <1>7, <1>9 DEF Campaign
  <1>11. Ends(y, begun'.packets)
    BY <1>8 DEF Ends
  <1> QED BY <1>6, <1>7, <1>8, <1>10, <1>11 DEF Inv

\* The END is the last thing sent.
LEMMA FinishStep == ASSUME Inv, Finish PROVE Inv'
  <1>1. /\ pc = "slot" /\ pc' = "emit" /\ Exhausted(cfg)
        /\ sending' = <<End(cfg.packets, cfg.fault_id)>>
        /\ cfg' = None /\ UNCHANGED <<chunk, outbound, stream, begun>>
    BY DEF Finish, hostVars
  <1>2. TypeOK /\ InOrder(Emitted) /\ Follows(Emitted)
    BY DEF Inv
  <1>3. sending = <<>> /\ cfg # None /\ Emitted = stream /\ Emitted \in Seq(Frame)
    <2>1. sending = <<>> /\ cfg # None
      BY <1>1, <1>2 DEF TypeOK
    <2> QED BY <1>2, <2>1, EmittedFrames
  <1>4. Knows(cfg, Emitted) /\ begun.packets = cfg.packets
    BY <1>3 DEF Inv, Campaign
  <1> DEFINE end == <<End(cfg.packets, cfg.fault_id)>>
             y == Emitted \o end
  <1>5. end \in Seq(Frame) /\ end # <<Pong>>
    <2>1. End(cfg.packets, cfg.fault_id) \in Frame
      BY <1>4 DEF Knows, Counters, End, Frame
    <2>2. end \in Seq(Frame)
      BY <2>1
    <2> QED BY <2>2, PongIsNone
  <1>6. TypeOK'
    BY <1>1, <1>2, <1>5 DEF TypeOK
  <1>7. Emitted' = y
    BY <1>1, <1>3, <1>5 DEF Emitted
  <1>8. InOrder(y) /\ Follows(y) /\ Ends(y, cfg.packets)
    BY <1>1, <1>2, <1>3, <1>4, EndKeeps
  <1> HIDE DEF y
  <1>9. Campaign'
    BY <1>1 DEF Campaign
  <1> QED BY <1>1, <1>4, <1>6, <1>7, <1>8, <1>9 DEF Inv

-----------------------------------------------------------------------------
\* The invariant holds before the first START.
LEMMA InitInv == SimInit => Inv
  <1> SUFFICES ASSUME SimInit PROVE Inv
    OBVIOUS
  <1>1. /\ outbound = <<>> /\ chunk = <<>> /\ stream = <<>> /\ sending = <<>>
        /\ pc = "recv" /\ cfg = None
    BY DEF SimInit
  <1>2. TypeOK
    BY <1>1 DEF TypeOK
  <1>3. Emitted = <<>>
    BY <1>1, <1>2, EmittedFrames
  <1>4. Campaign /\ InOrder(<<>>) /\ Follows(<<>>) /\ Ends(<<>>, begun.packets)
    BY <1>1 DEF Campaign, InOrder, Follows, Ends
  <1> QED BY <1>2, <1>3, <1>4 DEF Inv

\* Every step of the thread, the parser task and the host keeps it.
LEMMA NextInv == Inv /\ [SimNext]_linkVars => Inv'
  <1> SUFFICES ASSUME Inv, [SimNext]_linkVars PROVE Inv'
    OBVIOUS
  <1>1. CASE pc = "slot" /\ \E kind \in pick(cfg) : Slot(kind)
    <2>1. PICK kind \in pick(cfg) : Slot(kind)
      BY <1>1
    <2>2. kind \in Int
      <3>1. cfg # None
        BY <1>1 DEF Inv, TypeOK
      <3>2. cfg.kinds \subseteq Kinds
        BY <3>1 DEF Inv, Campaign, Knows, Counters
      <3> QED BY <2>1, <3>2
              DEF pick, Kinds, FAULT_NONE, FAULT_BITFLIP, FAULT_DUTY
    <2> QED BY <2>1, <2>2, SlotStep
  <1>2. CASE Finish
    BY <1>2, FinishStep
  <1>3. CASE HandleStart
    BY <1>3, StartStep
  <1>4. CASE Send
    <2>1. TypeOK' /\ Emitted' = Emitted
      BY <1>4, SendKeeps DEF Inv
    <2>2. UNCHANGED begun /\ cfg' = cfg
      BY <1>4 DEF Send
    <2> QED BY <2>1, <2>2, SameKeeps
  <1>5. CASE \/ HostHangsUp \/ ParserTakes \/ Recv \/ RecvFails \/ HandlePing \/ HandleAbort
             \/ ChunkDone \/ Wake \/ UNCHANGED linkVars \/ \E c \in Chunks : HostSends(c)
    BY <1>5, QuietStep
  <1> QED BY <1>1, <1>2, <1>3, <1>4, <1>5 DEF SimNext, Sim

\* The inductive invariant: while a campaign runs, its counters say what was
\* sent for it, and what was sent is in order.
THEOREM SimInvariant == SimSpec => []Inv
  BY InitInv, NextInv, PTL DEF SimSpec

\* The slots of a campaign come out in the order of their numbers, from 0 on and
\* none left out, and the notices with the ids 1, 2, 3, ... (run_next), whatever
\* the host sends in between.
THEOREM SlotsInOrder == SimSpec => []NumbersInOrder
  <1>1. Inv => NumbersInOrder
    BY DEF Inv, InOrder, NumbersInOrder
  <1> QED BY <1>1, SimInvariant, PTL

\* A notice comes behind every frame of its slot, and at once behind the frame
\* that carries its id (run_next).
THEOREM NoticesFollow == SimSpec => []NoticeFollowsItsFrames
  <1>1. Inv => NoticeFollowsItsFrames
    BY DEF Inv, Follows, NoticeFollowsItsFrames
  <1> QED BY <1>1, SimInvariant, PTL

\* The END counts the slots and the notices of its own campaign, and nothing
\* comes behind it (run_next, the END of an exhausted campaign).
THEOREM EndCounts == SimSpec => []EndIsTrue
  <1>1. Inv => EndIsTrue
    BY DEF Inv, Ends, EndIsTrue
  <1> QED BY <1>1, SimInvariant, PTL
=============================================================================
