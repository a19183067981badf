----------------------------- MODULE HostProofs -----------------------------
(* Host for channels of every capacity, every traffic and reads of any size. *)
EXTENDS Host, SequenceTheorems, FiniteSetTheorems, WellFoundedInduction, TLAPS

Steps == {"none", "start", "drain", "score", "done"}

\* The channels carry what they are for.
TypeOK ==
    /\ frames \in Seq(DuFrames) /\ chunk \in Seq(Traffic) /\ bytes \in Seq(Seq(Traffic))
    /\ heard \in Seq(DuFrames) /\ drained \in Seq(DuFrames)
    /\ main \in {"ping", "handshake", "failed", "wait", "reported"} /\ campaign \in Steps

\* There is a campaign when the handshake has succeeded, and only then.
Alone == campaign = "none" <=> main \in {"ping", "handshake", "failed"}

\* Without a campaign no PONG was heard; with one, the last that was heard is.
PongSplits ==
    /\ campaign = "none" => \A i \in 1..Len(heard) : heard[i].kind # "PONG"
    /\ campaign # "none" => heard # <<>> /\ heard[Len(heard)].kind = "PONG"
    /\ \A i \in 1..(Len(heard) - 1) : heard[i].kind # "PONG"
    /\ campaign \in {"none", "start"} => drained = <<>>

\* What the injector is sent, as far as the tasks have come.
Sent ==
    /\ main = "ping" => outbound = <<>>
    /\ main \in {"handshake", "failed"} \/ campaign = "start" => outbound = <<"PING">>
    /\ campaign \in {"drain", "score", "done"} => outbound = <<"PING", "START">>

\* An END is the last frame that the campaign consumes.
EndsOnce ==
    /\ \A i \in 1..(Len(drained) - 1) : drained[i].kind # "END"
    /\ campaign \in {"start", "drain"} => \A i \in 1..Len(drained) : drained[i].kind # "END"
    /\ campaign \in {"score", "done"} =>
          drained # <<>> /\ drained[Len(drained)].kind = "END"

\* The result is sent once.
OneResult ==
    /\ ended = <<>> \/ (campaign = "done" /\ main = "wait" /\ \E r : ended = <<r>>)
    /\ main = "reported" => campaign = "done" /\ ended = <<>>

Inv == TypeOK /\ Alone /\ PongSplits /\ Sent /\ EndsOnce /\ OneResult

-----------------------------------------------------------------------------
\* What a queue of frames gives and leaves.
LEMMA HeadTail ==
    ASSUME NEW S, NEW q \in Seq(S), q # <<>>
    PROVE  Head(q) \in S /\ Tail(q) \in Seq(S)
  BY HeadTailProperties

\* The last of a longer sequence is new, and the rest is what there was.
LEMMA Longer ==
    ASSUME NEW S, NEW q \in Seq(S), NEW x \in S
    PROVE  /\ Append(q, x) \in Seq(S) /\ Append(q, x) # <<>>
           /\ Len(Append(q, x)) = Len(q) + 1 /\ Len(q) \in Nat
           /\ Append(q, x)[Len(q) + 1] = x
           /\ \A i \in 1..Len(q) : Append(q, x)[i] = q[i]
  BY AppendProperties, LenProperties

\* A second element behind a first.
LEMMA Pair ==
    ASSUME NEW S, NEW x \in S, NEW y \in S,
           NEW a \in Seq(S), Len(a) = 1, a[1] = x,
           NEW q \in Seq(S), Len(q) = 2, q[1] = x, q[2] = y
    PROVE  Append(a, y) = q
  <1>1. /\ Append(a, y) \in Seq(S) /\ Len(Append(a, y)) = Len(a) + 1
        /\ Append(a, y)[Len(a) + 1] = y
        /\ \A i \in 1..Len(a) : Append(a, y)[i] = a[i]
    BY AppendProperties
  <1> DEFINE p == Append(a, y)
  <1> HIDE DEF p
  <1>2. p \in Seq(S) /\ Len(p) = 2 /\ p[1] = x /\ p[2] = y
    BY <1>1 DEF p
  <1>3. p = q
    BY <1>2, SeqEqual
  <1> QED  BY <1>3 DEF p

\* The two control frames of the host.
LEMMA PingStart == Append(<<"PING">>, "START") = <<"PING", "START">>
  <1> DEFINE S == {"PING", "START"}
             a == <<"PING">>
             q == <<"PING", "START">>
  <1>1. a \in Seq(S) /\ Len(a) = 1 /\ a[1] = "PING"
    OBVIOUS
  <1>2. q \in Seq(S) /\ Len(q) = 2 /\ q[1] = "PING" /\ q[2] = "START"
    OBVIOUS
  <1>3. "PING" \in S /\ "START" \in S
    OBVIOUS
  <1> HIDE DEF S, a, q
  <1>4. Append(a, "START") = q
    BY <1>1, <1>2, <1>3, Pair
  <1> QED  BY <1>4 DEF a, q

\* From the start of the process.
LEMMA InitInv == Init => Inv
  <1> SUFFICES ASSUME Init PROVE Inv
    OBVIOUS
  <1>1. TypeOK
    BY DEF Init, TypeOK, Steps
  <1>2. Alone /\ Sent /\ OneResult
    BY DEF Init, Alone, Sent, OneResult
  <1>3. PongSplits /\ EndsOnce
    BY DEF Init, PongSplits, EndsOnce
  <1> QED  BY <1>1, <1>2, <1>3 DEF Inv

-----------------------------------------------------------------------------
\* The port and the parser task leave the tasks behind them alone.
LEMMA UpstreamInv ==
    ASSUME Inv, Port \/ Parser
    PROVE  Inv'
  <1>1. UNCHANGED taskVars
    BY DEF Port, PortReads, Parser, TakeChunk, PushSilent, SendFrame
  <1>2. Alone' /\ PongSplits' /\ Sent' /\ EndsOnce' /\ OneResult'
    BY <1>1 DEF Inv, taskVars, Alone, PongSplits, Sent, EndsOnce, OneResult
  <1>3. frames' \in Seq(DuFrames) /\ chunk' \in Seq(Traffic) /\ bytes' \in Seq(Seq(Traffic))
    <2>1. ASSUME NEW n \in 1..MaxChunk, NEW c \in [1..n -> Traffic], PortReads(c)
          PROVE  bytes' \in Seq(Seq(Traffic)) /\ UNCHANGED <<frames, chunk>>
      <3>1. c \in Seq(Traffic)
        BY HostAssumption
      <3> QED  BY <2>1, <3>1, Longer DEF PortReads, parserVars, Inv, TypeOK
    <2>2. CASE TakeChunk
      <3>1. Head(bytes) \in Seq(Traffic) /\ Tail(bytes) \in Seq(Seq(Traffic))
        BY <2>2, HeadTail DEF TakeChunk, Inv, TypeOK
      <3> QED  BY <2>2, <3>1 DEF TakeChunk, Inv, TypeOK
    <2>3. CASE PushSilent
      <3>1. Tail(chunk) \in Seq(Traffic)
        BY <2>3, HeadTail DEF PushSilent, Inv, TypeOK
      <3> QED  BY <2>3, <3>1 DEF PushSilent, portVars, Inv, TypeOK
    <2>4. CASE SendFrame
      <3>1. Head(chunk) \in Traffic /\ Tail(chunk) \in Seq(Traffic) /\ Head(chunk) # Silent
        BY <2>4, HeadTail DEF SendFrame, Inv, TypeOK
      <3>2. Head(chunk) \in DuFrames
        BY <3>1, HostAssumption
      <3>3. Append(frames, Head(chunk)) \in Seq(DuFrames)
        BY <3>2, Longer DEF Inv, TypeOK
      <3> QED  BY <2>4, <3>1, <3>3 DEF SendFrame, portVars, Inv, TypeOK
    <2>5. CASE Port
      BY <2>1, <2>5 DEF Port, Inv, TypeOK
    <2> QED  BY <2>2, <2>3, <2>4, <2>5 DEF Parser
  <1>4. TypeOK'
    BY <1>1, <1>3 DEF Inv, TypeOK, taskVars
  <1> QED  BY <1>2, <1>4 DEF Inv

\* The main task, before and after the campaign.
LEMMA MainInv ==
    ASSUME Inv, SendPing \/ HandshakeTimeout \/ Report
    PROVE  Inv'
  <1>1. UNCHANGED <<bytes, chunk, frames, campaign, heard, drained>>
    BY DEF SendPing, HandshakeTimeout, Report, portVars, parserVars
  <1>2. PongSplits' /\ EndsOnce'
    BY <1>1 DEF Inv, PongSplits, EndsOnce
  <1>3. CASE SendPing
    BY <1>1, <1>2, <1>3 DEF SendPing, Inv, TypeOK, Alone, Sent, OneResult
  <1>4. CASE HandshakeTimeout
    BY <1>1, <1>2, <1>4 DEF HandshakeTimeout, Inv, TypeOK, Alone, Sent, OneResult
  <1>5. CASE Report
    <2>1. campaign = "done" /\ ended' = <<>>
      <3>1. PICK r : ended = <<r>>
        BY <1>5 DEF Report, Inv, OneResult
      <3>2. Tail(<<r>>) = <<>>
        OBVIOUS
      <3> QED  BY <1>5, <3>1, <3>2 DEF Report, Inv, OneResult
    <2> QED  BY <1>1, <1>2, <1>5, <2>1 DEF Report, Inv, TypeOK, Alone, Sent, OneResult
  <1> QED  BY <1>3, <1>4, <1>5

\* The handshake, frame by frame.
LEMMA HearInv ==
    ASSUME Inv, HearPong \/ HearOther
    PROVE  Inv'
  <1> DEFINE f == Head(frames)
  <1>1. /\ f \in DuFrames /\ frames' \in Seq(DuFrames) /\ heard' = Append(heard, f)
        /\ UNCHANGED <<bytes, chunk, drained, outbound, ended>>
        /\ main = "handshake" /\ campaign = "none"
    BY HeadTail DEF HearPong, HearOther, portVars, Inv, TypeOK, Alone
  <1> HIDE DEF f
  <1>2. /\ heard' \in Seq(DuFrames) /\ heard' # <<>>
        /\ Len(heard') = Len(heard) + 1 /\ Len(heard) \in Nat
        /\ heard'[Len(heard) + 1] = f
        /\ \A i \in 1..Len(heard) : heard'[i] = heard[i]
    BY <1>1, Longer DEF Inv, TypeOK
  <1>3. \A i \in 1..(Len(heard') - 1) : heard'[i].kind # "PONG"
    BY <1>1, <1>2 DEF Inv, PongSplits
  <1>4. drained' = <<>>
    BY <1>1 DEF Inv, PongSplits
  <1>5. CASE HearPong
    <2>1. main' = "wait" /\ campaign' = "start" /\ heard'[Len(heard')].kind = "PONG"
      BY <1>2, <1>5 DEF HearPong, f
    <2>2. TypeOK' /\ Alone'
      BY <1>1, <1>2, <2>1 DEF Inv, TypeOK, Alone, Steps
    <2>3. PongSplits'
      BY <1>2, <1>3, <1>4, <2>1 DEF PongSplits
    <2>4. Sent' /\ EndsOnce' /\ OneResult'
      BY <1>1, <1>4, <2>1 DEF Inv, Sent, EndsOnce, OneResult
    <2> QED  BY <2>2, <2>3, <2>4 DEF Inv
  <1>6. CASE HearOther
    <2>1. main' = main /\ campaign' = campaign /\ f.kind # "PONG"
      BY <1>6 DEF HearOther, f
    <2>2. \A i \in 1..Len(heard') : heard'[i].kind # "PONG"
      BY <1>1, <1>2, <2>1 DEF Inv, PongSplits
    <2>3. TypeOK' /\ Alone'
      BY <1>1, <1>2, <2>1 DEF Inv, TypeOK, Alone
    <2>4. PongSplits'
      BY <1>1, <1>3, <1>4, <2>1, <2>2 DEF PongSplits
    <2>5. Sent' /\ EndsOnce' /\ OneResult'
      BY <1>1, <1>4, <2>1 DEF Inv, Sent, EndsOnce, OneResult
    <2> QED  BY <2>3, <2>4, <2>5 DEF Inv
  <1> QED  BY <1>5, <1>6

\* The campaign, where it consumes nothing.
LEMMA CampaignInv ==
    ASSUME Inv, SendStart \/ SendResult
    PROVE  Inv'
  <1>1. UNCHANGED <<bytes, chunk, frames, main, heard, drained>>
    BY DEF SendStart, SendResult, portVars, parserVars
  <1>2. CASE SendStart
    <2>1. campaign' = "drain" /\ campaign = "start" /\ outbound' = <<"PING", "START">>
          /\ ended' = ended
      <3>1. Append(<<"PING">>, "START") = <<"PING", "START">>
        BY PingStart
      <3>2. outbound = <<"PING">>
        BY <1>2 DEF SendStart, Inv, Sent
      <3>3. /\ campaign' = "drain" /\ campaign = "start" /\ ended' = ended
            /\ outbound' = Append(outbound, "START")
        BY <1>2 DEF SendStart
      <3>4. outbound' = <<"PING", "START">>
        BY <3>1, <3>2, <3>3, Zenon
      <3> QED  BY <3>3, <3>4
    <2>2. TypeOK' /\ Alone' /\ Sent' /\ OneResult'
      BY <1>1, <2>1 DEF Inv, TypeOK, Steps, Alone, Sent, OneResult
    <2>3. PongSplits' /\ EndsOnce'
      BY <1>1, <2>1 DEF Inv, PongSplits, EndsOnce
    <2> QED  BY <2>2, <2>3 DEF Inv
  <1>3. CASE SendResult
    <2>1. /\ campaign' = "done" /\ campaign = "score" /\ outbound' = outbound
          /\ ended = <<>> /\ \E r : ended' = <<r>>
      BY <1>3 DEF SendResult
    <2>2. main = "wait"
      BY <2>1 DEF Inv, TypeOK, Alone, OneResult
    <2>3. TypeOK' /\ Alone' /\ Sent' /\ OneResult'
      BY <1>1, <2>1, <2>2 DEF Inv, TypeOK, Steps, Alone, Sent, OneResult
    <2>4. PongSplits' /\ EndsOnce'
      BY <1>1, <2>1 DEF Inv, PongSplits, EndsOnce
    <2> QED  BY <2>3, <2>4 DEF Inv
  <1> QED  BY <1>2, <1>3

\* The campaign, frame by frame.
LEMMA DrainInv ==
    ASSUME Inv, NEW f \in DuFrames, Consumes(f),
           \/ campaign' = campaign /\ f.kind # "END"
           \/ campaign' = "score" /\ f.kind = "END"
    PROVE  Inv'
  <1>1. /\ frames' \in Seq(DuFrames) /\ drained' = Append(drained, f) /\ campaign = "drain"
        /\ UNCHANGED <<bytes, chunk, main, outbound, ended, heard>>
    BY HeadTail DEF Consumes, portVars, Inv, TypeOK
  <1>2. /\ drained' \in Seq(DuFrames) /\ drained' # <<>>
        /\ Len(drained') = Len(drained) + 1 /\ Len(drained) \in Nat
        /\ drained'[Len(drained) + 1] = f
        /\ \A i \in 1..Len(drained) : drained'[i] = drained[i]
    <2>1. drained \in Seq(DuFrames)
      BY DEF Inv, TypeOK
    <2> QED  BY <1>1, <2>1, Longer
  <1>3. TypeOK' /\ Alone' /\ Sent' /\ OneResult'
    BY <1>1, <1>2 DEF Inv, TypeOK, Steps, Alone, Sent, OneResult
  <1>4. PongSplits'
    BY <1>1 DEF Inv, PongSplits
  <1>5. \A i \in 1..(Len(drained') - 1) : drained'[i].kind # "END"
    BY <1>1, <1>2 DEF Inv, EndsOnce
  <1>6. CASE campaign' = campaign /\ f.kind # "END"
    <2>1. \A i \in 1..Len(drained') : drained'[i].kind # "END"
      BY <1>1, <1>2, <1>6 DEF Inv, EndsOnce
    <2> QED  BY <1>1, <1>3, <1>4, <1>5, <1>6, <2>1 DEF Inv, EndsOnce
  <1>7. CASE campaign' = "score" /\ f.kind = "END"
    <2>1. EndsOnce'
      BY <1>2, <1>5, <1>7 DEF EndsOnce
    <2> QED  BY <1>3, <1>4, <2>1 DEF Inv
  <1> QED  BY <1>6, <1>7

\* Every step keeps the invariant.
LEMMA NextInv == Inv /\ [Next]_vars => Inv'
  <1> SUFFICES ASSUME Inv, [Next]_vars PROVE Inv'
    OBVIOUS
  <1>1. CASE DrainNotice
    <2>1. PICK f \in {Verified("FAULT"), BadCrc("FAULT")} : Consumes(f)
      BY <1>1 DEF DrainNotice
    <2>2. f \in DuFrames /\ f.kind = "FAULT"
      BY DEF DuFrames, Kinds, Verified, BadCrc
    <2> QED  BY <1>1, <2>1, <2>2, DrainInv DEF DrainNotice
  <1>2. CASE DrainEnd
    <2>1. PICK f \in {Verified("END"), BadCrc("END")} : Consumes(f)
      BY <1>2 DEF DrainEnd
    <2>2. f \in DuFrames /\ f.kind = "END"
      BY DEF DuFrames, Kinds, Verified, BadCrc
    <2> QED  BY <1>2, <2>1, <2>2, DrainInv DEF DrainEnd
  <1>3. CASE DrainFrame
    <2>1. PICK f \in DuFrames : Consumes(f) /\ f.kind # "END"
      BY <1>3 DEF DrainFrame
    <2> QED  BY <1>3, <2>1, DrainInv DEF DrainFrame
  <1>4. CASE UNCHANGED vars
    BY <1>4 DEF vars, portVars, parserVars, taskVars, Inv, TypeOK, Alone, PongSplits,
                Sent, EndsOnce, OneResult
  <1> QED
    BY <1>1, <1>2, <1>3, <1>4, UpstreamInv, MainInv, HearInv, CampaignInv
       DEF Next, MainTask, Campaign

-----------------------------------------------------------------------------
(* What the campaign makes of the frames it consumes.                        *)

\* The lists the campaign keeps.
ListsOK == processed \in Seq(DuFrames) /\ truths \in Seq(Nat)

AccountInv == ListsOK /\ EveryFrameAccounted

\* Positions up to n are finitely many, and a part of them not more.
LEMMA Positions ==
    ASSUME NEW n \in Nat, NEW S \in SUBSET (1..n)
    PROVE  IsFiniteSet(S) /\ Cardinality(S) \in Nat
  <1>1. 1 \in Int /\ n \in Int
    OBVIOUS
  <1>2. IsFiniteSet(1..n)
    BY <1>1, FS_Interval
  <1>3. IsFiniteSet(S)
    BY <1>2, FS_Subset
  <1> QED  BY <1>3, FS_CardinalityType

\* One more position counts one more.
LEMMA OneMore ==
    ASSUME NEW n \in Nat, NEW S \in SUBSET (1..n)
    PROVE  Cardinality(S \cup {n + 1}) = Cardinality(S) + 1
  <1>1. n + 1 \notin S
    OBVIOUS
  <1> QED  BY <1>1, Positions, FS_AddElement

\* The rank of a position is within the number of positions.
LEMMA RankInside ==
    ASSUME NEW n \in Nat, NEW S \in SUBSET (1..n), NEW i \in S,
           NEW T \in SUBSET S, i \in T
    PROVE  Cardinality(T) \in 1..Cardinality(S)
  <1>1. /\ IsFiniteSet(S) /\ IsFiniteSet(T) /\ Cardinality(T) \in Nat
        /\ Cardinality(S) \in Nat /\ Cardinality(T) <= Cardinality(S)
    BY Positions, FS_Subset
  <1>2. Cardinality(T) # 0
    BY <1>1, FS_EmptySet
  <1> QED  BY <1>1, <1>2

\* The frames consumed before are counted as they were.
LEMMA SameBefore ==
    ASSUME NEW i \in Nat, \A j \in 1..i : drained'[j] = drained[j]
    PROVE  ForDetector(i)' = ForDetector(i) /\ Noticed(i)' = Noticed(i)
  BY DEF ForDetector, Noticed

\* The counts grow with one more frame.
LEMMA CountsGrow ==
    ASSUME Inv, NEW f \in DuFrames, drained' = Append(drained, f),
           NEW n \in Nat, n = Len(drained)
    PROVE  /\ Len(drained') = n + 1 /\ drained'[n + 1] = f
           /\ \A j \in 1..n : drained'[j] = drained[j]
           /\ ForDetector(n + 1)' =
                 IF f.kind \notin {"FAULT", "END"} THEN ForDetector(n) \cup {n + 1}
                 ELSE ForDetector(n)
           /\ Noticed(n + 1)' =
                 IF f = Verified("FAULT") THEN Noticed(n) \cup {n + 1} ELSE Noticed(n)
           /\ Cardinality(ForDetector(n)) \in Nat /\ Cardinality(Noticed(n)) \in Nat
           /\ Cardinality(ForDetector(n) \cup {n + 1}) = Cardinality(ForDetector(n)) + 1
           /\ Cardinality(Noticed(n) \cup {n + 1}) = Cardinality(Noticed(n)) + 1
  <1>1. /\ Len(drained') = n + 1 /\ drained'[n + 1] = f
        /\ \A j \in 1..n : drained'[j] = drained[j]
    BY Longer DEF Inv, TypeOK
  <1>2. ForDetector(n) \in SUBSET (1..n) /\ Noticed(n) \in SUBSET (1..n)
    BY DEF ForDetector, Noticed
  <1>3. 1..(n + 1) = (1..n) \cup {n + 1} /\ n + 1 \notin 1..n
    OBVIOUS
  <1>4. ForDetector(n + 1)' =
           IF f.kind \notin {"FAULT", "END"} THEN ForDetector(n) \cup {n + 1} ELSE ForDetector(n)
    BY <1>1, <1>3 DEF ForDetector
  <1>5. Noticed(n + 1)' =
           IF f = Verified("FAULT") THEN Noticed(n) \cup {n + 1} ELSE Noticed(n)
    BY <1>1, <1>3 DEF Noticed
  <1> QED  BY <1>1, <1>2, <1>4, <1>5, Positions, OneMore

\* The detector's frames stay in order, whether one is added or not.
LEMMA ProcessedGrows ==
    ASSUME Inv, AccountInv, NEW f \in DuFrames, drained' = Append(drained, f),
           processed' = IF f.kind \notin {"FAULT", "END"} THEN Append(processed, f)
                        ELSE processed,
           NEW n \in Nat, n = Len(drained)
    PROVE  /\ processed' \in Seq(DuFrames)
           /\ Len(processed') = Cardinality(ForDetector(n + 1)')
           /\ \A i \in ForDetector(n + 1)' :
                 processed'[Cardinality(ForDetector(i)')] = drained'[i]
  <1> DEFINE new == f.kind \notin {"FAULT", "END"}
  <1>1. /\ \A j \in 1..n : drained'[j] = drained[j]
        /\ drained'[n + 1] = f
        /\ ForDetector(n + 1)' = IF new THEN ForDetector(n) \cup {n + 1} ELSE ForDetector(n)
        /\ Cardinality(ForDetector(n)) \in Nat
        /\ Cardinality(ForDetector(n) \cup {n + 1}) = Cardinality(ForDetector(n)) + 1
    BY CountsGrow
  <1>2. /\ processed \in Seq(DuFrames)
        /\ Len(processed) = Cardinality(ForDetector(n))
        /\ \A i \in ForDetector(n) : processed[Cardinality(ForDetector(i))] = drained[i]
    BY DEF AccountInv, ListsOK, EveryFrameAccounted
  <1>3. ASSUME NEW i \in ForDetector(n)
        PROVE  /\ ForDetector(i)' = ForDetector(i) /\ drained'[i] = drained[i]
               /\ Cardinality(ForDetector(i)) \in 1..Len(processed)
    <2>1. i \in 1..n /\ i \in ForDetector(i) /\ ForDetector(i) \in SUBSET ForDetector(n)
      BY DEF ForDetector
    <2>2. ForDetector(n) \in SUBSET (1..n)
      BY DEF ForDetector
    <2>3. Cardinality(ForDetector(i)) \in 1..Cardinality(ForDetector(n))
      BY <2>1, <2>2, RankInside
    <2>4. i \in Nat /\ \A j \in 1..i : drained'[j] = drained[j]
      BY <1>1, <2>1
    <2> QED  BY <1>1, <1>2, <2>1, <2>3, <2>4, SameBefore
  <1>4. CASE new
    <2>1. /\ processed' \in Seq(DuFrames) /\ Len(processed') = Len(processed) + 1
          /\ processed'[Len(processed) + 1] = f
          /\ \A j \in 1..Len(processed) : processed'[j] = processed[j]
      BY <1>2, <1>4, Longer
    <2>2. ForDetector(n + 1)' = ForDetector(n) \cup {n + 1}
      BY <1>1, <1>4
    <2>3. processed'[Cardinality(ForDetector(n + 1)')] = drained'[n + 1]
      BY <1>1, <1>2, <2>1, <2>2
    <2>4. \A i \in ForDetector(n) : processed'[Cardinality(ForDetector(i)')] = drained'[i]
      BY <1>2, <1>3, <2>1
    <2> QED  BY <1>1, <1>2, <2>1, <2>2, <2>3, <2>4
  <1>5. CASE ~new
    <2>1. processed' = processed /\ ForDetector(n + 1)' = ForDetector(n)
      BY <1>1, <1>5
    <2> QED  BY <1>2, <1>3, <2>1
  <1> QED  BY <1>4, <1>5

\* Each verified notice keeps its place behind the frames before it.
LEMMA TruthsGrow ==
    ASSUME Inv, AccountInv, NEW f \in DuFrames, drained' = Append(drained, f),
           truths' = IF f = Verified("FAULT") THEN Append(truths, Len(processed))
                     ELSE truths,
           NEW n \in Nat, n = Len(drained)
    PROVE  /\ truths' \in Seq(Nat)
           /\ Len(truths') = Cardinality(Noticed(n + 1)')
           /\ \A i \in Noticed(n + 1)' :
                 truths'[Cardinality(Noticed(i)')] = Cardinality(ForDetector(i)')
  <1> DEFINE new == f = Verified("FAULT")
  <1>1. /\ \A j \in 1..n : drained'[j] = drained[j]
        /\ Noticed(n + 1)' = IF new THEN Noticed(n) \cup {n + 1} ELSE Noticed(n)
        /\ Cardinality(Noticed(n)) \in Nat
        /\ Cardinality(Noticed(n) \cup {n + 1}) = Cardinality(Noticed(n)) + 1
        /\ f.kind = "FAULT" => ForDetector(n + 1)' = ForDetector(n)
    BY CountsGrow
  <1>2. /\ truths \in Seq(Nat) /\ Len(truths) = Cardinality(Noticed(n))
        /\ \A i \in Noticed(n) : truths[Cardinality(Noticed(i))] = Cardinality(ForDetector(i))
        /\ Len(processed) = Cardinality(ForDetector(n)) /\ Len(processed) \in Nat
    BY LenProperties DEF AccountInv, ListsOK, EveryFrameAccounted
  <1>3. ASSUME NEW i \in Noticed(n)
        PROVE  /\ Noticed(i)' = Noticed(i) /\ ForDetector(i)' = ForDetector(i)
               /\ Cardinality(Noticed(i)) \in 1..Len(truths)
    <2>1. i \in 1..n /\ i \in Noticed(i) /\ Noticed(i) \in SUBSET Noticed(n)
      BY DEF Noticed
    <2>2. Noticed(n) \in SUBSET (1..n)
      BY DEF Noticed
    <2>3. Cardinality(Noticed(i)) \in 1..Cardinality(Noticed(n))
      BY <2>1, <2>2, RankInside
    <2>4. i \in Nat /\ \A j \in 1..i : drained'[j] = drained[j]
      BY <1>1, <2>1
    <2> QED  BY <1>2, <2>3, <2>4, SameBefore
  <1>4. CASE new
    <2>1. /\ truths' \in Seq(Nat) /\ Len(truths') = Len(truths) + 1
          /\ truths'[Len(truths) + 1] = Len(processed)
          /\ \A j \in 1..Len(truths) : truths'[j] = truths[j]
      BY <1>2, <1>4, Longer
    <2>2. Noticed(n + 1)' = Noticed(n) \cup {n + 1}
      BY <1>1, <1>4
    <2>3. f.kind = "FAULT"
      BY <1>4 DEF Verified
    <2>4. truths'[Cardinality(Noticed(n + 1)')] = Cardinality(ForDetector(n + 1)')
      BY <1>1, <1>2, <2>1, <2>2, <2>3
    <2>5. \A i \in Noticed(n) :
             truths'[Cardinality(Noticed(i)')] = Cardinality(ForDetector(i)')
      BY <1>2, <1>3, <2>1
    <2> QED  BY <1>1, <1>2, <2>1, <2>2, <2>4, <2>5
  <1>5. CASE ~new
    <2>1. truths' = truths /\ Noticed(n + 1)' = Noticed(n)
      BY <1>1, <1>5
    <2> QED  BY <1>2, <1>3, <2>1
  <1> QED  BY <1>4, <1>5

\* One more frame consumed, and entered where it belongs.
LEMMA Entered ==
    ASSUME Inv, AccountInv, NEW f \in DuFrames, drained' = Append(drained, f),
           processed' = IF f.kind \notin {"FAULT", "END"} THEN Append(processed, f)
                        ELSE processed,
           truths' = IF f = Verified("FAULT") THEN Append(truths, Len(processed))
                     ELSE truths
    PROVE  AccountInv'
  <1>1. PICK n \in Nat : n = Len(drained)
    BY LenProperties DEF Inv, TypeOK
  <1>2. PICK m \in Nat : m = n + 1
    OBVIOUS
  <1>3. Len(drained') = m
    BY <1>1, <1>2, CountsGrow
  <1>4. /\ processed' \in Seq(DuFrames)
        /\ Len(processed') = Cardinality(ForDetector(m)')
        /\ \A i \in ForDetector(m)' : processed'[Cardinality(ForDetector(i)')] = drained'[i]
    BY <1>1, <1>2, ProcessedGrows
  <1>5. /\ truths' \in Seq(Nat)
        /\ Len(truths') = Cardinality(Noticed(m)')
        /\ \A i \in Noticed(m)' :
              truths'[Cardinality(Noticed(i)')] = Cardinality(ForDetector(i)')
    BY <1>1, <1>2, TruthsGrow
  <1> QED  BY ONLY <1>3, <1>4, <1>5 DEF AccountInv, ListsOK, EveryFrameAccounted

\* Before the first frame there is nothing to account for.
LEMMA AccountInit == Init => AccountInv
  <1> SUFFICES ASSUME Init PROVE AccountInv
    OBVIOUS
  <1>1. drained = <<>> /\ processed = <<>> /\ truths = <<>> /\ Len(drained) = 0
    BY DEF Init
  <1>2. ForDetector(0) = {} /\ Noticed(0) = {}
    BY DEF ForDetector, Noticed
  <1> QED  BY <1>1, <1>2, FS_EmptySet DEF AccountInv, ListsOK, EveryFrameAccounted

\* Every step keeps the account.
LEMMA AccountNext == Inv /\ AccountInv /\ [Next]_vars => AccountInv'
  <1> SUFFICES ASSUME Inv, AccountInv, [Next]_vars PROVE AccountInv'
    OBVIOUS
  <1>1. CASE DrainNotice
    <2>1. PICK f \in {Verified("FAULT"), BadCrc("FAULT")} : 
             /\ Consumes(f)
             /\ truths' = IF f.bad_crc THEN truths ELSE Append(truths, Len(processed))
      BY <1>1 DEF DrainNotice
    <2>2. f \in DuFrames /\ f.kind = "FAULT" /\ (f.bad_crc <=> f # Verified("FAULT"))
      <3>1. CASE f = Verified("FAULT")
        BY <3>1 DEF DuFrames, Kinds, Verified
      <3>2. CASE f = BadCrc("FAULT")
        <4>1. f.bad_crc = TRUE /\ f.kind = "FAULT" /\ Verified("FAULT").bad_crc = FALSE
          BY <3>2 DEF Verified, BadCrc
        <4>2. f # Verified("FAULT")
          BY <4>1
        <4> QED  BY <3>2, <4>1, <4>2 DEF DuFrames, Kinds
      <3> QED  BY <3>1, <3>2
    <2>3. drained' = Append(drained, f) /\ processed' = processed
      BY <1>1, <2>1 DEF DrainNotice, Consumes
    <2> QED  BY <2>1, <2>2, <2>3, Entered
  <1>2. CASE DrainEnd
    <2>1. PICK f \in {Verified("END"), BadCrc("END")} : Consumes(f)
      BY <1>2 DEF DrainEnd
    <2>2. f \in DuFrames /\ f.kind = "END" /\ f # Verified("FAULT")
      BY DEF DuFrames, Kinds, Verified, BadCrc
    <2>3. drained' = Append(drained, f) /\ processed' = processed /\ truths' = truths
      BY <1>2, <2>1 DEF DrainEnd, Consumes
    <2> QED  BY <2>2, <2>3, Entered
  <1>3. CASE DrainFrame
    <2>1. PICK f \in DuFrames : /\ Consumes(f) /\ f.kind \notin {"FAULT", "END"}
                                /\ processed' = Append(processed, f)
      BY <1>3 DEF DrainFrame
    <2>2. f # Verified("FAULT")
      BY <2>1 DEF Verified
    <2>3. drained' = Append(drained, f) /\ truths' = truths
      BY <1>3, <2>1 DEF DrainFrame, Consumes
    <2> QED  BY <2>1, <2>2, <2>3, Entered
  <1>4. CASE UNCHANGED <<drained, processed, truths>>
    <2>1. PICK n \in Nat : n = Len(drained)
      BY LenProperties DEF Inv, TypeOK
    <2>2. ASSUME NEW i PROVE ForDetector(i)' = ForDetector(i) /\ Noticed(i)' = Noticed(i)
      BY <1>4 DEF ForDetector, Noticed
    <2>3. /\ Len(processed') = Cardinality(ForDetector(n)')
          /\ \A i \in ForDetector(n)' : processed'[Cardinality(ForDetector(i)')] = drained'[i]
          /\ Len(truths') = Cardinality(Noticed(n)')
          /\ \A i \in Noticed(n)' :
                truths'[Cardinality(Noticed(i)')] = Cardinality(ForDetector(i)')
      BY <1>4, <2>1, <2>2 DEF AccountInv, EveryFrameAccounted
    <2>4. ListsOK' /\ Len(drained') = n
      BY <1>4, <2>1 DEF AccountInv, ListsOK
    <2> QED  BY ONLY <2>3, <2>4 DEF AccountInv, EveryFrameAccounted
  <1>5. CASE Port \/ Parser
    BY <1>4, <1>5 DEF Port, PortReads, Parser, TakeChunk, PushSilent, SendFrame, taskVars
  <1>6. CASE MainTask \/ HandshakeTimeout \/ SendStart \/ SendResult
    BY <1>4, <1>6 DEF MainTask, SendPing, HearPong, HearOther, Report, HandshakeTimeout,
                      SendStart, SendResult
  <1>7. CASE UNCHANGED vars
    BY <1>4, <1>7 DEF vars, taskVars
  <1> QED  BY <1>1, <1>2, <1>3, <1>5, <1>6, <1>7 DEF Next, Campaign

-----------------------------------------------------------------------------
(* Induction over the naturals, as a fact about sets of them.                *)

\* A set of naturals has a least element.
LEMMA Least ==
    ASSUME NEW T \in SUBSET Nat, T # {}
    PROVE  \E m \in T : \A k \in T : m <= k
  <1> DEFINE R == {p \in Nat \X Nat : p[1] < p[2]}
  <1>1. IsWellFoundedOn(R, Nat)
    BY NatLessThanWellFounded DEF OpToRel
  <1>2. PICK m \in T : \A k \in T : <<k, m>> \notin R
    <2> HIDE DEF R
    <2> QED BY <1>1, WFMin
  <1>3. ASSUME NEW k \in T, k < m PROVE FALSE
    <2>1. <<k, m>> \in Nat \X Nat /\ <<k, m>>[1] = k /\ <<k, m>>[2] = m
      OBVIOUS
    <2>2. <<k, m>> \in R
      BY <2>1, <1>3
    <2> QED BY <2>2, <1>2
  <1>4. \A k \in T : m <= k
    BY <1>3
  <1> QED BY <1>4

\* Induction over the naturals, as a fact about a set.
LEMMA SetInduction ==
    ASSUME NEW S \in SUBSET Nat, 0 \in S, \A n \in S : n + 1 \in S
    PROVE  S = Nat
  <1> SUFFICES ASSUME Nat \ S # {} PROVE FALSE
    OBVIOUS
  <1>1. PICK m \in Nat \ S : \A k \in Nat \ S : m <= k
    BY Least
  <1>2. m # 0 /\ m - 1 \in Nat /\ m - 1 \in S
    BY <1>1
  <1> QED BY <1>2

\* f begins with x0 and goes on by the steps up to N.
Follows(f, X, x0, step, N) ==
    f \in [0..N -> X] /\ f[0] = x0 /\ \A n \in 1..N : f[n] = step[n][f[n - 1]]

\* Recursion defines a function.
LEMMA Recursion ==
    ASSUME NEW X, NEW x0 \in X, NEW step \in [Nat -> [X -> X]], NEW N \in Nat
    PROVE  \E f : Follows(f, X, x0, step, N)
  <1> DEFINE Has(M) == \E f \in [0..M -> X] :
                          f[0] = x0 /\ \A n \in 1..M : f[n] = step[n][f[n - 1]]
             S == {M \in Nat : Has(M)}
  <1>1. 0 \in S
    <2> DEFINE f == [n \in 0..0 |-> x0]
    <2>1. f \in [0..0 -> X] /\ f[0] = x0 /\ \A n \in 1..0 : f[n] = step[n][f[n - 1]]
      OBVIOUS
    <2> HIDE DEF f
    <2> QED BY <2>1
  <1>2. ASSUME NEW M \in S PROVE M + 1 \in S
    <2>1. PICK f \in [0..M -> X] : f[0] = x0 /\ \A n \in 1..M : f[n] = step[n][f[n - 1]]
      OBVIOUS
    <2> DEFINE g == [n \in 0..(M + 1) |-> IF n <= M THEN f[n] ELSE step[M + 1][f[M]]]
    <2>2. M \in Nat /\ f[M] \in X /\ step[M + 1][f[M]] \in X
      OBVIOUS
    <2>3. g \in [0..(M + 1) -> X] /\ g[0] = x0
      BY <2>1, <2>2
    <2>4. ASSUME NEW n \in 1..(M + 1) PROVE g[n] = step[n][g[n - 1]]
      <3>1. CASE n <= M
        <4>1. n \in 1..M /\ n - 1 \in 0..(M + 1) /\ n - 1 <= M
          BY <2>2, <3>1
        <4> QED BY <2>1, <4>1, <3>1
      <3>2. CASE ~(n <= M)
        <4>1. n = M + 1 /\ n - 1 = M
          BY <2>2, <3>2
        <4> QED BY <2>1, <2>2, <4>1
      <3> QED BY <3>1, <3>2
    <2>5. Has(M + 1)
      <3> HIDE DEF g
      <3> QED BY <2>3, <2>4
    <2> HIDE DEF g, Has
    <2> QED BY <2>2, <2>5
  <1>3. S = Nat
    <2> HIDE DEF Has
    <2>1. S \in SUBSET Nat
      OBVIOUS
    <2> HIDE DEF S
    <2> QED BY <1>1, <1>2, <2>1, SetInduction
  <1>4. Has(N)
    BY <1>3
  <1> QED BY <1>4 DEF Follows

-----------------------------------------------------------------------------
(* The frames of a sequence of bytes.                                        *)

\* f holds the frames of every beginning of s.
Keeps(f, s) ==
    f = [n \in 0..Len(s) |->
            IF n = 0 THEN <<>>
            ELSE IF s[n] = Silent THEN f[n - 1] ELSE Append(f[n - 1], s[n])]

\* Sequences that begin alike have the same frames as far as they do.
LEMMA SameKept ==
    ASSUME NEW s \in Seq(Traffic), NEW t \in Seq(Traffic), NEW f, NEW g,
           Keeps(f, s), Keeps(g, t), NEW N \in 0..Len(s), N <= Len(t),
           \A i \in 1..N : s[i] = t[i]
    PROVE  \A n \in 0..N : f[n] = g[n]
  <1> DEFINE S == {n \in Nat : n <= N => f[n] = g[n]}
  <1>1. Len(s) \in Nat /\ Len(t) \in Nat /\ N \in Nat
    OBVIOUS
  <1>2. f[0] = <<>> /\ g[0] = <<>>
    BY <1>1 DEF Keeps
  <1>3. ASSUME NEW n \in S PROVE n + 1 \in S
    <2>1. SUFFICES ASSUME n + 1 <= N PROVE f[n + 1] = g[n + 1]
      OBVIOUS
    <2>2. /\ n + 1 \in 0..Len(s) /\ n + 1 \in 0..Len(t) /\ n + 1 # 0 /\ (n + 1) - 1 = n
          /\ s[n + 1] = t[n + 1] /\ f[n] = g[n]
      BY <1>1, <2>1
    <2>3. f[n + 1] = IF s[n + 1] = Silent THEN f[n] ELSE Append(f[n], s[n + 1])
      BY <2>2 DEF Keeps
    <2>4. g[n + 1] = IF t[n + 1] = Silent THEN g[n] ELSE Append(g[n], t[n + 1])
      BY <2>2 DEF Keeps
    <2> QED BY <2>2, <2>3, <2>4
  <1>4. S = Nat
    <2>1. S \in SUBSET Nat /\ 0 \in S
      BY <1>2
    <2> HIDE DEF S
    <2> QED BY <1>3, <2>1, SetInduction
  <1> QED BY <1>1, <1>4

\* There is a function that keeps the frames of every beginning of s.
LEMMA KeptExists ==
    ASSUME NEW s \in Seq(Traffic)
    PROVE  \E f : /\ Keeps(f, s) /\ FramesIn(s) = f[Len(s)]
                  /\ FramesIn(s) \in Seq(DuFrames)
  <1> DEFINE X == Seq(DuFrames)
             Step(n) == [v \in X |-> IF n \in 1..Len(s) /\ s[n] # Silent
                                     THEN Append(v, s[n]) ELSE v]
             step == [n \in Nat |-> Step(n)]
  <1>1. Len(s) \in Nat /\ <<>> \in X
    OBVIOUS
  <1>2. ASSUME NEW n \in Nat PROVE step[n] \in [X -> X]
    <2>1. ASSUME n \in 1..Len(s), s[n] # Silent PROVE s[n] \in DuFrames
      <3>1. s[n] \in Traffic
        BY <2>1
      <3> QED BY <2>1, <3>1, HostAssumption
    <2> QED BY <2>1
  <1>3. step \in [Nat -> [X -> X]]
    BY <1>2
  <1>4. PICK f \in [0..Len(s) -> X] :
            f[0] = <<>> /\ \A n \in 1..Len(s) : f[n] = step[n][f[n - 1]]
    <2>1. \E f : Follows(f, X, <<>>, step, Len(s))
      <3> HIDE DEF step, X
      <3> QED BY <1>1, <1>3, Recursion
    <2> QED BY <2>1 DEF Follows
  <1>5. \A n \in 1..Len(s) :
            f[n] = IF s[n] = Silent THEN f[n - 1] ELSE Append(f[n - 1], s[n])
    <2> TAKE n \in 1..Len(s)
    <2>1. n \in Nat /\ n - 1 \in 0..Len(s) /\ f[n - 1] \in X
      BY <1>1, <1>4
    <2>2. step[n] = Step(n)
      BY <2>1
    <2>3. Step(n)[f[n - 1]] = IF s[n] # Silent THEN Append(f[n - 1], s[n]) ELSE f[n - 1]
      BY <2>1
    <2> HIDE DEF Step, step
    <2> QED BY <1>4, <2>2, <2>3
  <1>6. Keeps(f, s)
    <2>1. f = [n \in 0..Len(s) |-> f[n]]
      BY <1>4
    <2>2. ASSUME NEW n \in 0..Len(s)
          PROVE  f[n] = IF n = 0 THEN <<>>
                        ELSE IF s[n] = Silent THEN f[n - 1] ELSE Append(f[n - 1], s[n])
      <3>1. n = 0 \/ n \in 1..Len(s)
        BY <1>1
      <3> HIDE DEF step, X
      <3> QED BY <1>4, <1>5, <3>1
    <2> HIDE DEF X
    <2> QED BY <2>1, <2>2 DEF Keeps
  <1> DEFINE g == CHOOSE h : Keeps(h, s)
  <1>7. Keeps(g, s)
    BY <1>6
  <1>8. FramesIn(s) = g[Len(s)]
    BY DEF FramesIn, Keeps
  <1>9. g[Len(s)] = f[Len(s)]
    <2> HIDE DEF g
    <2> QED BY <1>1, <1>6, <1>7, SameKept
  <1>10. f[Len(s)] \in X
    BY <1>1, <1>4
  <1> QED BY <1>7, <1>8, <1>9, <1>10

\* No bytes amount to no frames.
LEMMA FramesOfNone == FramesIn(<<>>) = <<>>
  <1>1. <<>> \in Seq(Traffic) /\ Len(<<>>) = 0
    OBVIOUS
  <1>2. PICK f : Keeps(f, <<>>) /\ FramesIn(<<>>) = f[0]
    BY <1>1, KeptExists
  <1> QED BY <1>1, <1>2 DEF Keeps

\* One byte more is one frame more, or none.
LEMMA FramesOfAppend ==
    ASSUME NEW s \in Seq(Traffic), NEW x \in Traffic
    PROVE  FramesIn(Append(s, x)) = IF x = Silent THEN FramesIn(s) ELSE Append(FramesIn(s), x)
  <1> DEFINE t == Append(s, x)
             n == Len(s)
  <1>1. /\ t \in Seq(Traffic) /\ Len(t) = n + 1 /\ t[n + 1] = x /\ n \in Nat
        /\ \A i \in 1..n : s[i] = t[i]
    BY AppendProperties, LenProperties
  <1> HIDE DEF t
  <1>2. PICK f : Keeps(f, s) /\ FramesIn(s) = f[n]
    BY KeptExists
  <1>3. PICK g : Keeps(g, t) /\ FramesIn(t) = g[n + 1]
    BY <1>1, KeptExists
  <1>4. f[n] = g[n]
    <2>1. n \in 0..Len(s) /\ n <= Len(t) /\ n \in 0..n
      BY <1>1
    <2> QED BY <1>1, <1>2, <1>3, <2>1, SameKept
  <1>5. g[n + 1] = IF x = Silent THEN g[n] ELSE Append(g[n], x)
    <2>1. n + 1 \in 0..Len(t) /\ n + 1 # 0 /\ (n + 1) - 1 = n
      BY <1>1
    <2> QED BY <1>1, <1>3, <2>1 DEF Keeps
  <1> QED BY <1>2, <1>3, <1>4, <1>5 DEF t

\* What is appended to a sequence is appended behind what is in front of it.
LEMMA FrameBehind ==
    ASSUME NEW a \in Seq(DuFrames), NEW b \in Seq(DuFrames), NEW x \in DuFrames
    PROVE  Append(a \o b, x) = a \o Append(b, x)
  <1>1. /\ Append(a \o b, x) = (a \o b) \o <<x>> /\ Append(b, x) = b \o <<x>>
        /\ <<x>> \in Seq(DuFrames) /\ a \o b \in Seq(DuFrames)
    BY AppendIsConcat, ConcatProperties
  <1> QED BY <1>1, ConcatAssociative

\* The frames of one sequence behind another.
LEMMA FramesOfConcat ==
    ASSUME NEW s \in Seq(Traffic), NEW t \in Seq(Traffic)
    PROVE  FramesIn(s \o t) = FramesIn(s) \o FramesIn(t)
  <1> DEFINE Good(u) == FramesIn(s \o u) = FramesIn(s) \o FramesIn(u)
             S == {n \in Nat : \A u \in Seq(Traffic) : Len(u) = n => Good(u)}
  <1>0. \A u \in Seq(Traffic) : FramesIn(u) \in Seq(DuFrames)
    BY KeptExists
  <1>1. 0 \in S
    <2>1. ASSUME NEW u \in Seq(Traffic), Len(u) = 0 PROVE Good(u)
      <3>1. u = <<>>
        BY <2>1, EmptySeq
      <3>2. s \o u = s /\ FramesIn(s) \o <<>> = FramesIn(s)
        BY <1>0, <3>1, ConcatEmptySeq
      <3> QED BY <3>1, <3>2, FramesOfNone
    <2> QED BY <2>1
  <1>2. ASSUME NEW n \in S PROVE n + 1 \in S
    <2>1. ASSUME NEW u \in Seq(Traffic), Len(u) = n + 1 PROVE Good(u)
      <3>1. PICK v \in Seq(Traffic), x \in Traffic : u = Append(v, x)
        <4>1. u # <<>>
          BY <2>1
        <4> QED BY <4>1, SequenceEmptyOrAppend
      <3>2. Len(v) = n /\ Good(v)
        <4>1. Len(u) = Len(v) + 1 /\ Len(v) \in Nat
          BY <3>1, AppendProperties, LenProperties
        <4>2. Len(v) = n
          BY <2>1, <4>1
        <4> QED BY <4>2
      <3>3. s \o u = Append(s \o v, x) /\ s \o v \in Seq(Traffic)
        BY <3>1
      <3>4. FramesIn(s \o u) = IF x = Silent THEN FramesIn(s \o v) ELSE Append(FramesIn(s \o v), x)
        BY <3>3, FramesOfAppend
      <3>5. FramesIn(u) = IF x = Silent THEN FramesIn(v) ELSE Append(FramesIn(v), x)
        BY <3>1, FramesOfAppend
      <3>6. x # Silent => x \in DuFrames
        BY HostAssumption
      <3>7. ASSUME x # Silent
            PROVE  Append(FramesIn(s) \o FramesIn(v), x) = FramesIn(s) \o Append(FramesIn(v), x)
        <4>1. FramesIn(s) \in Seq(DuFrames) /\ FramesIn(v) \in Seq(DuFrames) /\ x \in DuFrames
          BY <1>0, <3>6, <3>7
        <4> QED BY <4>1, FrameBehind
      <3> QED BY <3>2, <3>4, <3>5, <3>7
    <2> QED BY <2>1
  <1>3. S = Nat
    <2>1. S \in SUBSET Nat
      OBVIOUS
    <2> HIDE DEF S
    <2> QED BY <1>1, <1>2, <2>1, SetInduction
  <1>4. Len(t) \in Nat
    OBVIOUS
  <1> HIDE DEF Good
  <1>5. Good(t)
    BY <1>3, <1>4
  <1> QED BY <1>5 DEF Good

-----------------------------------------------------------------------------
(* The bytes of a sequence of chunks.                                        *)

\* f joins the chunks of every beginning of q.
Joins(f, q) == f = [i \in 1..Len(q) |-> IF i = 1 THEN q[i] ELSE f[i - 1] \o q[i]]

\* What a beginning is joined to is decided by that beginning.
LEMMA SameJoined ==
    ASSUME NEW q \in Seq(Seq(Traffic)), NEW r \in Seq(Seq(Traffic)), NEW f, NEW g,
           Joins(f, q), Joins(g, r), NEW N \in 1..Len(q), N <= Len(r),
           \A i \in 1..N : q[i] = r[i]
    PROVE  f[N] = g[N]
  <1> DEFINE S == {n \in Nat : n + 1 <= N => f[n + 1] = g[n + 1]}
  <1>1. Len(q) \in Nat /\ Len(r) \in Nat /\ N \in Nat
    OBVIOUS
  <1>2. 0 \in S
    <2>1. 1 \in 1..Len(q) /\ 1 \in 1..Len(r) /\ q[1] = r[1]
      BY <1>1
    <2>2. f[1] = q[1] /\ g[1] = r[1]
      BY <2>1 DEF Joins
    <2> QED BY <2>1, <2>2
  <1>3. ASSUME NEW n \in S PROVE n + 1 \in S
    <2>1. SUFFICES ASSUME (n + 1) + 1 <= N PROVE f[(n + 1) + 1] = g[(n + 1) + 1]
      OBVIOUS
    <2> DEFINE m == n + 2
    <2>2. /\ m = (n + 1) + 1 /\ m \in 1..Len(q) /\ m \in 1..Len(r) /\ m # 1
          /\ m - 1 = n + 1 /\ q[m] = r[m] /\ f[n + 1] = g[n + 1]
      BY <1>1, <2>1
    <2> HIDE DEF m
    <2>3. f[m] = f[m - 1] \o q[m]
      BY <2>2 DEF Joins
    <2>4. g[m] = g[m - 1] \o r[m]
      BY <2>2 DEF Joins
    <2> QED BY <2>2, <2>3, <2>4
  <1>4. S = Nat
    <2>1. S \in SUBSET Nat
      OBVIOUS
    <2> HIDE DEF S
    <2> QED BY <1>2, <1>3, <2>1, SetInduction
  <1>5. N - 1 \in Nat /\ (N - 1) + 1 = N
    BY <1>1
  <1>6. N - 1 \in S
    <2> HIDE DEF S
    <2> QED BY <1>4, <1>5
  <1> QED BY <1>5, <1>6

\* There is a function that joins the chunks of every beginning of q.
LEMMA JoinExists ==
    ASSUME NEW q \in Seq(Seq(Traffic)), q # <<>>
    PROVE  \E f : /\ Joins(f, q) /\ FlattenSeq(q) = f[Len(q)]
                  /\ FlattenSeq(q) \in Seq(Traffic)
  <1> DEFINE X == Seq(Traffic)
             Step(n) == [v \in X |-> IF n \in 1..Len(q) THEN v \o q[n] ELSE v]
             step == [n \in Nat |-> Step(n)]
  <1>1. Len(q) \in Nat /\ Len(q) # 0 /\ <<>> \in X
    OBVIOUS
  <1>2. ASSUME NEW n \in Nat PROVE step[n] \in [X -> X]
    OBVIOUS
  <1>3. step \in [Nat -> [X -> X]]
    BY <1>2
  <1>4. PICK h \in [0..Len(q) -> X] :
            h[0] = <<>> /\ \A n \in 1..Len(q) : h[n] = step[n][h[n - 1]]
    <2>1. \E h : Follows(h, X, <<>>, step, Len(q))
      <3> HIDE DEF step, X
      <3> QED BY <1>1, <1>3, Recursion
    <2> QED BY <2>1 DEF Follows
  <1>5. ASSUME NEW n \in 1..Len(q)
        PROVE  h[n] = IF n = 1 THEN q[n] ELSE h[n - 1] \o q[n]
    <2>1. n \in Nat /\ n - 1 \in 0..Len(q) /\ h[n - 1] \in X /\ q[n] \in X
      <3>1. n \in Nat /\ n - 1 \in 0..Len(q)
        BY <1>1
      <3>2. q[n] \in X
        BY ElementOfSeq
      <3> HIDE DEF X
      <3> QED BY <1>4, <3>1, <3>2
    <2>2. step[n] = Step(n)
      BY <2>1
    <2>3. Step(n)[h[n - 1]] = h[n - 1] \o q[n]
      BY <2>1
    <2>4. <<>> \o q[n] = q[n]
      BY <2>1, ConcatEmptySeq
    <2>5. n = 1 => h[n - 1] = <<>>
      BY <1>4
    <2> HIDE DEF Step, step, X
    <2> QED BY <1>4, <2>2, <2>3, <2>4, <2>5
  <1> DEFINE f == [i \in 1..Len(q) |-> h[i]]
  <1>6. Joins(f, q)
    <2>1. ASSUME NEW n \in 1..Len(q)
          PROVE  h[n] = IF n = 1 THEN q[n] ELSE f[n - 1] \o q[n]
      <3>1. n # 1 => n - 1 \in 1..Len(q)
        BY <1>1
      <3> HIDE DEF step, X
      <3> QED BY <1>5, <3>1
    <2> HIDE DEF step, X
    <2> QED BY <2>1 DEF Joins
  <1> DEFINE g == CHOOSE e : Joins(e, q)
  <1>7. Joins(g, q)
    <2> HIDE DEF f
    <2> QED BY <1>6
  <1>8. FlattenSeq(q) = g[Len(q)]
    BY <1>1 DEF FlattenSeq, Joins
  <1>9. g[Len(q)] = f[Len(q)]
    <2> HIDE DEF g, f
    <2> QED BY <1>1, <1>6, <1>7, SameJoined
  <1>10. f[Len(q)] \in X
    <2> HIDE DEF X
    <2> QED BY <1>1, <1>4
  <1> QED BY <1>7, <1>8, <1>9, <1>10

\* No chunks have no bytes.
LEMMA BytesOfNone == FlattenSeq(<<>>) = <<>>
  BY DEF FlattenSeq

\* The chunks of the channel are joined to traffic.
LEMMA BytesTyped ==
    ASSUME NEW q \in Seq(Seq(Traffic))
    PROVE  FlattenSeq(q) \in Seq(Traffic)
  <1>1. CASE q = <<>>
    <2>1. <<>> \in Seq(Traffic)
      OBVIOUS
    <2> QED BY <1>1, <2>1, BytesOfNone, Zenon
  <1>2. CASE q # <<>>
    BY <1>2, JoinExists
  <1> QED BY <1>1, <1>2

\* A chunk behind the others.
LEMMA BytesOfAppend ==
    ASSUME NEW q \in Seq(Seq(Traffic)), NEW c \in Seq(Traffic)
    PROVE  FlattenSeq(Append(q, c)) = FlattenSeq(q) \o c
  <1> DEFINE r == Append(q, c)
             n == Len(q)
  <1>1. /\ r \in Seq(Seq(Traffic)) /\ Len(r) = n + 1 /\ r[n + 1] = c /\ n \in Nat /\ r # <<>>
        /\ \A i \in 1..n : q[i] = r[i]
    BY AppendProperties, LenProperties
  <1> HIDE DEF r
  <1>2. PICK g : Joins(g, r) /\ FlattenSeq(r) = g[n + 1]
    BY <1>1, JoinExists
  <1>3. g[n + 1] = IF n + 1 = 1 THEN c ELSE g[n] \o c
    <2>1. n + 1 \in 1..Len(r) /\ (n + 1) - 1 = n
      BY <1>1
    <2> QED BY <1>1, <1>2, <2>1 DEF Joins
  <1>4. CASE q = <<>>
    <2>1. n = 0 /\ <<>> \o c = c
      BY <1>4, ConcatEmptySeq
    <2> QED BY <1>2, <1>3, <1>4, <2>1, BytesOfNone DEF r
  <1>5. CASE q # <<>>
    <2>1. n \in 1..Len(q) /\ n <= Len(r) /\ n + 1 # 1
      BY <1>1, <1>5
    <2>2. PICK f : Joins(f, q) /\ FlattenSeq(q) = f[n]
      BY <1>5, JoinExists
    <2>3. f[n] = g[n]
      <3>1. PICK m \in 1..Len(q) : m = n
        BY <2>1
      <3>2. f[m] = g[m]
        <4>1. m <= Len(r) /\ \A i \in 1..m : q[i] = r[i]
          BY <1>1, <2>1, <3>1
        <4> HIDE DEF n
        <4> QED BY <1>1, <1>2, <2>2, <4>1, SameJoined
      <3> QED BY <3>1, <3>2
    <2> QED BY <1>2, <1>3, <2>1, <2>2, <2>3 DEF r
  <1> QED BY <1>4, <1>5

\* A sequence that is not empty has a last element.
LEMMA LastOf ==
    ASSUME NEW C, NEW p \in Seq(C), NEW n \in Nat, Len(p) = n + 1
    PROVE  \E v \in Seq(C), x \in C : p = Append(v, x) /\ Len(v) = n
  <1>1. p # <<>>
    OBVIOUS
  <1>2. PICK v \in Seq(C), x \in C : p = Append(v, x)
    BY <1>1, SequenceEmptyOrAppend
  <1>3. Len(v) \in Nat /\ Len(p) = Len(v) + 1
    BY <1>2, AppendProperties, LenProperties
  <1> QED BY <1>2, <1>3

\* The first chunk in front of the others.
LEMMA BytesOfHead ==
    ASSUME NEW q \in Seq(Seq(Traffic)), q # <<>>
    PROVE  FlattenSeq(q) = Head(q) \o FlattenSeq(Tail(q))
  <1> DEFINE Good(p) == FlattenSeq(p) = Head(p) \o FlattenSeq(Tail(p))
             S == {n \in Nat : \A p \in Seq(Seq(Traffic)) : Len(p) = n + 1 => Good(p)}
  <1>2. 0 \in S
    <2>1. ASSUME NEW p \in Seq(Seq(Traffic)), Len(p) = 1 PROVE Good(p)
      <3>1. PICK v \in Seq(Seq(Traffic)), x \in Seq(Traffic) : p = Append(v, x) /\ Len(v) = 0
        <4>1. 0 \in Nat /\ Len(p) = 0 + 1
          BY <2>1
        <4> HIDE DEF S, Good
        <4> QED BY <4>1, LastOf
      <3>2. v = <<>> /\ Append(<<>>, x) = <<x>> /\ Head(<<x>>) = x /\ Tail(<<x>>) = <<>>
        BY <3>1, EmptySeq
      <3>3. FlattenSeq(p) = <<>> \o x
        BY <3>1, <3>2, BytesOfAppend, BytesOfNone
      <3>4. <<>> \o x = x /\ x \o <<>> = x
        BY ConcatEmptySeq
      <3> QED BY <3>1, <3>2, <3>3, <3>4, BytesOfNone
    <2> HIDE DEF Good
    <2> QED BY <2>1
  <1>3. ASSUME NEW n \in S PROVE n + 1 \in S
    <2>1. ASSUME NEW p \in Seq(Seq(Traffic)), Len(p) = (n + 1) + 1 PROVE Good(p)
      <3>1. PICK v \in Seq(Seq(Traffic)), x \in Seq(Traffic) :
                p = Append(v, x) /\ Len(v) = n + 1
        <4>1. n + 1 \in Nat
          OBVIOUS
        <4> QED BY <2>1, <4>1, LastOf
      <3>2. Good(v) /\ v # <<>>
        <4>1. v # <<>>
          BY <3>1
        <4> HIDE DEF Good
        <4> QED BY <3>1, <4>1
      <3>3. Head(p) = Head(v) /\ Tail(p) = Append(Tail(v), x)
        BY <3>1, <3>2, HeadTailAppend
      <3>4. Tail(v) \in Seq(Seq(Traffic)) /\ Head(v) \in Seq(Traffic)
        BY <3>2, HeadTailProperties
      <3>5. FlattenSeq(p) = FlattenSeq(v) \o x /\ FlattenSeq(Tail(p)) = FlattenSeq(Tail(v)) \o x
        BY <3>1, <3>3, <3>4, BytesOfAppend
      <3>6. FlattenSeq(Tail(v)) \in Seq(Traffic)
        BY <3>4, BytesTyped
      <3>7. (Head(v) \o FlattenSeq(Tail(v))) \o x = Head(v) \o (FlattenSeq(Tail(v)) \o x)
        <4> DEFINE a == Head(v)
                   b == FlattenSeq(Tail(v))
        <4>1. a \in Seq(Traffic) /\ b \in Seq(Traffic)
          BY <3>4, <3>6
        <4> HIDE DEF a, b, S, Good
        <4>2. (a \o b) \o x = a \o (b \o x)
          BY <4>1, ConcatAssociative
        <4> QED BY <4>2 DEF a, b
      <3> QED BY <3>2, <3>3, <3>5, <3>7
    <2> HIDE DEF Good
    <2> QED BY <2>1
  <1>4. S = Nat
    <2>1. S \in SUBSET Nat
      OBVIOUS
    <2> HIDE DEF S
    <2> QED BY <1>2, <1>3, <2>1, SetInduction
  <1>5. Len(q) - 1 \in Nat /\ (Len(q) - 1) + 1 = Len(q)
    OBVIOUS
  <1> HIDE DEF Good
  <1>6. Good(q)
    BY <1>4, <1>5
  <1> QED BY <1>6 DEF Good
-----------------------------------------------------------------------------
(* The tasks and their channels are a pipe.                                  *)

\* A task that has the receiver has not dropped it.
FlightInv ==
    /\ Inv /\ fed \in Seq(Traffic)
    /\ rxOpen \/ main = "failed" \/ campaign = "done"

\* At first the receiver is there and no byte has been read.
LEMMA FlightInit == Init => FlightInv
  <1> SUFFICES ASSUME Init PROVE FlightInv
    OBVIOUS
  <1>1. fed \in Seq(Traffic) /\ rxOpen
    BY DEF Init
  <1> QED BY <1>1, InitInv DEF FlightInv

\* The receiver is dropped by a task that has done with it.
LEMMA FlightNext == FlightInv /\ [Next]_vars => FlightInv'
  <1> SUFFICES ASSUME FlightInv, [Next]_vars PROVE FlightInv'
    OBVIOUS
  <1>1. Inv'
    BY NextInv DEF FlightInv
  <1>2. fed' \in Seq(Traffic)
    <2>1. CASE Port
      <3>1. PICK n \in 1..MaxChunk : \E c \in [1..n -> Traffic] : PortReads(c)
        BY <2>1 DEF Port
      <3>2. PICK c \in [1..n -> Traffic] : PortReads(c)
        BY <3>1
      <3>3. c \in Seq(Traffic)
        BY HostAssumption
      <3> QED BY <3>2, <3>3, ConcatProperties DEF PortReads, FlightInv
    <2>2. CASE ~Port
      BY <2>2 DEF Next, FlightInv, vars, portVars, Parser, TakeChunk, PushSilent, SendFrame,
            MainTask, SendPing, HearPong, HearOther, Report, HandshakeTimeout, Campaign,
            SendStart, DrainNotice, DrainEnd, DrainFrame, Consumes, SendResult
    <2> QED BY <2>1, <2>2
  <1>3. rxOpen' \/ main' = "failed" \/ campaign' = "done"
    <2>1. CASE Port \/ Parser \/ UNCHANGED vars
      BY <2>1 DEF Port, PortReads, Parser, TakeChunk, PushSilent, SendFrame, taskVars, vars,
                  FlightInv
    <2>2. CASE MainTask \/ HandshakeTimeout
      BY <2>2 DEF MainTask, SendPing, HearPong, HearOther, Report, HandshakeTimeout,
                  FlightInv, Inv, TypeOK, Alone
    <2>3. CASE Campaign
      BY <2>3 DEF Campaign, SendStart, DrainNotice, DrainEnd, DrainFrame, Consumes,
                  SendResult, FlightInv, Inv, TypeOK, Alone
    <2> QED BY <2>1, <2>2, <2>3 DEF Next
  <1> QED BY <1>1, <1>2, <1>3 DEF FlightInv

\* The first of two sequences in a row comes out first.
LEMMA FirstOut ==
    ASSUME NEW D, NEW a \in Seq(D), NEW b \in Seq(D), a # <<>>
    PROVE  a \o b # <<>> /\ Head(a \o b) = Head(a) /\ Tail(a \o b) = Tail(a) \o b
  <1>1. a \o b \in Seq(D) /\ Len(a \o b) = Len(a) + Len(b)
    BY ConcatProperties
  <1>2. Len(a) \in Nat /\ Len(a) # 0 /\ Len(b) \in Nat
    BY EmptySeq, LenProperties
  <1>3. a \o b # <<>> /\ Head(a \o b) = Head(a)
    BY <1>1, <1>2, ConcatProperties
  <1>4. /\ Tail(a) \in Seq(D) /\ Len(Tail(a)) = Len(a) - 1
        /\ \A i \in 1..(Len(a) - 1) : Tail(a)[i] = a[i + 1]
    BY HeadTailProperties
  <1>5. /\ Tail(a \o b) \in Seq(D) /\ Len(Tail(a \o b)) = Len(a) + Len(b) - 1
        /\ \A i \in 1..(Len(a) + Len(b) - 1) : Tail(a \o b)[i] = (a \o b)[i + 1]
    BY <1>1, <1>3, HeadTailProperties
  <1>6. /\ Tail(a) \o b \in Seq(D) /\ Len(Tail(a) \o b) = Len(a) + Len(b) - 1
        /\ \A i \in 1..(Len(a) + Len(b) - 1) :
              (Tail(a) \o b)[i] = IF i <= Len(a) - 1 THEN Tail(a)[i] ELSE b[i - (Len(a) - 1)]
    BY <1>2, <1>4, ConcatProperties
  <1>7. \A i \in 1..(Len(a) + Len(b)) :
            (a \o b)[i] = IF i <= Len(a) THEN a[i] ELSE b[i - Len(a)]
    BY ConcatProperties
  <1>8. ASSUME NEW i \in 1..(Len(a) + Len(b) - 1)
        PROVE  Tail(a \o b)[i] = (Tail(a) \o b)[i]
    <2>1. i + 1 \in 1..(Len(a) + Len(b)) /\ i \in Nat /\ (i + 1) - Len(a) = i - (Len(a) - 1)
      BY <1>2
    <2>2. Tail(a \o b)[i] = IF i + 1 <= Len(a) THEN a[i + 1] ELSE b[(i + 1) - Len(a)]
      BY <1>5, <1>7, <2>1
    <2>3. CASE i + 1 <= Len(a)
      <3>1. i \in 1..(Len(a) - 1) /\ i <= Len(a) - 1
        BY <1>2, <2>1, <2>3
      <3> QED BY <1>4, <1>6, <2>2, <2>3, <3>1
    <2>4. CASE ~(i + 1 <= Len(a))
      <3>1. ~(i <= Len(a) - 1)
        BY <1>2, <2>1, <2>4
      <3> QED BY <1>6, <2>1, <2>2, <2>4, <3>1
    <2> QED BY <2>3, <2>4
  <1>9. Tail(a \o b) = Tail(a) \o b
    <2> DEFINE x == Tail(a \o b)
               y == Tail(a) \o b
    <2>1. /\ x \in Seq(D) /\ y \in Seq(D) /\ Len(x) = Len(y)
          /\ \A i \in 1..Len(x) : x[i] = y[i]
      BY <1>5, <1>6, <1>8
    <2> HIDE DEF x, y
    <2>2. x = y
      BY <2>1, SeqEqual
    <2> QED BY <2>2 DEF x, y
  <1> QED BY <1>3, <1>9

\* Everything in flight, and what a step of the tasks needs to know of it.
LEMMA FlightTyped ==
    ASSUME FlightInv
    PROVE  /\ FramesIn(fed) \in Seq(DuFrames) /\ FramesIn(chunk) \in Seq(DuFrames)
           /\ FlattenSeq(bytes) \in Seq(Traffic)
           /\ FramesIn(FlattenSeq(bytes)) \in Seq(DuFrames)
           /\ frames \in Seq(DuFrames) /\ chunk \in Seq(Traffic)
           /\ bytes \in Seq(Seq(Traffic)) /\ InFlight \in Seq(DuFrames)
  <1>1. /\ chunk \in Seq(Traffic) /\ bytes \in Seq(Seq(Traffic)) /\ fed \in Seq(Traffic)
        /\ frames \in Seq(DuFrames)
    BY DEF FlightInv, Inv, TypeOK
  <1>2. FlattenSeq(bytes) \in Seq(Traffic)
    BY <1>1, BytesTyped
  <1>3. FramesIn(fed) \in Seq(DuFrames) /\ FramesIn(chunk) \in Seq(DuFrames)
    BY <1>1, KeptExists
  <1>4. FramesIn(FlattenSeq(bytes)) \in Seq(DuFrames)
    BY <1>2, KeptExists
  <1>5. InFlight \in Seq(DuFrames)
    BY <1>1, <1>3, <1>4, ConcatProperties DEF InFlight
  <1> QED BY <1>1, <1>2, <1>3, <1>4, <1>5

\* What was put, what is inside and what came out.
Put  == FramesIn(fed)
Held == IF rxOpen THEN InFlight ELSE <<>>
Out  == heard \o drained

\* Two sequences in a row, seen from the first.
LEMMA Behind ==
    ASSUME NEW D, NEW a \in Seq(D), NEW b \in Seq(D)
    PROVE  /\ Len(a \o b) >= Len(a) /\ SubSeq(a \o b, 1, Len(a)) = a
           /\ SubSeq(a \o b, Len(a) + 1, Len(a \o b)) = b
  <1> DEFINE c == a \o b
             m == Len(a)
             n == Len(b)
  <1>1. /\ m \in Nat /\ n \in Nat /\ c \in Seq(D) /\ Len(c) = m + n
        /\ \A i \in 1..(m + n) : c[i] = IF i <= m THEN a[i] ELSE b[i - m]
        /\ \A i \in 1..(m + n) : c[i] \in D
    BY LenProperties, ConcatProperties, ElementOfSeq
  <1>2. \A i \in 1..m : a[i] = c[i]
    BY <1>1
  <1>3. \A i \in 1..n : b[i] = c[m + i]
    <2> TAKE i \in 1..n
    <2>1. m + i \in 1..(m + n) /\ ~(m + i <= m) /\ (m + i) - m = i
      BY <1>1
    <2> HIDE DEF c, m, n
    <2> QED BY <1>1, <2>1
  <1> HIDE DEF c
  <1>4. SubSeq(c, 1, m) = a
    <2> DEFINE x == SubSeq(c, 1, m)
    <2>1. \A i \in 1..m : c[i] \in D
      BY <1>1
    <2>2. x \in Seq(D) /\ Len(x) = m /\ \A i \in 1..m : x[i] = c[i]
      BY <1>1, <2>1, SubSeqProperties
    <2> HIDE DEF x
    <2>3. x = a
      BY <1>1, <1>2, <2>2, SeqEqual
    <2> QED BY <2>3 DEF x
  <1>5. SubSeq(c, m + 1, m + n) = b
    <2> DEFINE x == SubSeq(c, m + 1, m + n)
    <2>1. m + 1 \in Int /\ m + n \in Int /\ \A i \in (m + 1)..(m + n) : c[i] \in D
      BY <1>1
    <2>2. /\ x \in Seq(D) /\ Len(x) = IF m + 1 <= m + n THEN (m + n) - (m + 1) + 1 ELSE 0
          /\ \A i \in 1..((m + n) - (m + 1) + 1) : x[i] = c[(m + 1) + i - 1]
      BY <2>1, SubSeqProperties
    <2> HIDE DEF x
    <2>3. Len(x) = n /\ \A i \in 1..n : x[i] = c[m + i]
      <3>1. m \in Nat /\ n \in Nat
        BY <1>1
      <3>2. /\ (m + n) - (m + 1) + 1 = n /\ (m + 1 <= m + n <=> n # 0)
            /\ \A i \in 1..n : (m + 1) + i - 1 = m + i
        <4> HIDE DEF m, n
        <4> QED BY <3>1
      <3>3. Len(x) = n
        BY <2>2, <3>1, <3>2
      <3>4. ASSUME NEW i \in 1..n PROVE x[i] = c[m + i]
        <4>1. i \in 1..((m + n) - (m + 1) + 1) /\ (m + 1) + i - 1 = m + i
          BY <3>2
        <4> HIDE DEF m, n
        <4>2. x[i] = c[(m + 1) + i - 1]
          BY <2>2, <4>1
        <4> QED BY <4>1, <4>2
      <3> QED BY <3>3, <3>4
    <2>4. x = b
      BY <1>3, <2>2, <2>3, SeqEqual
    <2> QED BY <2>4 DEF x
  <1> QED BY <1>1, <1>4, <1>5 DEF c

\* A chunk that the port reads goes into the pipe behind what is there.
LEMMA PortPuts ==
    ASSUME FlightInv, NEW c \in Seq(Traffic), PortReads(c)
    PROVE  Pipeline!Put
  <1> DEFINE q == FramesIn(c)
             F == FramesIn(FlattenSeq(bytes))
             G == frames \o FramesIn(chunk)
  <1>1. /\ bytes' = Append(bytes, c) /\ fed' = fed \o c
        /\ UNCHANGED <<chunk, frames, rxOpen, heard, drained>>
    BY DEF PortReads, parserVars, taskVars
  <1>2. q \in Seq(DuFrames) /\ F \in Seq(DuFrames) /\ G \in Seq(DuFrames) /\ Put \in Seq(DuFrames)
    BY FlightTyped, KeptExists, ConcatProperties DEF Put
  <1>3. Put' = Put \o q
    BY <1>1, FramesOfConcat DEF Put, FlightInv
  <1>4. InFlight' = InFlight \o q
    <2>1. FlattenSeq(bytes') = FlattenSeq(bytes) \o c
      BY <1>1, FlightTyped, BytesOfAppend
    <2>2. FramesIn(FlattenSeq(bytes')) = F \o q
      BY <2>1, FlightTyped, FramesOfConcat
    <2>3. InFlight' = G \o (F \o q) /\ InFlight = G \o F
      BY <1>1, <2>2 DEF InFlight
    <2> HIDE DEF G, F, q
    <2>4. (G \o F) \o q = G \o (F \o q)
      BY <1>2, ConcatAssociative
    <2> QED BY <2>3, <2>4
  <1> HIDE DEF q, F, G
  <1>5. /\ Len(Put') >= Len(Put) /\ SubSeq(Put', 1, Len(Put)) = Put
        /\ SubSeq(Put', Len(Put) + 1, Len(Put')) = q
    BY <1>2, <1>3, Behind
  <1>6. Held' = IF rxOpen THEN Held \o q ELSE Held
    BY <1>1, <1>4 DEF Held
  <1>7. rxOpen' = rxOpen /\ Out' = Out
    BY <1>1 DEF Out
  <1> QED BY <1>5, <1>6, <1>7 DEF Pipeline!Put, Put, Held, Out

\* A chunk that is taken, and a byte without an outcome, stay in flight.
LEMMA ChunkStays ==
    ASSUME FlightInv, TakeChunk
    PROVE  InFlight' = InFlight
  <1>1. /\ chunk = <<>> /\ bytes # <<>> /\ chunk' = Head(bytes) /\ bytes' = Tail(bytes)
        /\ frames' = frames
    BY DEF TakeChunk
  <1> DEFINE h == Head(bytes)
             t == FlattenSeq(Tail(bytes))
  <1>2. /\ h \in Seq(Traffic) /\ t \in Seq(Traffic)
        /\ FlattenSeq(bytes) = h \o t
    <2>1. bytes \in Seq(Seq(Traffic))
      BY FlightTyped
    <2>2. h \in Seq(Traffic) /\ Tail(bytes) \in Seq(Seq(Traffic))
      BY <1>1, <2>1, HeadTail
    <2> QED BY <1>1, <2>1, <2>2, BytesTyped, BytesOfHead
  <1>3. FramesIn(FlattenSeq(bytes)) = FramesIn(h) \o FramesIn(t)
    BY <1>2, FramesOfConcat
  <1>4. FramesIn(h) \in Seq(DuFrames) /\ FramesIn(t) \in Seq(DuFrames)
    BY <1>2, KeptExists
  <1>5. frames \o FramesIn(chunk) = frames
    BY <1>1, FramesOfNone, FlightTyped, ConcatEmptySeq
  <1>6. InFlight = frames \o (FramesIn(h) \o FramesIn(t))
    BY <1>3, <1>5 DEF InFlight
  <1>7. InFlight' = (frames \o FramesIn(h)) \o FramesIn(t)
    BY <1>1 DEF InFlight
  <1>8. frames \in Seq(DuFrames)
    BY FlightTyped
  <1> HIDE DEF h, t
  <1>9. (frames \o FramesIn(h)) \o FramesIn(t) = frames \o (FramesIn(h) \o FramesIn(t))
    BY <1>4, <1>8, ConcatAssociative
  <1> QED BY <1>6, <1>7, <1>9

\* The frames of a chunk, from its first byte on.
LEMMA FramesOfHead ==
    ASSUME NEW s \in Seq(Traffic), s # <<>>
    PROVE  /\ Head(s) = Silent => FramesIn(s) = FramesIn(Tail(s))
           /\ Head(s) # Silent => FramesIn(s) = <<Head(s)>> \o FramesIn(Tail(s))
  <1> DEFINE x == Head(s)
             t == Tail(s)
  <1>1. x \in Traffic /\ t \in Seq(Traffic) /\ <<x>> \in Seq(Traffic) /\ s = <<x>> \o t
    BY HeadTail
  <1>2. FramesIn(s) = FramesIn(<<x>>) \o FramesIn(t)
    BY <1>1, FramesOfConcat
  <1>3. FramesIn(<<x>>) = IF x = Silent THEN <<>> ELSE <<x>>
    <2>1. <<>> \in Seq(Traffic) /\ Append(<<>>, x) = <<x>>
      OBVIOUS
    <2> QED BY <1>1, <2>1, FramesOfAppend, FramesOfNone
  <1>4. FramesIn(t) \in Seq(DuFrames)
    BY <1>1, KeptExists
  <1>5. <<>> \o FramesIn(t) = FramesIn(t)
    BY <1>4, ConcatEmptySeq
  <1> QED BY <1>2, <1>3, <1>5

\* Bytes that make no frame leave the pipe as it is.
LEMMA SilentStays ==
    ASSUME FlightInv, PushSilent
    PROVE  InFlight' = InFlight
  BY FlightTyped, FramesOfHead DEF PushSilent, portVars, InFlight

\* A frame that the parser sends on stays in the pipe.
LEMMA SentStays ==
    ASSUME FlightInv, SendFrame, rxOpen
    PROVE  InFlight' = InFlight
  <1> DEFINE x == Head(chunk)
             t == FramesIn(Tail(chunk))
  <1>1. /\ chunk # <<>> /\ x # Silent /\ chunk' = Tail(chunk)
        /\ frames' = Append(frames, x) /\ bytes' = bytes
    BY DEF SendFrame, portVars
  <1>2. chunk \in Seq(Traffic) /\ frames \in Seq(DuFrames)
    BY FlightTyped
  <1>3. x \in DuFrames /\ Tail(chunk) \in Seq(Traffic)
    BY <1>1, <1>2, HeadTail, HostAssumption
  <1>4. t \in Seq(DuFrames)
    BY <1>3, KeptExists
  <1>5. FramesIn(chunk) = <<x>> \o t
    BY <1>1, <1>2, FramesOfHead
  <1>6. frames' = frames \o <<x>> /\ <<x>> \in Seq(DuFrames)
    BY <1>1, <1>2, <1>3, AppendIsConcat
  <1> HIDE DEF x, t
  <1>7. (frames \o <<x>>) \o t = frames \o (<<x>> \o t)
    BY <1>2, <1>4, <1>6, ConcatAssociative
  <1>8. frames' \o FramesIn(chunk') = frames \o FramesIn(chunk)
    BY <1>1, <1>5, <1>6, <1>7 DEF t
  <1> QED BY <1>1, <1>8 DEF InFlight

\* A frame that is received is the first in flight.
LEMMA FirstReceived ==
    ASSUME FlightInv, frames # <<>>, frames' = Tail(frames), UNCHANGED <<bytes, chunk>>
    PROVE  InFlight # <<>> /\ Head(InFlight) = Head(frames) /\ InFlight' = Tail(InFlight)
  <1> DEFINE C == FramesIn(chunk)
             F == FramesIn(FlattenSeq(bytes))
  <1>1. frames \in Seq(DuFrames) /\ C \in Seq(DuFrames) /\ F \in Seq(DuFrames)
    BY FlightTyped
  <1>2. InFlight = (frames \o C) \o F /\ InFlight' = (Tail(frames) \o C) \o F
    BY DEF InFlight
  <1> HIDE DEF C, F
  <1>3. /\ frames \o C \in Seq(DuFrames) /\ frames \o C # <<>>
        /\ Head(frames \o C) = Head(frames) /\ Tail(frames \o C) = Tail(frames) \o C
    BY <1>1, FirstOut, ConcatProperties
  <1> DEFINE g == frames \o C
  <1>4. g \in Seq(DuFrames) /\ g # <<>> /\ Head(g) = Head(frames) /\ Tail(g) = Tail(frames) \o C
    BY <1>3
  <1>5. InFlight = g \o F /\ InFlight' = Tail(g) \o F
    BY <1>2, <1>4
  <1> HIDE DEF g
  <1>6. g \o F # <<>> /\ Head(g \o F) = Head(g) /\ Tail(g \o F) = Tail(g) \o F
    BY <1>1, <1>4, FirstOut
  <1> QED BY <1>4, <1>5, <1>6

\* A step of a task that receives a frame takes it out of the pipe.
LEMMA ReceiptTakes ==
    ASSUME FlightInv, rxOpen, frames # <<>>, frames' = Tail(frames),
           UNCHANGED <<bytes, chunk, fed, rxOpen>>, Out' = Append(Out, Head(frames))
    PROVE  Pipeline!Take
  <1>1. InFlight # <<>> /\ Head(InFlight) = Head(frames) /\ InFlight' = Tail(InFlight)
    BY FirstReceived
  <1>2. Put' = Put
    BY DEF Put
  <1>3. Held # <<>> /\ Held' = Tail(Held) /\ Out' = Append(Out, Head(Held))
    BY <1>1 DEF Held
  <1> QED BY <1>2, <1>3 DEF Pipeline!Take, Put, Held, Out

\* The handshake, and with it all that is consumed, comes before the campaign.
LEMMA HearTakes ==
    ASSUME FlightInv, HearPong \/ HearOther
    PROVE  Pipeline!Take
  <1>1. /\ main = "handshake" /\ frames # <<>> /\ frames' = Tail(frames)
        /\ heard' = Append(heard, Head(frames))
        /\ UNCHANGED <<bytes, fed, chunk, rxOpen, drained>>
    BY DEF HearPong, HearOther, portVars
  <1>2. rxOpen /\ drained = <<>>
    BY <1>1 DEF FlightInv, Inv, Alone, PongSplits
  <1>3. heard \in Seq(DuFrames) /\ frames \in Seq(DuFrames)
    BY DEF FlightInv, Inv, TypeOK
  <1>4. Append(heard, Head(frames)) \in Seq(DuFrames)
    BY <1>1, <1>3, HeadTail, Longer
  <1>5. heard \o <<>> = heard /\ heard' \o <<>> = heard'
    BY <1>1, <1>3, <1>4, ConcatEmptySeq
  <1>6. Out' = Append(Out, Head(frames))
    BY <1>1, <1>2, <1>5 DEF Out
  <1> QED BY <1>1, <1>2, <1>6, ReceiptTakes

\* The campaign takes what is next.
LEMMA DrainTakes ==
    ASSUME FlightInv, NEW f, Consumes(f)
    PROVE  Pipeline!Take
  <1>1. /\ campaign = "drain" /\ frames # <<>> /\ Head(frames) = f /\ frames' = Tail(frames)
        /\ drained' = Append(drained, f) /\ UNCHANGED <<bytes, fed, chunk, rxOpen, heard>>
    BY DEF Consumes, portVars
  <1>2. rxOpen
    BY <1>1 DEF FlightInv, Inv, TypeOK, Alone
  <1>3. heard \in Seq(DuFrames) /\ drained \in Seq(DuFrames) /\ f \in DuFrames
    BY <1>1, HeadTail DEF FlightInv, Inv, TypeOK
  <1>4. Append(heard \o drained, f) = heard \o Append(drained, f)
    BY <1>3, FrameBehind
  <1>5. Out' = Append(Out, Head(frames))
    BY <1>1, <1>4 DEF Out
  <1> QED BY <1>1, <1>2, <1>5, ReceiptTakes

\* Every step of the tasks is one of the pipe, or none.
LEMMA PipeStep ==
    ASSUME FlightInv, [Next]_vars
    PROVE  Pipeline!Next \/ UNCHANGED <<rxOpen, Put, Held, Out>>
  <1>1. CASE Port
    <2>1. PICK n \in 1..MaxChunk : \E c \in [1..n -> Traffic] : PortReads(c)
      BY <1>1 DEF Port
    <2>2. PICK c \in [1..n -> Traffic] : PortReads(c)
      BY <2>1
    <2>3. c \in Seq(Traffic)
      BY HostAssumption
    <2> QED BY <2>2, <2>3, PortPuts DEF Pipeline!Next
  <1>2. CASE TakeChunk \/ PushSilent
    <2>1. InFlight' = InFlight
      BY <1>2, ChunkStays, SilentStays
    <2>2. UNCHANGED <<fed, rxOpen, heard, drained>>
      BY <1>2 DEF TakeChunk, PushSilent, portVars, taskVars
    <2> QED BY <2>1, <2>2 DEF Put, Held, Out
  <1>3. CASE SendFrame
    <2>1. UNCHANGED <<fed, rxOpen, heard, drained>>
      BY <1>3 DEF SendFrame, portVars, taskVars
    <2>2. rxOpen => InFlight' = InFlight
      BY <1>3, SentStays
    <2> QED BY <2>1, <2>2 DEF Put, Held, Out
  <1>4. CASE HearPong \/ HearOther
    BY <1>4, HearTakes DEF Pipeline!Next
  <1>5. CASE DrainNotice \/ DrainEnd \/ DrainFrame
    <2>1. \E f : Consumes(f)
      BY <1>5 DEF DrainNotice, DrainEnd, DrainFrame
    <2> QED BY <2>1, DrainTakes DEF Pipeline!Next
  <1>6. CASE HandshakeTimeout \/ SendResult
    <2>1. rxOpen' = FALSE /\ UNCHANGED <<fed, heard, drained>>
      BY <1>6 DEF HandshakeTimeout, SendResult, portVars
    <2>2. Held' = <<>> /\ Put' = Put /\ Out' = Out
      BY <2>1 DEF Held, Put, Out
    <2>3. Pipeline!Close
      BY <2>1, <2>2 DEF Pipeline!Close, Put, Held, Out
    <2> QED BY <2>3 DEF Pipeline!Next
  <1>7. CASE SendPing \/ Report \/ SendStart \/ UNCHANGED vars
    <2>1. UNCHANGED <<bytes, fed, chunk, frames, rxOpen, heard, drained>>
      BY <1>7 DEF SendPing, Report, SendStart, vars, portVars, parserVars, taskVars
    <2> QED BY <2>1 DEF Put, Held, Out, InFlight
  <1> QED BY <1>1, <1>2, <1>3, <1>4, <1>5, <1>6, <1>7 DEF Next, Parser, MainTask, Campaign

-----------------------------------------------------------------------------
\* Whatever is on the line and however full the channels get, the campaign
\* begins right behind the first PONG.
THEOREM CampaignIsBehindPong == Spec => []CampaignFollowsPong
  <1>1. Inv => CampaignFollowsPong
    <2> SUFFICES ASSUME Inv PROVE CampaignFollowsPong
      OBVIOUS
    <2>1. drained # <<>> \/ campaign # "none" =>
              heard # <<>> /\ heard[Len(heard)].kind = "PONG"
      BY DEF Inv, PongSplits
    <2>2. outbound \in {<<>>, <<"PING">>, <<"PING", "START">>}
      BY DEF Inv, TypeOK, Steps, Alone, Sent
    <2>3. "START" \in {outbound[i] : i \in DOMAIN outbound} => outbound = <<"PING", "START">>
      BY <2>2
    <2> QED  BY <2>1, <2>3 DEF Inv, PongSplits, CampaignFollowsPong
  <1> QED  BY <1>1, InitInv, NextInv, PTL DEF Spec

\* For every traffic, each frame consumed reached the detector in order, and
\* each verified notice is placed behind the frames consumed before it.
THEOREM FramesAreAccounted == Spec => []EveryFrameAccounted
  <1>1. Init => Inv /\ AccountInv
    BY InitInv, AccountInit
  <1>2. Inv /\ AccountInv /\ [Next]_vars => (Inv /\ AccountInv)'
    BY NextInv, AccountNext
  <1>3. AccountInv => EveryFrameAccounted
    BY DEF AccountInv
  <1> QED  BY <1>1, <1>2, <1>3, PTL DEF Spec

\* Every frame that the port reads is consumed once and in order, by the
\* handshake or the campaign, until the receiver is dropped: the tasks with
\* their channels implement a Pipe that loses nothing.
THEOREM HostLosesNothing == Spec => NothingLost
  <1>1. Init => Pipeline!Init
    <2> SUFFICES ASSUME Init PROVE Pipeline!Init
      OBVIOUS
    <2>1. /\ fed = <<>> /\ frames = <<>> /\ chunk = <<>> /\ bytes = <<>> /\ rxOpen = TRUE
          /\ heard = <<>> /\ drained = <<>>
      BY DEF Init
    <2>2. FramesIn(<<>>) = <<>> /\ FlattenSeq(<<>>) = <<>> /\ <<>> \o <<>> = <<>>
      BY FramesOfNone, BytesOfNone
    <2> QED BY <2>1, <2>2 DEF Pipeline!Init, InFlight
  <1>2. FlightInv /\ [Next]_vars => [Pipeline!Next]_<<rxOpen, Put, Held, Out>>
    BY PipeStep
  <1>3. FlightInv /\ [Next]_vars =>
          [Pipeline!Next]_<<rxOpen, FramesIn(fed), IF rxOpen THEN InFlight ELSE <<>>,
                            heard \o drained>>
    BY <1>2 DEF Put, Held, Out
  <1> QED
    BY <1>1, <1>3, FlightInit, FlightNext, PTL DEF Spec, NothingLost, Pipeline!Spec

\* The campaign stops at the first END, verified or not, and at nothing else.
THEOREM FirstEndStops == Spec => []StopsAtFirstEnd
  <1>1. Inv => StopsAtFirstEnd
    <2> SUFFICES ASSUME Inv PROVE StopsAtFirstEnd
      OBVIOUS
    <2>1. ASSUME NEW i \in DOMAIN drained, drained[i].kind = "END"
          PROVE  i = Len(drained) /\ campaign \in {"score", "done"}
      <3>1. i \in 1..Len(drained) /\ Len(drained) \in Nat
        BY LenProperties DEF Inv, TypeOK
      <3>2. i = Len(drained)
        BY <2>1, <3>1 DEF Inv, EndsOnce
      <3>3. campaign \notin {"start", "drain"}
        BY <2>1, <3>1 DEF Inv, EndsOnce
      <3>4. campaign # "none"
        BY <3>1 DEF Inv, PongSplits
      <3> QED  BY <3>2, <3>3, <3>4 DEF Inv, TypeOK, Steps
    <2> QED  BY <2>1 DEF Inv, EndsOnce, OneResult, StopsAtFirstEnd
  <1> QED  BY <1>1, InitInv, NextInv, PTL DEF Spec
=============================================================================
