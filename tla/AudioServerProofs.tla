-------------------------- MODULE AudioServerProofs --------------------------
(***************************************************************************)
(* What the audio server keeps for every number of sources, every set of   *)
(* signals and every size of the buffer: the streams never slip against    *)
(* the requests.                                                           *)
(***************************************************************************)
EXTENDS AudioServer, TLAPS

\* The length of a constant signal never changes, and a request for it or a signal of
\* it on the air has this length.
ConstantLengths ==
  /\ \A p \in Sources \ MsgSources : lengths[p] = ConstLength[p]
  /\ \A p \in ConstPorts : Waiting(p) => slot[1].length = ConstLength[p]
  /\ \A p \in ConstPorts : Playing(p) => onAir[1].length = ConstLength[p]

\* What is left is a part of the signal on the air.
LeftOfSignal == onAir # <<>> => left \in 1..onAir[1].length

\* The message that ends a source comes from stop() only.
NoEarlyEnd == ~down => \A s \in MsgSources : queue[s] # <<>> => Head(queue[s]) # EOF

AudioInv ==
  /\ AudioTypeOK /\ StreamsAligned /\ ConstantsAligned
  /\ ConstantLengths /\ LeftOfSignal /\ NoEarlyEnd

-----------------------------------------------------------------------------
(* Sequences *)

\* The queue's message moves into the pipe, and the stream is the same.
LEMMA HeadMoves ==
  ASSUME NEW s \in Seq(Nat), NEW t \in Seq(Nat), t # <<>>
  PROVE  Append(s, Head(t)) \o Tail(t) = s \o t
  OBVIOUS

LEMMA ConsParts ==
  ASSUME NEW s \in Seq(Nat), NEW n \in Nat
  PROVE  (<<n>> \o s)[1] = n /\ Tail(<<n>> \o s) = s
  OBVIOUS

LEMMA ConsConcat ==
  ASSUME NEW s \in Seq(Nat), NEW t \in Seq(Nat), NEW n \in Nat
  PROVE  (<<n>> \o s) \o t = <<n>> \o (s \o t) /\ s \o t \in Seq(Nat)
  OBVIOUS

LEMMA HeadAndTail ==
  ASSUME NEW s \in Seq(Nat), s # <<>>
  PROVE  /\ s[1] \in Nat /\ Tail(s) \in Seq(Nat) /\ s = <<s[1]>> \o Tail(s)
         /\ \A m \in Nat : [s EXCEPT ![1] = m] = <<m>> \o Tail(s)
  OBVIOUS

\* A stream is n items of one signal and then the rest.
Splits(stream, n, rest) == stream = <<n>> \o rest

\* What is left of the first signal of a stream, and what is behind it.
LEMMA FirstOfStream ==
  ASSUME NEW s \in Seq(Nat), NEW t \in Seq(Nat), NEW r \in Seq(Nat), NEW n \in Nat,
         s # <<>>, Splits(s \o t, n, r)
  PROVE  /\ s[1] = n /\ Tail(s) \o t = r
         /\ \A m \in Nat : Splits([s EXCEPT ![1] = m] \o t, m, r)
<1>1. PICK x \in Seq(Nat) : /\ x = Tail(s) /\ s[1] \in Nat /\ s = <<s[1]>> \o x
                            /\ \A m \in Nat : [s EXCEPT ![1] = m] = <<m>> \o x
  BY HeadAndTail
<1>2. /\ x \o t \in Seq(Nat)
      /\ \A m \in Nat : (<<m>> \o x) \o t = <<m>> \o (x \o t)
  BY ConsConcat
<1>3. <<s[1]>> \o (x \o t) = <<n>> \o r
  BY <1>1, <1>2, Zenon DEF Splits
<1>4. (<<s[1]>> \o (x \o t))[1] = s[1] /\ Tail(<<s[1]>> \o (x \o t)) = x \o t
  BY <1>1, <1>2, ConsParts, Zenon
<1>5. (<<n>> \o r)[1] = n /\ Tail(<<n>> \o r) = r
  BY ConsParts, Zenon
<1>6. s[1] = n /\ x \o t = r
  BY <1>3, <1>4, <1>5, Zenon
<1> QED BY <1>1, <1>2, <1>6, Zenon DEF Splits

LEMMA FirstTaken ==
  ASSUME NEW s \in Seq(Nat), NEW n \in Nat, s[1] = n
  PROVE  /\ n = 1 => WithoutItem(s) = Tail(s)
         /\ n # 1 => WithoutItem(s) = [s EXCEPT ![1] = n - 1]
  BY DEF WithoutItem

\* An item leaves the stream.
LEMMA ItemLeaves ==
  ASSUME NEW s \in Seq(Nat), NEW t \in Seq(Nat), NEW r \in Seq(Nat),
         NEW n \in Nat, n # 0, s # <<>>, Splits(s \o t, n, r)
  PROVE  /\ n = 1 => WithoutItem(s) \o t = r
         /\ n # 1 => Splits(WithoutItem(s) \o t, n - 1, r)
<1>1. /\ s[1] = n /\ Tail(s) \o t = r
      /\ \A m \in Nat : Splits([s EXCEPT ![1] = m] \o t, m, r)
  BY FirstOfStream, Zenon
<1>2. n - 1 \in Nat
  OBVIOUS
<1>3. /\ n = 1 => WithoutItem(s) = Tail(s)
      /\ n # 1 => WithoutItem(s) = [s EXCEPT ![1] = n - 1]
  BY <1>1, FirstTaken, Zenon
<1> QED BY <1>1, <1>2, <1>3, Zenon

LEMMA NothingAdded == \A s \in Seq(Nat) : s \o <<>> = s /\ <<>> \o s = s
  OBVIOUS

LEMMA ConcatIsSeq == \A s, t \in Seq(Nat) : s \o t \in Seq(Nat)
  OBVIOUS

LEMMA SourceIds ==
  /\ 0 \notin Sources /\ 0 \notin MsgSources /\ 0 \in ConstPorts
  /\ MsgSources \subseteq Sources /\ ConstPorts \subseteq Sources \cup {0}
  /\ \A id \in Sources : id \in MsgSources \/ (id \in ConstPorts /\ id \notin MsgSources)
  /\ \A p \in ConstPorts : ConstLength[p] \in Nat \ {0} /\ p \notin MsgSources
  /\ \A n \in Signals : n \in Nat \ {0}
  BY SourcesAssumption DEF Sources

\* What is owed to a stream, one part behind the other.
OnAirPart(s) == Only(Playing(s), left)
WaitingPart(s) == Only(Waiting(s), slot[1].length)
LastPart(s) == Only(lengths[s] > 0, lengths[s])

LEMMA Parts ==
  ASSUME AudioTypeOK, NEW s \in MsgSources
  PROVE  /\ pipe[s] \in Seq(Nat) /\ queue[s] \in Seq(Nat)
         /\ OnAirPart(s) \in Seq(Nat) /\ WaitingPart(s) \in Seq(Nat)
         /\ LastPart(s) \in Seq(Nat)
<1>1. pipe[s] \in Seq(Nat \ {0}) /\ queue[s] \in Seq(Nat) /\ left \in Nat
  BY DEF AudioTypeOK
<1>2. pipe[s] \in Seq(Nat)
  BY <1>1
<1>3. Waiting(s) => slot[1].length \in Nat
  <2>1. slot # <<>> => slot[1] \in Segments
    BY DEF AudioTypeOK
  <2> QED BY <2>1 DEF Segments, Waiting
<1>4. lengths[s] \in Nat
  BY SourceIds DEF AudioTypeOK
<1>5. \A c \in BOOLEAN, n \in Nat : Only(c, n) \in Seq(Nat)
  BY DEF Only
<1> QED BY <1>1, <1>2, <1>3, <1>4, <1>5 DEF OnAirPart, WaitingPart, LastPart, Only

LEMMA ModSmall == \A a, c \in Nat : a < c => a % c = a
  OBVIOUS

LEMMA ModSelf == \A c \in Nat \ {0} : c % c = 0
  OBVIOUS

-----------------------------------------------------------------------------
(* The initial state and the operations *)

LEMMA InitInv == AudioInit => AudioInv
<1> SUFFICES ASSUME AudioInit PROVE AudioInv
  OBVIOUS
<1> USE SourceIds DEF AudioInit, FirstLengths, NoMessages, Beginning, Mux!Init, Playing, Waiting
<1>1. AudioTypeOK
  <2>1. lengths \in [Sources -> Nat] /\ pos \in [ConstPorts -> Nat]
    OBVIOUS
  <2>2. \A p \in ConstPorts : pos[p] < ConstLength[p]
    OBVIOUS
  <2>3. queue \in [MsgSources -> Seq(Nat)] /\ pipe \in [MsgSources -> Seq(Nat \ {0})]
    OBVIOUS
  <2>4. \A s \in MsgSources : Len(queue[s]) <= 1
    OBVIOUS
  <2>5. /\ slot \in Seq(Segments) /\ Len(slot) <= 1
        /\ onAir \in Seq(Segments) /\ Len(onAir) <= 1
        /\ left \in Nat /\ phase \in {"off", "on", "halted"}
    OBVIOUS
  <2>6. down \in BOOLEAN
    OBVIOUS
  <2> QED BY <2>1, <2>2, <2>3, <2>4, <2>5, <2>6 DEF AudioTypeOK
<1>2. StreamsAligned
  BY DEF StreamsAligned, Only
<1>3. ConstantsAligned /\ ConstantLengths /\ LeftOfSignal /\ NoEarlyEnd
  BY DEF ConstantsAligned, ConstantLengths, LeftOfSignal, NoEarlyEnd, EOF
<1> QED BY <1>1, <1>2, <1>3 DEF AudioInv

LEMMA StartInv == AudioInv /\ Start => AudioInv'
<1> SUFFICES ASSUME AudioInv, Start PROVE AudioInv'
  OBVIOUS
<1> USE DEF AudioInv, Start, Mux!SwitchOn, srcVars, Playing, Waiting
<1>1. AudioTypeOK'
  BY DEF AudioTypeOK
<1>2. StreamsAligned'
  BY Zenon DEF StreamsAligned
<1>3. ConstantsAligned' /\ ConstantLengths' /\ LeftOfSignal' /\ NoEarlyEnd'
  BY DEF ConstantsAligned, ConstantLengths, LeftOfSignal, NoEarlyEnd, EOF
<1> QED BY <1>1, <1>2, <1>3

LEMMA StutterInv == AudioInv /\ UNCHANGED audioVars => AudioInv'
<1> SUFFICES ASSUME AudioInv, UNCHANGED audioVars PROVE AudioInv'
  OBVIOUS
<1> USE DEF AudioInv, audioVars, srcVars, muxVars, Playing, Waiting
<1>1. AudioTypeOK'
  BY DEF AudioTypeOK
<1>2. StreamsAligned'
  BY Zenon DEF StreamsAligned
<1>3. ConstantsAligned' /\ ConstantLengths' /\ LeftOfSignal' /\ NoEarlyEnd'
  BY DEF ConstantsAligned, ConstantLengths, LeftOfSignal, NoEarlyEnd, EOF
<1> QED BY <1>1, <1>2, <1>3

LEMMA EnqueueSignalInv ==
  ASSUME AudioInv, NEW id \in MsgSources, NEW n \in Signals,
         lengths[id] = 0, EnqueueSignal(id, n)
  PROVE  AudioInv'
<1> USE SourceIds DEF AudioInv, EnqueueSignal, EnqueuedLength, src_ready, muxVars
<1>1. AudioTypeOK'
  BY DEF AudioTypeOK
<1>2. ASSUME ~down, NEW s \in MsgSources
      PROVE  pipe'[s] \o queue'[s] = (OnAirPart(s) \o WaitingPart(s) \o LastPart(s))'
  <2>1. pipe[s] \o queue[s] = OnAirPart(s) \o WaitingPart(s) \o LastPart(s)
    BY <1>2, Zenon DEF StreamsAligned, OnAirPart, WaitingPart, LastPart
  <2>2. OnAirPart(s)' = OnAirPart(s) /\ WaitingPart(s)' = WaitingPart(s) /\ pipe' = pipe
    BY Zenon DEF OnAirPart, WaitingPart, Playing, Waiting
  <2>3. CASE s = id
    <3>1. queue[s] = <<>> /\ LastPart(s) = <<>>
      BY <2>3 DEF LastPart, Only
    <3>2. queue'[s] = <<n>> /\ LastPart(s)' = <<n>>
      BY <2>3, <3>1 DEF LastPart, Only, AudioTypeOK
    <3>3. pipe[s] = OnAirPart(s) \o WaitingPart(s)
      BY <2>1, <3>1, Parts, ConcatIsSeq, NothingAdded
    <3> QED BY <2>2, <3>2, <3>3, Zenon
  <2>4. CASE s # id
    <3>1. queue'[s] = queue[s] /\ LastPart(s)' = LastPart(s)
      BY <2>4 DEF LastPart, AudioTypeOK
    <3> QED BY <2>1, <2>2, <3>1, Zenon
  <2> QED BY <2>3, <2>4
<1>3. StreamsAligned'
  BY <1>2, Zenon DEF StreamsAligned, OnAirPart, WaitingPart, LastPart
<1>4. ConstantsAligned' /\ ConstantLengths' /\ LeftOfSignal' /\ NoEarlyEnd'
  BY DEF ConstantsAligned, ConstantLengths, LeftOfSignal, NoEarlyEnd, EOF,
         Playing, Waiting, AudioTypeOK
<1> QED BY <1>1, <1>3, <1>4

LEMMA ScheduleSrcInv ==
  ASSUME AudioInv, NEW id \in Sources, phase # "off", ScheduleSrc(id)
  PROVE  AudioInv'
<1> USE SourceIds DEF AudioInv, ScheduleSrc, Schedulable, scheduler_ready, LengthsAfter,
                      Mux!Submit
<1>1. slot = <<>> /\ slot' = <<[port |-> id, length |-> lengths[id]]>> /\ lengths[id] > 0
  OBVIOUS
<1>2. AudioTypeOK'
  <2>1. [port |-> id, length |-> lengths[id]] \in Segments
    BY <1>1 DEF Segments, AudioTypeOK
  <2>2. slot' \in Seq(Segments) /\ Len(slot') <= 1
    BY <1>1, <2>1
  <2>3. lengths' \in [Sources -> Nat]
    BY DEF AudioTypeOK
  <2> QED BY <2>2, <2>3 DEF AudioTypeOK
<1>3. ASSUME ~down, NEW s \in MsgSources
      PROVE  pipe'[s] \o queue'[s] = (OnAirPart(s) \o WaitingPart(s) \o LastPart(s))'
  <2>1. pipe[s] \o queue[s] = OnAirPart(s) \o WaitingPart(s) \o LastPart(s)
    BY <1>3, Zenon DEF StreamsAligned, OnAirPart, WaitingPart, LastPart
  <2>2. WaitingPart(s) = <<>> /\ OnAirPart(s)' = OnAirPart(s)
    BY <1>1, Zenon DEF OnAirPart, WaitingPart, Playing, Waiting, Only
  <2>3. pipe[s] \o queue[s] = OnAirPart(s) \o LastPart(s)
    BY <2>1, <2>2, Parts, NothingAdded
  <2>4. CASE s = id
    <3>1. WaitingPart(s)' = LastPart(s) /\ LastPart(s)' = <<>>
      BY <1>1, <2>4 DEF WaitingPart, LastPart, Waiting, Only, AudioTypeOK
    <3>2. OnAirPart(s) \o LastPart(s) \o <<>> = OnAirPart(s) \o LastPart(s)
      BY Parts, ConcatIsSeq, NothingAdded
    <3> QED BY <2>2, <2>3, <3>1, <3>2, Zenon
  <2>5. CASE s # id
    <3>1. WaitingPart(s)' = <<>> /\ LastPart(s)' = LastPart(s)
      BY <1>1, <2>5 DEF WaitingPart, LastPart, Waiting, Only, AudioTypeOK
    <3> QED BY <2>1, <2>2, <3>1, Zenon
  <2> QED BY <2>4, <2>5
<1>4. StreamsAligned'
  BY <1>3, Zenon DEF StreamsAligned, OnAirPart, WaitingPart, LastPart
<1>5. ConstantsAligned' /\ ConstantLengths' /\ LeftOfSignal' /\ NoEarlyEnd'
  BY <1>1 DEF ConstantsAligned, ConstantLengths, LeftOfSignal, NoEarlyEnd, EOF,
         Playing, Waiting, AudioTypeOK
<1> QED BY <1>2, <1>4, <1>5

LEMMA FlushSourcesInv == AudioInv /\ FlushSources => AudioInv'
  BY DEF AudioInv, FlushSources, EOF, muxVars, AudioTypeOK, StreamsAligned,
         ConstantsAligned, ConstantLengths, LeftOfSignal, NoEarlyEnd, EOF,
         Playing, Waiting, Only

LEMMA StopFlowgraphInv == AudioInv /\ StopFlowgraph => AudioInv'
  BY DEF AudioInv, StopFlowgraph, Mux!Halt, srcVars, muxVars, AudioTypeOK, StreamsAligned,
         ConstantsAligned, ConstantLengths, LeftOfSignal, NoEarlyEnd, EOF,
         Playing, Waiting, Only

LEMMA TakeMessageInv ==
  ASSUME AudioInv, NEW id \in MsgSources, TakeMessage(id)
  PROVE  AudioInv'
<1> USE SourceIds DEF AudioInv, TakeMessage, muxVars
<1>1. AudioTypeOK'
  <2>1. Head(queue[id]) \in Nat /\ Tail(queue[id]) = <<>>
    BY DEF AudioTypeOK
  <2>2. queue' \in [MsgSources -> Seq(Nat)] /\ \A s \in MsgSources : Len(queue'[s]) <= 1
    BY <2>1 DEF AudioTypeOK
  <2>3. pipe' \in [MsgSources -> Seq(Nat \ {0})]
    BY <2>1 DEF AudioTypeOK, EOF
  <2> QED BY <2>2, <2>3 DEF AudioTypeOK
<1>2. ASSUME ~down, NEW s \in MsgSources
      PROVE  pipe'[s] \o queue'[s] = (OnAirPart(s) \o WaitingPart(s) \o LastPart(s))'
  <2>1. pipe[s] \o queue[s] = OnAirPart(s) \o WaitingPart(s) \o LastPart(s)
    BY <1>2, Zenon DEF StreamsAligned, OnAirPart, WaitingPart, LastPart
  <2>2. /\ OnAirPart(s)' = OnAirPart(s) /\ WaitingPart(s)' = WaitingPart(s)
        /\ LastPart(s)' = LastPart(s)
    BY Zenon DEF OnAirPart, WaitingPart, LastPart, Playing, Waiting
  <2>3. CASE s = id
    <3>1. Head(queue[id]) # EOF
      BY <1>2 DEF NoEarlyEnd
    <3>2. DOMAIN pipe = MsgSources /\ DOMAIN queue = MsgSources
      BY DEF AudioTypeOK
    <3>3. pipe'[s] = Append(pipe[s], Head(queue[s])) /\ queue'[s] = Tail(queue[s])
      BY <2>3, <3>1, <3>2, Zenon
    <3>4. pipe'[s] \o queue'[s] = pipe[s] \o queue[s]
      <4>1. pipe[s] \in Seq(Nat) /\ queue[s] \in Seq(Nat) /\ queue[s] # <<>>
        BY <2>3, Parts
      <4>2. Append(pipe[s], Head(queue[s])) \o Tail(queue[s]) = pipe[s] \o queue[s]
        BY <4>1, HeadMoves, Zenon
      <4> QED BY <3>3, <4>2, Zenon
    <3> QED BY <2>1, <2>2, <3>4, Zenon
  <2>4. CASE s # id
    <3>1. queue'[s] = queue[s] /\ pipe'[s] = pipe[s]
      BY <2>4 DEF AudioTypeOK
    <3> QED BY <2>1, <2>2, <3>1, Zenon
  <2> QED BY <2>3, <2>4
<1>3. StreamsAligned'
  BY <1>2, Zenon DEF StreamsAligned, OnAirPart, WaitingPart, LastPart
<1>4. ConstantsAligned' /\ ConstantLengths' /\ LeftOfSignal' /\ NoEarlyEnd'
  BY DEF ConstantsAligned, ConstantLengths, LeftOfSignal, NoEarlyEnd, EOF,
         Playing, Waiting, AudioTypeOK
<1> QED BY <1>1, <1>3, <1>4

LEMMA SendItemInv == AudioInv /\ SendItem => AudioInv'
<1> SUFFICES ASSUME AudioInv, SendItem PROVE AudioInv'
  OBVIOUS
<1> DEFINE p == onAir[1].port
<1> USE SourceIds DEF AudioInv
<1>1. /\ onAir # <<>> /\ Playing(p) /\ left \in 1..onAir[1].length /\ left' = left - 1
      /\ onAir' = (IF left = 1 THEN <<>> ELSE onAir) /\ left \in Nat \ {0}
      /\ UNCHANGED <<lengths, queue, down, slot, phase>>
  BY DEF SendItem, Mux!Emit, LeftOfSignal, Playing, AudioTypeOK
<1>2. p \in Sources \cup {0} /\ onAir[1] \in Segments
  <2>1. onAir[1] \in Segments
    BY <1>1 DEF AudioTypeOK
  <2> QED BY <2>1 DEF Segments
<1> HIDE DEF p
<1>3. p \in MsgSources => /\ pipe[p] # <<>> /\ pipe' = [pipe EXCEPT ![p] = WithoutItem(@)]
                         /\ UNCHANGED pos
  BY DEF SendItem, p
<1>4. p \notin MsgSources =>
        pos' = [pos EXCEPT ![p] = (@ + 1) % ConstLength[p]] /\ UNCHANGED pipe
  BY DEF SendItem, p
<1>5. \A q : Playing(q) <=> q = p
  BY <1>1 DEF Playing, p
<1>6. \A q : Playing(q)' <=> q = p /\ left # 1
  BY <1>1 DEF Playing, p
<1>7. p \in ConstPorts => /\ pos[p] = ConstLength[p] - left
                         /\ left \in 1..ConstLength[p]
                         /\ pos'[p] = IF left = 1 THEN 0 ELSE ConstLength[p] - left'
  <2> SUFFICES ASSUME p \in ConstPorts
               PROVE  /\ pos[p] = ConstLength[p] - left
                      /\ left \in 1..ConstLength[p]
                      /\ pos'[p] = IF left = 1 THEN 0 ELSE ConstLength[p] - left'
    OBVIOUS
  <2>1. pos[p] = ConstLength[p] - left /\ left \in 1..ConstLength[p]
    BY <1>1, <1>5 DEF ConstantsAligned, ConstantLengths
  <2>2. pos'[p] = (pos[p] + 1) % ConstLength[p]
    BY <1>4 DEF AudioTypeOK
  <2>3. pos[p] + 1 = ConstLength[p] - left'
    BY <1>1, <2>1
  <2>4. CASE left = 1
    BY <1>1, <2>1, <2>2, <2>3, <2>4, ModSelf
  <2>5. CASE left # 1
    <3>1. ConstLength[p] - left' \in Nat /\ ConstLength[p] - left' < ConstLength[p]
      BY <1>1, <2>1, <2>5
    <3> QED BY <2>1, <2>2, <2>3, <2>5, <3>1, ModSmall
  <2> QED BY <2>1, <2>4, <2>5
<1>8. AudioTypeOK'
  <2>1. pipe' \in [MsgSources -> Seq(Nat \ {0})]
    <3>1. CASE p \in MsgSources
      <4>1. pipe[p] \in Seq(Nat \ {0}) /\ pipe[p] # <<>>
        BY <1>3, <3>1 DEF AudioTypeOK
      <4>2. WithoutItem(pipe[p]) \in Seq(Nat \ {0})
        BY <4>1 DEF WithoutItem
      <4> QED BY <1>3, <3>1, <4>2 DEF AudioTypeOK
    <3>2. CASE p \notin MsgSources
      BY <1>4, <3>2 DEF AudioTypeOK
    <3> QED BY <3>1, <3>2
  <2>2. pos' \in [ConstPorts -> Nat] /\ \A q \in ConstPorts : pos'[q] < ConstLength[q]
    <3>1. CASE p \in MsgSources
      BY <1>3, <3>1 DEF AudioTypeOK
    <3>2. CASE p \notin MsgSources
      <4>1. p \in ConstPorts /\ pos'[p] \in Nat /\ pos'[p] < ConstLength[p]
        BY <1>1, <1>2, <1>7, <3>2
      <4>2. pos' = [pos EXCEPT ![p] = pos'[p]]
        BY <1>4, <3>2, <4>1 DEF AudioTypeOK
      <4> QED BY <4>1, <4>2 DEF AudioTypeOK
    <3> QED BY <3>1, <3>2
  <2>3. onAir' \in Seq(Segments) /\ Len(onAir') <= 1 /\ left' \in Nat
    BY <1>1 DEF AudioTypeOK
  <2> QED BY <1>1, <2>1, <2>2, <2>3 DEF AudioTypeOK
<1>9. ASSUME ~down, NEW s \in MsgSources
      PROVE  pipe'[s] \o queue'[s] = (OnAirPart(s) \o WaitingPart(s) \o LastPart(s))'
  <2>1. pipe[s] \o queue[s] = OnAirPart(s) \o WaitingPart(s) \o LastPart(s)
    BY <1>9, Zenon DEF StreamsAligned, OnAirPart, WaitingPart, LastPart
  <2>2. WaitingPart(s)' = WaitingPart(s) /\ LastPart(s)' = LastPart(s) /\ queue' = queue
    BY <1>1, Zenon DEF WaitingPart, LastPart, Waiting
  <2>3. CASE s # p
    <3>1. pipe'[s] = pipe[s]
      BY <1>3, <1>4, <2>3 DEF AudioTypeOK
    <3>2. OnAirPart(s)' = OnAirPart(s)
      BY <1>5, <1>6, <2>3 DEF OnAirPart, Only
    <3> QED BY <2>1, <2>2, <3>1, <3>2, Zenon
  <2>4. CASE s = p
    <3> DEFINE r == WaitingPart(s) \o LastPart(s)
    <3>1. r \in Seq(Nat) /\ pipe[s] \in Seq(Nat) /\ queue[s] \in Seq(Nat)
      BY Parts, ConcatIsSeq
    <3>2. OnAirPart(s) = <<left>> /\ OnAirPart(s)' = IF left = 1 THEN <<>> ELSE <<left'>>
      BY <1>5, <1>6, <2>4 DEF OnAirPart, Only
    <3>3. pipe[s] \o queue[s] = <<left>> \o r
      BY <2>1, <3>2, <1>1, Parts, ConsConcat
    <3> HIDE DEF r
    <3>4. /\ left = 1 => WithoutItem(pipe[s]) \o queue[s] = r
          /\ left # 1 => Splits(WithoutItem(pipe[s]) \o queue[s], left - 1, r)
      <4>1. pipe[s] # <<>> /\ left \in Nat /\ left # 0
        BY <1>1, <1>3, <2>4
      <4>2. Splits(pipe[s] \o queue[s], left, r)
        BY <3>3, Zenon DEF Splits
      <4> QED BY <3>1, <4>1, <4>2, ItemLeaves, Zenon
    <3>5. pipe'[s] = WithoutItem(pipe[s])
      <4>1. DOMAIN pipe = MsgSources
        BY DEF AudioTypeOK
      <4> QED BY <1>3, <2>4, <4>1, Zenon
    <3>6. CASE left = 1
      <4>1. <<>> \o WaitingPart(s) \o LastPart(s) = r
        BY Parts, NothingAdded DEF r
      <4> QED BY <2>2, <3>2, <3>4, <3>5, <3>6, <4>1, Zenon
    <3>7. CASE left # 1
      <4>1. left' \in Nat /\ left' = left - 1
        BY <1>1
      <4>2. <<left'>> \o WaitingPart(s) \o LastPart(s) = <<left'>> \o r
        BY <4>1, Parts, ConsConcat, Zenon DEF r
      <4> QED BY <2>2, <3>2, <3>4, <3>5, <3>7, <4>1, <4>2, Zenon DEF Splits
    <3> QED BY <3>6, <3>7
  <2> QED BY <2>3, <2>4
<1>10. StreamsAligned'
  BY <1>1, <1>9, Zenon DEF StreamsAligned, OnAirPart, WaitingPart, LastPart
<1>11. ConstantsAligned'
  <2>1. \A q \in ConstPorts : q # p => pos'[q] = pos[q]
    BY <1>3, <1>4 DEF AudioTypeOK
  <2> QED BY <1>5, <1>6, <1>7, <2>1 DEF ConstantsAligned
<1>12. ConstantLengths' /\ LeftOfSignal' /\ NoEarlyEnd'
  <2>1. onAir' # <<>> => onAir' = onAir /\ left' \in 1..onAir[1].length
    <3>1. onAir[1].length \in Nat
      BY <1>2 DEF Segments
    <3> QED BY <1>1, <3>1
  <2>2. \A q : Playing(q)' => Playing(q) /\ onAir' = onAir
    BY <2>1 DEF Playing
  <2> QED BY <1>1, <2>1, <2>2 DEF ConstantLengths, LeftOfSignal, NoEarlyEnd, Waiting
<1> QED BY <1>8, <1>10, <1>11, <1>12

LEMMA PerformInv == AudioInv /\ Mux!Perform /\ UNCHANGED srcVars => AudioInv'
<1> SUFFICES ASSUME AudioInv, Mux!Perform, UNCHANGED srcVars PROVE AudioInv'
  OBVIOUS
<1> USE SourceIds DEF AudioInv
<1>1. /\ onAir = <<>> /\ slot # <<>> /\ slot[1] \in Segments
      /\ onAir' = <<slot[1]>> /\ slot' = <<>> /\ left' = slot[1].length
      /\ UNCHANGED <<lengths, queue, pipe, pos, down, phase>>
  BY DEF Mux!Perform, Mux!PutOnAir, srcVars, AudioTypeOK
<1>2. slot[1].length \in Nat \ {0}
  BY <1>1 DEF Segments
<1>3. \A q : ~Playing(q) /\ ~Waiting(q)' /\ (Playing(q)' <=> Waiting(q))
  BY <1>1 DEF Playing, Waiting
<1>4. AudioTypeOK'
  <2>1. onAir' \in Seq(Segments) /\ Len(onAir') <= 1
    BY <1>1
  <2>2. slot' \in Seq(Segments) /\ Len(slot') <= 1
    BY <1>1
  <2> QED BY <1>1, <1>2, <2>1, <2>2 DEF AudioTypeOK
<1>5. ASSUME ~down, NEW s \in MsgSources
      PROVE  pipe'[s] \o queue'[s] = (OnAirPart(s) \o WaitingPart(s) \o LastPart(s))'
  <2>1. pipe[s] \o queue[s] = OnAirPart(s) \o WaitingPart(s) \o LastPart(s)
    BY <1>5, Zenon DEF StreamsAligned, OnAirPart, WaitingPart, LastPart
  <2>2. /\ OnAirPart(s) = <<>> /\ WaitingPart(s)' = <<>> /\ OnAirPart(s)' = WaitingPart(s)
        /\ LastPart(s)' = LastPart(s)
    BY <1>1, <1>3, Zenon DEF OnAirPart, WaitingPart, LastPart, Only
  <2>3. <<>> \o WaitingPart(s) = WaitingPart(s) /\ WaitingPart(s) \o <<>> = WaitingPart(s)
    BY Parts, NothingAdded
  <2> QED BY <1>1, <2>1, <2>2, <2>3, Zenon
<1>6. StreamsAligned'
  BY <1>1, <1>5, Zenon DEF StreamsAligned, OnAirPart, WaitingPart, LastPart
<1>7. ConstantsAligned' /\ ConstantLengths' /\ LeftOfSignal' /\ NoEarlyEnd'
  <2>1. ConstantsAligned'
    BY <1>1, <1>3 DEF ConstantsAligned, ConstantLengths
  <2>2. ConstantLengths'
    BY <1>1, <1>3 DEF ConstantLengths
  <2>3. LeftOfSignal' /\ NoEarlyEnd'
    BY <1>1, <1>2 DEF LeftOfSignal, NoEarlyEnd
  <2> QED BY <2>1, <2>2, <2>3
<1> QED BY <1>4, <1>6, <1>7

LEMMA PlayToneInv == AudioInv /\ Mux!PlayTone /\ UNCHANGED srcVars => AudioInv'
<1> SUFFICES ASSUME AudioInv, Mux!PlayTone, UNCHANGED srcVars PROVE AudioInv'
  OBVIOUS
<1> USE SourceIds DEF AudioInv
<1>1. /\ onAir = <<>> /\ slot = <<>> /\ slot' = <<>>
      /\ onAir' = <<[port |-> 0, length |-> ConstLength[0]]>> /\ left' = ConstLength[0]
      /\ ConstLength[0] \in Nat \ {0}
      /\ UNCHANGED <<lengths, queue, pipe, pos, down, phase>>
  BY DEF Mux!PlayTone, Mux!PutOnAir, srcVars
<1>2. \A q : ~Playing(q) /\ ~Waiting(q) /\ ~Waiting(q)' /\ (Playing(q)' <=> q = 0)
  BY <1>1 DEF Playing, Waiting
<1>3. AudioTypeOK'
  <2>1. onAir' \in Seq(Segments) /\ Len(onAir') <= 1
    BY <1>1 DEF Segments
  <2> QED BY <1>1, <2>1 DEF AudioTypeOK
<1>4. StreamsAligned'
  <2>1. ASSUME NEW s \in MsgSources
        PROVE  /\ OnAirPart(s)' = OnAirPart(s) /\ WaitingPart(s)' = WaitingPart(s)
               /\ LastPart(s)' = LastPart(s)
    <3>1. s # 0
      OBVIOUS
    <3> QED BY <1>1, <1>2, <3>1, Zenon DEF OnAirPart, WaitingPart, LastPart, Only
  <2> QED BY <1>1, <2>1, Zenon DEF StreamsAligned, OnAirPart, WaitingPart, LastPart
<1>5. ConstantsAligned'
  BY <1>1, <1>2 DEF ConstantsAligned
<1>6. ConstantLengths' /\ LeftOfSignal' /\ NoEarlyEnd'
  BY <1>1, <1>2 DEF ConstantLengths, LeftOfSignal, NoEarlyEnd
<1> QED BY <1>3, <1>4, <1>5, <1>6

LEMMA FlowgraphInv == AudioInv /\ Flowgraph => AudioInv'
  BY TakeMessageInv, SendItemInv, PerformInv, PlayToneInv DEF Flowgraph, NextSignal

LEMMA ClientInv == AudioInv /\ Client => AudioInv'
  BY StartInv, EnqueueSignalInv, ScheduleSrcInv, FlushSourcesInv, StopFlowgraphInv DEF Client

-----------------------------------------------------------------------------
(* Theorems *)

THEOREM AudioInvariant == AudioSpec => []AudioInv
<1>1. AudioInv /\ [AudioNext]_audioVars => AudioInv'
  BY ClientInv, FlowgraphInv, StutterInv DEF AudioNext
<1> QED BY InitInv, <1>1, PTL DEF AudioSpec

\* Types: a message queue never holds more than one message.
THEOREM AudioTypeCorrect == AudioSpec => []AudioTypeOK
<1>1. AudioInv => AudioTypeOK
  BY DEF AudioInv
<1> QED BY AudioInvariant, <1>1, PTL

\* The books balance, whatever the lengths of the signals and the size of the buffer,
\* and in whatever order an obedient client uses however many sources.
THEOREM SignalsWhole == AudioSpec => []StreamsAligned
<1>1. AudioInv => StreamsAligned
  BY DEF AudioInv
<1> QED BY AudioInvariant, <1>1, PTL

\* The tone and every other constant signal is sent from its beginning.
THEOREM ConstantsWhole == AudioSpec => []ConstantsAligned
<1>1. AudioInv => ConstantsAligned
  BY DEF AudioInv
<1> QED BY AudioInvariant, <1>1, PTL

\* Whatever the client and the flowgraph do is a step of the playlist, or none: every
\* request is one that the mux may be given (MuxProofs assumes no other), and an
\* item is sent only when one is left.
THEOREM PlaysAPlaylist == AudioSpec => Mux!SafeSpec
<1>1. AudioInit => Mux!Init
  BY DEF AudioInit
<1>2. AudioInv /\ [AudioNext]_audioVars => [Mux!Next]_(Mux!vars)
  <2> SUFFICES ASSUME AudioInv, [AudioNext]_audioVars PROVE [Mux!Next]_(Mux!vars)
    OBVIOUS
  <2>1. CASE UNCHANGED muxVars
    BY <2>1 DEF muxVars, Mux!vars
  <2>2. CASE Mux!SwitchOn \/ Mux!Perform \/ Mux!PlayTone \/ Mux!Halt
    BY <2>2 DEF Mux!Next
  <2>3. CASE SendItem
    <3>1. Mux!Emit(1) /\ 1 \in 1..left
      BY <2>3 DEF SendItem, Mux!Emit, AudioInv, LeftOfSignal, AudioTypeOK
    <3>2. Mux!EmitSome
      BY <3>1, Zenon DEF Mux!EmitSome
    <3> QED BY <3>2 DEF Mux!Next
  <2>4. ASSUME NEW id \in Sources, ScheduleSrc(id), phase # "off"
        PROVE  Mux!Next
    <3>1. lengths[id] \in Nat \ {0}
      BY <2>4 DEF ScheduleSrc, Schedulable, AudioInv, AudioTypeOK
    <3>2. [port |-> id, length |-> lengths[id]] \in [port : Sources, length : Nat \ {0}]
      BY <3>1
    <3>3. Mux!Submit([port |-> id, length |-> lengths[id]])
      BY <2>4 DEF ScheduleSrc
    <3> QED BY <3>2, <3>3, Zenon DEF Mux!Next
  <2>5. CASE Client
    BY <2>1, <2>2, <2>4, <2>5
       DEF Client, Start, EnqueueSignal, FlushSources, StopFlowgraph, muxVars
  <2>6. CASE Flowgraph
    BY <2>1, <2>2, <2>3, <2>6 DEF Flowgraph, TakeMessage, NextSignal, muxVars
  <2> QED BY <2>1, <2>5, <2>6 DEF AudioNext, audioVars
<1> QED BY <1>1, <1>2, AudioInvariant, PTL DEF AudioSpec, Mux!SafeSpec

-----------------------------------------------------------------------------
(* Nothing starves *)

\* Nothing adds up to nothing.
LEMMA EmptySum == FoldSeq(+, 0, <<>>) = 0
<1> DEFINE Body(g) ==
      [s \in SUBSET (DOMAIN <<>>) |->
         IF s = {} THEN 0 ELSE <<>>[CHOOSE x \in s : TRUE] + g[s \ {CHOOSE x \in s : TRUE}]]
    iter == CHOOSE g : g = Body(g)
<1>1. FoldSeq(+, 0, <<>>) = iter[DOMAIN <<>>]
  BY Zenon DEF FoldSeq, FoldFunction, FoldFunctionOnSet, MapThenFoldSet
<1>2. DOMAIN <<>> = {}
  OBVIOUS
<1>3. \E g : g = Body(g)
  <2> DEFINE z == [s \in SUBSET (DOMAIN <<>>) |-> 0]
  <2>1. z = Body(z)
    BY <1>2
  <2> QED BY <2>1
<1>4. iter = Body(iter)
  BY <1>3, Zenon
<1>5. iter[{}] = 0
  BY <1>2, <1>4
<1> QED BY <1>1, <1>2, <1>5

\* An empty buffer has room, whatever its size.
LEMMA EmptyHasRoom ==
  ASSUME NEW s \in MsgSources, pipe[s] = <<>>
  PROVE  RoomFor(s)
<1>1. FoldSeq(+, 0, pipe[s]) = 0
  BY EmptySum
<1>2. 0 <= BufferSize
  BY SourcesAssumption
<1> QED BY <1>1, <1>2 DEF RoomFor

\* A stream that something is owed to is not empty.
LEMMA OwedIsThere ==
  ASSUME NEW n \in Nat, NEW t \in Seq(Nat), NEW u \in Seq(Nat)
  PROVE  <<n>> \o t \o u # <<>>
OBVIOUS

\* The mux is never in the middle of a signal whose items do not come.
LEMMA AlwaysMoves == AudioInv /\ ~down => FlowgraphMoves
<1> SUFFICES ASSUME AudioInv, ~down, onAir # <<>>, onAir[1].port \in MsgSources,
                    pipe[onAir[1].port] = <<>>
             PROVE  \E s \in MsgSources : queue[s] # <<>> /\ RoomFor(s)
  BY DEF FlowgraphMoves
<1> DEFINE s == onAir[1].port
<1>1. s \in MsgSources /\ Playing(s) /\ RoomFor(s)
  BY EmptyHasRoom DEF Playing
<1> HIDE DEF s
<1>2. pipe[s] \o queue[s] = OnAirPart(s) \o WaitingPart(s) \o LastPart(s)
  BY <1>1, Zenon DEF AudioInv, StreamsAligned, OnAirPart, WaitingPart, LastPart
<1>3. OnAirPart(s) = <<left>> /\ left \in Nat
  BY <1>1 DEF OnAirPart, Only, AudioInv, AudioTypeOK
<1>4. /\ queue[s] \in Seq(Nat)
      /\ WaitingPart(s) \in Seq(Nat) /\ LastPart(s) \in Seq(Nat)
  BY <1>1, Parts DEF AudioInv
<1>5. pipe[s] \o queue[s] # <<>>
  BY <1>2, <1>3, <1>4, OwedIsThere
<1>6. queue[s] # <<>>
  <2>1. pipe[s] = <<>> /\ <<>> \o <<>> = <<>>
    BY NothingAdded DEF s
  <2> QED BY <1>5, <2>1, Zenon
<1> QED BY <1>1, <1>6

\* As long as the queues are open a running flowgraph can always go on, for every number
\* of sources, every signal and every size of the buffer: the mux waits for no item
\* that is neither in the pipe nor can get there.
THEOREM NeverStarves == AudioSpec => [](phase = "on" /\ ~down => FlowgraphMoves)
<1>1. AudioInv => (phase = "on" /\ ~down => FlowgraphMoves)
  BY AlwaysMoves
<1> QED BY AudioInvariant, <1>1, PTL

=============================================================================
