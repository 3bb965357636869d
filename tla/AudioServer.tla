---------------------------- MODULE AudioServer ----------------------------
(***************************************************************************)
(* audio_server (src/src/lib/audio_interface.py): the signal sources in    *)
(* front of the multiplexer and the operations that feed and schedule them.*)
(* The multiplexer itself is Playlist, which Mux implements.               *)
(*                                                                         *)
(* A source is constant (gr.vector_source_f, repeated for ever) or a       *)
(* message source: a queue that holds one message, read by the thread of   *)
(* gr.message_source, which copies the message into the buffer in front of *)
(* the mux.  A request for a source only says how many items of that       *)
(* stream to send.  Nothing but the arithmetic of the lengths ties a       *)
(* request to the signal it was meant for.                                 *)
(***************************************************************************)
EXTENDS Integers, SequencesExt

CONSTANTS
  MsgSources,    \* ids add_source() returned for message sources
  ConstLength,   \* items in the signal of each constant source, 0 is the tone
  Signals,       \* lengths of the signals that may be enqueued
  BufferSize     \* items the buffer between message source and mux holds

ConstPorts == DOMAIN ConstLength
Sources == MsgSources \cup (ConstPorts \ {0})   \* the ids src_id_valid accepts

\* beacon.py enqueues at least its pause, so no signal is empty.
ASSUME SourcesAssumption ==
  /\ MsgSources \subseteq Nat \ {0} /\ ConstPorts \subseteq Nat
  /\ MsgSources \cap ConstPorts = {} /\ 0 \in ConstPorts
  /\ ConstLength \in [ConstPorts -> Nat \ {0}]
  /\ Signals \subseteq Nat \ {0}
  /\ BufferSize \in Nat

VARIABLES
  lengths,  \* source id -> items the next schedule_src asks for
  queue,    \* message source -> its message queue, item counts, EOF is 0
  pipe,     \* message source -> rest of each message it took, not yet sent
  pos,      \* constant port -> position in its repeated signal
  down,     \* stop() has flushed the queues
  slot, onAir, left, phase   \* the multiplexer

muxVars == <<slot, onAir, left, phase>>
srcVars == <<lengths, queue, pipe, pos, down>>
audioVars == <<srcVars, muxVars>>

Mux == INSTANCE Playlist WITH
  Accepted <- [port : Sources, length : Nat \ {0}],
  Tone <- [port |-> 0, length |-> ConstLength[0]]

EOF == 0

ShortLengths ==                                                  \* faulty
  [id \in Sources |-> IF id \in MsgSources THEN 0 ELSE ConstLength[id] - 1]
FirstLengths == [id \in Sources |-> IF id \in MsgSources THEN 0 ELSE ConstLength[id]]
NoMessages == [s \in MsgSources |-> <<>>]
Beginning == [p \in ConstPorts |-> 0]

\* After __init__ and the add_source() calls.
AudioInit ==
  /\ lengths = FirstLengths /\ queue = NoMessages /\ pipe = NoMessages
  /\ pos = Beginning /\ down = FALSE
  /\ Mux!Init

-----------------------------------------------------------------------------
(* Operations of the scheduling thread *)

\* tb.start() succeeds.
Start == Mux!SwitchOn /\ UNCHANGED srcVars

ReadyRegardless(id) == TRUE                                      \* faulty
src_ready(id) == id \in MsgSources => queue[id] = <<>>

scheduler_ready == slot = <<>>

CountedTwice(n) == n + 1                                         \* faulty
EnqueuedLength(n) == n

\* enqueue_signal with a signal of n items, when it returns True.
EnqueueSignal(id, n) ==
  /\ id \in MsgSources
  /\ src_ready(id)
  /\ queue' = [queue EXCEPT ![id] = Append(@, n)]
  /\ lengths' = [lengths EXCEPT ![id] = EnqueuedLength(n)]
  /\ UNCHANGED <<pipe, pos, down, muxVars>>

\* schedule_src returns True.
Schedulable(id) == scheduler_ready /\ lengths[id] > 0

LengthsKept(id) == lengths                                       \* faulty
LengthsAfter(id) == IF id \in MsgSources THEN [lengths EXCEPT ![id] = 0] ELSE lengths

\* schedule_src(id): activate_port refuses every port before the topology was
\* checked, and its result is not looked at.
ScheduleSrc(id) ==
  /\ Schedulable(id)
  /\ IF phase = "off"
       THEN UNCHANGED muxVars
       ELSE Mux!Submit([port |-> id, length |-> lengths[id]])
  /\ lengths' = LengthsAfter(id)
  /\ UNCHANGED <<queue, pipe, pos, down>>

\* stop(), first half: every message queue is flushed and gets the EOF message.
FlushSources ==
  /\ queue' = [s \in MsgSources |-> <<EOF>>]
  /\ down' = TRUE
  /\ UNCHANGED <<lengths, pipe, pos, muxVars>>

\* stop(), second half: tb.stop(), which does nothing if the flowgraph is not running.
StopFlowgraph ==
  /\ down
  /\ IF phase = "on" THEN Mux!Halt ELSE UNCHANGED muxVars
  /\ UNCHANGED srcVars

-----------------------------------------------------------------------------
(* The threads of the flowgraph *)

RoomFor(s) == FoldSeq(+, 0, pipe[s]) <= BufferSize

\* The message source has copied the message it held into the buffer and takes
\* the next one from the queue; an EOF message carries no items.
TakeMessage(s) ==
  /\ phase = "on"
  /\ queue[s] # <<>> /\ RoomFor(s)
  /\ pipe' = [pipe EXCEPT ![s] = IF Head(queue[s]) = EOF THEN @
                                                       ELSE Append(@, Head(queue[s]))]
  /\ queue' = [queue EXCEPT ![s] = Tail(@)]
  /\ UNCHANGED <<lengths, pos, down, muxVars>>

\* The stream without its first item.
WithoutItem(stream) ==
  IF stream[1] = 1 THEN Tail(stream) ELSE [stream EXCEPT ![1] = @ - 1]

\* The mux sends one item of the port that is on the air; an input without
\* items makes general_work return 0.
SendItem ==
  /\ Mux!Emit(1)
  /\ LET p == onAir[1].port IN
       IF p \in MsgSources
         THEN /\ pipe[p] # <<>>
              /\ pipe' = [pipe EXCEPT ![p] = WithoutItem(@)]
              /\ UNCHANGED pos
         ELSE /\ pos' = [pos EXCEPT ![p] = (@ + 1) % ConstLength[p]]
              /\ UNCHANGED pipe
  /\ UNCHANGED <<lengths, queue, down>>

\* The mux turns to the next signal.
NextSignal == (Mux!Perform \/ Mux!PlayTone) /\ UNCHANGED srcVars

Flowgraph == (\E s \in MsgSources : TakeMessage(s)) \/ SendItem \/ NextSignal

FlowgraphFairness ==
  /\ \A s \in MsgSources : WF_audioVars(TakeMessage(s))
  /\ WF_audioVars(SendItem)
  /\ WF_audioVars(NextSignal)

-----------------------------------------------------------------------------
\* stop() was not called yet, or is over.
Settled == ~down \/ phase = "halted"

\* A client as the interface wants it: the flowgraph is started first, and a signal
\* that was enqueued is scheduled before the next one is enqueued.  Between the halves
\* of stop() it enqueues nothing; afterwards it may go on, in vain.
Client ==
  \/ Start
  \/ /\ phase # "off"
     /\ \/ \E id \in MsgSources, n \in Signals :
             lengths[id] = 0 /\ Settled /\ EnqueueSignal(id, n)
        \/ \E id \in Sources : ScheduleSrc(id)
        \/ Settled /\ FlushSources
        \/ StopFlowgraph

AudioNext == Client \/ Flowgraph

AudioSpec == AudioInit /\ [][AudioNext]_audioVars /\ FlowgraphFairness

-----------------------------------------------------------------------------
(* Properties *)

Segments == [port : Sources \cup {0}, length : Nat \ {0}]

\* Types; a message queue never holds more than one message (depth 1,
\* audio_interface.py:80), so no insert_tail ever blocks the beacon.
AudioTypeOK ==
  /\ lengths \in [Sources -> Nat]
  /\ queue \in [MsgSources -> Seq(Nat)] /\ \A s \in MsgSources : Len(queue[s]) <= 1
  /\ pipe \in [MsgSources -> Seq(Nat \ {0})]
  /\ pos \in [ConstPorts -> Nat] /\ \A p \in ConstPorts : pos[p] < ConstLength[p]
  /\ down \in BOOLEAN
  /\ slot \in Seq(Segments) /\ Len(slot) <= 1
  /\ onAir \in Seq(Segments) /\ Len(onAir) <= 1
  /\ left \in Nat /\ phase \in {"off", "on", "halted"}

Only(cond, n) == IF cond THEN <<n>> ELSE <<>>
Playing(p) == onAir # <<>> /\ onAir[1].port = p
Waiting(p) == slot # <<>> /\ slot[1].port = p

\* The books balance: what is in the stream of a message source is the rest of the
\* signal on the air, then the signal that waits in the mux, then the one that
\* is not scheduled yet.  So every signal is sent from its first item to its last
\* and none is mixed with its neighbour, and the mux never waits for items that
\* do not come.
StreamsAligned ==
  ~down => \A s \in MsgSources :
    pipe[s] \o queue[s] =
      Only(Playing(s), left) \o Only(Waiting(s), slot[1].length)
        \o Only(lengths[s] > 0, lengths[s])

\* What lets a thread of the running flowgraph take a step.
FlowgraphMoves ==
  \/ \E s \in MsgSources : queue[s] # <<>> /\ RoomFor(s)
  \/ onAir = <<>>
  \/ onAir[1].port \in MsgSources => pipe[onAir[1].port] # <<>>

\* A constant signal is sent from its beginning: the tone joins itself without a jump
\* of phase and the Morse identification starts with its first dot.
ConstantsAligned ==
  \A p \in ConstPorts :
    pos[p] = IF Playing(p) THEN ConstLength[p] - left ELSE 0

\* Nothing waits for ever: a source becomes ready for another signal, whatever is
\* on the air, and a scheduled request comes to its end on the air.
SignalsDrain ==
  /\ \A s \in MsgSources : queue[s] # <<>> ~> (queue[s] = <<>> \/ down)
  /\ \A id \in Sources :
       Waiting(id) ~> ((Playing(id) /\ left = 1) \/ down)

=============================================================================
