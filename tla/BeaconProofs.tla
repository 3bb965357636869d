---------------------------- MODULE BeaconProofs ----------------------------
(***************************************************************************)
(* What the beacon keeps for every length of its signals, every number of  *)
(* minutes and of interrupts, and every size of the buffer, through        *)
(* failures and respawns.                                                  *)
(***************************************************************************)
EXTENDS Beacon, AudioServerProofs

\* The states that only a program whose audio started comes to.
OnAirStates == {"sstv_enqueue", "pre_sstv_activation", "sstv_activation",
  "pre_morse_activation", "morse_activation", "post_morse_activation",
  "start_minute_timer", "wait_on_minute_timer"}

\* The states that a program whose flowgraph does not run does not come to.
IdentifiedStates ==
  {"morse_activation", "post_morse_activation", "start_minute_timer", "wait_on_minute_timer"}

\* The flowgraph runs and the queues are open.
OnTheAir == phase = "on" /\ ~down

\* The flowgraph never ran and stop() has filled the queue, where the loop waits in vain.
NeverStarted ==
  phase = "off" /\ down /\ queue[SstvSrc] # <<>> /\ state \notin OnAirStates

\* A ^C in audio.start() stopped the flowgraph; the loop may schedule one picture, in vain,
\* and then waits in vain for the slot.
StoppedAtStart ==
  /\ phase = "halted" /\ down /\ interrupts # 0 /\ state \notin IdentifiedStates
  /\ state # "cleanup" => (slot # <<>> <=> state = "pre_morse_activation")

\* How the flowgraph and the audio server stand at audio.start(), in the handler around it,
\* in the loop, and in the finally clause.
AudioState ==
  /\ state = "init" => phase = "off" /\ ~down /\ slot = <<>> /\ onAir = <<>>
  /\ state \in {"giving_up", "halting"} =>
       /\ phase = "off" \/ (phase = "on" /\ interrupts # 0)
       /\ slot = <<>>
  /\ state = "giving_up" => ~down
  /\ state = "halting" => down /\ (phase = "off" => queue[SstvSrc] # <<>>)
  /\ state \in LoopStates \cup {"returned", "cleanup"} =>
       OnTheAir \/ NeverStarted \/ StoppedAtStart
  /\ state = "stop_flowgraph" => down

\* A picture is enqueued, and not yet scheduled, in two states only.
Enqueued ==
  /\ state \in LoopStates \cup {"init", "giving_up", "halting", "returned"} =>
       (lengths[SstvSrc] > 0 <=> state \in {"pre_sstv_activation", "sstv_activation"})
  /\ state = "sstv_enqueue" => queue[SstvSrc] = <<>>

\* Nobody but the loop fills the slot that it polled.
SlotPolled ==
  state \in {"sstv_activation", "morse_activation", "start_minute_timer"} => slot = <<>>

\* What waits in the slot behind the picture is the identification.
PictureFirst ==
  state \in {"post_morse_activation", "start_minute_timer"} =>
    IF slot = <<>> THEN ~Playing(SstvSrc) ELSE slot[1].port # SstvSrc

\* Where the finally clause is.
EndStates == {"cleanup", "stop_flowgraph", "stop_timer"}

\* Only an interrupt or an exception leaves a thread behind, only an interrupt a timer, and
\* no timer is waited for that was not started.
ThreadsAwaited ==
  /\ timer = "running" =>
       /\ \/ state = "wait_on_minute_timer"
          \/ state \in EndStates /\ interrupts >= 1
          \/ state = "exited" /\ interrupts >= 2
       /\ modulator # "running"
  /\ state = "wait_on_minute_timer" => timer # "idle"
  /\ loader = "running" => state \in {"wait_on_image_loader", "exited"} \cup EndStates
  /\ modulator = "running" => state \in {"wait_on_modulator", "exited"} \cup EndStates

\* There is another minute to go.
MinutesLeft ==
  state \in {"pre_morse_activation", "morse_activation", "post_morse_activation",
             "start_minute_timer", "wait_on_minute_timer"} => beacon_rep < BeaconTime

BeaconInv ==
  /\ AudioInv /\ BeaconTypeOK
  /\ AudioState /\ Enqueued /\ SlotPolled /\ PictureFirst /\ ThreadsAwaited /\ MinutesLeft

-----------------------------------------------------------------------------

LEMMA BeaconIds ==
  /\ MsgSources = {SstvSrc} /\ SstvSrc \in Sources /\ SstvSrc \in MsgSources
  /\ MorseSrc \in Sources /\ MorseSrc \notin MsgSources /\ MorseSrc # SstvSrc
  /\ MorseSrc \in ConstPorts /\ SstvSrc \notin ConstPorts /\ SstvSrc # 0
  /\ BeaconTime \in Nat /\ 0 < BeaconTime /\ MaxInterrupts \in Nat
  /\ Signals = {Pause, Pause + Image}
<1>1. SstvSrc \in MsgSources /\ MorseSrc \in ConstPorts /\ 0 \in ConstPorts /\ MorseSrc # 0
  BY BeaconAssumption
<1>2. \A p \in ConstPorts : p \notin MsgSources
  BY SourcesAssumption
<1>3. SstvSrc \in Sources /\ MorseSrc \in Sources
  BY <1>1 DEF Sources
<1> QED BY <1>1, <1>2, <1>3, BeaconAssumption

LEMMA BeaconInitInv == BeaconInit => BeaconInv
<1> SUFFICES ASSUME BeaconInit PROVE BeaconInv
  OBVIOUS
<1>1. AudioInv
  BY InitInv DEF BeaconInit
<1>2. BeaconTypeOK
  BY <1>1, BeaconIds DEF BeaconInit, BeaconTypeOK, AudioInv
<1>3. lengths[SstvSrc] = 0 /\ phase = "off" /\ ~down /\ slot = <<>> /\ onAir = <<>>
  BY BeaconIds DEF BeaconInit, AudioInit, FirstLengths, Mux!Init
<1>4. AudioState /\ Enqueued /\ SlotPolled /\ PictureFirst /\ ThreadsAwaited /\ MinutesLeft
  BY <1>3 DEF BeaconInit, AudioState, Enqueued, SlotPolled, PictureFirst, ThreadsAwaited,
              EndStates, MinutesLeft, LoopStates
<1> QED BY <1>1, <1>2, <1>4 DEF BeaconInv

\* The steps of the program and its threads that leave the audio server alone.
Quiet ==
  \/ EnterLoop \/ EndRun \/ StartImageLoader \/ WaitOnImageLoader \/ GetImage \/ PrepareImage
  \/ WaitOnModulator \/ WaitOnSstvQueue \/ AwaitScheduler
  \/ StartMinuteTimer \/ WaitOnMinuteTimer
  \/ Interrupt \/ Terminate \/ LoaderEnds \/ ModulatorEnds \/ TimerFires
  \/ UNCHANGED beaconVars

LEMMA QuietUnchanged ==
  Quiet => /\ UNCHANGED audioVars
           /\ UNCHANGED <<lengths, queue, pipe, pos, down, slot, onAir, left, phase>>
  BY DEF Quiet, EnterLoop, EndRun, StartImageLoader, WaitOnImageLoader, GetImage, PrepareImage,
         WaitOnModulator, WaitOnSstvQueue, AwaitScheduler, StartMinuteTimer,
         WaitOnMinuteTimer, Interrupt, Terminate, LoaderEnds, ModulatorEnds, TimerFires,
         beaconVars, audioVars, srcVars, muxVars

LEMMA QuietInv == BeaconInv /\ Quiet => BeaconInv'
<1> SUFFICES ASSUME BeaconInv, Quiet PROVE BeaconInv'
  OBVIOUS
<1> USE BeaconIds DEF BeaconInv
<1>1. AudioInv'
  BY QuietUnchanged, StutterInv
<1>2. UNCHANGED <<lengths, queue, down, slot, onAir, phase>>
  BY QuietUnchanged
<1> USE DEF Quiet, EnterLoop, EndRun, StoppedTimer, StartImageLoader, WaitOnImageLoader, GetImage, PrepareImage,
         WaitOnModulator, WaitOnSstvQueue, AwaitScheduler, StartMinuteTimer,
         WaitOnMinuteTimer, Interrupt, Terminate, LoaderEnds, ModulatorEnds, TimerFires,
         beaconVars, jobVars, Goto, Raise, AfterMinute, Joined, Polled, LoopStates
<1>4. BeaconTypeOK'
  BY <1>1 DEF BeaconTypeOK, AudioInv, MinutesLeft
<1>5. AudioState'
  BY <1>2 DEF AudioState, OnTheAir, NeverStarted, StoppedAtStart, OnAirStates, IdentifiedStates,
              BeaconTypeOK, src_ready, scheduler_ready
<1>6. Enqueued'
  BY <1>2 DEF Enqueued, BeaconTypeOK, src_ready
<1>7. SlotPolled' /\ PictureFirst'
  BY <1>2 DEF SlotPolled, PictureFirst, Playing, scheduler_ready
<1>8. ThreadsAwaited'
  BY DEF ThreadsAwaited, EndStates, BeaconTypeOK
<1>9. MinutesLeft'
  BY DEF MinutesLeft, BeaconTypeOK
<1> QED BY <1>1, <1>4, <1>5, <1>6, <1>7, <1>8, <1>9

LEMMA StartAudioInv == BeaconInv /\ (StartAudio \/ InterruptStart) => BeaconInv'
<1> SUFFICES ASSUME BeaconInv, StartAudio \/ InterruptStart PROVE BeaconInv'
  OBVIOUS
<1> USE BeaconIds DEF BeaconInv, StartAudio, InterruptStart, Goto, jobVars
<1>1. /\ state = "init" /\ (Start \/ UNCHANGED audioVars)
      /\ UNCHANGED <<beacon_rep, loader, img, modulator, timer>>
  OBVIOUS
<1>2. AudioInv'
  BY <1>1, StartInv, StutterInv
<1>3. UNCHANGED <<lengths, queue, down, slot, onAir>> /\ (Start => phase' = "on")
      /\ (UNCHANGED audioVars => phase' = phase)
  BY <1>1 DEF Start, Mux!SwitchOn, audioVars, srcVars, muxVars
<1>4. interrupts \in Nat /\ phase = "off" /\ ~down /\ slot = <<>>
  BY <1>1 DEF BeaconTypeOK, AudioState
<1>5. BeaconTypeOK'
  BY <1>2 DEF BeaconTypeOK, AudioInv, LoopStates
<1>6. AudioState'
  BY <1>3, <1>4 DEF AudioState, OnTheAir, LoopStates
<1>7. Enqueued' /\ SlotPolled' /\ PictureFirst' /\ ThreadsAwaited' /\ MinutesLeft'
  BY <1>3 DEF Enqueued, SlotPolled, PictureFirst, ThreadsAwaited, EndStates, MinutesLeft,
              LoopStates
<1> QED BY <1>2, <1>5, <1>6, <1>7

\* flush() and the EOF message.
LEMMA FlushFills == FlushSources => queue'[SstvSrc] # <<>> /\ down'
<1> SUFFICES ASSUME FlushSources PROVE queue'[SstvSrc] # <<>> /\ down'
  OBVIOUS
<1>1. queue'[SstvSrc] = <<EOF>> /\ <<EOF>> # <<>>
  BY BeaconIds, Zenon DEF FlushSources
<1> QED BY <1>1, Zenon DEF FlushSources

LEMMA GiveUpAudioInv == BeaconInv /\ GiveUpAudio => BeaconInv'
<1> SUFFICES ASSUME BeaconInv, GiveUpAudio PROVE BeaconInv'
  OBVIOUS
<1> USE BeaconIds DEF BeaconInv, GiveUpAudio, Goto, jobVars
<1>1. AudioInv'
  BY FlushSourcesInv, StopFlowgraphInv
<1>2. UNCHANGED <<lengths, slot, beacon_rep, loader, img, modulator, timer, interrupts>>
  BY DEF FlushSources, StopFlowgraph, Mux!Halt, srcVars, muxVars
<1>3. BeaconTypeOK'
  BY <1>1 DEF BeaconTypeOK, AudioInv, LoopStates
<1>4. AudioState'
  <2>1. CASE state = "giving_up" /\ state' = "halting" /\ FlushSources
    <3>1. queue'[SstvSrc] # <<>> /\ down' /\ phase' = phase
      BY <2>1, FlushFills DEF FlushSources, muxVars
    <3> QED BY <2>1, <3>1, <1>2 DEF AudioState, LoopStates
  <2>2. CASE state = "halting" /\ state' = "returned" /\ StopFlowgraph
    <3>1. /\ down' /\ UNCHANGED queue
          /\ phase = "on" => phase' = "halted"
          /\ phase # "on" => phase' = phase
      BY <2>2 DEF StopFlowgraph, Mux!Halt, srcVars, muxVars
    <3>2. \/ phase = "on" /\ interrupts # 0
          \/ phase = "off" /\ queue[SstvSrc] # <<>>
      BY <2>2 DEF AudioState
    <3> QED BY <2>2, <3>1, <3>2, <1>2 DEF AudioState, NeverStarted, StoppedAtStart, OnAirStates,
                                          IdentifiedStates, LoopStates
  <2> QED BY <2>1, <2>2
<1>5. Enqueued' /\ SlotPolled' /\ PictureFirst' /\ ThreadsAwaited' /\ MinutesLeft'
  BY <1>2 DEF Enqueued, SlotPolled, PictureFirst, ThreadsAwaited, EndStates, MinutesLeft,
              LoopStates
<1> QED BY <1>1, <1>3, <1>4, <1>5

\* What enqueueing in the loop relies on: the signal before was scheduled.
LEMMA EnqueueReady ==
  BeaconInv /\ SstvEnqueue =>
    /\ lengths[SstvSrc] = 0 /\ Settled /\ phase # "off"
    /\ SignalLength \in Signals /\ EnqueueSignal(SstvSrc, SignalLength)
<1> SUFFICES ASSUME BeaconInv, SstvEnqueue
             PROVE  /\ lengths[SstvSrc] = 0 /\ Settled /\ phase # "off"
                    /\ SignalLength \in Signals /\ EnqueueSignal(SstvSrc, SignalLength)
  OBVIOUS
<1> USE BeaconIds DEF BeaconInv, SstvEnqueue, Goto
<1>1. lengths[SstvSrc] \in Nat
  BY DEF AudioInv, AudioTypeOK
<1>2. lengths[SstvSrc] = 0 /\ queue[SstvSrc] = <<>>
  BY <1>1 DEF Enqueued, LoopStates
<1>3. Settled /\ phase # "off"
  BY <1>2 DEF AudioState, OnTheAir, NeverStarted, StoppedAtStart, Settled, LoopStates, OnAirStates
<1>4. SignalLength \in Signals
  BY DEF SignalLength
<1>5. src_ready(SstvSrc)
  BY <1>2 DEF src_ready
<1> QED BY <1>2, <1>3, <1>4, <1>5

LEMMA SstvEnqueueInv == BeaconInv /\ SstvEnqueue => BeaconInv'
<1> SUFFICES ASSUME BeaconInv, SstvEnqueue PROVE BeaconInv'
  OBVIOUS
<1>1. PICK n \in Signals : /\ lengths[SstvSrc] = 0 /\ Settled /\ phase # "off"
                           /\ EnqueueSignal(SstvSrc, n)
  BY EnqueueReady, Zenon
<1> USE BeaconIds DEF BeaconInv, jobVars
<1>2. AudioInv'
  BY <1>1, EnqueueSignalInv
<1>3. lengths'[SstvSrc] = n /\ n > 0 /\ UNCHANGED <<down, phase, slot, onAir>>
  BY <1>1, SourceIds DEF EnqueueSignal, EnqueuedLength, muxVars, AudioInv, AudioTypeOK
<1>4. /\ state = "sstv_enqueue" /\ state' = "pre_sstv_activation"
      /\ UNCHANGED <<beacon_rep, loader, img, modulator, timer, interrupts>>
  BY DEF SstvEnqueue, Goto, AfterEnqueue
<1>5. BeaconTypeOK'
  BY <1>2, <1>4 DEF BeaconTypeOK, AudioInv, LoopStates
<1>6. AudioState' /\ Enqueued'
  BY <1>1, <1>3, <1>4 DEF AudioState, OnTheAir, NeverStarted, StoppedAtStart, OnAirStates,
                          IdentifiedStates, Enqueued, LoopStates
<1>7. SlotPolled' /\ PictureFirst' /\ ThreadsAwaited' /\ MinutesLeft'
  BY <1>4 DEF SlotPolled, PictureFirst, ThreadsAwaited, EndStates, MinutesLeft
<1> QED BY <1>2, <1>5, <1>6, <1>7

\* What the loop asserts.
LEMMA AssertionsHold == BeaconInv => AssertsHold /\ ScheduledOnAir
<1> SUFFICES ASSUME BeaconInv PROVE AssertsHold /\ ScheduledOnAir
  OBVIOUS
<1> USE BeaconIds DEF BeaconInv
<1>1. lengths[MorseSrc] = ConstLength[MorseSrc] /\ ConstLength[MorseSrc] \in Nat \ {0}
  BY SourceIds DEF AudioInv, ConstantLengths
<1>2. AssertsHold
  BY <1>1 DEF AssertsHold, Enqueued, SlotPolled, Schedulable, scheduler_ready, LoopStates
<1>3. ScheduledOnAir
  BY DEF ScheduledOnAir, AudioState, OnTheAir, NeverStarted, StoppedAtStart, OnAirStates,
         IdentifiedStates, LoopStates
<1> QED BY <1>2, <1>3

LEMMA SstvActivationInv == BeaconInv /\ SstvActivation => BeaconInv'
<1> SUFFICES ASSUME BeaconInv, SstvActivation PROVE BeaconInv'
  OBVIOUS
<1> USE BeaconIds DEF BeaconInv, jobVars
<1>1. /\ state = "sstv_activation" /\ state' = "pre_morse_activation"
      /\ phase # "off" /\ ScheduleSrc(SstvSrc) /\ beacon_rep' = 0
      /\ UNCHANGED <<loader, img, modulator, timer, interrupts>>
  BY AssertionsHold DEF SstvActivation, AssertScheduled, AssertsHold, ScheduledOnAir, Goto, Raise,
                        RepAfterPicture
<1>2. AudioInv'
  BY <1>1, ScheduleSrcInv
<1>3. lengths'[SstvSrc] = 0 /\ UNCHANGED <<down, phase, queue>>
  BY <1>1 DEF ScheduleSrc, LengthsAfter, Mux!Submit, AudioInv, AudioTypeOK
<1>4. slot' # <<>>
  <2>1. slot' = <<[port |-> SstvSrc, length |-> lengths[SstvSrc]]>>
    BY <1>1 DEF ScheduleSrc, Mux!Submit
  <2> QED BY <2>1
<1>5. BeaconTypeOK'
  BY <1>1, <1>2 DEF BeaconTypeOK, AudioInv, LoopStates
<1>6. AudioState' /\ Enqueued'
  BY <1>1, <1>3, <1>4 DEF AudioState, OnTheAir, NeverStarted, StoppedAtStart, Enqueued,
                          LoopStates, OnAirStates, IdentifiedStates
<1>7. SlotPolled' /\ PictureFirst' /\ ThreadsAwaited' /\ MinutesLeft'
  BY <1>1 DEF SlotPolled, PictureFirst, ThreadsAwaited, EndStates, MinutesLeft
<1> QED BY <1>2, <1>5, <1>6, <1>7

LEMMA MorseActivationInv == BeaconInv /\ MorseActivation => BeaconInv'
<1> SUFFICES ASSUME BeaconInv, MorseActivation PROVE BeaconInv'
  OBVIOUS
<1> USE BeaconIds DEF BeaconInv, jobVars
<1>1. /\ state = "morse_activation" /\ state' = "post_morse_activation"
      /\ phase = "on" /\ ScheduleSrc(MorseSrc)
      /\ UNCHANGED <<beacon_rep, loader, img, modulator, timer, interrupts>>
  BY AssertionsHold DEF MorseActivation, AssertScheduled, AssertsHold, ScheduledOnAir, Goto, Raise,
                        AfterMorse, IdentificationSrc
<1>2. AudioInv'
  BY <1>1, ScheduleSrcInv
<1>3. /\ UNCHANGED <<down, phase, queue, lengths>>
      /\ slot' = <<[port |-> MorseSrc, length |-> lengths[MorseSrc]]>>
  BY <1>1 DEF ScheduleSrc, LengthsAfter, Mux!Submit
<1>4. BeaconTypeOK'
  BY <1>1, <1>2 DEF BeaconTypeOK, AudioInv, LoopStates
<1>5. AudioState' /\ Enqueued'
  BY <1>1, <1>3 DEF AudioState, OnTheAir, NeverStarted, StoppedAtStart, Enqueued, LoopStates,
                    OnAirStates, IdentifiedStates
<1>6. PictureFirst'
  <2>1. slot' # <<>> /\ slot'[1].port = MorseSrc
    BY <1>3
  <2> QED BY <1>1, <2>1 DEF PictureFirst
<1>7. SlotPolled' /\ ThreadsAwaited' /\ MinutesLeft'
  BY <1>1 DEF SlotPolled, ThreadsAwaited, EndStates, MinutesLeft
<1> QED BY <1>2, <1>4, <1>5, <1>6, <1>7

LEMMA CleanupInv == BeaconInv /\ Cleanup => BeaconInv'
<1> SUFFICES ASSUME BeaconInv, Cleanup PROVE BeaconInv'
  OBVIOUS
<1> USE DEF BeaconInv, jobVars
<1>1. /\ state = "cleanup" /\ state' = "stop_flowgraph" /\ FlushSources /\ down'
      /\ UNCHANGED <<beacon_rep, loader, img, modulator, timer, interrupts>>
  BY DEF Cleanup, Goto, FlushSources
<1>2. AudioInv'
  BY <1>1, FlushSourcesInv
<1>3. BeaconTypeOK'
  BY <1>1, <1>2 DEF BeaconTypeOK, AudioInv
<1>4. AudioState' /\ Enqueued' /\ SlotPolled' /\ PictureFirst' /\ ThreadsAwaited' /\ MinutesLeft'
  BY <1>1 DEF AudioState, Enqueued, SlotPolled, PictureFirst, ThreadsAwaited, EndStates,
              MinutesLeft, LoopStates
<1> QED BY <1>2, <1>3, <1>4

LEMMA HaltFlowgraphInv == BeaconInv /\ HaltFlowgraph => BeaconInv'
<1> SUFFICES ASSUME BeaconInv, HaltFlowgraph PROVE BeaconInv'
  OBVIOUS
<1> USE DEF BeaconInv, jobVars
<1>1. /\ state = "stop_flowgraph" /\ state' = "stop_timer" /\ StopFlowgraph
      /\ UNCHANGED <<beacon_rep, loader, img, modulator, timer, interrupts>>
  BY DEF HaltFlowgraph, Goto
<1>2. AudioInv'
  BY <1>1, StopFlowgraphInv
<1>3. BeaconTypeOK'
  BY <1>1, <1>2 DEF BeaconTypeOK, AudioInv
<1>4. AudioState' /\ Enqueued' /\ SlotPolled' /\ PictureFirst' /\ ThreadsAwaited' /\ MinutesLeft'
  BY <1>1 DEF AudioState, Enqueued, SlotPolled, PictureFirst, ThreadsAwaited, EndStates,
              MinutesLeft, LoopStates
<1> QED BY <1>2, <1>3, <1>4

\* What the flowgraph may do to the slot and to the signal on the air.
LEMMA FlowgraphTakesSlot ==
  ASSUME AudioInv, Flowgraph
  PROVE  /\ phase = "on" /\ UNCHANGED <<lengths, down, phase>>
         /\ queue[SstvSrc] = <<>> => queue'[SstvSrc] = <<>>
         /\ \/ UNCHANGED <<slot, onAir>>
            \/ slot' = slot /\ onAir # <<>> /\ onAir' \in {onAir, <<>>}
            \/ onAir = <<>> /\ slot # <<>> /\ slot' = <<>> /\ onAir' = <<slot[1]>>
            \/ /\ onAir = <<>> /\ slot = <<>> /\ slot' = <<>>
               /\ onAir' = <<[port |-> 0, length |-> ConstLength[0]]>>
<1> USE BeaconIds
<1>1. CASE \E s \in MsgSources : TakeMessage(s)
  <2>1. PICK s \in MsgSources : TakeMessage(s)
    BY <1>1
  <2>2. s = SstvSrc
    OBVIOUS
  <2> QED BY <2>1, <2>2 DEF TakeMessage, muxVars
<1>2. CASE SendItem
  BY <1>2 DEF SendItem, Mux!Emit
<1>3. CASE Mux!Perform /\ UNCHANGED srcVars
  BY <1>3 DEF Mux!Perform, Mux!PutOnAir, srcVars
<1>4. CASE Mux!PlayTone /\ UNCHANGED srcVars
  BY <1>4 DEF Mux!PlayTone, Mux!PutOnAir, srcVars
<1> QED BY <1>1, <1>2, <1>3, <1>4 DEF Flowgraph, NextSignal

LEMMA PlaybackInv == BeaconInv /\ Playback => BeaconInv'
<1> SUFFICES ASSUME BeaconInv, Playback PROVE BeaconInv'
  OBVIOUS
<1> USE DEF BeaconInv
<1>1. AudioInv /\ Flowgraph
      /\ UNCHANGED <<state, beacon_rep, loader, img, modulator, timer, interrupts>>
  BY DEF Playback, jobVars
<1>2. AudioInv'
  BY <1>1, FlowgraphInv
<1>3. BeaconTypeOK'
  BY <1>1, <1>2 DEF BeaconTypeOK, AudioInv
<1>4. AudioState' /\ Enqueued'
  <2>1. /\ phase = "on" /\ UNCHANGED <<lengths, down, phase>>
        /\ queue[SstvSrc] = <<>> => queue'[SstvSrc] = <<>>
    BY <1>1, FlowgraphTakesSlot
  <2>2. slot = <<>> => slot' = <<>>
    BY <1>1, FlowgraphTakesSlot
  <2> QED BY <1>1, <2>1, <2>2 DEF AudioState, OnTheAir, NeverStarted, StoppedAtStart, Enqueued,
                                  LoopStates
<1>5. SlotPolled'
  BY <1>1, FlowgraphTakesSlot DEF SlotPolled
<1>6. PictureFirst'
  <2> SUFFICES ASSUME state \in {"post_morse_activation", "start_minute_timer"}
               PROVE  IF slot' = <<>> THEN ~Playing(SstvSrc)' ELSE slot'[1].port # SstvSrc
    BY <1>1 DEF PictureFirst
  <2>1. IF slot = <<>> THEN ~Playing(SstvSrc) ELSE slot[1].port # SstvSrc
    BY DEF PictureFirst
  <2>2. CASE UNCHANGED <<slot, onAir>>
    BY <2>1, <2>2 DEF Playing
  <2>3. CASE slot' = slot /\ onAir # <<>> /\ onAir' \in {onAir, <<>>}
    BY <2>1, <2>3 DEF Playing
  <2>4. CASE onAir = <<>> /\ slot # <<>> /\ slot' = <<>> /\ onAir' = <<slot[1]>>
    BY <2>1, <2>4 DEF Playing
  <2>5. CASE /\ onAir = <<>> /\ slot = <<>> /\ slot' = <<>>
             /\ onAir' = <<[port |-> 0, length |-> ConstLength[0]]>>
    BY <2>5, BeaconIds DEF Playing
  <2> QED BY <1>1, <2>2, <2>3, <2>4, <2>5, FlowgraphTakesSlot
<1>7. ThreadsAwaited' /\ MinutesLeft'
  BY <1>1 DEF ThreadsAwaited, EndStates, MinutesLeft
<1> QED BY <1>2, <1>3, <1>4, <1>5, <1>6, <1>7

\* A program that is respawned knows nothing of the one before.
LEMMA RespawnInv == BeaconInv /\ Respawn => BeaconInv'
<1> SUFFICES ASSUME BeaconInv, Respawn PROVE BeaconInv'
  OBVIOUS
<1>1. AudioInit'
  BY DEF Respawn, AudioInit, Mux!Init
<1>2. AudioInv'
  BY <1>1, InitInv, PTL
<1>3. BeaconTypeOK'
  BY <1>2, BeaconIds DEF Respawn, BeaconInv, BeaconTypeOK, AudioInv, Goto
<1>4. lengths'[SstvSrc] = 0 /\ phase' = "off" /\ ~down' /\ slot' = <<>> /\ onAir' = <<>>
  BY BeaconIds DEF Respawn, FirstLengths
<1>5. AudioState' /\ Enqueued' /\ SlotPolled' /\ PictureFirst' /\ ThreadsAwaited' /\ MinutesLeft'
  BY <1>4 DEF Respawn, Goto, AudioState, Enqueued, SlotPolled, PictureFirst, ThreadsAwaited,
              EndStates, MinutesLeft, LoopStates
<1> QED BY <1>2, <1>3, <1>5 DEF BeaconInv

LEMMA BeaconSteps ==
  [BeaconNext]_beaconVars =>
    \/ Quiet \/ StartAudio \/ InterruptStart \/ GiveUpAudio
    \/ SstvEnqueue \/ SstvActivation \/ MorseActivation
    \/ Cleanup \/ HaltFlowgraph \/ Respawn \/ Playback
  BY DEF BeaconNext, Loop, Quiet

-----------------------------------------------------------------------------
(* Theorems *)

THEOREM BeaconInvariant == BeaconSpec => []BeaconInv
<1>1. BeaconInv /\ [BeaconNext]_beaconVars => BeaconInv'
  BY BeaconSteps, QuietInv, StartAudioInv, GiveUpAudioInv, SstvEnqueueInv, SstvActivationInv,
     MorseActivationInv, CleanupInv, HaltFlowgraphInv, RespawnInv, PlaybackInv
<1> QED BY BeaconInitInv, <1>1, PTL DEF BeaconSpec

THEOREM BeaconTypeCorrect == BeaconSpec => []BeaconTypeOK
<1>1. BeaconInv => BeaconTypeOK
  BY DEF BeaconInv
<1> QED BY BeaconInvariant, <1>1, PTL

\* What was polled still holds when it is acted on, whatever the mux, the message
\* source and the other threads did meanwhile.
THEOREM AssertionsNeverFail == BeaconSpec => []AssertsHold
BY BeaconInvariant, AssertionsHold, PTL

\* No signal is given to a flowgraph that refuses it, and no identification to one that
\* does not run; a picture is only after a ^C in audio.start().
THEOREM NothingScheduledInVain == BeaconSpec => []ScheduledOnAir
BY BeaconInvariant, AssertionsHold, PTL

\* A minute timer ends before the next begins, and before the main thread does unless
\* two ^C end it.
THEOREM TimersNeverOverlap == BeaconSpec => []NoStaleTimer
<1>1. BeaconInv => NoStaleTimer
  BY DEF BeaconInv, ThreadsAwaited, EndStates, NoStaleTimer
<1> QED BY BeaconInvariant, <1>1, PTL

\* The picture's last item was sent and the identification is on the air when a
\* minute begins, for every length of either.
THEOREM IdentificationBeforeMinute == BeaconSpec => []IdentifiedFirst
<1>1. BeaconInv => IdentifiedFirst
  <2> SUFFICES ASSUME BeaconInv, state = "start_minute_timer"
               PROVE  /\ slot = <<>> /\ ~Playing(SstvSrc)
                      /\ pipe[SstvSrc] \o queue[SstvSrc] = <<>>
    BY DEF IdentifiedFirst
  <2> USE DEF BeaconInv
  <2>1. slot = <<>> /\ ~Playing(SstvSrc)
    BY DEF SlotPolled, PictureFirst
  <2>2. ~down /\ ~(lengths[SstvSrc] > 0)
    BY DEF AudioState, OnTheAir, NeverStarted, StoppedAtStart, Enqueued, LoopStates, OnAirStates,
           IdentifiedStates
  <2>3. pipe[SstvSrc] \o queue[SstvSrc] =
          Only(Playing(SstvSrc), left) \o Only(Waiting(SstvSrc), slot[1].length)
            \o Only(lengths[SstvSrc] > 0, lengths[SstvSrc])
    BY <2>2, BeaconIds, Zenon DEF AudioInv, StreamsAligned
  <2>4. /\ Only(Playing(SstvSrc), left) = <<>>
        /\ Only(Waiting(SstvSrc), slot[1].length) = <<>>
        /\ Only(lengths[SstvSrc] > 0, lengths[SstvSrc]) = <<>>
    BY <2>1, <2>2, Zenon DEF Only, Waiting
  <2>5. <<>> \o <<>> \o <<>> = <<>>
    BY NothingAdded
  <2> QED BY <2>1, <2>3, <2>4, <2>5, Zenon
<1> QED BY BeaconInvariant, <1>1, PTL

\* The loop never touches what a running thread uses.
THEOREM JobsAreOver == BeaconSpec => []JobsOver
<1>1. BeaconInv => JobsOver
  BY DEF BeaconInv, ThreadsAwaited, EndStates, JobsOver
<1> QED BY BeaconInvariant, <1>1, PTL

\* The beacon is a client as the audio server wants it, also after a ^C in audio.start().
THEOREM BeaconIsDisciplined == BeaconSpec => DisciplinedClient
<1>1. ASSUME BeaconInv, [BeaconNext]_beaconVars
      PROVE  [phase # "off" => AudioNext \/ Respawn]_audioVars
  <2> SUFFICES ASSUME phase # "off" PROVE AudioNext \/ Respawn \/ UNCHANGED audioVars
    OBVIOUS
  <2> USE <1>1, BeaconIds DEF BeaconInv
  <2>1. CASE Quiet \/ Respawn
    BY <2>1, QuietUnchanged
  <2>2. CASE StartAudio \/ InterruptStart
    BY <2>2 DEF StartAudio, InterruptStart, Goto, AudioState
  <2>3. CASE SstvEnqueue
    BY <2>3, EnqueueReady DEF AudioNext, Client
  <2>4. CASE SstvActivation
    BY <2>4 DEF SstvActivation, AssertScheduled, AudioNext, Client
  <2>5. CASE MorseActivation
    BY <2>5 DEF MorseActivation, AssertScheduled, IdentificationSrc, AudioNext, Client
  <2>6. CASE Cleanup
    <3>1. Settled
      BY <2>6 DEF Cleanup, Goto, AudioState, OnTheAir, NeverStarted, StoppedAtStart, Settled
    <3> QED BY <2>6, <3>1 DEF Cleanup, AudioNext, Client
  <2>7. CASE HaltFlowgraph
    BY <2>7 DEF HaltFlowgraph, AudioNext, Client
  <2>8. CASE Playback
    BY <2>8 DEF Playback, AudioNext
  <2>9. CASE GiveUpAudio
    <3>1. state = "giving_up" => Settled
      BY DEF AudioState, Settled
    <3> QED BY <2>9, <3>1 DEF GiveUpAudio, Goto, AudioNext, Client
  <2> QED BY <2>1, <2>2, <2>3, <2>4, <2>5, <2>6, <2>7, <2>8, <2>9, BeaconSteps
<1> QED BY BeaconInvariant, <1>1, PTL DEF BeaconSpec, DisciplinedClient

\* So what was shown of the audio server holds in the beacon, in every life of it: until
\* stop() gives the signals up, streams and requests do not slip, whatever fails.
THEOREM BeaconSignalsWhole == BeaconSpec => [](StreamsAligned /\ ConstantsAligned)
<1>1. BeaconInv => StreamsAligned /\ ConstantsAligned
  BY DEF BeaconInv, AudioInv
<1> QED BY BeaconInvariant, <1>1, PTL

\* The program is never stuck but in the endless poll after audio.start() failed or was
\* interrupted: whatever else the loop waits for is under way.
THEOREM StuckInThePollOnly == BeaconSpec => []NothingWaitsInVain
<1>1. BeaconInv => NothingWaitsInVain
  <2> SUFFICES ASSUME BeaconInv, ~Moves PROVE EndlessPoll
    BY DEF NothingWaitsInVain
  <2> USE DEF BeaconInv
  <2>1. /\ state \in {"wait_on_sstv_queue", "pre_sstv_activation", "pre_morse_activation",
                      "post_morse_activation", "wait_on_minute_timer"}
        /\ ~(phase = "on" /\ FlowgraphMoves)
        /\ timer # "running" /\ (state = "wait_on_minute_timer" => timer # "fired")
    BY DEF Moves
  <2>2. ~(phase = "on" /\ ~down)
    BY <2>1, AlwaysMoves
  <2>3. NeverStarted \/ StoppedAtStart
    BY <2>1, <2>2 DEF AudioState, OnTheAir, LoopStates
  <2>4. state \in {"wait_on_sstv_queue", "pre_sstv_activation", "pre_morse_activation"}
    BY <2>1, <2>3 DEF NeverStarted, StoppedAtStart, OnAirStates, IdentifiedStates
  <2>5. down /\ (phase = "off" \/ (phase = "halted" /\ interrupts # 0))
    BY <2>3 DEF NeverStarted, StoppedAtStart
  <2>6. CASE state = "wait_on_sstv_queue"
    BY <2>5, <2>6 DEF EndlessPoll, Moves
  <2>7. CASE state = "pre_morse_activation"
    BY <2>5, <2>7 DEF EndlessPoll, Moves
  <2>8. CASE state = "pre_sstv_activation"
    BY <2>3, <2>8 DEF NeverStarted, StoppedAtStart, OnAirStates, Moves, scheduler_ready
  <2> QED BY <2>4, <2>6, <2>7, <2>8
<1> QED BY BeaconInvariant, <1>1, PTL

-----------------------------------------------------------------------------
(* The jobs of the loop *)

\* What is known of the modulation: start() that gave no thread leaves a prepared job.
modulatorBar == IF modulator = "unstarted" THEN "idle" ELSE modulator

Download == INSTANCE Job WITH status <- loader
Modulating == INSTANCE Job WITH status <- modulatorBar

\* In each life of the program download and modulation are Jobs: the loop starts and
\* prepares them as ImageLoader and OfflineCompute are proved to take it, and expects no
\* more of them than they are proved to give.
THEOREM LoopRunsJobs ==
  BeaconSpec =>
    /\ [][Respawn \/ Download!Next]_loader
    /\ [][Respawn \/ Modulating!Next]_modulatorBar
<1>1. ASSUME BeaconInv, [BeaconNext]_beaconVars
      PROVE  /\ [Respawn \/ Download!Next]_loader
             /\ [Respawn \/ Modulating!Next]_modulatorBar
  <2> USE <1>1 DEF BeaconInv
  <2>1. CASE UNCHANGED <<loader, modulator>>
    BY <2>1 DEF modulatorBar
  <2>2. CASE StartImageLoader
    <3>1. loader # "running" /\ loader' = "running" /\ modulator' = modulator
      BY <2>2 DEF StartImageLoader, Goto, ThreadsAwaited, EndStates
    <3> QED BY <3>1 DEF Download!Next, Download!Launch, modulatorBar
  <2>3. CASE LoaderEnds
    BY <2>3 DEF LoaderEnds, Download!Next, Download!Finish, modulatorBar
  <2>4. CASE PrepareImage
    <3>1. modulator # "running" /\ loader' = loader
      BY <2>4 DEF PrepareImage, Goto, Raise, ThreadsAwaited, EndStates
    <3>2. modulator' = modulator \/ modulator' \in {"running", "unstarted"}
      BY <2>4 DEF PrepareImage
    <3>3. /\ modulatorBar # "running"
          /\ modulatorBar' = modulatorBar \/ modulatorBar' \in {"running", "idle"}
      BY <3>1, <3>2 DEF modulatorBar
    <3> QED BY <3>1, <3>3 DEF Modulating!Next, Modulating!Launch, Modulating!Prepare
  <2>5. CASE ModulatorEnds
    <3>1. /\ modulator = "running" /\ modulator' \in {"ok", "failed"} /\ loader' = loader
      BY <2>5 DEF ModulatorEnds
    <3>2. modulatorBar = "running" /\ modulatorBar' \in {"ok", "failed"}
      BY <3>1 DEF modulatorBar
    <3> QED BY <3>1, <3>2 DEF Modulating!Next, Modulating!Finish
  <2>6. CASE Respawn
    BY <2>6
  <2>7. \/ UNCHANGED <<loader, modulator>> \/ StartImageLoader \/ LoaderEnds
        \/ PrepareImage \/ ModulatorEnds \/ Respawn
    BY DEF BeaconNext, Loop, StartAudio, InterruptStart, GiveUpAudio, EnterLoop, WaitOnImageLoader, GetImage, WaitOnModulator,
           WaitOnSstvQueue, SstvEnqueue, AwaitScheduler, SstvActivation, MorseActivation,
           StartMinuteTimer, WaitOnMinuteTimer, Cleanup, HaltFlowgraph, EndRun, Interrupt,
           Terminate,
           TimerFires, Playback, jobVars, beaconVars
  <2> QED BY <2>1, <2>2, <2>3, <2>4, <2>5, <2>6, <2>7
<1> QED BY BeaconInvariant, <1>1, PTL DEF BeaconSpec

=============================================================================
