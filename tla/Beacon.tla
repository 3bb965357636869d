------------------------------- MODULE Beacon -------------------------------
(***************************************************************************)
(* The beacon program (src/src/python/beacon.py) on top of audio_server:   *)
(* one picture in SSTV, then the Morse identification, then the            *)
(* identification once a minute until the next picture is due.             *)
(*                                                                         *)
(* run() is a loop over self.state; every state is an action here.  A      *)
(* branch that only sleeps and polls again is the action not being         *)
(* enabled.  The image download (image_loader.py), the modulation          *)
(* (modulator.py over the C++ thread), the minute timer and the flowgraph  *)
(* run beside it.  When run() ends, upstart starts the program again.      *)
(***************************************************************************)
EXTENDS AudioServer

CONSTANTS
  SstvSrc, MorseSrc,  \* id_sstv_src and id_morse_src
  Pause, Image,       \* lengths of the pause and of the modulated picture
  BeaconTime,         \* beacon_time, in minutes
  AudioMayFail,       \* whether tb.start() may raise
  MaxInterrupts       \* bound on the number of ^C in a life of the program

ASSUME BeaconAssumption ==
  /\ MsgSources = {SstvSrc} /\ ConstPorts = {0, MorseSrc} /\ MorseSrc # 0
  /\ Signals = {Pause, Pause + Image} /\ Image \in Nat
  /\ BeaconTime \in Nat \ {0} /\ MaxInterrupts \in Nat /\ AudioMayFail \in BOOLEAN

VARIABLES
  state,       \* self.state, or where the program is outside the loop
  beacon_rep,  \* identifications since the last picture
  loader,      \* the image_retriever thread and what came of it
  img,         \* self.img: none, one that can be modulated, or one that raises
  modulator,   \* the computing thread and what came of it
  timer,       \* minute_timer: "idle", "running", "fired" (its event is set)
  interrupts   \* number of ^C in this life of the program

jobVars == <<loader, img, modulator, timer>>
beaconVars == <<audioVars, state, beacon_rep, jobVars, interrupts>>

LoopStates == {"start_image_loader", "wait_on_image_loader", "get_image",
  "prepare_image", "wait_on_modulator", "wait_on_sstv_queue", "sstv_enqueue",
  "pre_sstv_activation", "sstv_activation", "pre_morse_activation",
  "morse_activation", "post_morse_activation", "start_minute_timer",
  "wait_on_minute_timer"}

\* A new process whose constructor has come to audio.start().
BeaconInit ==
  /\ AudioInit
  /\ state = "init" /\ beacon_rep = 0
  /\ loader = "idle" /\ img = "none" /\ modulator = "idle" /\ timer = "idle"
  /\ interrupts = 0

Goto(from, to) == state = from /\ state' = to

\* An exception or a failed assertion leaves the loop for the finally clause.
Raise(from) == Goto(from, "cleanup")

-----------------------------------------------------------------------------
(* __init__ and the states of run() *)

\* tb.start() succeeds, or raises.
StartAudio ==
  /\ \/ Goto("init", "returned") /\ Start
     \/ AudioMayFail /\ Goto("init", "giving_up") /\ UNCHANGED audioVars
  /\ UNCHANGED <<beacon_rep, jobVars, interrupts>>

\* ^C in audio.start(), before or after tb.start() did its work: audio.start() does not
\* catch it, but the bare except around it does.
InterruptStart ==
  /\ Goto("init", "giving_up")
  /\ Start \/ UNCHANGED audioVars
  /\ interrupts < MaxInterrupts /\ interrupts' = interrupts + 1
  /\ UNCHANGED <<beacon_rep, jobVars>>

\* The handler stops the audio server, which may be running, and goes on.
GiveUpAudio ==
  /\ \/ Goto("giving_up", "halting") /\ FlushSources
     \/ Goto("halting", "returned") /\ StopFlowgraph
  /\ UNCHANGED <<beacon_rep, jobVars, interrupts>>

\* __init__ returns and run() comes to its try block.
EnterLoop ==
  /\ Goto("returned", "start_image_loader")
  /\ UNCHANGED <<audioVars, beacon_rep, jobVars, interrupts>>

StartImageLoader ==
  /\ Goto("start_image_loader", "wait_on_image_loader")
  /\ loader' = "running"
  /\ UNCHANGED <<audioVars, beacon_rep, img, modulator, timer, interrupts>>

WaitOnImageLoader ==
  /\ Goto("wait_on_image_loader", "get_image")
  /\ loader # "running"
  /\ UNCHANGED <<audioVars, beacon_rep, jobVars, interrupts>>

\* A failed download gives no image; a file may fail to open now or, being opened
\* lazily, when its pixels are read.  The state for a failed download is
\* assigned first and overwritten.
GetImage ==
  /\ \/ /\ Goto("get_image", "prepare_image")
        /\ img' \in IF loader = "ok" THEN {"good", "bad"} ELSE {"none"}
     \/ Raise("get_image") /\ loader = "ok" /\ UNCHANGED img
  /\ UNCHANGED <<audioVars, beacon_rep, loader, modulator, timer, interrupts>>

\* draw_text and convert_img_to_raw raise without a proper image.  set_data raises or
\* returns True, never False, and the result of modulator.start() is not looked at.
PrepareImage ==
  /\ IF img = "good"
       THEN /\ Goto("prepare_image", "wait_on_modulator")
            /\ modulator' \in {"running", "unstarted"}
       ELSE Raise("prepare_image") /\ UNCHANGED modulator
  /\ UNCHANGED <<audioVars, beacon_rep, loader, img, timer, interrupts>>

NotAwaited == TRUE                                               \* faulty
Joined == modulator # "running"

\* modulator.wait() joins the thread; a ^C in it is swallowed after asking the
\* thread to stop, which ModulatorEnds covers.
WaitOnModulator ==
  /\ Goto("wait_on_modulator", "wait_on_sstv_queue")
  /\ Joined
  /\ UNCHANGED <<audioVars, beacon_rep, jobVars, interrupts>>

WaitOnSstvQueue ==
  /\ Goto("wait_on_sstv_queue", "sstv_enqueue")
  /\ src_ready(SstvSrc)
  /\ UNCHANGED <<audioVars, beacon_rep, jobVars, interrupts>>

\* get_signal is empty if the computation never started, else has full length.
SignalLength == IF modulator = "unstarted" THEN Pause ELSE Pause + Image

SkipActivation == "pre_morse_activation"                         \* faulty
AfterEnqueue == "pre_sstv_activation"

\* Both failure branches are overwritten by the last assignment.
SstvEnqueue ==
  /\ Goto("sstv_enqueue", AfterEnqueue)
  /\ IF src_ready(SstvSrc) THEN EnqueueSignal(SstvSrc, SignalLength)
                           ELSE UNCHANGED audioVars
  /\ UNCHANGED <<beacon_rep, jobVars, interrupts>>

NoWait == TRUE                                                   \* faulty
Polled == scheduler_ready

\* The three states that poll the audio scheduler.
AwaitScheduler ==
  /\ Polled
  /\ \/ Goto("pre_sstv_activation", "sstv_activation")
     \/ Goto("pre_morse_activation", "morse_activation")
     \/ Goto("post_morse_activation", "start_minute_timer")
  /\ UNCHANGED <<audioVars, beacon_rep, jobVars, interrupts>>

\* assert( self.audio.schedule_src( id ) )
AssertScheduled(id, from, to) ==
  IF Schedulable(id) THEN Goto(from, to) /\ ScheduleSrc(id)
                     ELSE Raise(from) /\ UNCHANGED audioVars

RepKept == beacon_rep                                            \* faulty
RepAfterPicture == 0

SstvActivation ==
  /\ AssertScheduled(SstvSrc, "sstv_activation", "pre_morse_activation")
  /\ beacon_rep' = IF Schedulable(SstvSrc) THEN RepAfterPicture ELSE beacon_rep
  /\ UNCHANGED <<jobVars, interrupts>>

SkipPostMorse == "start_minute_timer"                            \* faulty
AfterMorse == "post_morse_activation"

PictureAgain == SstvSrc                                          \* faulty
IdentificationSrc == MorseSrc

MorseActivation ==
  /\ AssertScheduled(IdentificationSrc, "morse_activation", AfterMorse)
  /\ UNCHANGED <<beacon_rep, jobVars, interrupts>>

StartMinuteTimer ==
  /\ Goto("start_minute_timer", "wait_on_minute_timer")
  /\ timer' = "running"
  /\ UNCHANGED <<audioVars, beacon_rep, loader, img, modulator, interrupts>>

AfterMinute(rep) ==
  IF rep < BeaconTime THEN "pre_morse_activation" ELSE "start_image_loader"

WaitOnMinuteTimer ==
  /\ timer = "fired"
  /\ beacon_rep' = beacon_rep + 1
  /\ Goto("wait_on_minute_timer", AfterMinute(beacon_rep'))
  /\ UNCHANGED <<audioVars, jobVars, interrupts>>

-----------------------------------------------------------------------------
(* The end of run() and of the process *)

\* ^C in the main thread.  In the loop it leads to the finally clause; in the handler of
\* audio.start(), before the try block and in the finally clause itself nothing catches
\* it and the main thread ends there.  A ^C in an operation is taken before
\* or after it: what it leaves half done there, a message without its length, say,
\* nobody looks at any more.
Interrupt ==
  /\ state # "exited" /\ interrupts < MaxInterrupts
  /\ state' = IF state \in LoopStates THEN "cleanup" ELSE "exited"
  /\ interrupts' = interrupts + 1
  /\ UNCHANGED <<audioVars, beacon_rep, jobVars>>

\* The finally clause: audio.stop(), in its two halves, and minute_timer.stop() if
\* the timer has not timed out.
Cleanup ==
  /\ Goto("cleanup", "stop_flowgraph")
  /\ FlushSources
  /\ UNCHANGED <<beacon_rep, jobVars, interrupts>>

HaltFlowgraph ==
  /\ Goto("stop_flowgraph", "stop_timer")
  /\ StopFlowgraph
  /\ UNCHANGED <<beacon_rep, jobVars, interrupts>>

TimerLeftAlone == timer                                          \* faulty
StoppedTimer == IF timer = "fired" THEN timer ELSE "idle"

EndRun ==
  /\ Goto("stop_timer", "exited")
  /\ timer' = StoppedTimer
  /\ UNCHANGED <<audioVars, beacon_rep, loader, img, modulator, interrupts>>

\* An exception of work() before its try block (no memory for the signal) is
\* std::terminate: the process is gone at once, nothing is cleaned up.
Terminate ==
  /\ modulator = "running"
  /\ state # "exited" /\ state' = "exited"
  /\ UNCHANGED <<audioVars, beacon_rep, jobVars, interrupts>>

\* The process ends when its last non-daemon thread does, a running timer among
\* them (no ^C gets through to that join), and upstart respawns it in the state of
\* BeaconInit.
Respawn ==
  /\ Goto("exited", "init") /\ timer # "running"
  /\ lengths' = FirstLengths /\ queue' = NoMessages /\ pipe' = NoMessages
  /\ pos' = Beginning /\ down' = FALSE
  /\ slot' = <<>> /\ onAir' = <<>> /\ left' = 0 /\ phase' = "off"
  /\ beacon_rep' = 0
  /\ loader' = "idle" /\ img' = "none" /\ modulator' = "idle" /\ timer' = "idle"
  /\ interrupts' = 0

-----------------------------------------------------------------------------
(* The threads beside the loop *)

LoaderEnds ==
  /\ loader = "running"
  /\ loader' \in {"ok", "failed"}
  /\ UNCHANGED <<audioVars, state, beacon_rep, img, modulator, timer, interrupts>>

\* The computation succeeds, is cancelled, or runs out of memory.
ModulatorEnds ==
  /\ modulator = "running"
  /\ modulator' \in {"ok", "failed"}
  /\ UNCHANGED <<audioVars, state, beacon_rep, loader, img, timer, interrupts>>

TimerFires ==
  /\ timer = "running"
  /\ timer' = "fired"
  /\ UNCHANGED <<audioVars, state, beacon_rep, loader, img, modulator, interrupts>>

\* The flowgraph plays as long as the process lives.
Playback ==
  /\ state # "exited" \/ timer = "running"
  /\ Flowgraph
  /\ UNCHANGED <<state, beacon_rep, jobVars, interrupts>>

-----------------------------------------------------------------------------
Loop ==
  \/ StartAudio \/ GiveUpAudio \/ EnterLoop
  \/ StartImageLoader \/ WaitOnImageLoader \/ GetImage \/ PrepareImage \/ WaitOnModulator
  \/ WaitOnSstvQueue \/ SstvEnqueue \/ AwaitScheduler
  \/ SstvActivation \/ MorseActivation \/ StartMinuteTimer \/ WaitOnMinuteTimer
  \/ Cleanup \/ HaltFlowgraph \/ EndRun \/ Respawn

BeaconNext ==
  \/ Loop \/ InterruptStart \/ Interrupt \/ Terminate
  \/ LoaderEnds \/ ModulatorEnds \/ TimerFires \/ Playback

\* The loop and every thread keep running, but nothing bounds a download:
\* urlretrieve has no timeout.
BeaconSpec ==
  /\ BeaconInit /\ [][BeaconNext]_beaconVars
  /\ WF_beaconVars(Loop) /\ WF_beaconVars(ModulatorEnds) /\ WF_beaconVars(TimerFires)
  /\ WF_beaconVars(Playback /\ SendItem) /\ WF_beaconVars(Playback /\ NextSignal)
  /\ WF_beaconVars(Playback /\ TakeMessage(SstvSrc))

-----------------------------------------------------------------------------
(* Properties *)

BeaconTypeOK ==
  /\ AudioTypeOK
  /\ state \in LoopStates \cup {"init", "giving_up", "halting", "returned",
                              "cleanup", "stop_flowgraph", "stop_timer", "exited"}
  /\ beacon_rep \in 0..BeaconTime
  /\ loader \in {"idle", "running", "ok", "failed"}
  /\ img \in {"none", "good", "bad"}
  /\ modulator \in {"idle", "running", "unstarted", "ok", "failed"}
  /\ timer \in {"idle", "running", "fired"}
  /\ interrupts \in 0..MaxInterrupts

\* What was polled in one state of the loop still holds in the state that acts on it: the
\* assertions on schedule_src (beacon.py:233, 248) hold whenever they are reached, and
\* enqueue_signal never refuses, so overwriting the state after a refusal
\* (beacon.py:219-221) loses nothing.
AssertsHold ==
  /\ state = "sstv_enqueue" => queue[SstvSrc] = <<>>
  /\ state = "sstv_activation" => Schedulable(SstvSrc)
  /\ state = "morse_activation" => Schedulable(MorseSrc)

\* No signal is scheduled on a flowgraph that does not send it: not on one that was never
\* started, where activate_port refuses and schedule_src, not looking, forgets the
\* signal, and no identification ever, even after audio.start() failed.  One case is
\* left: a picture, when a ^C in audio.start() stopped the flowgraph it had started.
ScheduledOnAir ==
  /\ state = "morse_activation" => phase = "on"
  /\ state = "sstv_activation" => phase = "on" \/ (phase = "halted" /\ interrupts # 0)

\* The beacon uses the audio server as its interface wants (AudioServer's
\* Client), through faults, ^C and respawns, so everything shown of
\* AudioServer holds of the beacon.
DisciplinedClient == [][phase # "off" => AudioNext \/ Respawn]_audioVars

\* No minute timer is still running when the next is started (it would end the
\* minute early), nor, but for a second ^C in the finally clause, when the main thread
\* has ended (it would keep the process alive and delay the respawn).
NoStaleTimer ==
  /\ state = "start_minute_timer" => timer # "running"
  /\ state = "exited" /\ timer = "running" => interrupts >= 2

\* The identification is on the air before a minute is counted: at the start of the
\* timer the mux has taken the request for it, and a picture before it
\* has been sent completely.
IdentifiedFirst ==
  state = "start_minute_timer" =>
    slot = <<>> /\ ~Playing(SstvSrc) /\ pipe[SstvSrc] \o queue[SstvSrc] = <<>>

\* What lets the loop or a thread beside it take a step: a thread that runs, a state of the
\* loop that does not wait, or waits for what is there, or a flowgraph that moves.
Moves ==
  \/ loader = "running" \/ modulator = "running" \/ timer = "running"
  \/ state \notin {"wait_on_sstv_queue", "pre_sstv_activation", "pre_morse_activation",
                  "post_morse_activation", "wait_on_minute_timer"}
  \/ state = "wait_on_sstv_queue" /\ src_ready(SstvSrc)
  \/ state \in {"pre_sstv_activation", "pre_morse_activation", "post_morse_activation"}
       /\ scheduler_ready
  \/ state = "wait_on_minute_timer" /\ timer = "fired"
  \/ phase = "on" /\ FlowgraphMoves

\* The loop polls for ever an audio server that audio.start()'s handler has stopped: for
\* the room that the EOF message takes up or, when a ^C stopped a flowgraph that
\* had taken the EOF, for the slot of a mux that is halted.
EndlessPoll ==
  /\ down /\ (phase = "off" \/ (phase = "halted" /\ interrupts # 0))
  /\ \/ state = "wait_on_sstv_queue" /\ ~src_ready(SstvSrc)
     \/ state = "pre_morse_activation" /\ ~scheduler_ready

\* The program never stops in the middle, and nothing waits for what does not come: from
\* every state something moves, except in a program whose audio.start() failed or was
\* interrupted and that is not interrupted again.
NothingWaitsInVain == Moves \/ EndlessPoll

\* The same of the steps themselves.
NeverStuck == NothingWaitsInVain /\ (Moves => ENABLED BeaconNext)

\* The client that OfflineCompute and ImageLoader assume: the picture and the signal are
\* touched only when the thread that uses them has ended, and no download is
\* started beside another, whatever ended the job, the program or the wait for it.
JobsOver ==
  /\ state = "start_image_loader" => loader # "running"
  /\ state \in {"prepare_image", "sstv_enqueue"} => modulator # "running"

\* The station keeps sending pictures and keeps identifying itself as long as pictures
\* keep being modulated and nobody interrupts it.  And nothing silences the
\* identification for ever but a download that does not end ("TODO: timeout ??",
\* beacon.py:166), an audio server that was given up at its start and is polled
\* for ever, or a program that dies again and again.
KeepsIdentifying ==
  /\ <>[](interrupts = 0) /\ []<>(state = "wait_on_modulator" /\ Joined) =>
       []<>(Playing(SstvSrc)) /\ []<>(Playing(MorseSrc))
  /\ \/ []<>(Playing(MorseSrc))
     \/ <>[](state = "wait_on_image_loader" /\ loader = "running")
     \/ <>[](down /\ state \in {"wait_on_sstv_queue", "pre_morse_activation"})
     \/ []<>(state = "exited")

-----------------------------------------------------------------------------
(* What the source says and the program does not do *)

\* When there is no image ("FAILED, skip this time", beacon.py:179), or its modulation
\* failed (beacon.py:212-213), the beacon goes on with the identification.
FailureSkips ==
  [][(\/ state = "get_image" /\ loader = "failed"
      \/ state = "sstv_enqueue" /\ modulator # "ok")
     => state' \in {state, "pre_morse_activation"}]_beaconVars

=============================================================================
