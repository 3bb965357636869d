# A verification of the SSTV beacon

The repository is a ham-radio beacon. It takes a picture from a network camera,
sends it in the slow-scan television mode Martin M1, then identifies the station
in Morse, repeats the identification once a minute, and after a number of minutes
takes the next picture. It is a Python program (`src/src/python/beacon.py`) over
GNU Radio, with its own C++ signal-processing blocks (`src/src/lib`).

This directory holds TLA+ modules of it, TLC configurations that model-check them
and proofs that TLAPS checks. Paths below are relative to `src/src/` unless they
begin with `src/`.

## 1. Inventory

```
          image_loader ----.                  .---- Martin M1 + VIS symbols
          (thread per      |                  |          (C++)
           download)       v                  v
                       beacon.py ----> modulator.py / offline_compute
                       (main loop)     (worker thread, waiter thread)
                           |
                           | enqueue_signal, schedule_src, *_ready
                           v
                      audio_server --- message queue ---> gr.message_source ---.
                           |           vector_source (tone, Morse) ------------+--> sstvi_mux --> sound card
                           '---------- activate_port (no lock) -------------------------^
```

| component | state | operations | module |
|---|---|---|---|
| port multiplexer, `lib/sstvi_mux.cc/.h` | signal on the air (`d_cur_*`), a slot for one request (`d_next_*`) | `ready`, `activate_port` (Python thread); `start`, `general_work`, `get_next_port_activation` (flow thread) | `Mux`, promise `Playlist` |
| audio server, `lib/audio_interface.py` | `src_signal_len`, message queues, the buffers behind them | `add_source`, `start`, `src_ready`, `enqueue_signal`, `scheduler_ready`, `schedule_src`, `stop` | `AudioServer` |
| beacon program, `python/beacon.py` | `state`, `beacon_rep`, `img`, the minute timer | the fourteen states of `run()`, ^C, exit, respawn by upstart | `Beacon` |
| background modulation, `lib/sstvi_offline_compute_sstv_signal.cc/.h`, `lib/modulator.py` | `d_done`, `d_success`, `d_signal`, the thread, the recursive mutex | `set_data`, `start`, `done`, `successful`, `get_signal`, `wait`, `cancel`; `work` | `OfflineCompute`, promise `Job`; `work` in full in `Modulation` |
| image download, `lib/image_loader.py` | event, `data`, the temporary file | `start_get_image`, `done`, `get_image`; `run` of the thread | `ImageLoader`, promise `Job` |
| Martin M1 symbols, `lib/sstvi_martin_m1_state_machine.*`, `lib/sstvi_timing_error.*` | state, position in the data, line, timers | `set_data`, `ready`, `init`, `next_symbol` | `MartinM1`, with its caller `Picture` |
| VIS header, `lib/sstvi_vis_code_state_machine.*` | state, bit, timer | constructor, `init`, `next_symbol` | `VisCode` |
| sampling loop of `work()` | sample counter, phase, symbol, the reserved vector | one symbol into samples, `add_signal_value` | `Modulation` |
| picture layout, `convert_img_to_raw` in `beacon.py` | none | picture to rows of one colour | `ImageLayout`, used by `Picture` |
| Morse audio, `src/external/ditndah` (third party) | none | text to samples | not modelled |
| C++ Morse machine, `lib/sstvi_morse_code_*` | text, sequence of elements | `set_data`, `translate_data`, `translate_letter`, `insert_gap` | `MorseCode` (partly: the class is unfinished and not in `Makefile.am`) |
| SWIG interfaces, build files, tests | | | not modelled (read) |

How they meet, and what is hard about it:

* **beacon – audio server – mux.** The main thread polls `scheduler_ready()` and
  `src_ready()` in one state of its loop and acts on the answer in another. A
  request (port, length) and the signal it is meant for travel apart: the first
  through the mux's slot, the second through a message queue of depth one, a
  library thread and a buffer. Only arithmetic ties them together.
* **main thread – flow thread.** The mux has no lock. A plain `bool` hands the
  slot over, in both directions.
* **main thread – worker – waiter.** `d_done` under a mutex is what keeps
  `get_signal` and `set_data` (which touch the signal and the picture without it)
  away from the worker. A cancel may come at any time.
* **main thread – retriever.** An event hands over the data; a temporary file is
  shared by all downloads and PIL reads it lazily, after the handover.
* **failure.** A download may fail or never end, a picture may be broken,
  modulation may run out of memory, the sound card may be missing; any exception
  or ^C in the loop goes through the `finally` clause of `run()`, and upstart respawns.
  A ^C in `audio.start()` is swallowed by a bare `except:` and the loop runs without
  audio; one in the `finally` clause leaves the rest of it undone.
* **timing.** The symbol machines check their own timing with tolerances smaller
  than a symbol and throw when it is off; their timers survive a cancelled picture.

What makes each correct: the mux sends each accepted request once, whole, in turn;
the streams never slip against the requests; the beacon is a disciplined client of
the audio server, its assertions hold and the station keeps identifying itself;
the modulation and the download are jobs that end once with a stable result and
never share their data while running; the symbol machine is on schedule and never
throws, a receiver reads the mode and paints each byte where it was taken from; the
samples fill exactly what was reserved and the phase never jumps; a Morse text can be
read back. `PROJECT.json` lists every hazard with its line and
the properties that watch it.

## 2. The modules

`Playlist` is the abstract specification of the mux: a slot, a segment on the air,
how much of it is left. `Mux` implements it (checked by TLC with its fairness, its
safety proved by TLAPS); `AudioServer` is built on it (`Mux == INSTANCE Playlist`);
`Beacon` extends `AudioServer`. `Job` is the abstract background job, with its status
as the only variable; `OfflineCompute` and `ImageLoader` implement it, and `Beacon`
uses jobs in exactly that form (`loader`, `modulator`). `Modulation` is the same
modulation with `work()` in full, and implements `OfflineCompute`. `MartinM1` extends
`VisCode` and holds operations only; `Picture` composes it with `ImageLayout` and with
the caller of the machine. `MorseCode` stands alone.

So the composition is checked layer by layer: the mux keeps the promise the audio
server relies on, the beacon keeps the discipline the audio server asks of its
client, and the threads keep the promise the beacon's loop relies on. Below the
threads, `Modulation` takes any sequence of symbols of the expected duration, and
`Picture` sends one (`OnSchedule`, `MachineFeedsModulation`). Every one of these
steps is also a theorem (section 5); a module `XProofs` holds the theorems about `X`.

**Faulty variants.** A definition whose line ends in `\* faulty` is not part of any
model. It stands before the definition it could replace and is what that definition
would be after a plausible mistake (a flag published before its data, a forgotten
reset, a dropped guard). `PROJECT.json` lists, for every property of every passing
run, a variant that breaks it, so that each property is known to be able to fail.

### Mux (`sstvi_mux.cc`, `.h`)

Two threads, one action per access to shared memory. `ActivatePort` is the test of
`d_next_set` and of the port; `Store(f)` is each of the three stores;
`Select` resets the current signal to the default and tests the flag; `Fetch(f)` is
each of the two loads and the clear; `Work(nin, nout)` is one round of the loop in
`general_work`, with any number of input items and any output room, `nin = 0`
standing for an input that has nothing. `Interrupt` is `tb.stop()`. The constant
`ProgramOrder` says whether accesses become visible in source order. The C++ of the
time gives no memory model and plain variables promise nothing, so both values are
checked; everything but the run `mux_reordered` assumes TRUE, which is what an x86
machine and an unsurprising compiler produce.

### AudioServer (`audio_interface.py`)

`lengths` is `src_signal_len`; `queue[s]` the `gr.msg_queue(1)`; `pipe[s]` the
message the library's `message_source` is copying out and its buffer, as lengths of
what is left of each signal; `pos` the position of each repeating vector source. A
signal is its number of items. The library parts (`TakeMessage`, the topology
check, `tb.stop`) are external and modelled from how the code uses them.
`stop()` is two actions because its caller may be seen between them. `Client` is
the client the interface wants: start first, schedule what you enqueued before you
enqueue again, enqueue nothing between the halves of `stop()` (`Settled`). After `stop()`
it may go on, in vain, as the beacon does after a ^C in `audio.start()`. It is
deliberately more liberal than the beacon (any source, any order, two message sources).

### Beacon (`beacon.py`)

One action per state of `run()`. A branch that sleeps and polls again is the action
being disabled. The three states that poll the scheduler are one action with three
disjuncts. `GetImage` and `SstvEnqueue` follow the code literally: the state the
failure branches assign is overwritten by the last statement. The model begins at
`audio.start()`: it succeeds or raises (`StartAudio`), or is interrupted before or after it
has started the flowgraph (`InterruptStart`); the bare `except:` around it takes either,
stops the audio server (`GiveUpAudio`), and `run()` is entered all the same
(`EnterLoop`). `Raise` leaves the loop for the `finally` clause: `Cleanup` and
`HaltFlowgraph` are the halves of `audio.stop()`, `EndRun` stops the timer.
`Interrupt` is any other ^C: in the loop it leads to the `finally` clause, before the loop
and in that clause it ends the main thread at once, since `audio.stop()` catches
`Exception` only, and a timer may be left running. A ^C inside an operation is taken before
or after it; what it leaves half done (a message without its length, a queue without EOF)
is used by nobody, as after it only the end of the program follows. Nor are the ^C that
`modulator.wait()` and `uptime` swallow actions of their own: the first asks the computation to
stop, which `ModulatorEnds` covers, the second changes a text. The end of the process joins a
running timer, and no ^C gets through to that join. `Respawn` is upstart, after the last
non-daemon thread has ended. `Terminate` is an exception of
`work()` outside its `try` (`resize` without memory, `throw_data_not_ready`): C++ ends
the process with no `finally` and no timer left to wait for. A picture is `none`,
`good`, or `bad` (one whose pixels cannot be read). Minutes pass by `TimerFires`.

### OfflineCompute and ImageLoader

Each critical section is one action, each unlocked access to shared data an action
of its own. `successful()` is three actions because it calls `done()` inside its own
critical section. `over`, `fresh`, `good` are what the client knows; they guard only
what the client does (it prepares a computation only when it knows the one before is
over, and sets data before every start, as `beacon.py` and the test do). In
`ImageLoader` the assignment `self.data = None` after `self.start()` in the
constructor is an action of its own, because the thread runs already. `EndDownload` takes
it that `urlretrieve` raises when a transfer ends early, which it does when the camera sends
a Content-Length; without one a cut picture would be returned as a whole one.

### Modulation (`work()`)

The worker of `OfflineCompute`, statement by statement; the other threads are its
actions (`OC!Start`, `OC!Cancel`, ...). `AddSample` is one round of the inner loop with
`add_signal_value`, its handler and the interruption point; `EndSymbol` what follows the
inner loop; `EndPicture` the symbol of no duration; `t` the rounded division
`seconds(sample_ctr) / d_sample_rate_hz`. A phase is frequency times time, so a period is
`Second` and the arithmetic is exact; the code's `double`s are not, and what they lose is
not modelled. The symbols come one by one from any machine that keeps its expected
duration (`NextSymbols`): a symbol is over at `ExpectedDuration` at the latest, and there,
and only there, comes the symbol of no duration. `true_phase` is auxiliary: the frequency
integrated over the symbols that are over, which the code never computes and
`PhaseContinuous` compares its accumulator with. In the refinement, `Samples` is `d_expected_sample_no` (the constructor's
duration * rate / second + 1) and the signal is `stored` samples of the data `of`. That
`OfflineCompute` moves from "compute" to "publish" only when all `Samples` are there is
what makes the refinement say that the count of the loop is the one of the constructor.

### Picture, MartinM1, VisCode, ImageLayout

`ImageLayout` is `convert_img_to_raw`, its three loops one byte a step; it represents a
byte by the pixel and band it came from. `MartinM1` and `VisCode` have one definition per case of `next_symbol`. Time is exact,
in units of 100 ns, the greatest unit in which every duration the constructors set is
a whole number. A symbol carries its tone, or the byte whose level it has, so that
`Picture` can state what a receiver gets. `Picture` adds the caller, whose place is `doing`: `PrepareImage` and `ConvertByte`
(the loops), `SetData`, `StartSending` (`init_state_machine`), `SendSymbol`, and
`StopSending` after any symbol, for an exception, a cancel or the end. `Due`, `VisDue`
and `PixelDue` are references: when a state, or a pixel, is due, computed from its
place in the picture. A throw is a state (`raised`), so that "never throws" can be checked.

### MorseCode (`sstvi_morse_code_*`)

`translate_data` with the loops it calls, an element of a character a step: `SetData`
begins, `SendElement` is a round of `translate_letter`, `InsertGap` follows every
character, `Finish` what is behind the loop. The elements and the table are in `MorseInfo`.
The sequence `d_morse_seq` is represented by what a receiver makes of it (`heard`, to which
`HearTone` and `HearSilence` add an element): the receiver measures silences and knows
nothing of the sender but the table. `said` is auxiliary, the text of the characters
that are over; no guard reads it. The module takes any table in which no two characters
share a code (`TableAssumption`); the run gives it the code's. `next_symbol`, `init` and
`ready` are left out: they name states and members the class does not have (they are a copy
of the Martin M1 machine).

## 3. The runs

| run | bounds | shows |
|---|---|---|
| `mux` | 3 ports; three requests, one on a port that is not connected; tone of 2; up to 3 items in, 2 out | No torn or lost request, no abort, only accepted signals on the air, the slot is served, and `Playlist!Spec` with its liveness. |
| `mux_reordered` | the same, accesses in any order | The assertion on the length fails (finding). |
| `audio_server` | two message sources, two constant ones, signals of 1 and 3 items, a buffer of 1 | `StreamsAligned`, `ConstantsAligned`; queues drain, requests end. |
| `beacon` | picture of 2 and pause of 1, two minutes, three ^C anywhere in each life, audio may fail to start | Its assertions hold, no stale timer after one ^C, identification before the minute, no identification is refused or scheduled on a flowgraph that is not running (nor a picture but in the case `ScheduledOnAir` names), it is a disciplined client, its jobs are over when it touches their data, it keeps identifying itself or is in one of three named troubles, and it gets stuck in two polls only, which `EndlessPoll` names. |
| `beacon_skips` | the same without ^C and with audio | Finding. |
| `offline_compute` | a signal of 2 samples, 3 pictures | No data race, success means a complete signal of the newest data, `wait()` ends, it is a `Job`. |
| `image_loader` | four downloads | The picture is whole, the end is noticed, it is a `Job`. |
| `picture` | the real durations, a picture of 4 by 3, grey and CMYK pictures and four orders of the three colours | On schedule, right rows, no throw, header and pixels as a receiver reads them, also after cancels. |
| `picture_colours` | the same, RGB only | Finding. |
| `modulation` | 10 units a second, 3 samples a second, pictures of 10 units in any symbols of 1, 4, 5 or 8 units and two frequencies, three calls of `set_data` | Samples lie in their symbol, the phase does not jump, the signal is filled exactly; `work()` implements `OfflineCompute`. |
| `modulation_range` | pictures of 13 units | Finding. |
| `morse` | every character of the table alone; every text of up to three of E, T, N, ?, space and a character not in the table | Wherever a character is over, a receiver has read the text so far; words are a long gap apart. |

Why the bounds are enough. *Mux*: every loop round compares three numbers (left,
available, room); 2, 3 and 2 make each the least, and with signals of two and
three items a signal ends in the middle and at the end of a call. The slot holds one
request and the flow thread one more; two accepted requests that differ in port and in
length from each other and from the tone tell a mixed one apart. *AudioServer*: one signal on the air, one in the
slot, one enqueued is as full as a stream can be; a buffer of one item against
signals of three makes the message source wait. *Beacon*: two identifications
and so one repeat; three ^C in a life are one in `audio.start()`, one in the loop that
goes on without audio and one in the `finally` clause; `Respawn` resets the count, so
that they may come in every life.
*OfflineCompute*: a third picture after a cancelled and a failed one.
*ImageLoader*: the rounds are independent but for the file, so two would do.
*Picture*: four pixels per row and three lines pass the first, a middle and the
last of each, and differ, so that rows and columns cannot be mixed up; the machine is
used again after a picture that was cancelled at any symbol. The timing does not depend on the picture's contents.
The run cannot say anything about rounding (the code adds `double`s) nor
about 320 by 256: the tolerances there have to absorb 245 760 additions.
*Modulation*: the sample times 0, 3, 6, 10 are one exact and two rounded ones; symbols
below, between and above their distance; frequencies with which the accumulated phase
passes eight periods in both directions. Both outcomes of the count occur (10 units, and
13 in `modulation_range`). A second and a third picture come after a cancelled, a failed
and a whole one.
*MorseCode*: a gap depends on two characters in sequence, a run of blanks on three.
TLC's integers have 32 bits, too few for nanoseconds; the condition `NoExtraSample` with
the real values says that the beacon is on the good side, which is a theorem
(`BeaconSignalFits`, section 5).

`CHECK_DEADLOCK FALSE` is said where a behaviour really may end: `mux` and `audio_server`
end with `tb.stop()`; `image_loader` ends after the last download its bound allows. In
`beacon` two states without a step but ^C are reachable, and `NeverStuck` says that they are the
only ones, first with the guards (`Moves`, which section 5 proves) and then with `ENABLED`.
After a failed `audio.start()` the program goes on (`beacon.py:139`) and polls
`src_ready` for ever, because the EOF message that `audio.stop()` queued is never taken.
After a ^C in it, the flowgraph may have run and taken the EOF before it was halted: then the
picture is enqueued and scheduled, and the loop polls `scheduler_ready` for ever, because the
halted mux never empties its slot. `offline_compute`,
`picture`, `modulation` and `morse` are checked for deadlock.

### Fairness

* The flow thread and the message source's thread are scheduled (weak fairness). In
  `Mux`, input items keep coming; `AudioServer` has no such assumption:
  `SendItem` needs a real item, and `StreamsAligned` is why one is there.
* A call of `activate_port` that was begun ends.
* The beacon's loop is one thread: weak fairness of `Loop` as a whole; its branches
  that choose (a good or a bad picture) carry none, so nothing says that pictures
  are ever good. That is why the first half of `KeepsIdentifying` (pictures and
  identifications go out for ever) has the premise that pictures keep being modulated,
  and that in the end there are no more ^C.
  Its second half has none: the identification goes on for ever, or a
  download hangs, or an audio server that was given up at its start is polled for ever, or
  the program dies for ever again.
* No fairness on the end of a download: `urlretrieve` has no timeout ("TODO:
  timeout ??", `beacon.py:166`). None on ^C or `Terminate` either: they may happen.
* No client is obliged to call anything (`ClientCall` has no fairness).
* The worker of `OfflineCompute` has strong fairness: the client may
  lock the mutex again and again, but gives it up each time.

## 4. Findings

1. `mux_reordered` / `NoAbort`: the mux's slot is a data race. If the flag is seen
   before the length, `assert( d_cur_length > 0 )` aborts (`sstvi_mux.cc:113`).
2. `beacon_skips` / `FailureSkips`: "FAILED, skip this time" (`beacon.py:179`) is
   followed by an assignment that overwrites the state; the program then works on
   `None` and dies. The same pattern is at line 221 (the second disjunct of the
   property): a failed modulation is transmitted.
3. `modulation_range` / `OutOfRangeRecovered`: the recovery of `add_signal_value` from an
   index out of range throws again, because the index was incremented before.
4. `picture_colours` / `ColoursRight`: `for i in range(2)` looks at two of three
   bands; an RGB picture is sent with green in the blue row.

Finding 2 does not break the `beacon` run's properties: the program dies
and is respawned, or sends a signal that has the length it says.

Some more things a maintainer should know are part of passing runs: the endless poll after a
failed or interrupted `audio.start()` (`EndlessPoll`), where the ^C that should have ended the
program silences it instead; the minute timer that a second ^C leaves running, up to a minute
during which the process does not end (`NoStaleTimer`); and the constructor of `image_retriever`, which assigns `data = None`
after it started the thread (`ConstructorEnds`). A download that ends before that line
is forgotten and `get_image()` returns `None`; nobody has seen its outcome before, so
the loader is still a `Job`.
In `MorseCode`, a character that is not in the table, a lowercase letter among them, becomes a
blank without a word (`translate_letter` returns true), and the silence between two
letters lasts four units, not the three of `t_short_gap` ("between letters",
`lib/sstvi_morse_code_info.h:38`), as every element, the last one too, is followed by a gap.
A receiver still reads the text.

## 5. What is proved

### The mux (`MuxProofs`)

For every number of ports, every set of requests, every default length and every
buffer size, under `ConstantsAssumption` (the audio server only schedules
lengths above zero and sets a tone that is not empty) and `ProgramOrder` (accesses
in source order; `mux_reordered` shows that without it the theorems are false):

| theorem | property |
|---|---|
| `TypeCorrect` | `TypeOK`: types, and the position never passes the end of the signal |
| `SlotExclusive` | `NoTornSlot`: writer and reader are never in the slot together |
| `NeverAborts` | `NoAbort` |
| `WholeOnAir` | `OnAirIsWhole` |
| `ImplementsPlaylist` | `Mux` implements `Playlist`: the safety part of `KeepsPromise` |

The argument is ownership. While `d_next_set` is FALSE the slot belongs to the writer,
while it is TRUE to the reader: the writer stores only after it read FALSE and ends
its ownership with the store of TRUE, the reader the other way round. `Handshake` says
so; it needs `StorePhases` and `LoadPhases`, the sets of pending accesses that are
possible in program order. `SlotFilled` adds that what was stored is what was asked,
`SlotLoaded` that what was loaded is what was stored, `Started` that the port was checked
against the number of inputs the flow thread has, `SignalOver` that the mux turns to the
next signal only when the last item of the one before was copied. None of the
properties is inductive without these. A lemma per helper (`NextStore`, `NextLoad`,
`CopyBounded`) keeps sets and arithmetic out of the step lemmas.

In the refinement mapping `leftBar` counts what really was copied, at the end of a
signal too, so that a mux that cuts a signal short is not a `Playlist`.

### The audio server (`AudioServerProofs`)

For every number of sources, every set of signal lengths and every buffer:
`AudioTypeCorrect`, `SignalsWhole` (`StreamsAligned`), `ConstantsWhole`
(`ConstantsAligned`), and `PlaysAPlaylist`: every behaviour of the server is one of
`Playlist`, the specification that `MuxProofs` shows the multiplexer to implement, so
the two components fit. `StreamsAligned` is an equation between sequences: what is in
queue and pipe of a source is, signal by signal, what the segment on the air, the slot and
the client still owe it. It survives a step of the flow thread only together with what
`AudioInv` adds: a constant source's request has the length of its vector
(`ConstantLengths`), no more is left of a segment than the signal has (`LeftOfSignal`), and
no end-of-file message is in the queue before `stop()` (`NoEarlyEnd`). A few
lemmas on sequences (`HeadMoves` and its neighbours) say how a signal moves on from the
queue to the pipe to the air without the stream changing.

`NeverStarves` says what the balance is for: as long as the queues are open, the running
flowgraph can go on. When the mux is in the middle of a signal and its input is empty,
something is owed to the stream, so its message is in the queue, and an empty buffer has
room for it, whatever its size.

### The beacon (`BeaconProofs`)

For every length of picture and pause, every number of minutes and every message source
named by `SstvSrc` and `MorseSrc`: `BeaconTypeCorrect`, `AssertionsNeverFail`
(`AssertsHold`), `NothingScheduledInVain` (`ScheduledOnAir`), `TimersNeverOverlap`
(`NoStaleTimer`), `IdentificationBeforeMinute` (`IdentifiedFirst`), `JobsAreOver`
(`JobsOver`) and `BeaconIsDisciplined` (`DisciplinedClient`). The last is a refinement:
each step of the program is one of the audio server with a client it may have, so
`AudioInv` holds in the beacon too (`BeaconSignalsWhole`). `LoopRunsJobs` is the same for
the two jobs: the loop starts and prepares them only as `Job` allows, so what
`ImageLoader` and `OfflineCompute` were proved to implement is what the beacon uses.
`StuckInThePollOnly` is the part of `NeverStuck` that can be said with guards: in every
state a thread runs, the loop does not wait, or what it waits for is there or on its
way, but for the endless poll after a failed or interrupted start of the audio. It rests on
`NeverStarves`.

No assertion is inductive. `run()` polls in one state and acts in another, so `BeaconInv`
says what a poll is still worth when it is used: only the loop fills the slot, hence it
is free when the loop comes to schedule (`SlotPolled`); a picture is enqueued and not yet
scheduled in two states only (`Enqueued`); what is in the slot behind a
picture is the identification (`PictureFirst`). `AudioState` tells the three kinds of life
apart: the flowgraph runs (`OnTheAir`), it never ran and the loop does not get past the full
queue (`NeverStarted`), or a ^C halted it and the loop gets as far as the slot, which is
filled when the loop comes back to it (`StoppedAtStart`). A job is left behind only by an
interrupt or an exception; a timer only by an interrupt, and beyond the `finally` clause only
by two (`ThreadsAwaited`). The conjuncts hold through ^C in any state, failed audio, and
respawns, for every bound on the ^C. `BeaconAssumption` says that there is at least one minute and that the
sources differ.

### The modulation (`OfflineComputeProofs`)

For every number of samples and of pictures: `TypeCorrect`, `RaceFree` (`NoDataRace`),
`SuccessIsComplete` (`SuccessMeansComplete`) and `ImplementsJob` (the safety part of
`IsJob`). The assumptions are in the client's guards: it calls `set_data` and
`start` only when it knows that no computation is under way, and sets data before each
start. The invariant: `d_done` and `d_success` are FALSE as long as `work()` runs, what
the client believes is true (`Handover`); between `set_data` and `start` nothing is done
(`Prepared`), which closes the gap between `start()` and the first statement of
`work()`; what the flags say of the signal (`SaidOfSignal`); and who holds the mutex when
`successful()` calls `done()` (`Locked`).

### `work()` in full (`ModulationProofs`)

For every rate, every number of units in a second, every expected duration and every set
of symbols: `SamplesInSymbols` (`SampleInSymbol`), `PhaseNeverJumps` (`PhaseContinuous`),
`NeverTooLong` (`SignalFits`) and `ImplementsOfflineCompute` (`IsOfflineCompute`). The only
assumption is that there is no more than one sample in a unit of time. The argument is
arithmetic of rounded division: a sample behind the end of the picture has all the reserved
ones before it (`EnoughSamples`), so the loop cannot end with fewer; and where
`NoExtraSample` holds, the first one that was not reserved is behind the end
(`NoneTooMany`), so there are never more. `ModulationInv` ties the loop to it: every
sample so far is in the reserved signal, the symbol on the air began before the next
sample and is over in time (`SymbolInv`), and accumulator and true phase differ by whole
periods (`PhaseInv`), which `WrapsPeriods` shows `fmod` to preserve for either sign.
With the refinement the theorems about the threads hold of this `work()` as well:
`SuccessIsComplete` is `NoDataRace` and `SuccessMeansComplete` for it, and `ImplementsJob`
goes on to `Job`, the form in which `Beacon` uses it: one chain from the samples to the
loop of the program. `BeaconSignalFits` is `SignalFits` with the program's numbers, which are
beyond TLC's integers: at 48000 samples a second, a picture of 115.200176 s needs at most
the 5 529 609 samples that were reserved.

### The symbols of a picture (`PictureProofs`)

For every size of a picture, every duration of the parts of a line and of the header,
every tolerance, every seven-bit code and every set of band orders: `PictureTypeCorrect`
(`TypeOK`), `NothingThrown` (`NeverThrows`), `RowsInPlace` (`RightRow`),
`SymbolsOnSchedule` (`OnSchedule`), `ModeReadBack` (`HeaderRight`) and
`PicturePaintedRight` (`PaintedRight`). The assumptions are `MartinAssumption` and
`VisAssumption`: durations and sizes are not zero, the code has seven bits. Tolerances may
be zero: in exact arithmetic the timing checks compare equal numbers.

`MachineInv` is the machine between two symbols: `HeaderState` (the header's machine
is where the outer one thinks it is, though `init` resets them one after the
other), `Places` (which byte is next in each state, of which `RightRow` is the part
inside a row), `OnSchedule`, and `Timers`: the three timers were started when the
machine thinks they were. `Timers` is what "never throws" rests on, and what a cancelled
picture could break: a timer keeps the time of the picture before. Since the time
of a symbol is a sum of products of sizes and durations, most of the work is in a few
lemmas: a number has one quotient and remainder (`UniquePlace`), hence a position has
one line, row and column (`Columns`), and a time has one pixel (`SamePixel`).
In `PictureInv`, `LayoutInv` says that what the loops of `convert_img_to_raw` have appended
is laid out as the machine will read it, and `CallerInv` with `SymbolSent` that every symbol
is a bit of the header, a pulse or the byte that is due. From these `PaintedRight` follows
without induction over the picture. `MartinM1Lasts` evaluates the expected duration
with the constructors' numbers.

`MachineFeedsModulation` joins the two layers. `Modulation` lets the symbol machine
answer with any symbol that ends within the expected duration, and with the end exactly
there; the theorem says that each call of `next_symbol()` answers so, for every size and
duration: the only state that is due at the expected end is `SSTV_EXIT`, and every other one
sends a symbol that takes time (`EndIsLate`, `SendLasts`). So what `ModulationProofs` shows
of the signal holds for the signal of these pictures.

### The Morse code (`MorseProofs`)

For every text and every table in which no two characters share a code: `TextReadBack`
(`ReadBack`) and `WordsLongGapApart` (`WordsApart`). The text is not bounded and the code of
a character is not known, so nothing can be evaluated; the argument is an invariant
of the receiver. `Between` says that between two characters the last letter is still under
way, its code is complete, and the silence behind it is four units, or at least seven if
blanks followed; ending the letter then gives what was said (`ReadIsHeard`), since a table
without a code twice can be read backwards (`LetterOfCode`). `Within` says that inside a
character the elements heard are a prefix of its code and all before it is read.
`Spacing` counts the silences, for texts in which no two blanks meet.

### The download (`ImageLoaderProofs`)

For every number of downloads: `TypeCorrect`, `WholePicture` (`ImageIsWhole`) and
`ImplementsJob` (`IsJob`). The main thread takes and reads only after the event and is
free only after it (`Waited`); a retriever says "file" only when it has written all of
it (`SaidOfFile`). The race in the constructor (section 4) does not break the refinement: the
outcome it forgets is not visible before the constructor returns.

### Under all of them

Integers are unbounded and time is exact: rounding of the code's `double`s is
not in the theorems, nor in the runs. Where a run and a theorem state the same
property, the run is the small instance that also shows that the hypotheses are met: every
`ASSUME` is evaluated by the run of its module.

## 6. What is only model-checked, and why

* Liveness (`SlotServed`, `SignalsDrain`, `KeepsIdentifying`, `WaitEnds`, `EndIsNoticed`),
  and the fairness part of `KeepsPromise` and of `OfflineCompute`'s `IsJob`: liveness under
  fairness is out of the prover's reach.
* The part of `NeverStuck` of `Beacon` with `ENABLED`: that the guards in `Moves` are
  those of the actions. That one of them always holds is proved (`StuckInThePollOnly`).

## 7. What is not modelled, and the plan

Not modelled: `draw_text` and `uptime` (formatting), the third-party Morse library
`ditndah` (its samples are taken as they come), `next_symbol`, `init` and `ready` of the C++
Morse machine (unfinished, see section 2), SWIG declarations, build files,
`recreate_impl` and `timed_join` (never called), the values of samples, and the loss of
precision in `double`s.

What could come next: the mux with several rounds of `general_work`'s loop in one call, and
the sound card's demand, to state that the tone never stops for want of a request; and
`next_symbol` of the C++ Morse machine, once it is written.
