----------------------------- MODULE Modulation -----------------------------
(***************************************************************************)
(* work() (src/src/lib/sstvi_offline_compute_sstv_signal.cc) in full,      *)
(* among the threads of OfflineCompute: the symbols a state machine sends, *)
(* which samples are taken in which symbol, how the phase is carried from  *)
(* one to the next, and how many samples there are against the number the  *)
(* constructor reserved.  OfflineCompute is its abstraction: there, a      *)
(* signal is a count that goes up to Samples.                              *)
(*                                                                         *)
(* Times are whole nanoseconds, as in the code; Second is how many there   *)
(* are in a second.  A phase is a frequency times a time, so one period is *)
(* Second too.  The value of a sample is a function of its phase and left  *)
(* out.  The state machine d_sm is any that keeps its expected duration:   *)
(* what next_symbol returns depends on the time only.  Module Picture      *)
(* shows that Martin M1 is one.                                            *)
(***************************************************************************)
EXTENDS Integers

CONSTANTS
  Second,            \* units of time in one second, and of phase in one period
  SampleRate,        \* d_sample_rate_hz
  ExpectedDuration,  \* d_sm->get_expected_duration()
  Symbols,           \* the symbols that d_sm may send
  MaxData            \* bound on the calls of set_data

\* A symbol has the offset of its frequency from d_base_freq and a duration; one
\* without a duration ends the picture.
ASSUME ModulationAssumption ==
  /\ Second \in Nat \ {0} /\ SampleRate \in 1..Second /\ MaxData \in Nat \ {0}
  /\ ExpectedDuration \in Nat \ {0}
  /\ Symbols \subseteq [freq : Int, duration : Nat \ {0}]

VARIABLES
  d_done, d_success, data, owner, depth, worker, interrupt, waiter, client,
  over, fresh, good,  \* as in OfflineCompute
  of,                 \* the data that d_signal belongs to
  size,               \* d_signal.size()
  d_signal_ctr,
  sym, sym_start, sample_ctr, phase_acc,   \* locals of work()
  true_phase          \* auxiliary: the frequency integrated over the symbols that are over

signalVars == <<of, size, d_signal_ctr>>
locals == <<sym, sym_start, sample_ctr, phase_acc, true_phase>>
otherVars == <<d_done, d_success, data, owner, depth, waiter, client, over, fresh, good>>
vars == <<otherVars, worker, interrupt, signalVars, locals>>

NoSpare == (ExpectedDuration * SampleRate) \div Second            \* faulty
d_expected_sample_no == (ExpectedDuration * SampleRate) \div Second + 1

\* How much of the reserved signal is computed.
stored == IF d_signal_ctr < d_expected_sample_no THEN d_signal_ctr ELSE d_expected_sample_no

OC == INSTANCE OfflineCompute
        WITH Samples <- d_expected_sample_no, signal <- [of |-> of, n |-> stored]

Silence == [freq |-> 0, duration |-> 0]

\* What next_symbol may return for a symbol that starts then.
NextSymbols(start) ==
  IF start = ExpectedDuration THEN {Silence}
  ELSE {s \in Symbols : start + s.duration <= ExpectedDuration}

Init ==
  /\ of = 0 /\ size = 0 /\ d_signal_ctr = 0
  /\ sym = Silence /\ sym_start = 0 /\ sample_ctr = 0 /\ phase_acc = 0 /\ true_phase = 0
  /\ OC!Init

-----------------------------------------------------------------------------
(* The client, the waiter, and the worker where it only sets flags *)

OtherThreads ==
  /\ UNCHANGED <<signalVars, locals>>
  /\ OC!ClientCall \/ OC!ClientGoesOn \/ OC!Join

\* The beginning of work() and its ends, with which its locals go.
SetFlags ==
  /\ UNCHANGED signalVars
  /\ sym' = Silence /\ sym_start' = 0 /\ sample_ctr' = 0 /\ phase_acc' = 0 /\ true_phase' = 0
  /\ OC!WorkReset \/ OC!WorkPublish \/ OC!WorkAbort

-----------------------------------------------------------------------------
(* The rest of work() *)

sym_end == sym_start + sym.duration

\* seconds(sample_ctr) / d_sample_rate_hz, rounded down to a unit.
t == (sample_ctr * Second) \div SampleRate

\* init_state_machine(), d_signal.clear() and resize(), the first symbol.
Begin ==
  /\ worker = "clear" /\ worker' = "compute"
  /\ of' = data /\ size' = d_expected_sample_no /\ d_signal_ctr' = 0
  /\ sym' \in NextSymbols(0)
  /\ sym_start' = 0 /\ sample_ctr' = 0 /\ phase_acc' = 0 /\ true_phase' = 0
  /\ UNCHANGED <<otherVars, interrupt>>

\* Inside `while( sym.second != zero )`.
InSymbol == worker = "compute" /\ sym.duration # 0

WithinStart(time) == time <= sym_start                           \* faulty
BeforeEnd(time) == time < sym_end                                \* faulty
WithinSymbol(time) == time <= sym_end

\* One sample and the interruption point behind it.  Behind the end of d_signal,
\* add_signal_value makes it one longer and stores at d_signal_ctr, which was
\* incremented before: at() throws again.
AddSample ==
  /\ InSymbol /\ WithinSymbol(t)
  /\ d_signal_ctr' = d_signal_ctr + 1
  /\ size' = IF d_signal_ctr < size THEN size ELSE size + 1
  /\ IF d_signal_ctr < size \/ d_signal_ctr' < size'
       THEN /\ sample_ctr' = sample_ctr + 1
            /\ worker' = IF interrupt THEN "abort" ELSE "compute"
            /\ interrupt' = FALSE
       ELSE worker' = "abort" /\ UNCHANGED <<sample_ctr, interrupt>>
  /\ UNCHANGED <<otherVars, of, sym, sym_start, phase_acc, true_phase>>

\* How far the symbol turns the phase.
phase_shift == sym.freq * sym.duration

Magnitude(phase) == IF phase < 0 THEN -phase ELSE phase

\* fmod keeps the sign of its argument.
fmod(phase, m) == IF phase < 0 THEN -(Magnitude(phase) % m) ELSE phase % m

Forgotten(phase) == IF Magnitude(phase) > 8 * Second THEN 0 ELSE phase   \* faulty
Wrapped(phase) == IF Magnitude(phase) > 8 * Second THEN fmod(phase, Second) ELSE phase

\* The symbol has no sample left: its phase is accumulated and the next one
\* fetched, unless next_symbol throws.
EndSymbol ==
  /\ InSymbol /\ ~WithinSymbol(t)
  /\ \/ /\ phase_acc' = Wrapped(phase_acc + phase_shift)
        /\ true_phase' = true_phase + phase_shift
        /\ sym_start' = sym_end /\ sym' \in NextSymbols(sym_end)
        /\ UNCHANGED worker
     \/ worker' = "abort" /\ UNCHANGED <<phase_acc, true_phase, sym_start, sym>>
  /\ UNCHANGED <<otherVars, interrupt, of, size, d_signal_ctr, sample_ctr>>

\* The symbol of no duration ends the loop.
EndPicture ==
  /\ worker = "compute" /\ sym.duration = 0
  /\ worker' = "publish"
  /\ UNCHANGED <<otherVars, interrupt, signalVars, locals>>

Next ==
  OtherThreads \/ SetFlags \/ Begin \/ AddSample \/ EndSymbol \/ EndPicture

Spec == Init /\ [][Next]_vars

-----------------------------------------------------------------------------
(* Properties *)

\* work() is the one of OfflineCompute: when the last symbol is over the signal has
\* the length the constructor reserved, to the sample, for every sequence of
\* symbols; and nothing but a cancel or an exception ends it earlier.
\* All that is proved of OfflineCompute holds here.
IsOfflineCompute == OC!Init /\ [][OC!Next]_(OC!vars)

\* phase_pulse_fn gets an argument for which it is in [0,1] (cc:299): a sample is
\* taken in the symbol on the air at its time, also after a symbol that is
\* shorter than the distance of two samples and got none.
SampleInSymbol == InSymbol /\ WithinSymbol(t) => t - sym_start \in 0..sym.duration

\* The phase does not jump from one symbol to the next, whatever was cut off the
\* accumulator: it is the true phase up to whole periods, and at most eight of them.
PhaseContinuous ==
  /\ worker = "compute" => (phase_acc - true_phase) % Second = 0
  /\ Magnitude(phase_acc) <= 8 * Second

\* The rounding of the sample times lets no additional sample slip in.
NoExtraSample == ((ExpectedDuration * SampleRate) % Second) + SampleRate <= Second

\* A computation never needs more than what was reserved, but for the durations and
\* rates for which the rounding lets one more sample in.
SignalFits == NoExtraSample => size \in {0, d_expected_sample_no}

\* cc:285 "WARNING signal vector access out of range": an additional sample is
\* appended, and the computation goes on.
OutOfRangeRecovered == size > d_expected_sample_no => worker # "abort"

=============================================================================
