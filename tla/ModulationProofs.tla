-------------------------- MODULE ModulationProofs --------------------------
(***************************************************************************)
(* What work() computes, for every sample rate, every number of units in a *)
(* second, and every sequence of symbols with the expected duration:       *)
(* samples lie in their symbol, the phase never jumps, the signal has the  *)
(* length that was reserved.  With it work() implements OfflineCompute,    *)
(* and what is proved there holds of the modulation with all its symbols.  *)
(***************************************************************************)
EXTENDS Modulation, TLAPS

-----------------------------------------------------------------------------
(* Arithmetic *)

LEMMA MulLess ==
  ASSUME NEW a \in Int, NEW b \in Int, NEW n \in Nat, a < b
  PROVE  a * n + n <= b * n
<1>1. b - a - 1 \in Nat
  OBVIOUS
<1>2. (b - a - 1) * n >= 0
  BY <1>1
<1>3. (b - a - 1) * n = b * n - a * n - n
  OBVIOUS
<1> QED BY <1>2, <1>3

LEMMA Quotient ==
  ASSUME NEW a \in Int, NEW n \in Nat \ {0}
  PROVE  /\ a \div n \in Int /\ a % n \in 0..n - 1
         /\ a = (a \div n) * n + (a % n)
  OBVIOUS

\* The whole periods of the phase.
Whole(phase) == \E k \in Int : phase = k * Second

LEMMA WholePeriods == \A p \in Int : p % Second = 0 <=> Whole(p)
<1> SUFFICES ASSUME NEW p \in Int PROVE p % Second = 0 <=> Whole(p)
  OBVIOUS
<1> USE ModulationAssumption
<1>1. /\ p \div Second \in Int /\ p % Second \in 0..Second - 1
      /\ p = (p \div Second) * Second + (p % Second)
  BY Quotient
<1>2. ASSUME p % Second = 0 PROVE Whole(p)
  <2> DEFINE q == p \div Second
  <2>1. q \in Int /\ p = q * Second + 0
    BY <1>1, <1>2
  <2> HIDE DEF q
  <2>2. p = q * Second
    BY <2>1
  <2> QED BY <2>1, <2>2 DEF Whole
<1>3. ASSUME Whole(p) PROVE p % Second = 0
  <2>1. PICK k \in Int : p = k * Second
    BY <1>3 DEF Whole
  <2> DEFINE q == p \div Second
             r == p % Second
  <2>2. q \in Int /\ r \in 0..Second - 1 /\ q * Second + r = k * Second
    BY <1>1, <2>1
  <2> HIDE DEF q, r
  <2>3. CASE q < k
    BY <2>2, <2>3, MulLess
  <2>4. CASE k < q
    BY <2>2, <2>4, MulLess
  <2>5. r = 0
    BY <2>2, <2>3, <2>4
  <2> QED BY <2>5 DEF r
<1> QED BY <1>2, <1>3

LEMMA WholeSum ==
  ASSUME NEW p \in Int, NEW q \in Int, Whole(p), Whole(q)
  PROVE  Whole(p + q)
<1>1. PICK k \in Int : p = k * Second
  BY DEF Whole
<1>2. PICK l \in Int : q = l * Second
  BY DEF Whole
<1>3. p + q = (k + l) * Second
  BY <1>1, <1>2, ModulationAssumption
<1> QED BY <1>3 DEF Whole

\* What the accumulator loses when it is wrapped are whole periods.
LEMMA WrapsPeriods ==
  ASSUME NEW p \in Int
  PROVE  /\ Wrapped(p) \in Int
         /\ Magnitude(Wrapped(p)) <= 8 * Second
         /\ Whole(Wrapped(p) - p)
<1> USE ModulationAssumption
<1>1. CASE Magnitude(p) <= 8 * Second
  <2>1. Wrapped(p) = p
    BY <1>1 DEF Wrapped, Magnitude
  <2>2. Wrapped(p) - p = 0 * Second
    BY <2>1
  <2> QED BY <1>1, <2>1, <2>2 DEF Whole
<1>2. CASE ~(Magnitude(p) <= 8 * Second) /\ p < 0
  <2> DEFINE m == Magnitude(p)
             q == m \div Second
             r == m % Second
  <2>1. m \in Int /\ p = 0 - m
    BY <1>2 DEF Magnitude
  <2>2. Wrapped(p) = -r
    BY <1>2, <2>1, SMT DEF Wrapped, fmod
  <2> HIDE DEF m
  <2>3. q \in Int /\ r \in 0..Second - 1 /\ m = q * Second + r
    BY <2>1, Quotient
  <2> HIDE DEF q, r
  <2>4. Wrapped(p) \in Int /\ Magnitude(Wrapped(p)) <= 8 * Second
    BY <2>2, <2>3 DEF Magnitude
  <2>5. Wrapped(p) - p = q * Second
    BY <2>1, <2>2, <2>3
  <2> QED BY <2>3, <2>4, <2>5 DEF Whole
<1>3. CASE ~(Magnitude(p) <= 8 * Second) /\ p >= 0
  <2> DEFINE q == p \div Second
             r == p % Second
  <2>1. q \in Int /\ r \in 0..Second - 1 /\ p = q * Second + r
    BY Quotient
  <2>2. Wrapped(p) = r
    BY <1>3 DEF Wrapped, fmod, Magnitude
  <2> HIDE DEF q, r
  <2>3. Wrapped(p) \in Int /\ Magnitude(Wrapped(p)) <= 8 * Second
    BY <2>1, <2>2 DEF Magnitude
  <2>4. (0 - q) * Second = 0 - q * Second /\ 0 - q \in Int
    BY <2>1
  <2>5. Wrapped(p) - p = (0 - q) * Second
    BY <2>1, <2>2, <2>4
  <2> QED BY <2>3, <2>4, <2>5 DEF Whole
<1> QED BY <1>1, <1>2, <1>3

-----------------------------------------------------------------------------
(* The times of the samples *)

SampleTime(c) == (c * Second) \div SampleRate

LEMMA Sizes ==
  /\ Second \in Nat \ {0} /\ SampleRate \in Nat \ {0} /\ SampleRate <= Second
  /\ ExpectedDuration \in Nat \ {0} /\ MaxData \in Nat \ {0}
  /\ ExpectedDuration * SampleRate \in Nat
  BY ModulationAssumption

LEMMA TimeBounds ==
  ASSUME NEW c \in Nat
  PROVE  /\ SampleTime(c) \in Nat /\ c * Second \in Nat
         /\ SampleTime(c) * SampleRate \in Nat
         /\ SampleTime(c) * SampleRate <= c * Second
         /\ c * Second < SampleTime(c) * SampleRate + SampleRate
<1> USE Sizes
<1> DEFINE x == c * Second
           q == x \div SampleRate
<1>1. x \in Nat
  OBVIOUS
<1>2. SampleTime(c) = q
  BY DEF SampleTime
<1> HIDE DEF x
<1>3. /\ q \in Int /\ x % SampleRate \in 0..SampleRate - 1
      /\ x = q * SampleRate + (x % SampleRate)
  BY <1>1, Quotient
<1> HIDE DEF q
<1>4. q >= 0
  <2>1. SUFFICES ASSUME q < 0 PROVE FALSE
    BY <1>3
  <2>2. q * SampleRate + SampleRate <= 0 * SampleRate
    BY <1>3, <2>1, MulLess
  <2> QED BY <1>1, <1>3, <2>2
<1>5. q * SampleRate \in Nat
  BY <1>3, <1>4
<1> QED BY <1>1, <1>2, <1>3, <1>4, <1>5 DEF x

LEMMA TimeGrows ==
  ASSUME NEW c \in Nat
  PROVE  SampleTime(c) <= SampleTime(c + 1)
<1> USE Sizes
<1> DEFINE q == SampleTime(c)
           s == SampleTime(c + 1)
<1>1. /\ q \in Nat /\ q * SampleRate \in Nat /\ q * SampleRate <= c * Second
      /\ c * Second \in Nat
  BY TimeBounds
<1>2. /\ s \in Nat /\ s * SampleRate \in Nat /\ (c + 1) * Second < s * SampleRate + SampleRate
  BY TimeBounds
<1>3. (c + 1) * Second = c * Second + Second
  OBVIOUS
<1> HIDE DEF q, s
<1>4. CASE s < q
  BY <1>1, <1>2, <1>3, <1>4, MulLess
<1>5. q <= s
  BY <1>1, <1>2, <1>4
<1> QED BY <1>5 DEF q, s

\* What the constructor computes: the samples in the whole periods, and one more.
LEMMA Reserved ==
  LET M == (ExpectedDuration * SampleRate) \div Second
      r == (ExpectedDuration * SampleRate) % Second
  IN  /\ M \in Nat /\ r \in 0..Second - 1 /\ d_expected_sample_no = M + 1
      /\ M * Second \in Nat
      /\ ExpectedDuration * SampleRate = M * Second + r
<1> USE Sizes
<1> DEFINE x == ExpectedDuration * SampleRate
           M == x \div Second
           r == x % Second
<1>1. x \in Nat
  OBVIOUS
<1>2. M \in Int /\ r \in 0..Second - 1 /\ x = M * Second + r
  BY <1>1, Quotient
<1>3. d_expected_sample_no = M + 1
  BY DEF d_expected_sample_no
<1> HIDE DEF x, M, r
<1>4. M >= 0
  <2>1. SUFFICES ASSUME M < 0 PROVE FALSE
    BY <1>2
  <2>2. M * Second + Second <= 0 * Second
    BY <1>2, <2>1, MulLess
  <2> QED BY <1>1, <1>2, <2>2
<1>5. M * Second \in Nat
  BY <1>2, <1>4
<1> QED BY <1>1, <1>2, <1>3, <1>4, <1>5 DEF x, M, r

LEMMA SomeReserved == d_expected_sample_no \in Nat \ {0}
  BY Reserved

\* A sample behind the picture has all that were reserved before it.
LEMMA EnoughSamples ==
  ASSUME NEW c \in Nat, ExpectedDuration < SampleTime(c)
  PROVE  d_expected_sample_no <= c
<1> USE Sizes
<1> DEFINE M == (ExpectedDuration * SampleRate) \div Second
           x == ExpectedDuration * SampleRate
<1>1. /\ M \in Nat /\ d_expected_sample_no = M + 1 /\ M * Second \in Nat /\ x \in Nat
      /\ M * Second <= x
  BY Reserved
<1>2. SampleTime(c) \in Nat /\ SampleTime(c) * SampleRate <= c * Second
      /\ SampleTime(c) * SampleRate \in Nat /\ c * Second \in Nat
  BY TimeBounds
<1>3. x + SampleRate <= SampleTime(c) * SampleRate
  BY <1>2, MulLess
<1> HIDE DEF M, x
<1>4. CASE c < M
  BY <1>1, <1>2, <1>3, <1>4, MulLess
<1>5. c # M
  BY <1>1, <1>2, <1>3
<1> QED BY <1>1, <1>4, <1>5

\* Without an additional sample, the one behind the reserved ones is behind the picture.
LEMMA NoneTooMany ==
  ASSUME NoExtraSample
  PROVE  ExpectedDuration < SampleTime(d_expected_sample_no)
<1> USE Sizes
<1> DEFINE x == ExpectedDuration * SampleRate
           M == x \div Second
           r == x % Second
           N == d_expected_sample_no
           q == SampleTime(N)
<1>1. /\ M \in Nat /\ r \in 0..Second - 1 /\ N = M + 1 /\ M * Second \in Nat
      /\ x = M * Second + r /\ x \in Nat
  BY Reserved
<1>2. r + SampleRate <= Second
  BY DEF NoExtraSample
<1>3. q \in Nat /\ N * Second < q * SampleRate + SampleRate /\ q * SampleRate \in Nat
  BY SomeReserved, TimeBounds
<1>4. (M + 1) * Second = M * Second + Second
  BY <1>1
<1>5. ASSUME q <= ExpectedDuration PROVE FALSE
  <2>1. q * SampleRate <= x
    <3>1. CASE q = ExpectedDuration
      BY <3>1
    <3>2. CASE q < ExpectedDuration
      BY <1>3, <3>2, MulLess
    <3> QED BY <1>3, <1>5, <3>1, <3>2
  <2> HIDE DEF x, M, r, N, q
  <2> QED BY <1>1, <1>2, <1>3, <1>4, <2>1
<1> QED BY <1>3, <1>5

-----------------------------------------------------------------------------
(* The inductive invariant *)

SignalInv ==
  /\ size \in Nat /\ d_signal_ctr \in Nat /\ sample_ctr \in Nat
  /\ SignalFits

PhaseInv ==
  /\ phase_acc \in Int /\ true_phase \in Int
  /\ Magnitude(phase_acc) <= 8 * Second
  /\ Whole(phase_acc - true_phase)

\* The symbol on the air started before the next sample and is over within the
\* expected duration; the picture is over when the next sample is behind it.
SymbolInv ==
  /\ sym_start \in Nat /\ sym_start <= t
  /\ \/ sym = Silence /\ sym_start = ExpectedDuration /\ ExpectedDuration < t
     \/ sym \in Symbols /\ sym_end <= ExpectedDuration

\* While it computes, every sample so far is in the signal that was reserved.
ComputeInv ==
  worker = "compute" =>
    /\ size = d_expected_sample_no
    /\ d_signal_ctr = sample_ctr /\ sample_ctr <= d_expected_sample_no
    /\ SymbolInv

ModulationInv == SignalInv /\ PhaseInv /\ ComputeInv

LEMMA SymbolTypes ==
  /\ Silence.freq = 0 /\ Silence.duration = 0
  /\ \A s \in Symbols : s.freq \in Int /\ s.duration \in Nat /\ s.duration # 0
  BY ModulationAssumption DEF Silence

\* The next symbol after one that was over before the next sample.
LEMMA FollowsInv ==
  ASSUME NEW start \in Nat, NEW s \in NextSymbols(start), NEW time \in Nat,
         start = ExpectedDuration => start < time
  PROVE  \/ s = Silence /\ start = ExpectedDuration /\ ExpectedDuration < time
         \/ s \in Symbols /\ start + s.duration <= ExpectedDuration
<1>1. CASE start = ExpectedDuration
  BY <1>1 DEF NextSymbols
<1>2. CASE start # ExpectedDuration
  BY <1>2 DEF NextSymbols
<1> QED BY <1>1, <1>2

LEMMA ZeroPhase == Whole(0 - 0) /\ Magnitude(0) <= 8 * Second
<1>1. 0 - 0 = 0 * Second
  BY Sizes
<1>2. Whole(0 - 0)
  BY <1>1 DEF Whole
<1> QED BY <1>2, Sizes DEF Magnitude

LEMMA InitInv == Init => ModulationInv
<1> SUFFICES ASSUME Init PROVE ModulationInv
  OBVIOUS
<1>1. worker = "none"
  BY DEF Init, OC!Init
<1>2. SignalInv
  BY DEF Init, SignalInv, SignalFits
<1>3. PhaseInv
  BY ZeroPhase DEF Init, PhaseInv
<1> QED BY <1>1, <1>2, <1>3 DEF ModulationInv, ComputeInv

\* The other threads leave the signal alone and at most start the worker.
LEMMA OtherThreadsStay ==
  OtherThreads => UNCHANGED <<signalVars, locals>> /\ worker' \in {worker, "reset"}
  BY DEF OtherThreads, OC!ClientCall, OC!ClientGoesOn, OC!Join, OC!SetData, OC!Start, OC!Done,
         OC!Successful, OC!GetSignal, OC!Wait, OC!Cancel, OC!SetDataLocked, OC!SuccessfulDone,
         OC!SuccessfulReturns, OC!GetSignalReturns, OC!WaitReturns

LEMMA OtherThreadsInv == ModulationInv /\ OtherThreads => ModulationInv'
<1> SUFFICES ASSUME ModulationInv, OtherThreads PROVE ModulationInv'
  OBVIOUS
<1>1. UNCHANGED <<signalVars, locals>> /\ worker' \in {worker, "reset"}
  BY OtherThreadsStay
<1> QED
  BY <1>1 DEF ModulationInv, SignalInv, SignalFits, PhaseInv, ComputeInv, SymbolInv, signalVars,
              locals, t, sym_end, d_expected_sample_no, NoExtraSample, Whole, Magnitude

LEMMA SetFlagsInv == ModulationInv /\ SetFlags => ModulationInv'
<1> SUFFICES ASSUME ModulationInv, SetFlags PROVE ModulationInv'
  OBVIOUS
<1>1. worker' \in {"clear", "ended"}
  BY DEF SetFlags, OC!WorkReset, OC!WorkPublish, OC!WorkAbort, OC!WorkerMoves
<1>2. UNCHANGED signalVars /\ sample_ctr' = 0 /\ phase_acc' = 0 /\ true_phase' = 0
  BY DEF SetFlags
<1>3. SignalInv'
  BY <1>2 DEF ModulationInv, SignalInv, SignalFits, signalVars, d_expected_sample_no, NoExtraSample
<1>4. PhaseInv'
  BY <1>2, ZeroPhase DEF PhaseInv
<1> QED BY <1>1, <1>3, <1>4 DEF ModulationInv, ComputeInv

LEMMA BeginInv == ModulationInv /\ Begin => ModulationInv'
<1> SUFFICES ASSUME ModulationInv, Begin PROVE ModulationInv'
  OBVIOUS
<1>1. /\ size' = d_expected_sample_no /\ d_signal_ctr' = 0 /\ sample_ctr' = 0
      /\ sym' \in NextSymbols(0) /\ sym_start' = 0 /\ phase_acc' = 0 /\ true_phase' = 0
  BY DEF Begin
<1>2. SignalInv'
  <2>1. d_expected_sample_no' = d_expected_sample_no
    BY DEF d_expected_sample_no
  <2>2. size' \in Nat /\ d_signal_ctr' \in Nat /\ sample_ctr' \in Nat
    BY <1>1, SomeReserved
  <2>3. SignalFits'
    BY <1>1, <2>1 DEF SignalFits
  <2> QED BY <2>2, <2>3 DEF SignalInv
<1>3. PhaseInv'
  BY <1>1, ZeroPhase DEF PhaseInv
<1>4. SymbolInv'
  <2>1. t' \in Nat
    <3>1. t' = SampleTime(0)
      BY <1>1 DEF t, SampleTime
    <3> QED BY <3>1, TimeBounds
  <2>2. \/ sym' = Silence /\ 0 = ExpectedDuration /\ ExpectedDuration < t'
        \/ sym' \in Symbols /\ 0 + sym'.duration <= ExpectedDuration
    BY <1>1, <2>1, Sizes, FollowsInv
  <2> QED BY <1>1, <2>1, <2>2, Sizes DEF SymbolInv, sym_end
<1>5. ComputeInv'
  <2>1. d_expected_sample_no' = d_expected_sample_no
    BY DEF d_expected_sample_no
  <2>2. d_signal_ctr' = sample_ctr' /\ sample_ctr' <= d_expected_sample_no'
    BY <1>1, <2>1, SomeReserved
  <2> QED BY <1>1, <1>4, <2>1, <2>2 DEF ComputeInv
<1> QED BY <1>2, <1>3, <1>5 DEF ModulationInv

\* What is known where the loop looks at the next sample.
LEMMA AtSample ==
  ASSUME ModulationInv, InSymbol
  PROVE  /\ size = d_expected_sample_no /\ d_signal_ctr = sample_ctr
         /\ sample_ctr \in Nat /\ sample_ctr <= d_expected_sample_no
         /\ t \in Nat /\ t = SampleTime(sample_ctr) /\ sym_start \in Nat /\ sym_start <= t
         /\ sym \in Symbols /\ sym.freq \in Int /\ sym.duration \in Nat \ {0}
         /\ sym_end \in Nat /\ sym_end <= ExpectedDuration
<1>1. worker = "compute" /\ sym.duration # 0
  BY DEF InSymbol
<1>2. /\ size = d_expected_sample_no /\ d_signal_ctr = sample_ctr
      /\ sample_ctr \in Nat /\ sample_ctr <= d_expected_sample_no /\ SymbolInv
  BY <1>1 DEF ModulationInv, SignalInv, ComputeInv
<1>3. t = SampleTime(sample_ctr) /\ t \in Nat
  BY <1>2, TimeBounds DEF t, SampleTime
<1>4. sym \in Symbols /\ sym_end <= ExpectedDuration /\ sym_start \in Nat /\ sym_start <= t
  BY <1>1, <1>2, SymbolTypes DEF SymbolInv
<1>5. sym.freq \in Int /\ sym.duration \in Nat \ {0}
  BY <1>1, <1>4, SymbolTypes
<1> QED BY <1>2, <1>3, <1>4, <1>5 DEF sym_end

\* A sample is stored if there is one left; else the computation is given up.
LEMMA AddSampleStores ==
  ASSUME ModulationInv, AddSample
  PROVE  \/ /\ sample_ctr < d_expected_sample_no
            /\ size' = size /\ sample_ctr' = sample_ctr + 1
            /\ worker' = IF interrupt THEN "abort" ELSE "compute"
            /\ interrupt' = FALSE
         \/ /\ sample_ctr = d_expected_sample_no /\ size' = size + 1 /\ sample_ctr' = sample_ctr
            /\ worker' = "abort" /\ interrupt' = interrupt
<1>1. /\ size = d_expected_sample_no /\ d_signal_ctr = sample_ctr
      /\ sample_ctr \in Nat /\ sample_ctr <= d_expected_sample_no
  BY AtSample DEF AddSample
<1>2. d_expected_sample_no \in Nat
  BY SomeReserved
<1>3. CASE sample_ctr < d_expected_sample_no
  BY <1>1, <1>3 DEF AddSample
<1>4. CASE sample_ctr = d_expected_sample_no
  <2>1. ~(d_signal_ctr < size)
    BY <1>1, <1>2, <1>4
  <2>2. d_signal_ctr' = d_signal_ctr + 1 /\ size' = size + 1
    BY <2>1 DEF AddSample
  <2>3. ~(d_signal_ctr' < size')
    BY <1>1, <1>2, <2>1, <2>2
  <2>4. worker' = "abort" /\ UNCHANGED <<sample_ctr, interrupt>>
    BY <2>1, <2>3, Zenon DEF AddSample
  <2> QED BY <1>4, <2>2, <2>4
<1>5. sample_ctr < d_expected_sample_no \/ sample_ctr = d_expected_sample_no
  BY <1>1, <1>2
<1> QED BY <1>3, <1>4, <1>5

LEMMA AddSampleInv == ModulationInv /\ AddSample => ModulationInv'
<1> SUFFICES ASSUME ModulationInv, AddSample PROVE ModulationInv'
  OBVIOUS
<1>1. InSymbol /\ t <= sym_end
  BY DEF AddSample, WithinSymbol
<1>2. /\ size = d_expected_sample_no /\ d_signal_ctr = sample_ctr
      /\ sample_ctr \in Nat /\ t \in Nat /\ t = SampleTime(sample_ctr)
      /\ sym_start \in Nat /\ sym_start <= t /\ sym \in Symbols
      /\ sym_end \in Nat /\ sym_end <= ExpectedDuration
  BY <1>1, AtSample
<1>3. d_expected_sample_no \in Nat /\ d_expected_sample_no' = d_expected_sample_no
  BY SomeReserved DEF d_expected_sample_no
<1>4. d_signal_ctr' = d_signal_ctr + 1 /\ UNCHANGED <<sym, sym_start, phase_acc, true_phase>>
  BY DEF AddSample
<1>5. PhaseInv'
  BY <1>4 DEF ModulationInv, PhaseInv, Whole, Magnitude
<1>6. CASE /\ sample_ctr < d_expected_sample_no
           /\ size' = size /\ sample_ctr' = sample_ctr + 1
           /\ worker' = IF interrupt THEN "abort" ELSE "compute"
  <2>1. SignalInv'
    <3>1. SignalFits'
      BY <1>2, <1>3, <1>6 DEF SignalFits
    <3> QED BY <1>2, <1>3, <1>4, <1>6, <3>1 DEF SignalInv
  <2>2. t' \in Nat /\ t <= t'
    <3>1. t' = SampleTime(sample_ctr + 1)
      BY <1>6 DEF t, SampleTime
    <3>2. sample_ctr + 1 \in Nat
      BY <1>2
    <3> QED BY <1>2, <3>1, <3>2, TimeBounds, TimeGrows
  <2>3. sym_end' = sym_end
    BY <1>4 DEF sym_end
  <2>4. SymbolInv'
    <3>1. sym_start' \in Nat /\ sym_start' <= t'
      BY <1>2, <1>4, <2>2
    <3> QED BY <1>2, <1>4, <2>3, <3>1 DEF SymbolInv
  <2>5. d_signal_ctr' = sample_ctr' /\ sample_ctr' <= d_expected_sample_no'
        /\ size' = d_expected_sample_no'
    BY <1>2, <1>3, <1>4, <1>6
  <2> QED BY <1>5, <2>1, <2>4, <2>5 DEF ModulationInv, ComputeInv
<1>7. CASE /\ sample_ctr = d_expected_sample_no /\ size' = size + 1 /\ sample_ctr' = sample_ctr
           /\ worker' = "abort"
  <2>1. ~NoExtraSample
    <3>1. SUFFICES ASSUME NoExtraSample PROVE FALSE
      OBVIOUS
    <3>2. ExpectedDuration < t
      BY <1>2, <1>7, <3>1, NoneTooMany
    <3> QED BY <1>1, <1>2, <3>2, Sizes
  <2>2. SignalFits'
    BY <2>1 DEF SignalFits, NoExtraSample
  <2>3. SignalInv'
    BY <1>2, <1>3, <1>4, <1>7, <2>2 DEF SignalInv
  <2> QED BY <1>5, <1>7, <2>3 DEF ModulationInv, ComputeInv
<1> QED BY <1>6, <1>7, AddSampleStores

LEMMA EndSymbolInv == ModulationInv /\ EndSymbol => ModulationInv'
<1> SUFFICES ASSUME ModulationInv, EndSymbol PROVE ModulationInv'
  OBVIOUS
<1>1. InSymbol /\ ~(t <= sym_end) /\ worker = "compute"
  BY DEF EndSymbol, WithinSymbol, InSymbol
<1>2. /\ size = d_expected_sample_no /\ d_signal_ctr = sample_ctr
      /\ sample_ctr \in Nat /\ sample_ctr <= d_expected_sample_no
      /\ t \in Nat /\ sym.freq \in Int /\ sym.duration \in Nat
      /\ sym_end \in Nat /\ sym_end <= ExpectedDuration
  BY <1>1, AtSample
<1>3. UNCHANGED <<size, d_signal_ctr, sample_ctr>>
  BY DEF EndSymbol
<1>4. SignalInv'
  BY <1>3 DEF ModulationInv, SignalInv, SignalFits, NoExtraSample, d_expected_sample_no
<1>5. CASE worker' = "abort" /\ UNCHANGED <<phase_acc, true_phase>>
  <2>1. PhaseInv'
    BY <1>5 DEF ModulationInv, PhaseInv, Whole, Magnitude
  <2> QED BY <1>4, <1>5, <2>1 DEF ModulationInv, ComputeInv
<1>6. CASE /\ phase_acc' = Wrapped(phase_acc + phase_shift)
           /\ true_phase' = true_phase + phase_shift
           /\ sym_start' = sym_end /\ sym' \in NextSymbols(sym_end)
  <2>1. PhaseInv'
    <3> DEFINE p == phase_acc + phase_shift
               w == Wrapped(p)
    <3>1. phase_acc \in Int /\ true_phase \in Int /\ Whole(phase_acc - true_phase)
      BY DEF ModulationInv, PhaseInv
    <3>2. phase_shift \in Int
      BY <1>2 DEF phase_shift
    <3>3. p \in Int /\ p - (true_phase + phase_shift) = phase_acc - true_phase
      BY <3>1, <3>2
    <3> HIDE DEF p
    <3>4. w \in Int /\ Magnitude(w) <= 8 * Second /\ Whole(w - p)
      BY <3>3, WrapsPeriods
    <3> HIDE DEF w
    <3>5. Whole((w - p) + (phase_acc - true_phase))
      BY <3>1, <3>3, <3>4, WholeSum
    <3>6. (w - p) + (phase_acc - true_phase) = w - (true_phase + phase_shift)
      BY <3>1, <3>2, <3>3, <3>4
    <3>7. phase_acc' = w /\ true_phase' = true_phase + phase_shift
      BY <1>6 DEF w, p
    <3>8. Whole(phase_acc' - true_phase')
      BY <3>5, <3>6, <3>7, Zenon
    <3> QED BY <3>1, <3>2, <3>4, <3>7, <3>8 DEF PhaseInv, Whole, Magnitude
  <2>2. t' = t
    BY <1>3 DEF t
  <2>3. sym_end < t
    BY <1>1, <1>2
  <2>4. \/ sym' = Silence /\ sym_end = ExpectedDuration /\ ExpectedDuration < t
        \/ sym' \in Symbols /\ sym_end + sym'.duration <= ExpectedDuration
    BY <1>2, <1>6, <2>3, FollowsInv
  <2>5. SymbolInv'
    <3>1. sym_start' \in Nat /\ sym_start' <= t'
      BY <1>2, <1>6, <2>2, <2>3
    <3> QED BY <1>6, <2>2, <2>4, <3>1 DEF SymbolInv, sym_end
  <2>6. ComputeInv'
    BY <1>2, <1>3, <2>5 DEF ComputeInv, d_expected_sample_no
  <2> QED BY <1>4, <2>1, <2>6 DEF ModulationInv
<1> QED BY <1>5, <1>6 DEF EndSymbol

LEMMA EndPictureInv == ModulationInv /\ EndPicture => ModulationInv'
  BY DEF EndPicture, ModulationInv, SignalInv, SignalFits, PhaseInv, ComputeInv, signalVars, locals,
         d_expected_sample_no, NoExtraSample, Whole, Magnitude

LEMMA NextInv == ModulationInv /\ [Next]_vars => ModulationInv'
<1> SUFFICES ASSUME ModulationInv, [Next]_vars PROVE ModulationInv'
  OBVIOUS
<1>1. CASE UNCHANGED vars
  BY <1>1 DEF vars, ModulationInv, SignalInv, SignalFits, PhaseInv, ComputeInv, SymbolInv,
              signalVars, locals, t, sym_end, d_expected_sample_no, NoExtraSample, Whole, Magnitude
<1> QED
  BY <1>1, OtherThreadsInv, SetFlagsInv, BeginInv, AddSampleInv, EndSymbolInv, EndPictureInv
  DEF Next

-----------------------------------------------------------------------------
(* What holds in every reachable state *)

\* At no step do samples and symbols, phase and true phase, signal and reservation diverge.
THEOREM Invariance == Spec => []ModulationInv
  BY InitInv, NextInv, PTL DEF Spec

\* SampleInSymbol: no sample is taken before its symbol starts or after it ends, though
\* short symbols may pass without one (work(), the while loop over sample times).
THEOREM SamplesInSymbols == Spec => []SampleInSymbol
<1>1. ModulationInv => SampleInSymbol
  <2> SUFFICES ASSUME ModulationInv, InSymbol, WithinSymbol(t)
               PROVE  t - sym_start \in 0..sym.duration
    BY DEF SampleInSymbol
  <2>1. t \in Nat /\ sym_start \in Nat /\ sym_start <= t /\ sym.duration \in Nat
    BY AtSample
  <2>2. t <= sym_start + sym.duration
    BY DEF WithinSymbol, sym_end
  <2> QED BY <2>1, <2>2
<1> QED BY <1>1, Invariance, PTL

\* PhaseContinuous: whatever fmod cuts off the accumulator are whole periods, so the
\* carrier never jumps between two symbols (work(), cc:233-237).
THEOREM PhaseNeverJumps == Spec => []PhaseContinuous
<1>1. ModulationInv => PhaseContinuous
  <2> SUFFICES ASSUME ModulationInv PROVE PhaseContinuous
    OBVIOUS
  <2>1. phase_acc - true_phase \in Int /\ Whole(phase_acc - true_phase)
    BY DEF ModulationInv, PhaseInv
  <2>2. (phase_acc - true_phase) % Second = 0
    BY <2>1, WholePeriods
  <2> QED BY <2>2 DEF ModulationInv, PhaseInv, PhaseContinuous
<1> QED BY <1>1, Invariance, PTL

\* SignalFits: with a duration and a rate that leave no room for an additional sample,
\* the signal is never longer than the constructor reserved.
THEOREM NeverTooLong == Spec => []SignalFits
<1>1. ModulationInv => SignalFits
  BY DEF ModulationInv, SignalInv
<1> QED BY <1>1, Invariance, PTL

-----------------------------------------------------------------------------
(* Refinement: every step is a step of OfflineCompute or a stutter *)

LEMMA InitMaps == Init => OC!Init
  BY DEF Init

LEMMA BeginMaps == Begin => OC!WorkClear
<1> SUFFICES ASSUME Begin PROVE OC!WorkClear
  OBVIOUS
<1>1. stored' = 0
  BY SomeReserved DEF Begin, stored, d_expected_sample_no
<1> QED BY <1>1 DEF Begin, otherVars, OC!WorkClear, OC!WorkerMoves, OC!WorkerOnly, OC!flags,
                    OC!mutex, OC!known

LEMMA AddSampleMaps == ModulationInv /\ AddSample => OC!WorkSample \/ OC!WorkThrows
<1> SUFFICES ASSUME ModulationInv, AddSample PROVE OC!WorkSample \/ OC!WorkThrows
  OBVIOUS
<1>1. worker = "compute" /\ d_signal_ctr = sample_ctr /\ sample_ctr \in Nat
      /\ d_signal_ctr' = d_signal_ctr + 1 /\ UNCHANGED <<otherVars, of>>
  BY AtSample DEF AddSample, InSymbol
<1>2. d_expected_sample_no \in Nat /\ d_expected_sample_no' = d_expected_sample_no
  BY SomeReserved DEF d_expected_sample_no
<1>3. OC!WorkerOnly /\ UNCHANGED OC!flags
  BY <1>1 DEF otherVars, OC!WorkerOnly, OC!flags, OC!mutex, OC!known
<1>4. CASE /\ sample_ctr < d_expected_sample_no
           /\ worker' = IF interrupt THEN "abort" ELSE "compute"
           /\ interrupt' = FALSE
  <2>1. stored = sample_ctr /\ stored' = stored + 1 /\ stored < d_expected_sample_no
    BY <1>1, <1>2, <1>4 DEF stored
  <2> QED BY <1>1, <1>3, <1>4, <2>1 DEF OC!WorkSample, OC!MoreSamples
<1>5. CASE sample_ctr = d_expected_sample_no /\ worker' = "abort" /\ interrupt' = interrupt
  <2>1. stored' = stored
    BY <1>1, <1>2, <1>5 DEF stored
  <2> QED BY <1>1, <1>3, <1>5, <2>1 DEF OC!WorkThrows, OC!WorkerMoves
<1> QED BY <1>4, <1>5, AddSampleStores

LEMMA EndSymbolMaps == EndSymbol => OC!WorkThrows \/ UNCHANGED OC!vars
<1> SUFFICES ASSUME EndSymbol PROVE OC!WorkThrows \/ UNCHANGED OC!vars
  OBVIOUS
<1>1. worker = "compute" /\ UNCHANGED <<otherVars, interrupt, of, d_signal_ctr>>
      /\ worker' \in {worker, "abort"}
  BY DEF EndSymbol, InSymbol
<1>2. stored' = stored
  BY <1>1 DEF stored, d_expected_sample_no
<1> QED BY <1>1, <1>2 DEF otherVars, OC!WorkThrows, OC!WorkerMoves, OC!WorkerOnly, OC!vars,
                          OC!flags, OC!mutex, OC!known

\* The loop ends with the last sample that was reserved.
LEMMA EndPictureMaps == ModulationInv /\ EndPicture => OC!WorkLoopEnds
<1> SUFFICES ASSUME ModulationInv, EndPicture PROVE OC!WorkLoopEnds
  OBVIOUS
<1>1. worker = "compute" /\ sym.duration = 0 /\ worker' = "publish"
      /\ UNCHANGED <<otherVars, interrupt, of, d_signal_ctr>>
  BY DEF EndPicture, signalVars
<1>2. d_signal_ctr = sample_ctr /\ sample_ctr \in Nat /\ sample_ctr <= d_expected_sample_no
      /\ SymbolInv
  BY <1>1 DEF ModulationInv, SignalInv, ComputeInv
<1>3. ExpectedDuration < SampleTime(sample_ctr)
  <2>1. ExpectedDuration < t
    BY <1>1, <1>2, SymbolTypes DEF SymbolInv
  <2> QED BY <2>1 DEF t, SampleTime
<1>4. d_expected_sample_no <= sample_ctr
  BY <1>2, <1>3, EnoughSamples
<1>5. stored = d_expected_sample_no /\ stored' = stored
  BY <1>1, <1>2, <1>4, SomeReserved DEF stored, d_expected_sample_no
<1> QED BY <1>1, <1>5 DEF otherVars, OC!WorkLoopEnds, OC!WorkerMoves, OC!WorkerOnly,
                          OC!Complete, OC!flags, OC!mutex, OC!known

LEMMA FlagsMap ==
  OtherThreads \/ SetFlags =>
    OC!ClientCall \/ OC!ClientGoesOn \/ OC!Join \/ OC!WorkReset \/ OC!WorkPublish \/ OC!WorkAbort
  BY DEF OtherThreads, SetFlags

LEMMA NextMaps == ModulationInv /\ [Next]_vars => [OC!Next]_(OC!vars)
<1> SUFFICES ASSUME ModulationInv, [Next]_vars PROVE [OC!Next]_(OC!vars)
  OBVIOUS
<1>1. CASE UNCHANGED vars
  BY <1>1 DEF vars, otherVars, signalVars, stored, d_expected_sample_no, OC!vars, OC!flags,
              OC!mutex, OC!known
<1> QED
  BY <1>1, FlagsMap, BeginMaps, AddSampleMaps, EndSymbolMaps, EndPictureMaps
  DEF Next, OC!Next, OC!Work

\* work() with its symbols and samples is the work() of OfflineCompute: a signal that is
\* published has exactly the samples the constructor reserved, for every picture.
THEOREM ImplementsOfflineCompute == Spec => IsOfflineCompute
  BY InitMaps, NextMaps, Invariance, PTL DEF Spec, IsOfflineCompute

-----------------------------------------------------------------------------
(* What is proved of OfflineCompute, of the modulation in full *)

OCP == INSTANCE OfflineComputeProofs
         WITH Samples <- d_expected_sample_no, signal <- [of |-> of, n |-> stored]

\* Its invariant holds along every behaviour of the modulation in full.
LEMMA ComputesAsOne ==
  /\ OC!Init => OCP!Init /\ OCP!Inv
  /\ OCP!Inv /\ [OC!Next]_(OC!vars) => OCP!Inv' /\ [OCP!Next]_(OCP!vars)
<1>1. d_expected_sample_no \in Nat \ {0} /\ MaxData \in Nat \ {0}
  BY SomeReserved, Sizes
<1>2. OC!Init => OCP!Init /\ OCP!Inv
  <2>1. OC!Init => OCP!Init
    BY DEF OC!Init, OCP!Init, OC!Empty, OCP!Empty
  <2>2. OCP!Init => OCP!Inv
    BY <1>1, OCP!InitInv DEF OCP!ComputeAssumption
  <2> QED BY <2>1, <2>2
<1>3. OCP!Inv /\ [OC!Next]_(OC!vars) => OCP!Inv' /\ [OCP!Next]_(OCP!vars)
  <2>1. OC!ClientCall => OCP!ClientCall
    BY Zenon
    DEF OC!ClientCall, OCP!ClientCall, OC!SetData, OCP!SetData, OC!Start, OCP!Start, OC!Done,
        OCP!Done, OC!Successful, OCP!Successful, OC!GetSignal, OCP!GetSignal, OC!Wait, OCP!Wait,
        OC!Cancel, OCP!Cancel, OC!ClientMoves, OCP!ClientMoves, OC!MutexFree, OCP!MutexFree,
        OC!Active, OCP!Active, OC!flags, OCP!flags, OC!mutex, OCP!mutex, OC!known, OCP!known
  <2>2. OC!ClientGoesOn => OCP!ClientGoesOn
    BY Zenon
    DEF OC!ClientGoesOn, OCP!ClientGoesOn, OC!SetDataLocked, OCP!SetDataLocked,
        OC!SuccessfulDone, OCP!SuccessfulDone, OC!SuccessfulReturns, OCP!SuccessfulReturns,
        OC!GetSignalReturns, OCP!GetSignalReturns, OC!WaitReturns, OCP!WaitReturns,
        OC!ClientMoves, OCP!ClientMoves, OC!MutexFree, OCP!MutexFree, OC!flags, OCP!flags,
        OC!mutex, OCP!mutex, OC!known, OCP!known, OC!DoneReset, OCP!DoneReset,
        OC!ReleasedByOuter, OCP!ReleasedByOuter
  <2>3. OC!Join => OCP!Join
    BY Zenon
    DEF OC!Join, OCP!Join, OC!Joined, OCP!Joined, OC!Active, OCP!Active, OC!flags, OCP!flags,
        OC!mutex, OCP!mutex, OC!known, OCP!known
  <2>4. OC!Work => OCP!Work
    BY Zenon
    DEF OC!Work, OCP!Work, OC!WorkReset, OCP!WorkReset, OC!WorkClear, OCP!WorkClear,
        OC!WorkSample, OCP!WorkSample, OC!WorkThrows, OCP!WorkThrows, OC!WorkLoopEnds,
        OCP!WorkLoopEnds, OC!WorkPublish, OCP!WorkPublish, OC!WorkAbort, OCP!WorkAbort,
        OC!WorkerMoves, OCP!WorkerMoves, OC!WorkerOnly, OCP!WorkerOnly, OC!MutexFree,
        OCP!MutexFree, OC!flags, OCP!flags, OC!mutex, OCP!mutex, OC!known, OCP!known,
        OC!MoreSamples, OCP!MoreSamples, OC!Complete, OCP!Complete, OC!DoneAnyway,
        OCP!DoneAnyway
  <2>5. UNCHANGED OC!vars => UNCHANGED OCP!vars
    BY DEF OC!vars, OCP!vars, OC!flags, OCP!flags, OC!mutex, OCP!mutex, OC!known, OCP!known
  <2>6. [OC!Next]_(OC!vars) => [OCP!Next]_(OCP!vars)
    BY <2>1, <2>2, <2>3, <2>4, <2>5 DEF OC!Next, OCP!Next
  <2>7. OCP!Inv /\ [OCP!Next]_(OCP!vars) => OCP!Inv'
    BY <1>1, OCP!NextInv DEF OCP!ComputeAssumption
  <2> QED BY <2>6, <2>7
<1> QED BY <1>2, <1>3

\* No unlocked data is touched while work() uses it, and successful() is only true when
\* every sample of the signal for the data set last is there (sstvi_offline_compute_sstv_signal).
THEOREM SuccessIsComplete == Spec => [](OC!NoDataRace /\ OC!SuccessMeansComplete)
<1>1. OCP!Inv => OC!NoDataRace /\ OC!SuccessMeansComplete
  BY DEF OCP!Inv, OCP!Handover, OCP!SaidOfSignal, OCP!Whole, OC!NoDataRace, OC!SuccessMeansComplete,
         OC!Active, OCP!Active
<1> QED BY <1>1, ComputesAsOne, ImplementsOfflineCompute, PTL DEF IsOfflineCompute

TheJob == INSTANCE Job WITH status <- OCP!statusBar

\* The modulation with all its symbols is the Job that the loop of the beacon takes it for:
\* one end for each start, which stays until the next picture is set.
THEOREM ImplementsJob == Spec => TheJob!SafeSpec
<1>1. OCP!Init => TheJob!Init
  BY DEF OCP!Init, TheJob!Init, OCP!statusBar, OCP!Active
<1>2. d_expected_sample_no \in Nat \ {0} /\ MaxData \in Nat \ {0}
  BY SomeReserved, Sizes
<1>3. OCP!Inv /\ [OCP!Next]_(OCP!vars) => OCP!StatusMoves
  BY <1>2, OCP!NextMoves DEF OCP!ComputeAssumption
<1>4. OCP!StatusMoves => [TheJob!Next]_(OCP!statusBar)
  BY DEF OCP!StatusMoves, TheJob!Next, TheJob!Prepare, TheJob!Launch, TheJob!Finish
<1> QED BY <1>1, <1>3, <1>4, ComputesAsOne, ImplementsOfflineCompute, PTL
        DEF IsOfflineCompute, TheJob!SafeSpec

-----------------------------------------------------------------------------
(* The numbers of the program *)

\* The rate of beacon.py:63, and a picture in Martin M1 (PictureProofs, MartinM1Lasts), in
\* nanoseconds.
BeaconNumbers ==
  Second = 1000000000 /\ SampleRate = 48000 /\ ExpectedDuration = 115200176000
BeaconSamples == 5529609

LEMMA BeaconSampleNo ==
  BeaconNumbers => NoExtraSample /\ d_expected_sample_no = BeaconSamples
BY SMT DEF BeaconNumbers, BeaconSamples, NoExtraSample, d_expected_sample_no

\* The beacon's numbers leave no room for an additional sample: its signal is never longer
\* than the samples that the constructor reserved, and no index is out of range.
THEOREM BeaconSignalFits == BeaconNumbers => (Spec => [](size \in {0, BeaconSamples}))
<1> SUFFICES ASSUME BeaconNumbers PROVE Spec => [](size \in {0, BeaconSamples})
  OBVIOUS
<1>1. SignalFits => size \in {0, BeaconSamples}
  BY BeaconSampleNo, Zenon DEF SignalFits
<1> QED BY <1>1, NeverTooLong, PTL

=============================================================================
