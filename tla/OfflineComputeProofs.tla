------------------------ MODULE OfflineComputeProofs ------------------------
(***************************************************************************)
(* What the background modulation guarantees for every length of a signal  *)
(* and every number of pictures: no data race on what is used without the  *)
(* lock, success only with a complete signal, and the promise of Job.      *)
(***************************************************************************)
EXTENDS OfflineCompute, TLAPS

\* d_done keeps the client away: it is FALSE as long as work() runs, and what
\* the client believes about the end of a computation is true.
Handover ==
  /\ Active => ~d_done /\ ~d_success
  /\ over => ~Active
  /\ client \in {"get_signal", "set_data"} => ~Active
  /\ client = "wait" /\ waiter = "set" => ~Active

\* Between set_data and start nothing is done and nothing successful.
Prepared ==
  /\ fresh => over /\ ~d_done /\ ~d_success /\ ~good
  /\ client = "set_data" => over /\ ~good
  /\ Active => ~good

Whole == signal = [of |-> data, n |-> Samples]

\* What the flags say of the signal.
SaidOfSignal ==
  /\ worker \in {"compute", "publish"} => signal.of = data
  /\ worker = "publish" => signal.n = Samples
  /\ d_success /\ client # "set_data" => Whole
  /\ good => Whole

\* successful() holds the mutex once when it calls done().
Locked == client = "successful" => owner = "client" /\ depth = 1

Inv == TypeOK /\ Handover /\ Prepared /\ SaidOfSignal /\ Locked

-----------------------------------------------------------------------------
LEMMA InitInv == Init => Inv
<1> SUFFICES ASSUME Init PROVE Inv
  OBVIOUS
<1>1. data \in 0..MaxData /\ signal \in [of : 0..MaxData, n : 0..Samples] /\ depth \in 0..2
  BY ComputeAssumption DEF Init, Empty
<1>2. Handover /\ Prepared /\ SaidOfSignal /\ Locked
  BY DEF Init, Handover, Prepared, SaidOfSignal, Locked, Active
<1>3. d_done \in BOOLEAN /\ d_success \in BOOLEAN /\ interrupt \in BOOLEAN
      /\ over \in BOOLEAN /\ fresh \in BOOLEAN /\ good \in BOOLEAN
  BY DEF Init
<1>4. depth = 0
  BY DEF Init
<1> QED BY <1>1, <1>2, <1>3, <1>4 DEF Init, Inv, TypeOK

LEMMA ClientCallInv == Inv /\ ClientCall => Inv'
<1> SUFFICES ASSUME Inv, ClientCall PROVE Inv'
  OBVIOUS
<1> USE ComputeAssumption DEF Inv, TypeOK, Handover, Prepared, SaidOfSignal, Locked, Active, Whole,
        ClientMoves, MutexFree, flags, mutex, known
<1>1. CASE SetData
  <2>1. data' \in 0..MaxData
    BY <1>1 DEF SetData
  <2>2. good' = FALSE
    BY <1>1 DEF SetData
  <2> QED BY <1>1, <2>1, <2>2 DEF SetData
<1>2. CASE Start BY <1>2 DEF Start
<1>3. CASE Done BY <1>3 DEF Done
<1>4. CASE Successful BY <1>4 DEF Successful
<1>5. CASE GetSignal BY <1>5 DEF GetSignal
<1>6. CASE Wait BY <1>6 DEF Wait
<1>7. CASE Cancel BY <1>7 DEF Cancel
<1> QED BY <1>1, <1>2, <1>3, <1>4, <1>5, <1>6, <1>7 DEF ClientCall

LEMMA ClientGoesOnInv == Inv /\ ClientGoesOn => Inv'
<1> SUFFICES ASSUME Inv, ClientGoesOn PROVE Inv'
  OBVIOUS
<1> USE DEF Inv, TypeOK, Handover, Prepared, SaidOfSignal, Locked, Active, Whole, ClientMoves,
            MutexFree, flags, mutex, known
<1>1. CASE SetDataLocked BY <1>1 DEF SetDataLocked, DoneReset
<1>2. CASE SuccessfulDone
  <2>1. depth' \in 0..2 /\ owner' = "client" /\ client' = "successful_done"
    BY <1>2 DEF SuccessfulDone
  <2>2. over' \in BOOLEAN /\ good' \in BOOLEAN
    BY <1>2 DEF SuccessfulDone
  <2> QED BY <1>2, <2>1, <2>2 DEF SuccessfulDone
<1>3. CASE SuccessfulReturns BY <1>3 DEF SuccessfulReturns, ReleasedByOuter
<1>4. CASE GetSignalReturns BY <1>4 DEF GetSignalReturns
<1>5. CASE WaitReturns BY <1>5 DEF WaitReturns
<1> QED BY <1>1, <1>2, <1>3, <1>4, <1>5 DEF ClientGoesOn

LEMMA JoinInv == Inv /\ Join => Inv'
  BY DEF Join, Joined, Inv, TypeOK, Handover, Prepared, SaidOfSignal, Locked, Active, Whole,
         flags, mutex, known

LEMMA WorkInv == Inv /\ Work => Inv'
<1> SUFFICES ASSUME Inv, Work PROVE Inv'
  OBVIOUS
<1> USE ComputeAssumption DEF Inv, TypeOK, Handover, Prepared, SaidOfSignal, Locked, Active, Whole,
        WorkerMoves, WorkerOnly, MutexFree, flags, mutex, known
<1>1. CASE WorkReset BY <1>1 DEF WorkReset
<1>2. CASE WorkClear BY <1>2 DEF WorkClear
<1>3. CASE WorkSample
  <2>1. signal' \in [of : 0..MaxData, n : 0..Samples] /\ signal'.of = signal.of
    BY <1>3 DEF WorkSample, MoreSamples
  <2>2. worker' \in {"abort", "compute"} /\ interrupt' = FALSE
    BY <1>3 DEF WorkSample
  <2> QED BY <1>3, <2>1, <2>2 DEF WorkSample
<1>4. CASE WorkThrows BY <1>4 DEF WorkThrows
<1>5. CASE WorkLoopEnds BY <1>5 DEF WorkLoopEnds, Complete
<1>6. CASE WorkPublish BY <1>6 DEF WorkPublish
<1>7. CASE WorkAbort BY <1>7 DEF WorkAbort, DoneAnyway
<1> QED BY <1>1, <1>2, <1>3, <1>4, <1>5, <1>6, <1>7 DEF Work

LEMMA NextInv == Inv /\ [Next]_vars => Inv'
<1> SUFFICES ASSUME Inv, [Next]_vars PROVE Inv'
  OBVIOUS
<1>1. CASE ClientCall BY <1>1, ClientCallInv
<1>2. CASE ClientGoesOn BY <1>2, ClientGoesOnInv
<1>3. CASE Join BY <1>3, JoinInv
<1>4. CASE Work BY <1>4, WorkInv
<1>5. CASE UNCHANGED vars
  BY <1>5 DEF vars, Inv, TypeOK, Handover, Prepared, SaidOfSignal, Locked, Active, Whole,
              flags, mutex, known
<1> QED BY <1>1, <1>2, <1>3, <1>4, <1>5 DEF Next

\* The flags under the mutex keep the three threads apart, in every reachable state.
THEOREM Invariance == Spec => []Inv
  BY InitInv, NextInv, PTL DEF Spec

\* TypeOK for every length of the signal: no sample is written behind its end.
THEOREM TypeCorrect == Spec => []TypeOK
<1>1. Inv => TypeOK BY DEF Inv
<1> QED BY <1>1, Invariance, PTL

\* get_signal and set_data never touch unlocked data that work() is using.
THEOREM RaceFree == Spec => []NoDataRace
<1>1. Inv => NoDataRace BY DEF Inv, Handover, NoDataRace
<1> QED BY <1>1, Invariance, PTL

\* successful() is only true of a complete signal for the data set last.
THEOREM SuccessIsComplete == Spec => []SuccessMeansComplete
<1>1. Inv => SuccessMeansComplete BY DEF Inv, SaidOfSignal, Whole, SuccessMeansComplete
<1> QED BY <1>1, Invariance, PTL

-----------------------------------------------------------------------------
(* Refinement: every step of the modulation is a step of Job or a stutter *)

LEMMA InitMaps == Init => TheJob!Init
  BY DEF Init, TheJob!Init, statusBar, Active

LEMMA WorkMaps == Inv /\ Work => [TheJob!Next]_statusBar
<1> SUFFICES ASSUME Inv, Work PROVE [TheJob!Next]_statusBar
  OBVIOUS
<1> USE DEF statusBar, Active, WorkerMoves, flags
<1>1. CASE WorkReset \/ WorkClear \/ WorkSample \/ WorkThrows \/ WorkLoopEnds
  BY <1>1 DEF WorkReset, WorkClear, WorkSample, WorkThrows, WorkLoopEnds
<1>2. CASE WorkPublish \/ WorkAbort
  <2>1. statusBar = "running" /\ statusBar' \in {"ok", "failed"}
    BY <1>2 DEF WorkPublish, WorkAbort, DoneAnyway
  <2> QED BY <2>1 DEF TheJob!Next, TheJob!Finish
<1> QED BY <1>1, <1>2 DEF Work

LEMMA ClientMaps == Inv /\ (ClientCall \/ ClientGoesOn) => [TheJob!Next]_statusBar
<1> SUFFICES ASSUME Inv, ClientCall \/ ClientGoesOn PROVE [TheJob!Next]_statusBar
  OBVIOUS
<1> USE DEF statusBar, Active, flags
<1>1. CASE SetDataLocked
  <2>1. statusBar # "running" /\ statusBar' = "idle"
    BY <1>1 DEF SetDataLocked, ClientMoves, DoneReset, Inv, Handover
  <2> QED BY <2>1 DEF TheJob!Next, TheJob!Prepare
<1>2. CASE Start
  <2>1. statusBar # "running" /\ statusBar' = "running"
    BY <1>2 DEF Start, Inv, Handover
  <2> QED BY <2>1 DEF TheJob!Next, TheJob!Launch
<1>3. CASE UNCHANGED <<flags, worker>>
  BY <1>3
<1> QED
  BY <1>1, <1>2, <1>3
  DEF ClientCall, ClientGoesOn, SetData, Done, Successful, GetSignal, Wait, Cancel,
      SuccessfulDone, SuccessfulReturns, GetSignalReturns, WaitReturns

LEMMA NextMaps == Inv /\ [Next]_vars => [TheJob!Next]_statusBar
<1> SUFFICES ASSUME Inv, [Next]_vars PROVE [TheJob!Next]_statusBar
  OBVIOUS
<1>1. CASE ClientCall \/ ClientGoesOn BY <1>1, ClientMaps
<1>2. CASE Work BY <1>2, WorkMaps
<1>3. CASE Join \/ UNCHANGED vars
  BY <1>3 DEF Join, vars, flags, statusBar, Active
<1> QED BY <1>1, <1>2, <1>3 DEF Next

\* The same without the instance of Job, for modules that instantiate this one.
StatusMoves ==
  \/ statusBar # "running" /\ statusBar' \in {"idle", "running"}
  \/ statusBar = "running" /\ statusBar' \in {"ok", "failed"}
  \/ statusBar' = statusBar

LEMMA NextMoves == Inv /\ [Next]_vars => StatusMoves
  BY NextMaps
  DEF StatusMoves, TheJob!Next, TheJob!Prepare, TheJob!Launch, TheJob!Finish

\* The modulation implements the safety part of Job: one end for each start, which
\* stays until the next picture is set.
THEOREM ImplementsJob == Spec => TheJob!SafeSpec
  BY InitMaps, NextMaps, InitInv, NextInv, PTL DEF Spec, TheJob!SafeSpec

=============================================================================
