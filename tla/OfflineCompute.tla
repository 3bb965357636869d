--------------------------- MODULE OfflineCompute ---------------------------
(***************************************************************************)
(* The background modulation: sstvi_offline_compute_sstv_signal (.cc, .h)  *)
(* and the Python class offline_sstv_modulator over it (modulator.py).     *)
(*                                                                         *)
(* Three threads: the client (Python main thread), the worker that runs    *)
(* work(), and the waiter that modulator.wait() creates to join the worker *)
(* without the GIL.  d_done and d_success are kept under a recursive       *)
(* mutex; d_signal and the state machine's data are not: only d_done keeps *)
(* the threads apart.                                                      *)
(*                                                                         *)
(* The signal is abstracted to which data it was computed from and how     *)
(* many samples of it are there.                                           *)
(***************************************************************************)
EXTENDS Naturals

CONSTANTS
  Samples,   \* samples of a whole signal
  MaxData    \* bound on the calls of set_data

ASSUME ComputeAssumption == Samples \in Nat \ {0} /\ MaxData \in Nat \ {0}

VARIABLES
  d_done, d_success,
  data,       \* number of the data the state machine holds, 0 is none
  signal,     \* d_signal: the data it belongs to, and samples computed
  owner, depth,   \* d_data_mutex
  worker,     \* where work() is
  interrupt,  \* an interruption of the worker is requested
  waiter,     \* the waiter thread: "none", "joining", "set" (its event)
  client,     \* the call the client is in
  over,       \* the client knows that no computation is under way
  fresh,      \* set_data was called after the last start
  good        \* the last answer of successful() about this data

flags == <<d_done, d_success>>
mutex == <<owner, depth>>
known == <<over, fresh, good>>
vars == <<flags, data, signal, mutex, worker, interrupt, waiter, client, known>>

Empty == [of |-> 0, n |-> 0]
Active == worker \in {"reset", "clear", "compute", "publish", "abort"}

Init ==
  /\ d_done = FALSE /\ d_success = FALSE
  /\ data = 0 /\ signal = Empty
  /\ owner = "none" /\ depth = 0
  /\ worker = "none" /\ interrupt = FALSE /\ waiter = "none"
  /\ client = "idle" /\ over = TRUE /\ fresh = FALSE /\ good = FALSE

MutexFree == owner = "none"

ClientMoves(from, to) == client = from /\ client' = to

-----------------------------------------------------------------------------
(* The client; it prepares and starts a computation only when it knows that the *)
(* one before is over, and calls set_data before every start, as beacon.py does *)

\* set_data, the call of d_sm->set_data.
SetData ==
  /\ ClientMoves("idle", "set_data")
  /\ over /\ data < MaxData
  /\ data' = data + 1
  /\ good' = FALSE
  /\ UNCHANGED <<flags, signal, mutex, worker, interrupt, waiter, over, fresh>>

DoneKept == d_done                                               \* faulty
DoneReset == FALSE

\* set_data, the block under the lock.
SetDataLocked ==
  /\ ClientMoves("set_data", "idle")
  /\ MutexFree
  /\ d_done' = DoneReset /\ d_success' = FALSE
  /\ fresh' = TRUE
  /\ UNCHANGED <<data, signal, mutex, worker, interrupt, waiter, over, good>>

\* start() creates the thread.  If that fails it returns false and nothing changes.
Start ==
  /\ ClientMoves("idle", "idle")
  /\ over /\ fresh
  /\ worker' = "reset" /\ interrupt' = FALSE
  /\ over' = FALSE /\ fresh' = FALSE
  /\ UNCHANGED <<flags, data, signal, mutex, waiter, good>>

\* done().
Done ==
  /\ ClientMoves("idle", "idle")
  /\ MutexFree
  /\ over' = (over \/ d_done)
  /\ UNCHANGED <<flags, data, signal, mutex, worker, interrupt, waiter, fresh, good>>

\* successful() takes the mutex and calls done(), which takes it again.
Successful ==
  /\ ClientMoves("idle", "successful")
  /\ MutexFree
  /\ owner' = "client" /\ depth' = 1
  /\ UNCHANGED <<flags, data, signal, worker, interrupt, waiter, known>>

SuccessfulDone ==
  /\ ClientMoves("successful", "successful_done")
  /\ MutexFree \/ owner = "client"   \* the mutex is recursive
  /\ depth' = depth + 1
  /\ good' = (d_done /\ d_success)
  /\ over' = (over \/ d_done)
  /\ UNCHANGED <<flags, data, signal, owner, worker, interrupt, waiter, fresh>>

KeptByOuter == "client"                                          \* faulty
ReleasedByOuter == "none"

SuccessfulReturns ==
  /\ ClientMoves("successful_done", "idle")
  /\ owner' = ReleasedByOuter /\ depth' = 0
  /\ UNCHANGED <<flags, data, signal, worker, interrupt, waiter, known>>

\* get_signal: only when done() does it copy d_signal, without the lock.
GetSignal ==
  /\ ClientMoves("idle", "get_signal")
  /\ MutexFree /\ d_done
  /\ UNCHANGED <<flags, data, signal, mutex, worker, interrupt, waiter, known>>

GetSignalReturns ==
  /\ ClientMoves("get_signal", "idle")
  /\ UNCHANGED <<flags, data, signal, mutex, worker, interrupt, waiter, known>>

\* modulator.wait() creates the waiter thread and polls its event.
Wait ==
  /\ ClientMoves("idle", "wait")
  /\ waiter' = "joining"
  /\ UNCHANGED <<flags, data, signal, mutex, worker, interrupt, known>>

\* ^C while it polls: cancel(), then it goes on waiting.
Cancel ==
  /\ client = "wait"
  /\ interrupt' = Active
  /\ UNCHANGED <<flags, data, signal, mutex, worker, waiter, client, known>>

WaitReturns ==
  /\ ClientMoves("wait", "idle")
  /\ waiter = "set"
  /\ over' = TRUE
  /\ UNCHANGED <<flags, data, signal, mutex, worker, interrupt, waiter, fresh, good>>

-----------------------------------------------------------------------------
(* The waiter *)

Joined == ~Active

\* join_unlocked returns at once if there is no thread, else when it has ended.
Join ==
  /\ waiter = "joining" /\ Joined
  /\ waiter' = "set"
  /\ UNCHANGED <<flags, data, signal, mutex, worker, interrupt, client, known>>

-----------------------------------------------------------------------------
(* The worker *)

WorkerMoves(from, to) == worker = from /\ worker' = to
WorkerOnly == UNCHANGED <<data, mutex, waiter, client, known>>

WorkReset ==
  /\ WorkerMoves("reset", "clear")
  /\ MutexFree
  /\ d_done' = FALSE /\ d_success' = FALSE
  /\ WorkerOnly /\ UNCHANGED <<signal, interrupt>>

\* init_state_machine(), d_signal.clear() and resize().
WorkClear ==
  /\ WorkerMoves("clear", "compute")
  /\ signal' = [of |-> data, n |-> 0]
  /\ WorkerOnly /\ UNCHANGED <<flags, interrupt>>

OneMore(n) == n <= Samples                                       \* faulty
MoreSamples(n) == n < Samples

\* One sample and the interruption point behind it.
WorkSample ==
  /\ worker = "compute" /\ MoreSamples(signal.n)
  /\ signal' = [signal EXCEPT !.n = @ + 1]
  /\ worker' = IF interrupt THEN "abort" ELSE "compute"
  /\ interrupt' = FALSE
  /\ WorkerOnly /\ UNCHANGED flags

\* add_signal_value or the state machine throws.
WorkThrows ==
  /\ WorkerMoves("compute", "abort")
  /\ WorkerOnly /\ UNCHANGED <<flags, signal, interrupt>>

Anytime(n) == n > 0                                              \* faulty
Complete(n) == n = Samples

\* The loop ends with the last symbol.
WorkLoopEnds ==
  /\ WorkerMoves("compute", "publish")
  /\ Complete(signal.n)
  /\ WorkerOnly /\ UNCHANGED <<flags, signal, interrupt>>

WorkPublish ==
  /\ WorkerMoves("publish", "ended")
  /\ MutexFree
  /\ d_success' = TRUE /\ d_done' = TRUE
  /\ WorkerOnly /\ UNCHANGED <<signal, interrupt>>

NotDone == FALSE                                                 \* faulty
DoneAnyway == TRUE

\* Both handlers: done, not successful.
WorkAbort ==
  /\ WorkerMoves("abort", "ended")
  /\ MutexFree
  /\ d_done' = DoneAnyway
  /\ WorkerOnly /\ UNCHANGED <<d_success, signal, interrupt>>

-----------------------------------------------------------------------------
ClientCall ==
  \/ SetData \/ Start \/ Done \/ Successful \/ GetSignal \/ Wait \/ Cancel

ClientGoesOn ==
  \/ SetDataLocked \/ SuccessfulDone \/ SuccessfulReturns \/ GetSignalReturns
  \/ WaitReturns

Work ==
  \/ WorkReset \/ WorkClear \/ WorkSample \/ WorkThrows \/ WorkLoopEnds
  \/ WorkPublish \/ WorkAbort

Next == ClientCall \/ ClientGoesOn \/ Join \/ Work

\* A client holds the mutex for a moment only, yet may come back for ever: the
\* worker gets it in the end (strong fairness).  A call that was begun goes on.
Fairness == SF_vars(Work) /\ WF_vars(Join) /\ WF_vars(ClientGoesOn)

Spec == Init /\ [][Next]_vars /\ Fairness

-----------------------------------------------------------------------------
(* Properties *)

\* Types; no sample is written behind the end of d_signal.
TypeOK ==
  /\ d_done \in BOOLEAN /\ d_success \in BOOLEAN
  /\ data \in 0..MaxData /\ signal \in [of : 0..MaxData, n : 0..Samples]
  /\ owner \in {"none", "client"} /\ depth \in 0..2 /\ (depth > 0 => owner = "client")
  /\ worker \in {"none", "reset", "clear", "compute", "publish", "abort", "ended"}
  /\ interrupt \in BOOLEAN /\ waiter \in {"none", "joining", "set"}
  /\ client \in {"idle", "set_data", "successful", "successful_done", "get_signal",
                 "wait"}
  /\ over \in BOOLEAN /\ fresh \in BOOLEAN /\ good \in BOOLEAN

\* What the client does without the lock never meets the worker: get_signal does not
\* copy d_signal, nor set_data change the data, while work() uses them.
NoDataRace == client \in {"get_signal", "set_data"} => ~Active

\* After successful() said yes, get_signal returns every sample of the signal for
\* the data set last.
SuccessMeansComplete == good => signal = [of |-> data, n |-> Samples]

\* modulator.wait() returns: neither the recursive mutex nor a cancel leaves the
\* threads waiting for each other.
WaitEnds == client = "wait" ~> client = "idle"

\* The modulation is a Job: what the loop of the beacon takes it for.
statusBar == IF Active THEN "running"
             ELSE IF ~d_done THEN "idle"
             ELSE IF d_success THEN "ok" ELSE "failed"
TheJob == INSTANCE Job WITH status <- statusBar
IsJob == TheJob!Spec

=============================================================================
