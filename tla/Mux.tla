-------------------------------- MODULE Mux --------------------------------
(***************************************************************************)
(* sstvi_mux (src/src/lib/sstvi_mux.cc, .h) at the grain of its shared     *)
(* memory accesses.  Two threads meet in it and no lock is taken:          *)
(*                                                                         *)
(*   - the scheduling thread (the Python main thread, GIL held) calls      *)
(*     activate_port: it reads d_next_set, then stores d_next_port,        *)
(*     d_next_length and d_next_set;                                       *)
(*   - the flow thread (GNU Radio's thread of this block) runs start() and *)
(*     general_work(): it copies items and, at the end of a signal, calls  *)
(*     get_next_port_activation, which reads d_next_set, loads d_next_port *)
(*     and d_next_length and clears d_next_set.                            *)
(*                                                                         *)
(* The flag is the only thing between them.  ProgramOrder says whether the *)
(* accesses of each thread become visible in the order the source writes   *)
(* them; the members are plain ints and a plain bool, so the language does *)
(* not promise it.                                                         *)
(***************************************************************************)
EXTENDS Integers, Sequences

CONSTANTS
  NPorts,         \* inputs connected to the mux
  Requests,       \* (port, length) pairs the scheduling thread asks for
  DefaultLength,  \* items in the default signal
  MaxIn, MaxOut,  \* bounds on the items a general_work call finds, and may produce
  ProgramOrder    \* TRUE: accesses are visible in the order of the source

\* audio_server only schedules lengths > 0 (audio_interface.py:150), gives the
\* mux at least the default port and a default signal that is not empty.
ASSUME ConstantsAssumption ==
  /\ NPorts \in Nat \ {0}
  /\ Requests \subseteq [port : Int, length : Nat \ {0}]
  /\ DefaultLength \in Nat \ {0}
  /\ MaxIn \in Nat /\ MaxOut \in Nat \ {0}
  /\ ProgramOrder \in BOOLEAN

DefaultPort == 0

VARIABLES
  d_default_length, d_nports,
  d_cur_port, d_cur_length, d_cur,           \* the signal on the air
  d_next_port, d_next_length, d_next_set,    \* the slot between the threads
  arg,      \* arguments of the activate_port call under way, or of the last one
  stores,   \* stores that call has still to make
  flow,     \* where the flow thread is
  loads     \* accesses get_next_port_activation has still to make

slotVars == <<d_next_port, d_next_length, d_next_set>>
curVars  == <<d_cur_port, d_cur_length, d_cur>>
confVars == <<d_default_length, d_nports>>
vars == <<confVars, curVars, slotVars, arg, stores, flow, loads>>

FlowStates == {"off", "select", "fetch", "work", "aborted", "stopped"}

NoRequest == [port |-> DefaultPort, length |-> 0]

-----------------------------------------------------------------------------
\* The accesses of activate_port and of get_next_port_activation, in the
\* order of the source.
FlagFirst  == [set |-> 1, port |-> 2, length |-> 3]              \* faulty
StoreOrder == [port |-> 1, length |-> 2, set |-> 3]

ClearFirst == [clear |-> 1, port |-> 2, length |-> 3]            \* faulty
LoadOrder  == [port |-> 1, length |-> 2, clear |-> 3]

\* Access f of those pending may be the next one the other thread sees.
MayAccess(f, pending, order) ==
  /\ f \in pending
  /\ ProgramOrder => \A g \in pending : order[f] <= order[g]

\* After audio_server.__init__: constructed, default length set, not started.
Init ==
  /\ d_default_length = DefaultLength /\ d_nports = 0
  /\ d_cur_port = DefaultPort /\ d_cur_length = 0 /\ d_cur = 0
  /\ d_next_port = 0 /\ d_next_length = 0 /\ d_next_set = FALSE
  /\ arg = NoRequest /\ stores = {}
  /\ flow = "off" /\ loads = {}

-----------------------------------------------------------------------------
(* The scheduling thread *)

AlwaysReady == TRUE                                              \* faulty
ready == ~d_next_set

\* tb.start(): check_topology counts the inputs, then the block's thread is
\* created and its first call is start().
StartFlowgraph ==
  /\ flow = "off"
  /\ d_nports' = NPorts
  /\ flow' = "select"
  /\ UNCHANGED <<d_default_length, curVars, slotVars, arg, stores, loads>>

\* activate_port(r.port, r.length) finds the slot free and the port connected.
\* A call that is refused changes nothing.
ActivatePort(r) ==
  /\ stores = {}
  /\ ready
  /\ 0 <= r.port /\ r.port < d_nports
  /\ arg' = r
  /\ stores' = DOMAIN StoreOrder
  /\ UNCHANGED <<confVars, curVars, slotVars, flow, loads>>

\* One of the three stores of activate_port reaches memory.
Store(f) ==
  /\ MayAccess(f, stores, StoreOrder)
  /\ stores' = stores \ {f}
  /\ d_next_port' = IF f = "port" THEN arg.port ELSE d_next_port
  /\ d_next_length' = IF f = "length" THEN arg.length ELSE d_next_length
  /\ d_next_set' = (d_next_set \/ f = "set")
  /\ UNCHANGED <<confVars, curVars, arg, flow, loads>>

-----------------------------------------------------------------------------
(* The flow thread *)

KeepPosition == d_cur                                            \* faulty
StartPosition == 0

\* get_next_port_activation up to the test of d_next_set.
Select ==
  /\ flow = "select"
  /\ d_cur_port' = DefaultPort
  /\ d_cur_length' = d_default_length
  /\ d_cur' = StartPosition
  /\ IF d_next_set
       THEN flow' = "fetch" /\ loads' = DOMAIN LoadOrder
       ELSE /\ flow' = IF d_default_length > 0 THEN "work" ELSE "aborted"
            /\ UNCHANGED loads
  /\ UNCHANGED <<confVars, slotVars, arg, stores>>

KeepFlag(f) == d_next_set                                        \* faulty
FlagAfter(f) == d_next_set /\ f # "clear"

\* One of the three accesses under `if( d_next_set )`; after the last one the
\* assertion on d_cur_length decides.
Fetch(f) ==
  /\ flow = "fetch"
  /\ MayAccess(f, loads, LoadOrder)
  /\ loads' = loads \ {f}
  /\ d_cur_port' = IF f = "port" THEN d_next_port ELSE d_cur_port
  /\ d_cur_length' = IF f = "length" THEN d_next_length ELSE d_cur_length
  /\ d_next_set' = FlagAfter(f)
  /\ flow' = IF loads' # {} THEN "fetch"
             ELSE IF d_cur_length' > 0 THEN "work" ELSE "aborted"
  /\ UNCHANGED <<confVars, d_cur, d_next_port, d_next_length, arg, stores>>

Least(a, b) == IF a <= b THEN a ELSE b

SomeCopied(ncopy, nleft) == ncopy > 0                            \* faulty
Exhausted(ncopy, nleft) == ncopy = nleft

\* One round of the loop of general_work with nin items on the current input
\* and room for nout.  Nothing to copy returns 0 and leaves everything alone;
\* the end of the signal, or a signal with nothing left, calls
\* get_next_port_activation.
Work(nin, nout) ==
  LET nleft == d_cur_length - d_cur
      ncopy == Least(Least(nleft, nin), nout)
  IN  /\ flow = "work"
      /\ d_cur' = d_cur + ncopy
      /\ flow' = IF Exhausted(ncopy, nleft) THEN "select" ELSE "work"
      /\ UNCHANGED <<confVars, d_cur_port, d_cur_length, slotVars, arg, stores, loads>>

WorkSome == \E nin \in 0..MaxIn, nout \in 1..MaxOut : Work(nin, nout)

\* tb.stop() interrupts the thread: at interruption_point(), or in the
\* scheduler between two calls.
Interrupt ==
  /\ flow = "work"
  /\ flow' = "stopped"
  /\ UNCHANGED <<confVars, curVars, slotVars, arg, stores, loads>>

-----------------------------------------------------------------------------
Next ==
  \/ StartFlowgraph
  \/ \E r \in Requests : ActivatePort(r)
  \/ \E f \in DOMAIN StoreOrder : Store(f)
  \/ Select
  \/ \E f \in DOMAIN LoadOrder : Fetch(f)
  \/ WorkSome
  \/ Interrupt

\* A call that began its stores finishes them; the flow thread keeps running;
\* items keep coming on the current input (the constant sources never end,
\* and AudioServer looks at the message source).
Fairness ==
  /\ WF_vars(\E f \in DOMAIN StoreOrder : Store(f))
  /\ WF_vars(Select)
  /\ WF_vars(\E f \in DOMAIN LoadOrder : Fetch(f))
  /\ WF_vars(WorkSome)

SafeSpec == Init /\ [][Next]_vars
Spec == SafeSpec /\ Fairness

-----------------------------------------------------------------------------
(* Properties *)

\* Types, and the position inside the signal never passes its end (the code
\* asserts nleft >= 0, sstvi_mux.cc:135).
TypeOK ==
  /\ d_default_length = DefaultLength
  /\ d_nports \in {0, NPorts}
  /\ d_cur_port \in Int /\ d_cur_length \in Nat
  /\ d_cur \in 0..d_cur_length
  /\ d_next_port \in Int /\ d_next_length \in Nat /\ d_next_set \in BOOLEAN
  /\ arg \in Requests \cup {NoRequest}
  /\ stores \subseteq DOMAIN StoreOrder
  /\ flow \in FlowStates
  /\ loads \subseteq DOMAIN LoadOrder

\* No torn request: the flow thread is never inside the slot while
\* activate_port is, although neither takes a lock.
NoTornSlot == ~(stores # {} /\ flow = "fetch")

\* The assertion d_cur_length > 0 (sstvi_mux.cc:113) never aborts the program.
NoAbort == flow # "aborted"

Segment(p, l) == [port |-> p, length |-> l]

\* The signal on the air is the tone or a request that was accepted: a port and a
\* length that were asked for together, on a connected input, not yet used up.
OnAirIsWhole ==
  flow = "work" =>
    /\ Segment(d_cur_port, d_cur_length)
         \in Requests \cup {Segment(DefaultPort, DefaultLength)}
    /\ d_cur_port \in 0..(d_nports - 1)
    /\ d_cur < d_cur_length

\* An accepted request does not wait for ever in the slot, unless the
\* flowgraph is stopped.
SlotServed == d_next_set ~> (~d_next_set \/ flow = "stopped")

\* How the state of the mux is read as a Playlist.
slotBar == IF d_next_set THEN <<Segment(d_next_port, d_next_length)>> ELSE <<>>

airing == flow \in {"work", "stopped"}
onAirBar == IF airing THEN <<Segment(d_cur_port, d_cur_length)>> ELSE <<>>
\* What is left counts from the items really copied, also when the signal is over.
leftBar  == IF flow = "fetch" THEN 0 ELSE d_cur_length - d_cur

phaseBar == IF flow = "off" THEN "off"
            ELSE IF flow \in {"stopped", "aborted"} THEN "halted" ELSE "on"

Connected == {r \in Requests : 0 <= r.port /\ r.port < NPorts}

PL == INSTANCE Playlist WITH
  Accepted <- Connected, Tone <- Segment(DefaultPort, DefaultLength),
  slot <- slotBar, onAir <- onAirBar, left <- leftBar, phase <- phaseBar

\* The mux keeps the promise of Playlist, its fairness included: every accepted
\* request is sent once, whole, in its turn.
KeepsPromise == PL!Spec

=============================================================================
