----------------------------- MODULE MuxProofs -----------------------------
(***************************************************************************)
(* What the multiplexer guarantees for every number of inputs, every set   *)
(* of requests and every buffer size, when the accesses of each thread     *)
(* become visible in program order: no torn request, no abort, whole       *)
(* signals on the air, and the promise of Playlist.                        *)
(***************************************************************************)
EXTENDS Mux, TLAPS

\* The stores of activate_port leave this much to do when taken in order.
StorePhases == {{}, {"set"}, {"length", "set"}, {"port", "length", "set"}}
LoadPhases  == {{}, {"clear"}, {"length", "clear"}, {"port", "length", "clear"}}

Valid(r) == r \in Requests /\ 0 <= r.port /\ r.port < d_nports

\* The writer owns the slot while d_next_set is FALSE, the reader while it
\* is TRUE.
Handshake ==
  /\ stores \in StorePhases /\ loads \in LoadPhases
  /\ stores # {} => ~d_next_set
  /\ flow = "fetch" => d_next_set
  /\ flow = "fetch" <=> loads # {}

\* What has been stored is the argument of the call.
SlotFilled ==
  /\ stores # {} \/ d_next_set => Valid(arg)
  /\ (stores # {} \/ d_next_set) /\ "port" \notin stores => d_next_port = arg.port
  /\ (stores # {} \/ d_next_set) /\ "length" \notin stores => d_next_length = arg.length

\* What has been loaded is what was in the slot.
SlotLoaded ==
  /\ flow = "fetch" /\ "port" \notin loads => d_cur_port = d_next_port
  /\ flow = "fetch" /\ "length" \notin loads => d_cur_length = d_next_length
  /\ flow = "fetch" => d_cur = 0

Started == d_nports = (IF flow = "off" THEN 0 ELSE NPorts)

\* The mux turns to the next signal only when the last one was copied to its end.
SignalOver == flow \in {"off", "select"} => d_cur = d_cur_length

Inv ==
  /\ TypeOK /\ Handshake /\ SlotFilled /\ SlotLoaded /\ Started /\ SignalOver
  /\ OnAirIsWhole /\ NoAbort

-----------------------------------------------------------------------------
\* In program order the next access is the first one pending.
LEMMA NextStore ==
  ASSUME ProgramOrder, NEW f, NEW S \in StorePhases, MayAccess(f, S, StoreOrder)
  PROVE  \/ f = "port"   /\ S \ {f} = {"length", "set"}
         \/ f = "length" /\ S = {"length", "set"} /\ S \ {f} = {"set"}
         \/ f = "set"    /\ S = {"set"} /\ S \ {f} = {}
  BY DEF MayAccess, StoreOrder, StorePhases

LEMMA NextLoad ==
  ASSUME ProgramOrder, NEW f, NEW S \in LoadPhases, MayAccess(f, S, LoadOrder)
  PROVE  \/ f = "port"   /\ S \ {f} = {"length", "clear"}
         \/ f = "length" /\ S = {"length", "clear"} /\ S \ {f} = {"clear"}
         \/ f = "clear"  /\ S = {"clear"} /\ S \ {f} = {}
  BY DEF MayAccess, LoadOrder, LoadPhases

\* A copy never takes more than what is left of the signal.
LEMMA CopyBounded ==
  ASSUME NEW nleft \in Nat, NEW nin \in Nat, NEW nout \in Nat \ {0}
  PROVE  /\ Least(Least(nleft, nin), nout) \in 0..nleft
         /\ Least(Least(nleft, nin), nout) = 0 => nleft = 0 \/ nin = 0
  BY DEF Least

-----------------------------------------------------------------------------
LEMMA InitInv == Init => Inv
<1> SUFFICES ASSUME Init PROVE Inv
  OBVIOUS
<1> USE DEF Init
<1>1. TypeOK
  <2>1. /\ d_cur_port \in Int /\ d_cur_length \in Nat /\ d_cur \in 0..d_cur_length
        /\ d_next_port \in Int /\ d_next_length \in Nat
    BY DEF DefaultPort
  <2>2. d_next_set \in BOOLEAN /\ flow \in FlowStates
    BY DEF FlowStates
  <2> QED BY <2>1, <2>2 DEF TypeOK
<1>2. Handshake /\ SlotFilled /\ SlotLoaded /\ Started /\ SignalOver
  BY DEF Handshake, SlotFilled, SlotLoaded, Started, SignalOver, StorePhases, LoadPhases
<1>3. OnAirIsWhole /\ NoAbort
  BY DEF OnAirIsWhole, NoAbort
<1> QED BY <1>1, <1>2, <1>3 DEF Inv

LEMMA StartInv == Inv /\ StartFlowgraph => Inv'
  BY ConstantsAssumption
  DEF StartFlowgraph, Inv, TypeOK, Handshake, SlotFilled, SlotLoaded, Started,
      SignalOver, OnAirIsWhole, NoAbort, FlowStates, Valid, curVars, slotVars

LEMMA ActivateInv ==
  ASSUME Inv, NEW r \in Requests, ActivatePort(r)
  PROVE  Inv'
  BY ConstantsAssumption
  DEF ActivatePort, ready, Inv, TypeOK, Handshake, SlotFilled, SlotLoaded, Started,
      SignalOver, OnAirIsWhole, NoAbort, StorePhases, StoreOrder, Valid, confVars, curVars,
      slotVars

LEMMA StoreInv ==
  ASSUME ProgramOrder, Inv, NEW f, Store(f)
  PROVE  Inv'
<1> USE DEF Inv, Store, confVars, curVars
<1>1. \/ f = "port"   /\ stores' = {"length", "set"}
      \/ f = "length" /\ stores = {"length", "set"} /\ stores' = {"set"}
      \/ f = "set"    /\ stores = {"set"} /\ stores' = {}
  BY NextStore DEF Handshake
<1>2. stores # {} /\ ~d_next_set /\ Valid(arg) /\ flow # "fetch"
  BY DEF MayAccess, Handshake, SlotFilled
<1>3. Handshake'
  BY <1>1, <1>2 DEF Handshake, StorePhases
<1>4. SlotFilled'
  BY <1>1, <1>2 DEF SlotFilled, Valid
<1>5. TypeOK'
  BY <1>1, <1>2, ConstantsAssumption DEF TypeOK, StoreOrder, Valid
<1>6. SlotLoaded' /\ Started' /\ SignalOver' /\ OnAirIsWhole' /\ NoAbort'
  BY <1>2 DEF SlotLoaded, Started, SignalOver, OnAirIsWhole, NoAbort
<1> QED BY <1>3, <1>4, <1>5, <1>6

LEMMA SelectInv == Inv /\ Select => Inv'
<1> SUFFICES ASSUME Inv, Select PROVE Inv'
  OBVIOUS
<1> USE DEF Inv, Select, confVars, slotVars, StartPosition
<1>1. d_default_length > 0 /\ DefaultLength \in Nat \ {0} /\ loads = {}
  BY ConstantsAssumption DEF TypeOK, Handshake
<1>2. Handshake' /\ SlotLoaded' /\ SlotFilled' /\ Started' /\ SignalOver' /\ NoAbort'
  BY <1>1 DEF Handshake, SlotLoaded, SlotFilled, Started, SignalOver, NoAbort, LoadPhases,
             LoadOrder, Valid
<1>3. TypeOK'
  BY <1>1 DEF TypeOK, FlowStates, LoadOrder, DefaultPort
<1>4. OnAirIsWhole'
  BY <1>1, ConstantsAssumption DEF OnAirIsWhole, TypeOK, Started, Segment, DefaultPort
<1> QED BY <1>2, <1>3, <1>4

LEMMA FetchInv ==
  ASSUME ProgramOrder, Inv, NEW f, Fetch(f)
  PROVE  Inv'
<1> USE DEF Inv, Fetch, FlagAfter, confVars
<1>1. \/ f = "port"   /\ loads' = {"length", "clear"}
      \/ f = "length" /\ loads = {"length", "clear"} /\ loads' = {"clear"}
      \/ f = "clear"  /\ loads = {"clear"} /\ loads' = {}
  BY NextLoad DEF Handshake
<1>2. flow = "fetch" /\ d_next_set /\ stores = {} /\ Valid(arg)
      /\ d_next_port = arg.port /\ d_next_length = arg.length /\ d_cur = 0
  BY DEF Handshake, SlotFilled, SlotLoaded
<1>3. arg \in [port : Int, length : Nat \ {0}] /\ arg = Segment(arg.port, arg.length)
  BY <1>2, ConstantsAssumption DEF Valid, Segment
<1>4. f = "clear" => d_cur_port' = arg.port /\ d_cur_length' = arg.length
  BY <1>1, <1>2 DEF SlotLoaded
<1>5. Handshake' /\ NoAbort'
  <2>1. CASE f = "clear"
    <3>1. loads' = {} /\ flow' = "work"
      BY <1>1, <1>3, <1>4, <2>1
    <3>2. d_next_set' = FALSE
      BY <2>1
    <3> QED BY <1>2, <3>1, <3>2 DEF Handshake, LoadPhases, NoAbort
  <2>2. CASE f # "clear"
    <3>1. loads' \in LoadPhases \ {{}} /\ d_next_set' /\ flow' = "fetch"
      BY <1>1, <1>2, <2>2 DEF LoadPhases
    <3> QED BY <1>2, <3>1 DEF Handshake, NoAbort
  <2> QED BY <2>1, <2>2
<1>6. SlotFilled' /\ SlotLoaded' /\ Started' /\ SignalOver'
  BY <1>1, <1>2 DEF SlotFilled, SlotLoaded, Started, SignalOver, Valid
<1>7. TypeOK'
  BY <1>1, <1>2, <1>3, <1>5 DEF TypeOK, FlowStates, LoadOrder, NoAbort
<1>8. OnAirIsWhole'
  BY <1>1, <1>2, <1>3, <1>4 DEF OnAirIsWhole, Valid, TypeOK
<1> QED BY <1>5, <1>6, <1>7, <1>8

LEMMA WorkInv ==
  ASSUME Inv, NEW nin \in Nat, NEW nout \in Nat \ {0}, Work(nin, nout)
  PROVE  Inv'
<1> DEFINE nleft == d_cur_length - d_cur
           ncopy == Least(Least(nleft, nin), nout)
<1> USE DEF Inv
<1>1. nleft \in Nat /\ flow = "work"
  BY DEF TypeOK, Work
<1>2. ncopy \in 0..nleft
  BY <1>1, CopyBounded
<1>3. /\ d_cur' = d_cur + ncopy
      /\ flow' = IF ncopy = nleft THEN "select" ELSE "work"
      /\ UNCHANGED <<confVars, d_cur_port, d_cur_length, slotVars, arg, stores, loads>>
  BY DEF Work, Exhausted
<1> HIDE DEF ncopy
<1>4. TypeOK'
  BY <1>1, <1>2, <1>3 DEF TypeOK, FlowStates, confVars, slotVars
<1>5. OnAirIsWhole'
  BY <1>1, <1>2, <1>3 DEF OnAirIsWhole, TypeOK, confVars
<1>6. Handshake' /\ SlotFilled' /\ SlotLoaded' /\ Started' /\ NoAbort'
  BY <1>1, <1>3 DEF Handshake, SlotFilled, SlotLoaded, Started, NoAbort, Valid,
                    confVars, slotVars
<1>7. SignalOver'
  BY <1>1, <1>2, <1>3 DEF SignalOver, TypeOK
<1> QED BY <1>4, <1>5, <1>6, <1>7

LEMMA InterruptInv == Inv /\ Interrupt => Inv'
  BY DEF Interrupt, Inv, TypeOK, Handshake, SlotFilled, SlotLoaded, Started,
         SignalOver, OnAirIsWhole, NoAbort, Valid, FlowStates, confVars, curVars, slotVars

LEMMA NextInv == ProgramOrder /\ Inv /\ [Next]_vars => Inv'
<1> SUFFICES ASSUME ProgramOrder, Inv, [Next]_vars PROVE Inv'
  OBVIOUS
<1>1. CASE StartFlowgraph BY <1>1, StartInv
<1>2. CASE \E r \in Requests : ActivatePort(r) BY <1>2, ActivateInv
<1>3. CASE \E f \in DOMAIN StoreOrder : Store(f) BY <1>3, StoreInv
<1>4. CASE Select BY <1>4, SelectInv
<1>5. CASE \E f \in DOMAIN LoadOrder : Fetch(f) BY <1>5, FetchInv
<1>6. CASE WorkSome
  <2>1. PICK nin \in 0..MaxIn, nout \in 1..MaxOut : Work(nin, nout)
    BY <1>6 DEF WorkSome
  <2> QED BY <2>1, WorkInv, ConstantsAssumption
<1>7. CASE Interrupt BY <1>7, InterruptInv
<1>8. CASE UNCHANGED vars
  BY <1>8 DEF vars, Inv, TypeOK, Handshake, SlotFilled, SlotLoaded, Started,
              SignalOver, OnAirIsWhole, NoAbort, Valid, confVars, curVars, slotVars
<1> QED BY <1>1, <1>2, <1>3, <1>4, <1>5, <1>6, <1>7, <1>8 DEF Next

\* The handshake on d_next_set is enough: its invariant holds in every
\* reachable state of every instance in which accesses keep program order.
THEOREM Invariance == ASSUME ProgramOrder PROVE SafeSpec => []Inv
  BY InitInv, NextInv, PTL DEF SafeSpec

\* TypeOK for every instance: in particular the position never passes the end
\* of the signal (assertion sstvi_mux.cc:135).
THEOREM TypeCorrect == ASSUME ProgramOrder PROVE SafeSpec => []TypeOK
<1>1. Inv => TypeOK BY DEF Inv
<1> QED BY <1>1, Invariance, PTL

\* activate_port and get_next_port_activation are never in the slot together.
THEOREM SlotExclusive == ASSUME ProgramOrder PROVE SafeSpec => []NoTornSlot
<1>1. Inv => NoTornSlot BY DEF Inv, Handshake, NoTornSlot
<1> QED BY <1>1, Invariance, PTL

\* The assertion of get_next_port_activation (sstvi_mux.cc:113) never fails.
THEOREM NeverAborts == ASSUME ProgramOrder PROVE SafeSpec => []NoAbort
<1>1. Inv => NoAbort BY DEF Inv
<1> QED BY <1>1, Invariance, PTL

\* Only the tone or a whole accepted request is ever on the air.
THEOREM WholeOnAir == ASSUME ProgramOrder PROVE SafeSpec => []OnAirIsWhole
<1>1. Inv => OnAirIsWhole BY DEF Inv
<1> QED BY <1>1, Invariance, PTL

-----------------------------------------------------------------------------
(* Refinement: every step of the mux is a step of Playlist or a stutter *)

LEMMA InitMaps == Init => PL!Init
  BY DEF Init, PL!Init, slotBar, onAirBar, leftBar, phaseBar, airing

LEMMA StoreMaps ==
  ASSUME ProgramOrder, Inv, NEW f, Store(f)
  PROVE  [PL!Next]_PL!vars
<1> USE DEF Inv, Store, confVars, curVars
<1>1. \/ f = "port"   /\ stores' = {"length", "set"}
      \/ f = "length" /\ stores = {"length", "set"} /\ stores' = {"set"}
      \/ f = "set"    /\ stores = {"set"} /\ stores' = {}
  BY NextStore DEF Handshake
<1>2. stores # {} /\ d_next_set = FALSE /\ Valid(arg) /\ flow # "off"
  BY ConstantsAssumption DEF MayAccess, Handshake, SlotFilled, TypeOK, Valid, Started
<1>3. UNCHANGED <<onAirBar, leftBar, phaseBar>>
  BY DEF onAirBar, leftBar, phaseBar, airing
<1>4. CASE f = "set"
  <2>1. arg \in Connected /\ arg = Segment(arg.port, arg.length)
    BY <1>2, ConstantsAssumption DEF Valid, Started, Connected, Segment
  <2>2. d_next_port = arg.port /\ d_next_length = arg.length
    BY <1>1, <1>4, <1>2 DEF SlotFilled
  <2>3. d_next_port' = arg.port /\ d_next_length' = arg.length /\ d_next_set' = TRUE
    BY <1>4, <2>2
  <2>4. slotBar = <<>> /\ slotBar' = <<arg>>
    BY <1>2, <2>1, <2>3 DEF slotBar
  <2> QED BY <1>3, <2>1, <2>4 DEF PL!Next, PL!Submit
<1>5. CASE f # "set"
  <2>1. d_next_set' = FALSE
    BY <1>2, <1>5
  <2>2. slotBar' = slotBar
    BY <1>2, <2>1 DEF slotBar
  <2> QED BY <1>3, <2>2 DEF PL!vars
<1> QED BY <1>4, <1>5

LEMMA SelectMaps == Inv /\ Select => [PL!Next]_PL!vars
<1> SUFFICES ASSUME Inv, Select PROVE [PL!Next]_PL!vars
  OBVIOUS
<1> USE DEF Inv, Select, StartPosition
<1>1. slotBar' = slotBar /\ onAirBar = <<>> /\ leftBar = 0 /\ phaseBar = "on"
  BY DEF slotBar, onAirBar, leftBar, phaseBar, airing, slotVars, SignalOver, TypeOK
<1>2. CASE d_next_set
  BY <1>1, <1>2 DEF PL!vars, onAirBar, leftBar, phaseBar, airing
<1>3. CASE ~d_next_set
  <2>1. flow' = "work" /\ d_cur_length' = DefaultLength /\ d_cur' = 0
        /\ d_cur_port' = DefaultPort
    BY <1>3, ConstantsAssumption DEF TypeOK
  <2>2. /\ onAirBar' = <<Segment(DefaultPort, DefaultLength)>>
        /\ leftBar' = DefaultLength /\ phaseBar' = "on"
    BY <2>1, ConstantsAssumption DEF onAirBar, leftBar, phaseBar, airing
  <2>3. slotBar = <<>>
    BY <1>3 DEF slotBar
  <2> QED BY <1>1, <2>2, <2>3 DEF PL!Next, PL!PlayTone, PL!PutOnAir, Segment
<1> QED BY <1>2, <1>3

LEMMA FetchMaps ==
  ASSUME ProgramOrder, Inv, NEW f, Fetch(f)
  PROVE  [PL!Next]_PL!vars
<1> USE DEF Inv, Fetch, FlagAfter, confVars
<1>1. \/ f = "port"   /\ loads' = {"length", "clear"}
      \/ f = "length" /\ loads = {"length", "clear"} /\ loads' = {"clear"}
      \/ f = "clear"  /\ loads = {"clear"} /\ loads' = {}
  BY NextLoad DEF Handshake
<1>2. flow = "fetch" /\ d_next_set = TRUE /\ d_cur = 0
      /\ d_next_length = arg.length /\ arg.length \in Nat \ {0}
  BY ConstantsAssumption DEF Handshake, SlotFilled, SlotLoaded, TypeOK, Valid
<1>3. /\ slotBar = <<Segment(d_next_port, d_next_length)>>
      /\ onAirBar = <<>> /\ leftBar = 0 /\ phaseBar = "on"
  BY <1>2 DEF slotBar, onAirBar, leftBar, phaseBar, airing
<1>4. CASE f = "clear"
  <2>1. d_cur_port' = d_next_port /\ d_cur_length' = d_next_length /\ d_cur' = 0
    BY <1>1, <1>2, <1>4 DEF SlotLoaded
  <2>2. flow' = "work"
    BY <1>1, <1>2, <1>4, <2>1
  <2>9. d_next_set' = FALSE
    BY <1>4
  <2>3. /\ slotBar' = <<>> /\ leftBar' = d_next_length /\ phaseBar' = "on"
        /\ onAirBar' = <<Segment(d_next_port, d_next_length)>>
    BY <1>2, <2>9, <2>1, <2>2 DEF slotBar, onAirBar, leftBar, phaseBar, airing
  <2> QED BY <1>3, <2>3 DEF PL!Next, PL!Perform, PL!PutOnAir, Segment
<1>5. CASE f # "clear"
  <2>1. d_next_set' = TRUE /\ flow' = "fetch"
    BY <1>1, <1>2, <1>5
  <2> QED BY <1>3, <2>1 DEF PL!vars, slotBar, onAirBar, leftBar, phaseBar, airing
<1> QED BY <1>4, <1>5

LEMMA WorkMaps ==
  ASSUME Inv, NEW nin \in Nat, NEW nout \in Nat \ {0}, Work(nin, nout)
  PROVE  [PL!Next]_PL!vars
<1> DEFINE nleft == d_cur_length - d_cur
           ncopy == Least(Least(nleft, nin), nout)
<1>1. /\ flow = "work" /\ nleft \in Nat \ {0} /\ d_cur \in Nat /\ d_cur_length \in Nat
      /\ onAirBar = <<Segment(d_cur_port, d_cur_length)>>
      /\ leftBar = nleft /\ phaseBar = "on"
  BY DEF Work, Inv, TypeOK, OnAirIsWhole, onAirBar, leftBar, phaseBar, airing
<1>2. ncopy \in 0..nleft
  BY <1>1, CopyBounded
<1>3. /\ d_cur' = d_cur + ncopy
      /\ flow' = IF ncopy = nleft THEN "select" ELSE "work"
      /\ UNCHANGED <<d_cur_port, d_cur_length, slotVars>>
  BY DEF Work, Exhausted
<1> HIDE DEF ncopy
<1>4. /\ slotBar' = slotBar /\ phaseBar' = phaseBar
      /\ leftBar' = nleft - ncopy
      /\ onAirBar' = IF ncopy = nleft THEN <<>> ELSE onAirBar
  BY <1>1, <1>2, <1>3 DEF slotBar, onAirBar, leftBar, phaseBar, airing, slotVars
<1>5. CASE ncopy = 0
  BY <1>1, <1>4, <1>5 DEF PL!vars
<1>6. CASE ncopy # 0
  <2>1. ncopy \in 1..leftBar /\ onAirBar # <<>>
    BY <1>1, <1>2, <1>6
  <2>2. PL!Emit(ncopy)
    BY <1>1, <1>4, <2>1 DEF PL!Emit
  <2> QED BY <2>1, <2>2 DEF PL!Next, PL!EmitSome
<1> QED BY <1>5, <1>6

LEMMA NextMaps == ProgramOrder /\ Inv /\ [Next]_vars => [PL!Next]_PL!vars
<1> SUFFICES ASSUME ProgramOrder, Inv, [Next]_vars PROVE [PL!Next]_PL!vars
  OBVIOUS
<1> USE DEF slotBar, onAirBar, leftBar, phaseBar, airing
<1>1. CASE StartFlowgraph
  BY <1>1 DEF StartFlowgraph, PL!Next, PL!SwitchOn, curVars, slotVars
<1>2. CASE \E r \in Requests : ActivatePort(r)
  BY <1>2 DEF ActivatePort, PL!vars, confVars, curVars, slotVars
<1>3. CASE \E f \in DOMAIN StoreOrder : Store(f) BY <1>3, StoreMaps
<1>4. CASE Select BY <1>4, SelectMaps
<1>5. CASE \E f \in DOMAIN LoadOrder : Fetch(f) BY <1>5, FetchMaps
<1>6. CASE WorkSome
  <2>1. PICK nin \in 0..MaxIn, nout \in 1..MaxOut : Work(nin, nout)
    BY <1>6 DEF WorkSome
  <2> QED BY <2>1, WorkMaps, ConstantsAssumption
<1>7. CASE Interrupt
  BY <1>7 DEF Interrupt, PL!Next, PL!Halt, curVars, slotVars
<1>8. CASE UNCHANGED vars
  BY <1>8 DEF vars, PL!vars, confVars, curVars, slotVars
<1> QED BY <1>1, <1>2, <1>3, <1>4, <1>5, <1>6, <1>7, <1>8 DEF Next

\* The mux implements the safety part of Playlist: requests are sent once, whole,
\* one after the other, with the tone only where nothing waited.
THEOREM ImplementsPlaylist == ASSUME ProgramOrder PROVE SafeSpec => PL!SafeSpec
  BY InitMaps, NextMaps, Invariance, PTL DEF SafeSpec, PL!SafeSpec

=============================================================================
