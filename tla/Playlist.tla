------------------------------ MODULE Playlist ------------------------------
(***************************************************************************)
(* What the port multiplexer (src/src/lib/sstvi_mux.cc, .h) promises to    *)
(* the program that schedules signals on it, with no word about how: there *)
(* is room for one request that waits; a request that was accepted goes on *)
(* the air once, whole, and only after the signal before it is finished;   *)
(* whenever a signal ends and nothing waits, the default tone is played    *)
(* instead, also whole.                                                    *)
(***************************************************************************)
EXTENDS Naturals, Sequences

CONSTANTS Accepted,  \* segments a client may schedule, records with .port and .length
          Tone       \* the segment of the default signal

VARIABLES
  slot,   \* <<>> or <<the accepted segment that waits>>
  onAir,  \* <<>> or <<the segment being sent>>
  left,   \* items of it that are still to be sent
  phase   \* "off", "on", or "halted" once the flowgraph was stopped

vars == <<slot, onAir, left, phase>>

Init == slot = <<>> /\ onAir = <<>> /\ left = 0 /\ phase = "off"

SwitchOn == phase = "off" /\ phase' = "on" /\ UNCHANGED <<slot, onAir, left>>

Submit(seg) ==
  /\ slot = <<>>
  /\ slot' = <<seg>>
  /\ UNCHANGED <<onAir, left, phase>>

PutOnAir(seg) == onAir' = <<seg>> /\ left' = seg.length

Perform ==
  /\ phase = "on" /\ onAir = <<>> /\ slot # <<>>
  /\ PutOnAir(slot[1])
  /\ slot' = <<>>
  /\ UNCHANGED phase

PlayTone ==
  /\ phase = "on" /\ onAir = <<>> /\ slot = <<>>
  /\ PutOnAir(Tone)
  /\ UNCHANGED <<slot, phase>>

Emit(n) ==
  /\ phase = "on" /\ onAir # <<>>
  /\ left' = left - n
  /\ onAir' = IF n = left THEN <<>> ELSE onAir
  /\ UNCHANGED <<slot, phase>>

EmitSome == \E n \in 1..left : Emit(n)

Halt == phase = "on" /\ phase' = "halted" /\ UNCHANGED <<slot, onAir, left>>

Next ==
  \/ SwitchOn \/ Perform \/ PlayTone \/ EmitSome \/ Halt
  \/ \E seg \in Accepted : Submit(seg)

SafeSpec == Init /\ [][Next]_vars

Spec == SafeSpec /\ WF_vars(Perform \/ PlayTone) /\ WF_vars(EmitSome)

=============================================================================
