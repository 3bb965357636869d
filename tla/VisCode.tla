------------------------------ MODULE VisCode ------------------------------
(***************************************************************************)
(* The VIS header of a picture: vis_code_state_machine                     *)
(* (src/src/lib/sstvi_vis_code_state_machine.cc, .h).  Whoever computes    *)
(* the signal calls next_symbol with the time at which the symbol starts,  *)
(* until a symbol of no duration comes; then the machine has checked that  *)
(* the header took as long as it should.                                   *)
(***************************************************************************)
EXTENDS Integers, Sequences

CONSTANTS
  Leader, Break, StartBit, Bit, StopBit,  \* durations
  VisTolerance                            \* the error the timing check lets pass

ASSUME VisAssumption ==
  /\ Leader \in Nat \ {0} /\ Break \in Nat \ {0} /\ StartBit \in Nat \ {0}
  /\ Bit \in Nat \ {0} /\ StopBit \in Nat \ {0} /\ VisTolerance \in Nat

VARIABLES
  now,       \* where the next symbol starts
  sym,       \* the symbol sent last
  raised,    \* next_symbol has thrown
  vis_code,  \* d_vis.vis_code, the eight bits in the order they are sent
  vis_state, vis_ptr, vis_tic   \* d_state, d_vis_ptr, d_ticbuf

visVars == <<vis_state, vis_ptr, vis_tic>>

\* A symbol has a frequency: a fixed one, or the level of a byte of the picture.
Tone(hz) == <<"tone", hz>>
Level(byte) == <<"level", byte>>
Symbol(freq, duration) == [freq |-> freq, duration |-> duration]
Silence == Symbol(Tone(0), 0)

\* check_timing lets pass what is not further than tolerance from expected.
InTime(is, expected, tolerance) ==
  /\ expected - is <= tolerance
  /\ is - expected <= tolerance

-----------------------------------------------------------------------------
(* The code word *)

Weights == <<1, 2, 4, 8, 16, 32, 64>>
BitOf(code, i) == (code \div Weights[i + 1]) % 2

HighestFirst(code) ==                                            \* faulty
  <<BitOf(code, 6), BitOf(code, 5), BitOf(code, 4), BitOf(code, 3),
    BitOf(code, 2), BitOf(code, 1), BitOf(code, 0)>>
SevenBits(code) ==
  <<BitOf(code, 0), BitOf(code, 1), BitOf(code, 2), BitOf(code, 3),
    BitOf(code, 4), BitOf(code, 5), BitOf(code, 6)>>

ParityOf(bits) ==
  (bits[1] + bits[2] + bits[3] + bits[4] + bits[5] + bits[6] + bits[7]) % 2

\* The constructor: seven bits, the lowest first, and the parity.
CodeWord(code) == Append(SevenBits(code), ParityOf(SevenBits(code)))

-----------------------------------------------------------------------------
(* The machine *)

VisInit(code) ==
  /\ vis_code = CodeWord(code)
  /\ vis_state = "VIS_LEADER0" /\ vis_ptr = 0 /\ vis_tic = 0

PtrKept == vis_ptr                                               \* faulty
PtrReset == 0

\* init(); d_ticbuf keeps what it had.
VisReset == vis_state' = "VIS_LEADER0" /\ vis_ptr' = PtrReset /\ UNCHANGED vis_tic

VisDuration == Leader * 2 + Break + StartBit + StopBit + Bit * 8

\* The symbol of each state and the state after it.
VisStates ==
  [VIS_LEADER0 |-> [symbol |-> Symbol(Tone(1900), Leader), next |-> "VIS_BREAK"],
   VIS_BREAK   |-> [symbol |-> Symbol(Tone(1200), Break), next |-> "VIS_LEADER1"],
   VIS_LEADER1 |-> [symbol |-> Symbol(Tone(1900), Leader), next |-> "VIS_START"],
   VIS_START   |-> [symbol |-> Symbol(Tone(1200), StartBit), next |-> "VIS_BITS"],
   VIS_STOP    |-> [symbol |-> Symbol(Tone(1200), StopBit), next |-> "VIS_EXIT"],
   VIS_EXIT    |-> [symbol |-> Silence, next |-> "VIS_EXIT"]]

BitTones == <<Tone(1300), Tone(1100)>>

VisSymbol ==
  IF vis_state = "VIS_BITS" THEN Symbol(BitTones[vis_code[vis_ptr + 1] + 1], Bit)
  ELSE VisStates[vis_state].symbol

\* The call starting at now throws: no bit is left, or the header was not in time.
VisRaises ==
  \/ vis_state = "VIS_BITS" /\ vis_ptr >= Len(vis_code)
  \/ vis_state = "VIS_EXIT" /\ ~InTime(now - vis_tic, VisDuration, VisTolerance)

\* next_symbol( now ) returns.
VisAdvance ==
  /\ ~VisRaises
  /\ vis_tic' = IF vis_state = "VIS_LEADER0" THEN now ELSE vis_tic
  /\ IF vis_state = "VIS_BITS"
       THEN /\ vis_ptr' = vis_ptr + 1
            /\ vis_state' = IF vis_ptr' = 8 THEN "VIS_STOP" ELSE "VIS_BITS"
       ELSE vis_state' = VisStates[vis_state].next /\ UNCHANGED vis_ptr

-----------------------------------------------------------------------------
(* Where the header should be: a reference to compare the machine with *)

\* When each state is due.
VisDue ==
  CASE vis_state = "VIS_LEADER0" -> 0
    [] vis_state = "VIS_BREAK"   -> Leader
    [] vis_state = "VIS_LEADER1" -> Leader + Break
    [] vis_state = "VIS_START"   -> Leader + Break + Leader
    [] vis_state = "VIS_BITS"    -> Leader + Break + Leader + StartBit + vis_ptr * Bit
    [] vis_state = "VIS_STOP"    -> Leader + Break + Leader + StartBit + 8 * Bit
    [] vis_state = "VIS_EXIT"    -> Leader + Break + Leader + StartBit + 8 * Bit + StopBit

=============================================================================
