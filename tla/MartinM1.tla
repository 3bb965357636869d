------------------------------ MODULE MartinM1 ------------------------------
(***************************************************************************)
(* The symbols of a picture in the mode Martin M1:                         *)
(* sstvi_martin_m1_state_machine (src/src/lib/sstvi_martin_m1_state_       *)
(* machine.cc, .h), which sends the VIS header through VisCode and then,   *)
(* line by line, a synchronisation pulse and the green, blue and red row   *)
(* of the picture with separators between them.                            *)
(*                                                                         *)
(* The operations; module Picture is the machine with its caller.         *)
(***************************************************************************)
EXTENDS VisCode

CONSTANTS
  Code,                                  \* the VIS code of the mode
  SyncPulse, SyncPorch, Separator, Pixel,   \* durations
  Width, Height,                         \* the picture
  LineTolerance, PixelsTolerance, TotalTolerance

ASSUME MartinAssumption ==
  /\ Code \in 0..127
  /\ SyncPulse \in Nat \ {0} /\ SyncPorch \in Nat \ {0}
  /\ Separator \in Nat \ {0} /\ Pixel \in Nat \ {0}
  /\ Width \in Nat \ {0} /\ Height \in Nat \ {0}
  /\ LineTolerance \in Nat /\ PixelsTolerance \in Nat /\ TotalTolerance \in Nat

VARIABLES d_state, d_data, d_data_ptr, d_line_no, d_ticbuf

machineVars ==
  <<now, sym, raised, vis_code, visVars, d_state, d_data, d_data_ptr, d_line_no, d_ticbuf>>

-----------------------------------------------------------------------------
(* d_mode, as the constructor computes it *)

BytesPerImg == Width * Height * 3
PixelsDuration == Pixel * Width

TwoSeparators ==                                                 \* faulty
  SyncPulse + SyncPorch + Separator * 2 + PixelsDuration * 3
ScanlineDuration == SyncPulse + SyncPorch + Separator * 3 + PixelsDuration * 3

\* get_expected_duration()
ExpectedDuration == ScanlineDuration * Height + VisDuration

MachineInit ==
  /\ now = 0 /\ sym = Silence /\ raised = FALSE
  /\ VisInit(Code)
  /\ d_state = "VIS_START" /\ d_data = <<>> /\ d_data_ptr = 0 /\ d_line_no = 0
  /\ d_ticbuf = [scanline |-> 0, pixels |-> 0, total |-> 0]

\* set_data; with any other size it throws and changes nothing.
set_data(data) ==
  /\ Len(data) = BytesPerImg
  /\ d_data' = data

ready == Len(d_data) = BytesPerImg

DataPtrKept == d_data_ptr                                        \* faulty
DataPtrReset == 0

\* init(), after a picture, an error or a cancelled computation; the caller's
\* time starts anew.
init ==
  /\ now' = 0 /\ sym' = Silence /\ raised' = FALSE
  /\ d_state' = "VIS_START" /\ d_data_ptr' = DataPtrReset /\ d_line_no' = 0
  /\ VisReset
  /\ UNCHANGED <<vis_code, d_data, d_ticbuf>>

\* work() asks for a symbol: nothing was thrown and the picture is not over.
Running == ~raised /\ (d_state = "VIS_START" \/ sym.duration # 0)

Return(symbol, next) ==
  /\ sym' = symbol /\ now' = now + symbol.duration
  /\ d_state' = next
  /\ UNCHANGED <<raised, vis_code, d_data>>

\* An exception leaves d_state alone.
Throw ==
  raised' = TRUE /\ UNCHANGED <<now, sym, vis_code, visVars, d_state, d_data>>

Tic(id) == d_ticbuf' = [d_ticbuf EXCEPT ![id] = now]

\* check_timing of what passed since tic(id) when the symbol sent now is over.
Check(id, duration, expected, tolerance) ==
  InTime(now + duration - d_ticbuf'[id], expected, tolerance)

-----------------------------------------------------------------------------
(* next_symbol *)

Sync == Symbol(Tone(1200), SyncPulse)

VisStart ==
  /\ Running /\ d_state = "VIS_START"
  /\ Tic("total")
  /\ Return(VisSymbol, "VIS_SEND") /\ VisAdvance
  /\ UNCHANGED <<d_data_ptr, d_line_no>>

\* The header goes on; when it is over the first line starts at once.
VisSend ==
  /\ Running /\ d_state = "VIS_SEND"
  /\ IF VisRaises THEN Throw /\ UNCHANGED d_ticbuf
     ELSE /\ VisAdvance
          /\ IF VisSymbol.duration = 0
               THEN Tic("scanline") /\ Return(Sync, "SYNC_PORCH")
               ELSE Return(VisSymbol, "VIS_SEND") /\ UNCHANGED d_ticbuf
  /\ UNCHANGED <<d_data_ptr, d_line_no>>

SyncPulseState ==
  /\ Running /\ d_state = "SYNC_PULSE"
  /\ Tic("scanline")
  /\ Return(Sync, "SYNC_PORCH")
  /\ UNCHANGED <<visVars, d_data_ptr, d_line_no>>

RowsSwapped == {[at |-> "SYNC_PORCH", next |-> "GREEN_SCAN"],       \* faulty
                [at |-> "SYNC_SEP1", next |-> "RED_SCAN"],
                [at |-> "SYNC_SEP2", next |-> "BLUE_SCAN"]}
Pulses == {[at |-> "SYNC_PORCH", next |-> "GREEN_SCAN"],
           [at |-> "SYNC_SEP1", next |-> "BLUE_SCAN"],
           [at |-> "SYNC_SEP2", next |-> "RED_SCAN"]}

\* The porch and the separators before blue and red.
PulseBeforeScan(p) ==
  /\ Running /\ d_state = p.at
  /\ Return(IF p.at = "SYNC_PORCH" THEN Symbol(Tone(1500), SyncPorch)
                                   ELSE Symbol(Tone(1500), Separator), p.next)
  /\ UNCHANGED <<visVars, d_data_ptr, d_line_no, d_ticbuf>>

AfterScan ==
  [GREEN_SCAN |-> "SYNC_SEP1", BLUE_SCAN |-> "SYNC_SEP2", RED_SCAN |-> "SYNC_SEP3"]

\* One pixel of a row; the last one checks the time the row took.
Scan(colour) ==
  /\ Running /\ d_state = colour
  /\ IF d_data_ptr % Width = 0 THEN Tic("pixels") ELSE UNCHANGED d_ticbuf
  /\ d_data_ptr' = d_data_ptr + 1
  /\ LET rowEnds == d_data_ptr' % Width = 0
         late == rowEnds /\ ~Check("pixels", Pixel, PixelsDuration, PixelsTolerance)
     IN  IF d_data_ptr >= Len(d_data) \/ late
           THEN Throw
           ELSE /\ Return(Symbol(Level(d_data[d_data_ptr']), Pixel),
                          IF rowEnds THEN AfterScan[colour] ELSE colour)
                /\ UNCHANGED visVars
  /\ UNCHANGED d_line_no

\* The separator behind red ends the line, and with the last byte the picture.
SyncSep3 ==
  /\ Running /\ d_state = "SYNC_SEP3"
  /\ d_line_no' = d_line_no + 1
  /\ UNCHANGED <<d_ticbuf, d_data_ptr>>
  /\ IF Check("scanline", Separator, ScanlineDuration, LineTolerance)
       THEN /\ Return(Symbol(Tone(1500), Separator),
                      IF d_data_ptr = BytesPerImg THEN "SSTV_EXIT" ELSE "SYNC_PULSE")
            /\ UNCHANGED visVars
       ELSE Throw

SstvExit ==
  /\ Running /\ d_state = "SSTV_EXIT"
  /\ UNCHANGED <<d_ticbuf, d_data_ptr, d_line_no>>
  /\ IF Check("total", 0, ExpectedDuration, TotalTolerance)
       THEN Return(Silence, "SSTV_EXIT") /\ UNCHANGED visVars
       ELSE Throw

NextSymbol ==
  \/ VisStart \/ VisSend \/ SyncPulseState
  \/ \E p \in Pulses : PulseBeforeScan(p)
  \/ \E colour \in DOMAIN AfterScan : Scan(colour)
  \/ SyncSep3 \/ SstvExit

-----------------------------------------------------------------------------
(* Properties *)

\* Types; the position never passes the end of the data.
MachineTypeOK ==
  /\ now \in Nat /\ raised \in BOOLEAN
  /\ vis_code \in Seq({0, 1}) /\ Len(vis_code) = 8 /\ vis_ptr \in 0..8
  /\ vis_state \in DOMAIN VisStates \cup {"VIS_BITS"} /\ vis_tic \in Nat
  /\ d_state \in {"VIS_START", "VIS_SEND", "SYNC_PULSE", "SSTV_EXIT", "SYNC_SEP3"}
       \cup {p.at : p \in Pulses} \cup DOMAIN AfterScan
  /\ Len(d_data) \in {0, BytesPerImg}
  /\ d_data_ptr \in 0..BytesPerImg /\ d_line_no \in 0..Height
  /\ d_ticbuf \in [{"scanline", "pixels", "total"} -> Nat]

\* Neither a timing check nor an access behind the data ever throws, whatever
\* the timers held when the machine was started again.
NeverThrows == ~raised

Rows == <<"GREEN_SCAN", "BLUE_SCAN", "RED_SCAN">>
LineBytes == 3 * Width

\* The byte read next belongs to the line that is counted and to the row of the
\* state, so no colour is ever sent in the place of another.
RightRow ==
  /\ \A c \in 1..3 : d_state = Rows[c] =>
       d_data_ptr \in (d_line_no * LineBytes + (c - 1) * Width)
                        .. (d_line_no * LineBytes + c * Width - 1)
  /\ d_state \in {"VIS_START", "VIS_SEND", "SYNC_PULSE", "SYNC_PORCH", "SSTV_EXIT"} =>
       d_data_ptr = d_line_no * LineBytes
  /\ d_state = "SSTV_EXIT" => d_line_no = Height

\* When the machine is due in each state, from the picture's position alone.
LineDue == VisDuration + d_line_no * ScanlineDuration
ScanDue == LineDue + SyncPulse + SyncPorch + (d_data_ptr - d_line_no * LineBytes) * Pixel
Due ==
  CASE d_state \in {"VIS_START", "VIS_SEND"} -> VisDue
    [] d_state = "SYNC_PULSE" -> LineDue
    [] d_state = "SYNC_PORCH" -> LineDue + SyncPulse
    [] d_state \in {"GREEN_SCAN", "SYNC_SEP1"} -> ScanDue
    [] d_state \in {"BLUE_SCAN", "SYNC_SEP2"} -> ScanDue + Separator
    [] d_state \in {"RED_SCAN", "SYNC_SEP3"} -> ScanDue + 2 * Separator
    [] d_state = "SSTV_EXIT" -> ExpectedDuration

\* Every symbol starts exactly when a receiver locked to the first one expects it.
OnSchedule == now = Due

=============================================================================
