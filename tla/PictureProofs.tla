---------------------------- MODULE PictureProofs ----------------------------
(***************************************************************************)
(* A picture on its way to the air, proved for every size, every duration, *)
(* every code and every order of the bands: what is painted is the picture *)
(* (PaintedRight), the header names the mode, nothing is thrown.           *)
(*                                                                         *)
(* First the machine's part, one lemma per operation: it reads the right   *)
(* row, is on schedule and never throws.  Then the loops that lay the      *)
(* picture out, the calls of the program and the receiver's times.         *)
(***************************************************************************)
EXTENDS Picture, TLAPS

-----------------------------------------------------------------------------
(* Products and remainders *)

LEMMA MulStep == \A a, b \in Int : (a + 1) * b = a * b + b
  OBVIOUS

\* One more place is one more product away.
LEMMA MulLess ==
  ASSUME NEW a \in Int, NEW b \in Int, NEW n \in Nat, a < b
  PROVE  a * n + n <= b * n
<1>1. b - a - 1 \in Nat
  OBVIOUS
<1>2. (b - a - 1) * n >= 0
  BY <1>1
<1>3. (b - a - 1) * n = b * n - a * n - n
  OBVIOUS
<1> QED BY <1>2, <1>3

\* A number has one quotient and one remainder.
LEMMA UniquePlace ==
  ASSUME NEW n \in Nat \ {0}, NEW q \in Int, NEW r \in Int,
         NEW k \in 0..n - 1, NEW l \in 0..n - 1, q * n + k = r * n + l
  PROVE  q = r /\ k = l
<1>1. CASE q < r
  BY <1>1, MulLess
<1>2. CASE r < q
  BY <1>2, MulLess
<1> QED BY <1>1, <1>2

LEMMA Remainder ==
  ASSUME NEW n \in Nat \ {0}, NEW q \in Int, NEW k \in 0..n - 1
  PROVE  (q * n + k) % n = k
<1> DEFINE x == q * n + k
<1>1. x \in Int
  OBVIOUS
<1>2. x = (x \div n) * n + (x % n) /\ x % n \in 0..n - 1 /\ x \div n \in Int
  BY <1>1
<1> HIDE DEF x
<1>3. (x \div n) * n + (x % n) = q * n + k
  BY <1>2 DEF x
<1>4. x % n = k
  BY <1>2, <1>3, UniquePlace
<1> QED BY <1>4 DEF x

-----------------------------------------------------------------------------
(* Places in the data *)

\* The position of the first byte of a row of a line.
RowStart(l, c) == l * LineBytes + (c - 1) * Width

LEMMA Sizes ==
  /\ Width \in Nat \ {0} /\ Height \in Nat \ {0} /\ LineBytes \in Nat \ {0}
  /\ BytesPerImg \in Nat \ {0} /\ BytesPerImg = Height * LineBytes
<1>1. Width \in Nat \ {0} /\ Height \in Nat \ {0}
  BY MartinAssumption
<1>2. LineBytes = 3 * Width /\ LineBytes \in Nat \ {0}
  BY <1>1 DEF LineBytes
<1>3. BytesPerImg = Height * LineBytes
  BY <1>1, <1>2 DEF BytesPerImg
<1>4. Height * LineBytes \in Nat /\ 0 * LineBytes + LineBytes <= Height * LineBytes
  BY <1>1, <1>2, MulLess
<1> QED BY <1>1, <1>2, <1>3, <1>4

LEMMA RowPlaces ==
  ASSUME NEW l \in Nat, NEW c \in 1..3
  PROVE  /\ RowStart(l, c) \in Nat /\ RowStart(l, 1) = l * LineBytes
         /\ RowStart(l, c) = l * LineBytes + (c - 1) * Width
         /\ RowStart(l, c) + Width = l * LineBytes + c * Width
         /\ l * LineBytes + 3 * Width = (l + 1) * LineBytes
         /\ l < Height => RowStart(l, c) + Width <= BytesPerImg
<1>1. l * LineBytes \in Nat /\ (c - 1) * Width \in Nat /\ c * Width \in Nat
  BY Sizes
<1>2. (c - 1) * Width + Width = c * Width /\ c * Width <= 3 * Width
  BY Sizes
<1>3. l * LineBytes + LineBytes = (l + 1) * LineBytes
  BY Sizes, MulStep
<1>4. l < Height => l * LineBytes + LineBytes <= Height * LineBytes
  BY Sizes, MulLess
<1>5. LineBytes = 3 * Width
  BY DEF LineBytes
<1> HIDE DEF LineBytes
<1> QED BY <1>1, <1>2, <1>3, <1>4, <1>5, Sizes DEF RowStart

\* The machine finds the ends of the rows by remainders.
LEMMA Columns ==
  ASSUME NEW l \in Nat, NEW c \in 1..3, NEW k \in 0..Width - 1
  PROVE  /\ (RowStart(l, c) + k) % Width = 0 <=> k = 0
         /\ (RowStart(l, c) + k + 1) % Width = 0 <=> k = Width - 1
<1>1. RowStart(l, c) = (3 * l + c - 1) * Width
  <2>1. l * (3 * Width) = (3 * l) * Width
    BY Sizes
  <2>2. (3 * l + c - 1) * Width = (3 * l) * Width + (c - 1) * Width
    BY Sizes
  <2> QED BY <2>1, <2>2 DEF RowStart, LineBytes
<1>2. (RowStart(l, c) + k) % Width = k
  BY <1>1, Sizes, Remainder
<1>3. k < Width - 1 => (RowStart(l, c) + (k + 1)) % Width = k + 1
  BY <1>1, Sizes, Remainder
<1>4. k = Width - 1 => (RowStart(l, c) + k + 1) % Width = 0
  <2> SUFFICES ASSUME k = Width - 1 PROVE (RowStart(l, c) + k + 1) % Width = 0
    OBVIOUS
  <2>1. ((3 * l + c) * Width + 0) % Width = 0
    BY Sizes, Remainder
  <2>2. (3 * l + c) * Width = (3 * l + c - 1) * Width + Width
    BY Sizes
  <2>3. RowStart(l, c) + k + 1 = (3 * l + c) * Width + 0
    BY <1>1, <2>2, Sizes
  <2> QED BY <2>1, <2>3
<1>5. RowStart(l, c) + (k + 1) = RowStart(l, c) + k + 1
  BY RowPlaces
<1> QED BY <1>2, <1>3, <1>4, <1>5, Sizes

-----------------------------------------------------------------------------
(* The invariant *)

LineStates == {"SYNC_PORCH", "GREEN_SCAN", "SYNC_SEP1", "BLUE_SCAN", "SYNC_SEP2",
               "RED_SCAN", "SYNC_SEP3"}

HeaderStates == {"VIS_LEADER0", "VIS_BREAK", "VIS_LEADER1", "VIS_START", "VIS_STOP",
                 "VIS_EXIT", "VIS_BITS"}
MachineStates == {"VIS_START", "VIS_SEND", "SYNC_PULSE", "SSTV_EXIT"} \cup LineStates

\* MachineTypeOK with the states by their names.
MachineTypes ==
  /\ now \in Nat /\ raised \in BOOLEAN
  /\ vis_code \in Seq({0, 1}) /\ Len(vis_code) = 8 /\ vis_ptr \in 0..8
  /\ vis_state \in HeaderStates /\ vis_tic \in Nat
  /\ d_state \in MachineStates
  /\ Len(d_data) \in {0, BytesPerImg}
  /\ d_data_ptr \in 0..BytesPerImg /\ d_line_no \in 0..Height
  /\ d_ticbuf \in [{"scanline", "pixels", "total"} -> Nat]

\* The header's machine is where the Martin M1 machine thinks it is.
HeaderState ==
  /\ vis_code = CodeWord(Code) /\ vis_tic = 0
  /\ vis_state \in {"VIS_LEADER0", "VIS_BREAK", "VIS_LEADER1", "VIS_START"} => vis_ptr = 0
  /\ vis_state = "VIS_BITS" => vis_ptr < 8
  /\ vis_state \in {"VIS_STOP", "VIS_EXIT"} => vis_ptr = 8
  /\ d_state = "VIS_START" => vis_state = "VIS_LEADER0"
  /\ d_state = "VIS_SEND" => vis_state # "VIS_LEADER0"

Separators == <<"SYNC_SEP1", "SYNC_SEP2", "SYNC_SEP3">>

\* No line is counted before the header is over.
HeaderLines == d_state \in {"VIS_START", "VIS_SEND"} => d_line_no = 0

\* RightRow, and where the position is between the rows.
Places ==
  /\ RightRow
  /\ d_state # "SSTV_EXIT" => d_line_no < Height
  /\ \A c \in 1..3 : d_state = Separators[c] => d_data_ptr = RowStart(d_line_no, c) + Width

\* Each timer was started when the machine thinks it was, also when it was left with
\* another time by a picture that was cancelled.
Timers ==
  /\ d_ticbuf["total"] = 0
  /\ d_state \in LineStates => d_ticbuf["scanline"] = LineDue
  /\ \A c \in 1..3 : d_state = Rows[c] /\ d_data_ptr # RowStart(d_line_no, c) =>
       d_ticbuf["pixels"] = now - (d_data_ptr - RowStart(d_line_no, c)) * Pixel

MachineInv ==
  /\ MachineTypes /\ NeverThrows
  /\ HeaderState /\ HeaderLines /\ Places /\ OnSchedule /\ Timers

-----------------------------------------------------------------------------
(* Durations *)

LEMMA Durations ==
  /\ Leader \in Nat \ {0} /\ Break \in Nat \ {0} /\ StartBit \in Nat \ {0}
  /\ Bit \in Nat \ {0} /\ StopBit \in Nat \ {0} /\ VisTolerance \in Nat
  /\ SyncPulse \in Nat \ {0} /\ SyncPorch \in Nat \ {0}
  /\ Separator \in Nat \ {0} /\ Pixel \in Nat \ {0}
  /\ LineTolerance \in Nat /\ PixelsTolerance \in Nat /\ TotalTolerance \in Nat
  /\ VisDuration \in Nat /\ PixelsDuration \in Nat /\ ScanlineDuration \in Nat
  /\ \A a \in Nat : a * Pixel \in Nat /\ a * ScanlineDuration \in Nat
<1>1. VisDuration \in Nat
  BY VisAssumption DEF VisDuration
<1>2. PixelsDuration \in Nat
  BY MartinAssumption DEF PixelsDuration
<1>3. ScanlineDuration \in Nat
  BY <1>2, MartinAssumption DEF ScanlineDuration
<1>4. \A a \in Nat : a * Pixel \in Nat /\ a * ScanlineDuration \in Nat
  BY <1>3, MartinAssumption
<1> QED BY <1>1, <1>2, <1>3, <1>4, VisAssumption, MartinAssumption

\* A check of what took exactly its time lets it pass.
LEMMA ExactPasses ==
  ASSUME NEW t \in Int, NEW tolerance \in Nat
  PROVE  InTime(t, t, tolerance)
  BY DEF InTime

LEMMA CodeWordType == CodeWord(Code) \in Seq({0, 1}) /\ Len(CodeWord(Code)) = 8
<1>1. \A i \in 0..6 : BitOf(Code, i) \in {0, 1}
  <2> SUFFICES ASSUME NEW i \in 0..6 PROVE BitOf(Code, i) \in {0, 1}
    OBVIOUS
  <2>1. Code \in Nat /\ Weights[i + 1] \in Nat \ {0}
    BY MartinAssumption DEF Weights
  <2>2. Code \div Weights[i + 1] \in Int
    BY <2>1
  <2> QED BY <2>2 DEF BitOf
<1>2. SevenBits(Code) \in Seq({0, 1}) /\ Len(SevenBits(Code)) = 7
  BY <1>1 DEF SevenBits
<1>3. ParityOf(SevenBits(Code)) \in {0, 1}
  <2> DEFINE bits == SevenBits(Code)
             sum == bits[1] + bits[2] + bits[3] + bits[4] + bits[5] + bits[6] + bits[7]
  <2>1. /\ bits[1] \in Int /\ bits[2] \in Int /\ bits[3] \in Int /\ bits[4] \in Int
        /\ bits[5] \in Int /\ bits[6] \in Int /\ bits[7] \in Int
    BY <1>1 DEF SevenBits
  <2> HIDE DEF bits
  <2>2. sum \in Int
    BY <2>1
  <2> HIDE DEF sum
  <2>3. sum % 2 \in {0, 1}
    BY <2>2
  <2> QED BY <2>3, Zenon DEF ParityOf, sum, bits
<1>4. \A S : \A s \in Seq(S), b \in S :
        Append(s, b) \in Seq(S) /\ Len(Append(s, b)) = Len(s) + 1
  OBVIOUS
<1>5. /\ CodeWord(Code) \in Seq({0, 1})
      /\ Len(CodeWord(Code)) = Len(SevenBits(Code)) + 1
  BY <1>2, <1>3, <1>4, Zenon DEF CodeWord
<1> QED BY <1>2, <1>5

\* The states of the two machines.
LEMMA States ==
  /\ DOMAIN VisStates = {"VIS_LEADER0", "VIS_BREAK", "VIS_LEADER1", "VIS_START", "VIS_STOP",
                         "VIS_EXIT"}
  /\ {p.at : p \in Pulses} = {"SYNC_PORCH", "SYNC_SEP1", "SYNC_SEP2"}
  /\ DOMAIN AfterScan = {"GREEN_SCAN", "BLUE_SCAN", "RED_SCAN"}
<1>1. DOMAIN VisStates = {"VIS_LEADER0", "VIS_BREAK", "VIS_LEADER1", "VIS_START", "VIS_STOP",
                          "VIS_EXIT"}
  BY DEF VisStates
<1>2. {p.at : p \in Pulses} = {"SYNC_PORCH", "SYNC_SEP1", "SYNC_SEP2"}
  BY DEF Pulses
<1>3. DOMAIN AfterScan = {"GREEN_SCAN", "BLUE_SCAN", "RED_SCAN"}
  BY DEF AfterScan
<1> QED BY <1>1, <1>2, <1>3

LEMMA TypeInStates == MachineTypeOK <=> MachineTypes
<1>1. DOMAIN VisStates \cup {"VIS_BITS"} = HeaderStates
  BY States DEF HeaderStates
<1>2. {"VIS_START", "VIS_SEND", "SYNC_PULSE", "SSTV_EXIT", "SYNC_SEP3"}
        \cup {p.at : p \in Pulses} \cup DOMAIN AfterScan = MachineStates
  <2> DEFINE a == {p.at : p \in Pulses}
             b == DOMAIN AfterScan
  <2>1. a = {"SYNC_PORCH", "SYNC_SEP1", "SYNC_SEP2"}
        /\ b = {"GREEN_SCAN", "BLUE_SCAN", "RED_SCAN"}
    BY States
  <2> HIDE DEF a, b
  <2>2. {"VIS_START", "VIS_SEND", "SYNC_PULSE", "SSTV_EXIT", "SYNC_SEP3"} \cup a \cup b
          = MachineStates
    BY <2>1 DEF MachineStates, LineStates
  <2> QED BY <2>2 DEF a, b
<1> QED BY <1>1, <1>2, Zenon DEF MachineTypeOK, MachineTypes

-----------------------------------------------------------------------------
(* The operations *)

LEMMA MachineInitInv == MachineInit => MachineInv
<1> SUFFICES ASSUME MachineInit PROVE MachineInv
  OBVIOUS
<1> USE Sizes DEF MachineInit, VisInit
<1>1. MachineTypes
  <2>1. d_ticbuf \in [{"scanline", "pixels", "total"} -> Nat]
    OBVIOUS
  <2>2. now \in Nat /\ vis_ptr \in 0..8 /\ vis_tic \in Nat /\ d_data_ptr \in 0..BytesPerImg
        /\ d_line_no \in 0..Height /\ Len(d_data) \in {0, BytesPerImg}
    OBVIOUS
  <2>3. vis_state \in HeaderStates /\ d_state \in MachineStates
    BY DEF HeaderStates, MachineStates, LineStates
  <2>4. raised \in BOOLEAN
    OBVIOUS
  <2> QED BY <2>1, <2>2, <2>3, <2>4, CodeWordType DEF MachineTypes
<1>2. NeverThrows /\ HeaderState /\ HeaderLines
  BY DEF NeverThrows, HeaderState, HeaderLines
<1>3. Places
  BY DEF Places, RightRow, Rows, Separators
<1>4. OnSchedule
  BY DEF OnSchedule, Due, VisDue
<1>5. Timers
  BY DEF Timers, LineStates, Rows
<1> QED BY <1>1, <1>2, <1>3, <1>4, <1>5 DEF MachineInv

\* A new picture, whatever the machine was doing when the one before was cancelled.
LEMMA ResetInv == MachineInv /\ init => MachineInv'
<1> SUFFICES ASSUME MachineInv, init PROVE MachineInv'
  OBVIOUS
<1> USE Sizes DEF MachineInv, init, VisReset, DataPtrReset, PtrReset
<1>1. MachineTypes'
  <2>1. now' \in Nat /\ vis_ptr' \in 0..8 /\ d_data_ptr' \in 0..BytesPerImg
        /\ d_line_no' \in 0..Height
    OBVIOUS
  <2>2. vis_state' \in HeaderStates /\ d_state' \in MachineStates
    BY DEF HeaderStates, MachineStates, LineStates
  <2>3. raised' \in BOOLEAN
    OBVIOUS
  <2> QED BY <2>1, <2>2, <2>3 DEF MachineTypes
<1>2. NeverThrows' /\ HeaderState' /\ HeaderLines'
  BY DEF NeverThrows, HeaderState, HeaderLines
<1>3. Places'
  BY DEF Places, RightRow, Rows, Separators
<1>4. OnSchedule'
  BY DEF OnSchedule, Due, VisDue
<1>5. Timers'
  BY DEF Timers, LineStates, Rows
<1> QED BY <1>1, <1>2, <1>3, <1>4, <1>5

\* The machine's own time and place do not depend on the bytes.
LEMMA OtherDataInv ==
  ASSUME MachineInv, Len(d_data') \in {0, BytesPerImg},
         UNCHANGED <<now, raised, vis_code, visVars, d_state, d_data_ptr, d_line_no, d_ticbuf>>
  PROVE  MachineInv'
<1> USE DEF MachineInv, visVars
<1>1. MachineTypes'
  BY DEF MachineTypes
<1>2. NeverThrows' /\ HeaderState' /\ HeaderLines'
  BY DEF NeverThrows, HeaderState, HeaderLines
<1>3. Places'
  BY DEF Places, RightRow
<1>4. OnSchedule'
  <2>1. VisDue' = VisDue /\ LineDue' = LineDue /\ ScanDue' = ScanDue
    BY DEF VisDue, LineDue, ScanDue
  <2> QED BY <2>1 DEF OnSchedule, Due
<1>5. Timers'
  <2>1. LineDue' = LineDue
    BY DEF LineDue
  <2> QED BY <2>1 DEF Timers
<1> QED BY <1>1, <1>2, <1>3, <1>4, <1>5

-----------------------------------------------------------------------------
(* The header *)

\* The parts of HeaderState that do not depend on d_state.
HeaderPtr ==
  /\ vis_state \in {"VIS_LEADER0", "VIS_BREAK", "VIS_LEADER1", "VIS_START"} => vis_ptr = 0
  /\ vis_state = "VIS_BITS" => vis_ptr < 8
  /\ vis_state \in {"VIS_STOP", "VIS_EXIT"} => vis_ptr = 8

LEMMA HeaderInTime ==
  ASSUME MachineInv, d_state \in {"VIS_START", "VIS_SEND"}
  PROVE  now = VisDue /\ ~VisRaises
<1>1. now = VisDue
  BY DEF MachineInv, OnSchedule, Due
<1>2. vis_state = "VIS_EXIT" => now - vis_tic = VisDuration
  BY <1>1, Durations, VisAssumption DEF VisDue, VisDuration, MachineInv, HeaderState
<1>3. vis_state = "VIS_EXIT" => InTime(now - vis_tic, VisDuration, VisTolerance)
  BY <1>2, Durations, ExactPasses
<1>4. vis_state = "VIS_BITS" => ~(vis_ptr >= Len(vis_code))
  BY DEF MachineInv, HeaderState, MachineTypes
<1> QED BY <1>1, <1>3, <1>4 DEF VisRaises

\* One symbol of the header and the state after it.
LEMMA HeaderAdvances ==
  ASSUME MachineInv, d_state \in {"VIS_START", "VIS_SEND"}, VisAdvance
  PROVE  /\ vis_state' \in HeaderStates \ {"VIS_LEADER0"}
         /\ vis_ptr' \in 0..8 /\ vis_tic' = 0 /\ HeaderPtr'
         /\ VisSymbol.duration \in Nat /\ VisDue' = now + VisSymbol.duration
         /\ VisSymbol.duration = 0 => now = VisDuration
<1> USE Durations
<1>1. now = VisDue
  BY HeaderInTime
<1>2. /\ vis_ptr \in 0..8 /\ HeaderPtr /\ vis_tic = 0
      /\ vis_state \in HeaderStates
  BY DEF MachineInv, HeaderState, MachineTypes, HeaderPtr
<1>3. CASE vis_state = "VIS_BITS"
  <2>1. VisSymbol.duration = Bit
    BY <1>3 DEF VisSymbol, Symbol
  <2>2. /\ vis_ptr' = vis_ptr + 1 /\ vis_tic' = 0 /\ vis_ptr \in 0..7
        /\ vis_state' = IF vis_ptr' = 8 THEN "VIS_STOP" ELSE "VIS_BITS"
    BY <1>2, <1>3 DEF VisAdvance, HeaderPtr
  <2>3. now = Leader + Break + Leader + StartBit + vis_ptr * Bit
    BY <1>1, <1>3 DEF VisDue
  <2>4. (vis_ptr + 1) * Bit = vis_ptr * Bit + Bit /\ vis_ptr * Bit \in Nat
    BY <2>2, MulStep
  <2>5. VisDue' = Leader + Break + Leader + StartBit + vis_ptr' * Bit
    BY <2>2 DEF VisDue
  <2>6. VisDue' = now + Bit
    BY <2>2, <2>3, <2>4, <2>5
  <2>7. vis_state' \in HeaderStates \ {"VIS_LEADER0"} /\ vis_ptr' \in 0..8 /\ HeaderPtr'
    BY <2>2 DEF HeaderStates, HeaderPtr
  <2> QED BY <2>1, <2>2, <2>6, <2>7
<1>4. CASE vis_state # "VIS_BITS"
  <2>1. /\ VisSymbol = VisStates[vis_state].symbol
        /\ vis_state' = VisStates[vis_state].next /\ vis_ptr' = vis_ptr
        /\ vis_tic' = IF vis_state = "VIS_LEADER0" THEN now ELSE vis_tic
    BY <1>4 DEF VisSymbol, VisAdvance
  <2>2. vis_tic' = 0
    BY <1>1, <1>2, <2>1 DEF VisDue
  <2>3. CASE vis_state = "VIS_LEADER0"
    <3>1. VisSymbol.duration = Leader /\ vis_state' = "VIS_BREAK"
      BY <2>1, <2>3 DEF VisStates, Symbol
    <3> QED BY <1>1, <1>2, <2>1, <2>2, <2>3, <3>1 DEF VisDue, HeaderPtr, HeaderStates
  <2>4. CASE vis_state = "VIS_BREAK"
    <3>1. VisSymbol.duration = Break /\ vis_state' = "VIS_LEADER1"
      BY <2>1, <2>4 DEF VisStates, Symbol
    <3> QED BY <1>1, <1>2, <2>1, <2>2, <2>4, <3>1 DEF VisDue, HeaderPtr, HeaderStates
  <2>5. CASE vis_state = "VIS_LEADER1"
    <3>1. VisSymbol.duration = Leader /\ vis_state' = "VIS_START"
      BY <2>1, <2>5 DEF VisStates, Symbol
    <3> QED BY <1>1, <1>2, <2>1, <2>2, <2>5, <3>1 DEF VisDue, HeaderPtr, HeaderStates
  <2>6. CASE vis_state = "VIS_START"
    <3>1. VisSymbol.duration = StartBit /\ vis_state' = "VIS_BITS"
      BY <2>1, <2>6 DEF VisStates, Symbol
    <3> QED BY <1>1, <1>2, <2>1, <2>2, <2>6, <3>1 DEF VisDue, HeaderPtr, HeaderStates
  <2>7. CASE vis_state = "VIS_STOP"
    <3>1. VisSymbol.duration = StopBit /\ vis_state' = "VIS_EXIT"
      BY <2>1, <2>7 DEF VisStates, Symbol
    <3> QED BY <1>1, <1>2, <2>1, <2>2, <2>7, <3>1 DEF VisDue, HeaderPtr, HeaderStates
  <2>8. CASE vis_state = "VIS_EXIT"
    <3>1. VisSymbol.duration = 0 /\ vis_state' = "VIS_EXIT"
      BY <2>1, <2>8 DEF VisStates, Symbol, Silence
    <3>2. VisDue = VisDuration
      BY <2>8 DEF VisDue, VisDuration
    <3> QED BY <1>1, <1>2, <2>1, <2>2, <2>8, <3>1, <3>2 DEF VisDue, HeaderPtr, HeaderStates
  <2> QED BY <1>2, <1>4, <2>3, <2>4, <2>5, <2>6, <2>7, <2>8 DEF HeaderStates
<1> QED BY <1>3, <1>4

LEMMA VisStartInv == MachineInv /\ VisStart => MachineInv'
<1> SUFFICES ASSUME MachineInv, VisStart PROVE MachineInv'
  OBVIOUS
<1> USE Durations, Sizes
<1>1. /\ d_state = "VIS_START" /\ d_state' = "VIS_SEND" /\ VisAdvance
      /\ now' = now + VisSymbol.duration
      /\ d_ticbuf' = [d_ticbuf EXCEPT !["total"] = now]
      /\ UNCHANGED <<raised, vis_code, d_data, d_data_ptr, d_line_no>>
  BY DEF VisStart, Return, Tic
<1>2. /\ vis_state' \in HeaderStates \ {"VIS_LEADER0"}
      /\ vis_ptr' \in 0..8 /\ vis_tic' = 0 /\ HeaderPtr'
      /\ VisSymbol.duration \in Nat /\ VisDue' = now + VisSymbol.duration
  BY <1>1, HeaderAdvances
<1>3. now = 0
  BY <1>1, HeaderInTime DEF VisDue, MachineInv, HeaderState
<1>4. MachineTypes'
  BY <1>1, <1>2, <1>3 DEF MachineInv, MachineTypes, MachineStates
<1>5. NeverThrows' /\ HeaderState' /\ HeaderLines'
  BY <1>1, <1>2 DEF MachineInv, NeverThrows, HeaderState, HeaderLines, HeaderPtr
<1>6. Places'
  BY <1>1 DEF MachineInv, Places, RightRow, Rows, Separators
<1>7. OnSchedule'
  BY <1>1, <1>2 DEF OnSchedule, Due
<1>8. Timers'
  BY <1>1, <1>3 DEF MachineInv, Timers, LineStates, Rows, MachineTypes
<1> QED BY <1>4, <1>5, <1>6, <1>7, <1>8 DEF MachineInv

\* The header goes on, or the first line starts.
LEMMA VisSendInv == MachineInv /\ VisSend => MachineInv'
<1> SUFFICES ASSUME MachineInv, VisSend PROVE MachineInv'
  OBVIOUS
<1> USE Durations, Sizes
<1>1. d_state = "VIS_SEND" /\ ~VisRaises /\ now = VisDue
  BY HeaderInTime DEF VisSend
<1>2. VisAdvance /\ UNCHANGED <<raised, vis_code, d_data, d_data_ptr, d_line_no>>
  BY <1>1 DEF VisSend, Return
<1>3. /\ vis_state' \in HeaderStates \ {"VIS_LEADER0"}
      /\ vis_ptr' \in 0..8 /\ vis_tic' = 0 /\ HeaderPtr'
      /\ VisSymbol.duration \in Nat /\ VisDue' = now + VisSymbol.duration
      /\ VisSymbol.duration = 0 => now = VisDuration
  BY <1>1, <1>2, HeaderAdvances
<1>4. NeverThrows' /\ (d_state' # "VIS_START" => HeaderState')
  BY <1>2, <1>3 DEF MachineInv, NeverThrows, HeaderState, HeaderPtr
<1>5. CASE VisSymbol.duration = 0
  <2>1. /\ d_ticbuf' = [d_ticbuf EXCEPT !["scanline"] = now]
        /\ d_state' = "SYNC_PORCH" /\ now' = now + SyncPulse
    BY <1>1, <1>5 DEF VisSend, Return, Tic, Sync, Symbol
  <2>2. now = VisDuration
    BY <1>3, <1>5
  <2>3. MachineTypes'
    BY <1>2, <1>3, <2>1 DEF MachineInv, MachineTypes, MachineStates, LineStates
  <2>4. Places'
    BY <1>1, <1>2, <2>1 DEF MachineInv, Places, RightRow, Rows, Separators
  <2>5. d_line_no = 0 /\ d_line_no' = 0
    BY <1>1, <1>2 DEF MachineInv, HeaderLines
  <2>6. LineDue' = VisDuration
    BY <2>5 DEF LineDue
  <2>7. OnSchedule'
    BY <2>1, <2>2, <2>6 DEF OnSchedule, Due
  <2>8. Timers'
    BY <2>1, <2>2, <2>6 DEF MachineInv, Timers, LineStates, Rows, MachineTypes
  <2> QED BY <1>4, <2>1, <2>3, <2>4, <2>5, <2>7, <2>8 DEF MachineInv, HeaderLines
<1>6. CASE VisSymbol.duration # 0
  <2>1. /\ d_ticbuf' = d_ticbuf /\ d_state' = "VIS_SEND"
        /\ now' = now + VisSymbol.duration
    BY <1>1, <1>6 DEF VisSend, Return
  <2>2. MachineTypes'
    BY <1>2, <1>3, <2>1 DEF MachineInv, MachineTypes, MachineStates
  <2>3. Places' /\ HeaderLines'
    BY <1>1, <1>2, <2>1 DEF MachineInv, Places, RightRow, Rows, Separators, HeaderLines
  <2>4. OnSchedule'
    BY <1>3, <2>1 DEF OnSchedule, Due
  <2>5. Timers'
    BY <2>1 DEF MachineInv, Timers, LineStates, Rows
  <2> QED BY <1>4, <2>1, <2>2, <2>3, <2>4, <2>5 DEF MachineInv
<1> QED BY <1>5, <1>6

-----------------------------------------------------------------------------
(* The lines *)

LEMMA HeaderOver ==
  ASSUME MachineInv, d_state' \notin {"VIS_START", "VIS_SEND"}, ~raised',
         UNCHANGED <<vis_code, visVars>>
  PROVE  NeverThrows' /\ HeaderState' /\ HeaderLines'
  BY DEF MachineInv, NeverThrows, HeaderState, HeaderLines, visVars

LEMMA SyncPulseInv == MachineInv /\ SyncPulseState => MachineInv'
<1> SUFFICES ASSUME MachineInv, SyncPulseState PROVE MachineInv'
  OBVIOUS
<1> USE Durations, Sizes
<1>1. /\ d_state = "SYNC_PULSE" /\ d_state' = "SYNC_PORCH" /\ now' = now + SyncPulse
      /\ d_ticbuf' = [d_ticbuf EXCEPT !["scanline"] = now]
      /\ UNCHANGED <<raised, vis_code, visVars, d_data, d_data_ptr, d_line_no>>
  BY DEF SyncPulseState, Return, Tic, Sync, Symbol
<1>2. MachineTypes'
  BY <1>1 DEF MachineInv, MachineTypes, MachineStates, LineStates, visVars
<1>3. NeverThrows' /\ HeaderState' /\ HeaderLines'
  BY <1>1, HeaderOver DEF MachineInv, NeverThrows
<1>4. Places'
  BY <1>1 DEF MachineInv, Places, RightRow, Rows, Separators
<1>5. now = LineDue /\ LineDue' = LineDue
  BY <1>1 DEF MachineInv, OnSchedule, Due, LineDue
<1>6. OnSchedule'
  BY <1>1, <1>5 DEF OnSchedule, Due
<1>7. Timers'
  BY <1>1, <1>5 DEF MachineInv, Timers, LineStates, Rows, MachineTypes
<1> QED BY <1>2, <1>3, <1>4, <1>6, <1>7 DEF MachineInv

Scans == <<"SYNC_PORCH", "SYNC_SEP1", "SYNC_SEP2">>

\* Before a row: the position is at its first byte and the row is due when the pulse
\* is over.
LEMMA BeforeRow ==
  ASSUME MachineInv, NEW c \in 1..3, d_state = Scans[c]
  PROVE  /\ d_line_no \in Nat /\ d_line_no < Height
         /\ d_data_ptr = RowStart(d_line_no, c)
         /\ d_data_ptr - d_line_no * LineBytes = (c - 1) * Width
         /\ LineDue \in Nat
         /\ now = LineDue + SyncPulse + ((c - 1) * Width) * Pixel
                    + IF c = 1 THEN 0 ELSE SyncPorch + (c - 2) * Separator
<1> USE Durations, Sizes
<1>1. d_line_no \in Nat /\ d_line_no < Height
  BY DEF MachineInv, MachineTypes, Places, Scans
<1>2. LineDue \in Nat
  BY <1>1 DEF LineDue
<1>3. d_line_no * LineBytes \in Nat
  BY <1>1
<1>4. CASE c = 1
  <2>1. d_data_ptr = d_line_no * LineBytes
    BY <1>4 DEF MachineInv, Places, RightRow, Scans
  <2>2. now = LineDue + SyncPulse
    BY <1>4 DEF MachineInv, OnSchedule, Due, Scans
  <2>3. RowStart(d_line_no, 1) = d_line_no * LineBytes
    BY <1>1, RowPlaces
  <2>4. (c - 1) * Width = 0 /\ ((c - 1) * Width) * Pixel = 0
    BY <1>4
  <2> QED BY <1>1, <1>2, <1>3, <1>4, <2>1, <2>2, <2>3, <2>4
<1>5. CASE c = 2
  <2>1. d_data_ptr = RowStart(d_line_no, 1) + Width
    BY <1>5 DEF MachineInv, Places, Separators, Scans
  <2>2. now = ScanDue
    BY <1>5 DEF MachineInv, OnSchedule, Due, Scans
  <2>3. d_data_ptr = d_line_no * LineBytes + 1 * Width
    BY <1>1, <2>1, RowPlaces
  <2>4. RowStart(d_line_no, 2) = d_line_no * LineBytes + 1 * Width
    BY <1>1, RowPlaces
  <2>5. d_data_ptr - d_line_no * LineBytes = (c - 1) * Width
    BY <1>3, <1>5, <2>3
  <2>6. now = LineDue + SyncPulse + SyncPorch + ((c - 1) * Width) * Pixel
    BY <2>2, <2>5, Zenon DEF ScanDue
  <2>7. ((c - 1) * Width) * Pixel \in Nat
    BY <1>5
  <2> QED BY <1>1, <1>2, <1>5, <2>3, <2>4, <2>5, <2>6, <2>7
<1>6. CASE c = 3
  <2>1. d_data_ptr = RowStart(d_line_no, 2) + Width
    BY <1>6 DEF MachineInv, Places, Separators, Scans
  <2>2. now = ScanDue + Separator
    BY <1>6 DEF MachineInv, OnSchedule, Due, Scans
  <2>3. d_data_ptr = d_line_no * LineBytes + 2 * Width
    BY <1>1, <2>1, RowPlaces
  <2>4. RowStart(d_line_no, 3) = d_line_no * LineBytes + 2 * Width
    BY <1>1, RowPlaces
  <2>5. d_data_ptr - d_line_no * LineBytes = (c - 1) * Width
    BY <1>3, <1>6, <2>3
  <2>6. now = LineDue + SyncPulse + SyncPorch + ((c - 1) * Width) * Pixel + Separator
    BY <2>2, <2>5, Zenon DEF ScanDue
  <2>7. ((c - 1) * Width) * Pixel \in Nat
    BY <1>6
  <2> QED BY <1>1, <1>2, <1>6, <2>3, <2>4, <2>5, <2>6, <2>7
<1> QED BY <1>4, <1>5, <1>6

\* When a row, and the separator behind it, is due.
RowsDue ==
  \A c \in 1..3 : ScanDue \in Int /\ d_state \in {Rows[c], Separators[c]} =>
    Due = ScanDue + (c - 1) * Separator

LEMMA DueInRow == RowsDue
<1> SUFFICES ASSUME NEW c \in 1..3, ScanDue \in Int, d_state \in {Rows[c], Separators[c]}
             PROVE  Due = ScanDue + (c - 1) * Separator
  BY DEF RowsDue
<1>1. CASE c = 1
  BY <1>1, Durations DEF Due, Rows, Separators
<1>2. CASE c = 2
  BY <1>2, Durations DEF Due, Rows, Separators
<1>3. CASE c = 3
  BY <1>3, Durations DEF Due, Rows, Separators
<1> QED BY <1>1, <1>2, <1>3

LEMMA PulseInv == \A p \in Pulses : MachineInv /\ PulseBeforeScan(p) => MachineInv'
<1> SUFFICES ASSUME NEW p \in Pulses, MachineInv, PulseBeforeScan(p) PROVE MachineInv'
  OBVIOUS
<1> USE Durations, Sizes
<1>1. PICK c \in 1..3 :
        /\ d_state = Scans[c] /\ d_state' = Rows[c]
        /\ now' = now + IF c = 1 THEN SyncPorch ELSE Separator
  BY DEF Pulses, PulseBeforeScan, Return, Symbol, Scans, Rows
<1>2. UNCHANGED <<raised, vis_code, visVars, d_data, d_data_ptr, d_line_no, d_ticbuf>>
  BY DEF PulseBeforeScan, Return
<1>3. /\ d_line_no \in Nat /\ d_line_no < Height
      /\ d_data_ptr = RowStart(d_line_no, c)
      /\ d_data_ptr - d_line_no * LineBytes = (c - 1) * Width
      /\ LineDue \in Nat
      /\ now = LineDue + SyncPulse + ((c - 1) * Width) * Pixel
                 + IF c = 1 THEN 0 ELSE SyncPorch + (c - 2) * Separator
  BY <1>1, BeforeRow
<1>4. MachineTypes'
  BY <1>1, <1>2 DEF MachineInv, MachineTypes, MachineStates, LineStates, visVars, Rows
<1>5. NeverThrows' /\ HeaderState' /\ HeaderLines'
  BY <1>1, <1>2, HeaderOver DEF MachineInv, NeverThrows, Rows
<1>6. Places'
  <2>1. /\ RowStart(d_line_no, c) = d_line_no * LineBytes + (c - 1) * Width
        /\ RowStart(d_line_no, c) + Width = d_line_no * LineBytes + c * Width
    BY <1>3, RowPlaces
  <2>2. /\ d_data_ptr >= d_line_no * LineBytes + (c - 1) * Width
        /\ d_data_ptr <= d_line_no * LineBytes + c * Width - 1
    BY <1>3, <2>1
  <2>3. d_data_ptr \in (d_line_no * LineBytes + (c - 1) * Width)
                         .. (d_line_no * LineBytes + c * Width - 1)
    <3>1. d_line_no * LineBytes \in Nat /\ (c - 1) * Width \in Nat /\ c * Width \in Nat
      BY <1>3
    <3>2. d_data_ptr \in Int
      BY DEF MachineInv, MachineTypes
    <3> QED BY <2>2, <3>1, <3>2
  <2>4. RightRow'
    BY <1>1, <1>2, <2>3 DEF RightRow, Rows
  <2> QED BY <1>1, <1>2, <1>3, <2>4 DEF Places, Rows, Separators
<1>7. OnSchedule'
  <2>1. ScanDue' = LineDue + SyncPulse + SyncPorch + ((c - 1) * Width) * Pixel
    BY <1>2, <1>3, Zenon DEF ScanDue, LineDue
  <2>2. ((c - 1) * Width) * Pixel \in Nat
    OBVIOUS
  <2>3. now' = ScanDue' + (c - 1) * Separator
    BY <1>1, <1>3, <2>1, <2>2
  <2>4. Due' = ScanDue' + (c - 1) * Separator
    <3>1. RowsDue'
      BY DueInRow, PTL
    <3>2. ScanDue' \in Int
      BY <2>1, <2>2, <1>3
    <3>3. d_state' \in {Rows[c], Separators[c]}
      BY <1>1, Zenon
    <3> QED BY <3>1, <3>2, <3>3, Zenon DEF RowsDue
  <2> QED BY <2>3, <2>4, Zenon DEF OnSchedule
<1>8. Timers'
  <2>1. d_state \in LineStates
    BY <1>1 DEF LineStates, Scans
  <2>2. LineDue' = LineDue
    BY <1>2 DEF LineDue
  <2> QED BY <1>1, <1>2, <1>3, <2>1, <2>2 DEF MachineInv, Timers, Rows
<1> QED BY <1>4, <1>5, <1>6, <1>7, <1>8 DEF MachineInv

\* In a row: the byte that is read next is in its column k.
InColumn(c, k) ==
  /\ d_line_no \in Nat /\ d_line_no < Height /\ LineDue \in Nat
  /\ RowStart(d_line_no, c) \in Nat /\ d_line_no * LineBytes \in Nat
  /\ d_data_ptr = RowStart(d_line_no, c) + k
  /\ d_data_ptr - d_line_no * LineBytes = (c - 1) * Width + k
  /\ d_data_ptr < BytesPerImg
  /\ now = LineDue + SyncPulse + SyncPorch + ((c - 1) * Width + k) * Pixel
             + (c - 1) * Separator
  /\ k # 0 => d_ticbuf["pixels"] = now - k * Pixel

LEMMA InRow ==
  ASSUME MachineInv, NEW c \in 1..3, d_state = Rows[c]
  PROVE  \E k \in 0..Width - 1 : InColumn(c, k)
<1> USE Durations, Sizes
<1>1. d_line_no \in Nat /\ d_line_no < Height /\ d_data_ptr \in Int
  BY DEF MachineInv, MachineTypes, Places, Rows
<1>2. LineDue \in Nat
  BY <1>1 DEF LineDue
<1>3. /\ RowStart(d_line_no, c) \in Nat
      /\ RowStart(d_line_no, c) = d_line_no * LineBytes + (c - 1) * Width
      /\ RowStart(d_line_no, c) + Width = d_line_no * LineBytes + c * Width
      /\ RowStart(d_line_no, c) + Width <= BytesPerImg
  BY <1>1, RowPlaces
<1>4. d_line_no * LineBytes \in Nat /\ (c - 1) * Width \in Nat /\ c * Width \in Nat
  BY <1>1
<1>5. d_data_ptr \in (d_line_no * LineBytes + (c - 1) * Width)
                        .. (d_line_no * LineBytes + c * Width - 1)
  BY DEF MachineInv, Places, RightRow
<1> DEFINE k == d_data_ptr - RowStart(d_line_no, c)
<1>6. k \in 0..Width - 1 /\ d_data_ptr = RowStart(d_line_no, c) + k
  BY <1>1, <1>3, <1>4, <1>5
<1>7. d_data_ptr < BytesPerImg
  BY <1>3, <1>6
<1>8. d_data_ptr - d_line_no * LineBytes = (c - 1) * Width + k
  BY <1>3, <1>4, <1>6
<1>9. k # 0 => d_ticbuf["pixels"] = now - k * Pixel
  BY <1>6, <1>3 DEF MachineInv, Timers
<1> HIDE DEF k
<1>10. ScanDue = LineDue + SyncPulse + SyncPorch + ((c - 1) * Width + k) * Pixel
  BY <1>8, Zenon DEF ScanDue
<1>11. ((c - 1) * Width + k) * Pixel \in Nat
  BY <1>4, <1>6
<1>12. ScanDue \in Int
  BY <1>2, <1>10, <1>11
<1>13. now = ScanDue + (c - 1) * Separator
  BY <1>12, DueInRow DEF MachineInv, OnSchedule, RowsDue
<1>14. now = LineDue + SyncPulse + SyncPorch + ((c - 1) * Width + k) * Pixel
               + (c - 1) * Separator
  BY <1>10, <1>13, Zenon
<1> QED BY <1>1, <1>2, <1>3, <1>4, <1>6, <1>7, <1>8, <1>9, <1>14, Zenon DEF InColumn

\* A pixel is sent: no check is failed.
ScanSent(c, k) ==
  /\ d_data_ptr' = d_data_ptr + 1 /\ d_line_no' = d_line_no
  /\ d_ticbuf' \in {d_ticbuf, [d_ticbuf EXCEPT !["pixels"] = now]}
  /\ d_ticbuf'["pixels"] = now - k * Pixel
  /\ Return(Symbol(Level(d_data[d_data_ptr']), Pixel),
            IF k = Width - 1 THEN Separators[c] ELSE Rows[c])
  /\ UNCHANGED visVars

LEMMA ScanSends ==
  ASSUME NEW colour \in DOMAIN AfterScan, MachineInv, Len(d_data) = BytesPerImg, Scan(colour)
  PROVE  \E c \in 1..3 : \E k \in 0..Width - 1 :
           d_state = Rows[c] /\ InColumn(c, k) /\ ScanSent(c, k)
<1> USE Durations, Sizes
<1>1. PICK c \in 1..3 : colour = Rows[c] /\ AfterScan[colour] = Separators[c]
  BY States DEF AfterScan, Rows, Separators
<1>2. d_state = Rows[c]
  BY <1>1 DEF Scan
<1>3a. PICK k \in 0..Width - 1 : InColumn(c, k)
  BY <1>2, InRow
<1>3. /\ d_line_no \in Nat /\ RowStart(d_line_no, c) \in Nat
      /\ d_data_ptr = RowStart(d_line_no, c) + k
      /\ d_data_ptr < BytesPerImg
      /\ k # 0 => d_ticbuf["pixels"] = now - k * Pixel
  BY <1>3a, Zenon DEF InColumn
<1>4. /\ d_data_ptr' = d_data_ptr + 1 /\ d_line_no' = d_line_no
      /\ d_data_ptr % Width = 0 <=> k = 0
      /\ d_data_ptr' % Width = 0 <=> k = Width - 1
  <2>1. d_data_ptr' = d_data_ptr + 1 /\ d_line_no' = d_line_no
    BY DEF Scan
  <2>2. /\ (RowStart(d_line_no, c) + k) % Width = 0 <=> k = 0
        /\ (RowStart(d_line_no, c) + k + 1) % Width = 0 <=> k = Width - 1
    <3>1. d_line_no \in Nat
      BY <1>3
    <3> QED BY <3>1, Columns
  <2>3. d_data_ptr = RowStart(d_line_no, c) + k
    BY <1>3
  <2>4. d_data_ptr' = RowStart(d_line_no, c) + k + 1
    BY <2>1, <2>3, Zenon
  <2> QED BY <2>1, <2>2, <2>3, <2>4, Zenon
<1>5. /\ now \in Nat /\ d_data_ptr \in Nat
      /\ k * Pixel \in Nat /\ (c - 1) * Width + k \in Nat
  BY DEF MachineInv, MachineTypes
<1>6. /\ d_ticbuf' \in {d_ticbuf, [d_ticbuf EXCEPT !["pixels"] = now]}
      /\ d_ticbuf'["pixels"] = now - k * Pixel
  <2>1. d_ticbuf \in [{"scanline", "pixels", "total"} -> Nat]
    BY DEF MachineInv, MachineTypes
  <2>2. IF k = 0 THEN d_ticbuf' = [d_ticbuf EXCEPT !["pixels"] = now]
                 ELSE d_ticbuf' = d_ticbuf
    BY <1>4 DEF Scan, Tic
  <2>3. CASE k = 0
    <3>1. d_ticbuf' = [d_ticbuf EXCEPT !["pixels"] = now]
      BY <2>2, <2>3
    <3>2. d_ticbuf'["pixels"] = now /\ k * Pixel = 0
      BY <2>1, <2>3, <3>1
    <3> QED BY <1>5, <3>1, <3>2
  <2>4. CASE k # 0
    <3>1. d_ticbuf' = d_ticbuf
      BY <2>2, <2>4
    <3> QED BY <1>3, <2>4, <3>1, Zenon
  <2> QED BY <2>3, <2>4
<1>7. k = Width - 1 => Check("pixels", Pixel, PixelsDuration, PixelsTolerance)
  <2> SUFFICES ASSUME k = Width - 1
               PROVE  Check("pixels", Pixel, PixelsDuration, PixelsTolerance)
    OBVIOUS
  <2>1. k * Pixel + Pixel = (k + 1) * Pixel
    BY MulStep
  <2>2. now + Pixel - d_ticbuf'["pixels"] = PixelsDuration
    BY <1>5, <1>6, <2>1 DEF PixelsDuration
  <2> QED BY <2>2, ExactPasses DEF Check
<1>8. /\ Return(Symbol(Level(d_data[d_data_ptr']), Pixel),
                IF k = Width - 1 THEN Separators[c] ELSE Rows[c])
      /\ UNCHANGED visVars
  <2>1. ~(d_data_ptr >= Len(d_data))
    BY <1>3, <1>5
  <2>2. ~(d_data_ptr' % Width = 0 /\ ~Check("pixels", Pixel, PixelsDuration, PixelsTolerance))
    BY <1>4, <1>7, Zenon
  <2>3. /\ Return(Symbol(Level(d_data[d_data_ptr']), Pixel),
                  IF d_data_ptr' % Width = 0 THEN AfterScan[colour] ELSE colour)
        /\ UNCHANGED visVars
    BY <2>1, <2>2, Zenon DEF Scan
  <2>4. (IF d_data_ptr' % Width = 0 THEN AfterScan[colour] ELSE colour)
          = (IF k = Width - 1 THEN Separators[c] ELSE Rows[c])
    BY <1>1, <1>4, Zenon
  <2> QED BY <2>3, <2>4, Zenon
<1> QED BY <1>2, <1>3a, <1>4, <1>6, <1>8, Zenon DEF ScanSent

LEMMA ScanInv ==
  \A colour \in DOMAIN AfterScan :
    MachineInv /\ Len(d_data) = BytesPerImg /\ Scan(colour) => MachineInv'
<1> SUFFICES ASSUME NEW colour \in DOMAIN AfterScan, MachineInv,
                    Len(d_data) = BytesPerImg, Scan(colour)
             PROVE  MachineInv'
  OBVIOUS
<1> USE Durations, Sizes
<1>1. PICK c \in 1..3, k \in 0..Width - 1 :
        d_state = Rows[c] /\ InColumn(c, k) /\ ScanSent(c, k)
  BY ScanSends
<1>2. d_state = Rows[c]
  BY <1>1
<1>3. /\ d_line_no \in Nat /\ d_line_no < Height /\ LineDue \in Nat
      /\ RowStart(d_line_no, c) \in Nat /\ d_line_no * LineBytes \in Nat
      /\ d_data_ptr = RowStart(d_line_no, c) + k
      /\ d_data_ptr - d_line_no * LineBytes = (c - 1) * Width + k
      /\ d_data_ptr < BytesPerImg
      /\ now = LineDue + SyncPulse + SyncPorch + ((c - 1) * Width + k) * Pixel
                 + (c - 1) * Separator
      /\ k # 0 => d_ticbuf["pixels"] = now - k * Pixel
  BY <1>1, Zenon DEF InColumn
<1>4. d_data_ptr' = d_data_ptr + 1 /\ d_line_no' = d_line_no
  BY <1>1, Zenon DEF ScanSent
<1>5. /\ now \in Nat /\ d_data_ptr \in Nat
      /\ k * Pixel \in Nat /\ (c - 1) * Width + k \in Nat
  BY DEF MachineInv, MachineTypes
<1>6. /\ d_ticbuf' \in {d_ticbuf, [d_ticbuf EXCEPT !["pixels"] = now]}
      /\ d_ticbuf'["pixels"] = now - k * Pixel
  BY <1>1, Zenon DEF ScanSent
<1>8. /\ Return(Symbol(Level(d_data[d_data_ptr']), Pixel),
                IF k = Width - 1 THEN Separators[c] ELSE Rows[c])
      /\ UNCHANGED visVars
  BY <1>1, Zenon DEF ScanSent
<1>9. /\ d_state' = (IF k = Width - 1 THEN Separators[c] ELSE Rows[c])
      /\ now' = now + Pixel
      /\ UNCHANGED <<raised, vis_code, visVars, d_data>>
  BY <1>8 DEF Return, Symbol
<1>10. MachineTypes'
  <2>1. d_state' \in MachineStates
    BY <1>9 DEF MachineStates, LineStates, Rows, Separators
  <2>2. d_data_ptr' \in 0..BytesPerImg /\ now' \in Nat
    <3>1. d_data_ptr < BytesPerImg /\ d_data_ptr' = d_data_ptr + 1 /\ now' = now + Pixel
      BY <1>3, <1>4, <1>9, Zenon
    <3> QED BY <1>5, <3>1
  <2>3. d_ticbuf' \in [{"scanline", "pixels", "total"} -> Nat]
    BY <1>5, <1>6 DEF MachineInv, MachineTypes
  <2> QED BY <1>4, <1>9, <2>1, <2>2, <2>3 DEF MachineInv, MachineTypes, visVars
<1>11. NeverThrows' /\ HeaderState' /\ HeaderLines'
  <2>1. d_state' \notin {"VIS_START", "VIS_SEND"}
    BY <1>9 DEF Rows, Separators
  <2> QED BY <1>9, <2>1, HeaderOver DEF MachineInv, NeverThrows
<1>12. Places'
  <2>1. /\ RowStart(d_line_no, c) = d_line_no * LineBytes + (c - 1) * Width
        /\ RowStart(d_line_no, c) + Width = d_line_no * LineBytes + c * Width
    BY <1>3, RowPlaces
  <2>2. (c - 1) * Width \in Nat /\ c * Width \in Nat
    OBVIOUS
  <2>3. CASE k = Width - 1
    <3>1. d_data_ptr' = RowStart(d_line_no, c) + Width
      BY <1>3, <1>4, <2>3
    <3>2. d_state' = Separators[c]
      BY <1>9, <2>3
    <3>3. \A r \in 1..3 : d_state' = Separators[r] => r = c
      BY <3>2 DEF Separators
    <3>4. RightRow'
      BY <3>2 DEF RightRow, Rows, Separators
    <3> QED BY <1>3, <1>4, <3>1, <3>3, <3>4, Zenon DEF Places
  <2>4. CASE k # Width - 1
    <3>1. d_data_ptr' \in (d_line_no * LineBytes + (c - 1) * Width)
                           .. (d_line_no * LineBytes + c * Width - 1)
      BY <1>3, <1>4, <2>1, <2>2, <2>4
    <3>2. d_state' = Rows[c]
      BY <1>9, <2>4
    <3>3. RightRow'
      BY <1>4, <3>1, <3>2 DEF RightRow, Rows
    <3>4. \A r \in 1..3 : d_state' # Separators[r]
      BY <3>2 DEF Rows, Separators
    <3> QED BY <1>3, <1>4, <3>3, <3>4, Zenon DEF Places
  <2> QED BY <2>3, <2>4
<1>13. OnSchedule'
  <2>1. d_data_ptr' - d_line_no' * LineBytes = (c - 1) * Width + k + 1
    <3> DEFINE m == d_line_no * LineBytes
               w == (c - 1) * Width + k
    <3>1. m \in Nat /\ w \in Nat /\ d_data_ptr - m = w
      BY <1>3, <1>5
    <3> HIDE DEF m, w
    <3>2. d_data_ptr' - m = w + 1
      BY <1>4, <1>5, <3>1
    <3> QED BY <1>4, <3>2, Zenon DEF m, w
  <2>2. ScanDue' = LineDue + SyncPulse + SyncPorch + ((c - 1) * Width + k + 1) * Pixel
    BY <1>4, <2>1, Zenon DEF ScanDue, LineDue
  <2>3. /\ ((c - 1) * Width + k + 1) * Pixel = ((c - 1) * Width + k) * Pixel + Pixel
        /\ ((c - 1) * Width + k) * Pixel \in Nat
    <3>1. (c - 1) * Width + k \in Nat
      OBVIOUS
    <3> QED BY <3>1, MulStep
  <2>4. ScanDue' \in Int /\ now' = ScanDue' + (c - 1) * Separator
    BY <1>3, <1>9, <2>2, <2>3
  <2>5. RowsDue'
    BY DueInRow, PTL
  <2>6. Due' = ScanDue' + (c - 1) * Separator
    BY <1>9, <2>4, <2>5 DEF RowsDue
  <2> QED BY <2>4, <2>6 DEF OnSchedule
<1>14. Timers'
  <2>1. LineDue' = LineDue /\ d_state \in LineStates
    BY <1>2, <1>4 DEF LineDue, LineStates, Rows
  <2>2. /\ d_ticbuf'["total"] = d_ticbuf["total"]
        /\ d_ticbuf'["scanline"] = d_ticbuf["scanline"]
    BY <1>6 DEF MachineInv, MachineTypes
  <2>3. d_state' = Rows[c] => d_ticbuf'["pixels"] = now' - (k + 1) * Pixel
    <3>1. (k + 1) * Pixel = k * Pixel + Pixel
      BY MulStep
    <3> QED BY <1>5, <1>6, <1>9, <3>1
  <2>4. d_data_ptr' - RowStart(d_line_no', c) = k + 1
    <3> DEFINE first == RowStart(d_line_no, c)
    <3>1. first \in Nat /\ d_data_ptr = first + k
      BY <1>3
    <3> HIDE DEF first
    <3>2. d_data_ptr' - first = k + 1
      BY <1>4, <3>1
    <3> QED BY <1>4, <3>2, Zenon DEF first
  <2>5. \A r \in 1..3 : d_state' = Rows[r] => r = c
    BY <1>9 DEF Rows, Separators
  <2> QED BY <2>1, <2>2, <2>3, <2>4, <2>5 DEF MachineInv, Timers
<1> QED BY <1>10, <1>11, <1>12, <1>13, <1>14 DEF MachineInv

\* When the separator behind the red row is sent, the line has taken exactly its time.
LEMMA LineEnds ==
  ASSUME MachineInv, d_state = "SYNC_SEP3"
  PROVE  /\ d_line_no \in 0..Height - 1 /\ d_data_ptr = (d_line_no + 1) * LineBytes
         /\ LineDue \in Nat /\ d_ticbuf["scanline"] = LineDue
         /\ now + Separator = LineDue + ScanlineDuration
<1> USE Durations, Sizes
<1>1. d_line_no \in 0..Height - 1
  BY DEF MachineInv, MachineTypes, Places
<1>2. LineDue \in Nat
  BY <1>1 DEF LineDue
<1>3. d_data_ptr = d_line_no * LineBytes + 3 * Width
      /\ d_data_ptr = (d_line_no + 1) * LineBytes
  <2>1. d_data_ptr = RowStart(d_line_no, 3) + Width
    BY DEF MachineInv, Places, Separators
  <2>2. RowStart(d_line_no, 3) + Width = d_line_no * LineBytes + 3 * Width
        /\ d_line_no * LineBytes + 3 * Width = (d_line_no + 1) * LineBytes
    BY <1>1, RowPlaces
  <2> QED BY <2>1, <2>2, Zenon
<1>4. d_data_ptr - d_line_no * LineBytes = 3 * Width
  <2>1. d_line_no * LineBytes \in Nat
    BY <1>1
  <2> QED BY <1>3, <2>1
<1>5. ScanDue = LineDue + SyncPulse + SyncPorch + PixelsDuration * 3
  <2>1. ScanDue = LineDue + SyncPulse + SyncPorch + (3 * Width) * Pixel
    BY <1>4, Zenon DEF ScanDue
  <2>2. (3 * Width) * Pixel = PixelsDuration * 3
    BY DEF PixelsDuration
  <2> QED BY <2>1, <2>2, Zenon
<1>6. now = ScanDue + 2 * Separator
  BY DEF MachineInv, OnSchedule, Due
<1>7. now + Separator = LineDue + ScanlineDuration
  BY <1>2, <1>5, <1>6 DEF ScanlineDuration
<1>8. d_ticbuf["scanline"] = LineDue
  BY DEF MachineInv, Timers, LineStates
<1> QED BY <1>1, <1>2, <1>3, <1>7, <1>8

LEMMA SyncSep3Inv == MachineInv /\ SyncSep3 => MachineInv'
<1> SUFFICES ASSUME MachineInv, SyncSep3 PROVE MachineInv'
  OBVIOUS
<1> USE Durations, Sizes
<1>1. d_state = "SYNC_SEP3"
  BY DEF SyncSep3
<1>2. /\ d_line_no \in 0..Height - 1 /\ d_data_ptr = (d_line_no + 1) * LineBytes
      /\ LineDue \in Nat /\ d_ticbuf["scanline"] = LineDue
      /\ now + Separator = LineDue + ScanlineDuration
  BY <1>1, LineEnds
<1>3. d_line_no' = d_line_no + 1 /\ UNCHANGED <<d_ticbuf, d_data_ptr>>
  BY DEF SyncSep3
<1>4. Check("scanline", Separator, ScanlineDuration, LineTolerance)
  <2>1. now + Separator - LineDue = ScanlineDuration
    <3>1. now \in Nat
      BY DEF MachineInv, MachineTypes
    <3> QED BY <1>2, <3>1
  <2>2. d_ticbuf'["scanline"] = LineDue
    BY <1>2, <1>3, Zenon
  <2>3. now + Separator - d_ticbuf'["scanline"] = ScanlineDuration
    BY <2>1, <2>2, Zenon
  <2> QED BY <2>3, ExactPasses DEF Check
<1>5. d_data_ptr = BytesPerImg <=> d_line_no + 1 = Height
  <2>1. d_line_no + 1 < Height => d_data_ptr + LineBytes <= Height * LineBytes
    BY <1>2, MulLess
  <2>2. d_data_ptr \in Nat
    BY DEF MachineInv, MachineTypes
  <2> QED BY <1>2, <2>1, <2>2
<1>6. /\ d_state' = IF d_line_no + 1 = Height THEN "SSTV_EXIT" ELSE "SYNC_PULSE"
      /\ now' = now + Separator
      /\ UNCHANGED <<raised, vis_code, visVars, d_data>>
  <2>1. /\ Return(Symbol(Tone(1500), Separator),
                  IF d_data_ptr = BytesPerImg THEN "SSTV_EXIT" ELSE "SYNC_PULSE")
        /\ UNCHANGED visVars
    BY <1>4, Zenon DEF SyncSep3
  <2> QED BY <1>5, <2>1 DEF Return, Symbol
<1>7. MachineTypes'
  <2>1. d_state' \in MachineStates
    BY <1>6 DEF MachineStates
  <2>2. d_line_no' \in 0..Height
    BY <1>2, <1>3
  <2>3. now' \in Nat
    BY <1>6 DEF MachineInv, MachineTypes
  <2> QED BY <1>3, <1>6, <2>1, <2>2, <2>3 DEF MachineInv, MachineTypes, visVars
<1>8. NeverThrows' /\ HeaderState' /\ HeaderLines'
  BY <1>6, HeaderOver DEF MachineInv, NeverThrows
<1>9. Places'
  <2>1. d_data_ptr' = d_line_no' * LineBytes
    BY <1>2, <1>3, Zenon
  <2>2. d_state' = "SSTV_EXIT" <=> d_line_no' = Height
    BY <1>3, <1>6
  <2>3. d_line_no' \in 0..Height
    BY <1>2, <1>3
  <2> QED BY <1>6, <2>1, <2>2, <2>3 DEF Places, RightRow, Rows, Separators
<1>10. OnSchedule'
  <2>1. LineDue' = LineDue + ScanlineDuration
    <3>1. (d_line_no + 1) * ScanlineDuration = d_line_no * ScanlineDuration + ScanlineDuration
          /\ d_line_no * ScanlineDuration \in Nat
      BY <1>2, MulStep
    <3> QED BY <1>3, <3>1 DEF LineDue
  <2>2. now' = LineDue'
    BY <1>2, <1>6, <2>1, Zenon
  <2>3. d_line_no + 1 = Height => LineDue' = ExpectedDuration
    <3>1. Height * ScanlineDuration = ScanlineDuration * Height
          /\ Height * ScanlineDuration \in Nat
      OBVIOUS
    <3>2. d_line_no + 1 = Height => LineDue' = VisDuration + Height * ScanlineDuration
      BY <1>3, Zenon DEF LineDue
    <3> QED BY <3>1, <3>2 DEF ExpectedDuration
  <2> QED BY <1>6, <2>2, <2>3 DEF OnSchedule, Due
<1>11. Timers'
  BY <1>3, <1>6 DEF MachineInv, Timers, LineStates, Rows
<1> QED BY <1>7, <1>8, <1>9, <1>10, <1>11 DEF MachineInv

LEMMA SstvExitInv == MachineInv /\ SstvExit => MachineInv'
<1> SUFFICES ASSUME MachineInv, SstvExit PROVE MachineInv'
  OBVIOUS
<1> USE Durations, Sizes
<1>1. d_state = "SSTV_EXIT" /\ UNCHANGED <<d_ticbuf, d_data_ptr, d_line_no>>
  BY DEF SstvExit
<1>2. now = ExpectedDuration /\ d_ticbuf["total"] = 0 /\ now \in Nat
  BY <1>1 DEF MachineInv, OnSchedule, Due, Timers, MachineTypes
<1>3. Check("total", 0, ExpectedDuration, TotalTolerance)
  <2>1. now + 0 - d_ticbuf'["total"] = ExpectedDuration
    BY <1>1, <1>2
  <2> QED BY <1>2, <2>1, ExactPasses DEF Check
<1>4. Return(Silence, "SSTV_EXIT") /\ UNCHANGED visVars
  BY <1>3 DEF SstvExit
<1>5. d_state' = d_state /\ now' = now /\ UNCHANGED <<raised, vis_code, visVars, d_data>>
  BY <1>1, <1>2, <1>4 DEF Return, Silence, Symbol
<1>6. Len(d_data') \in {0, BytesPerImg}
  BY <1>5 DEF MachineInv, MachineTypes
<1> QED BY <1>1, <1>5, <1>6, OtherDataInv

\* The machine with its data: what every symbol keeps.
LEMMA NextSymbolInv ==
  MachineInv /\ Len(d_data) = BytesPerImg /\ NextSymbol => MachineInv'
  BY VisStartInv, VisSendInv, SyncPulseInv, PulseInv, ScanInv, SyncSep3Inv, SstvExitInv
     DEF NextSymbol


-----------------------------------------------------------------------------
(* A receiver's times *)

\* When line l starts, and one row with the separator behind it.
LineAt(l) == VisDuration + l * ScanlineDuration
RowTime == Width * Pixel + Separator

\* The time q of row r, from the start of its line.
RowAt(r, q) == SyncPulse + SyncPorch + (r - 1) * RowTime + q

LEMMA RowTimes ==
  /\ RowTime \in Nat \ {0} /\ Width * Pixel \in 1..RowTime - 1
  /\ ScanlineDuration = SyncPulse + SyncPorch + 3 * RowTime
<1>1. Width * Pixel \in Nat \ {0}
  <2>1. Width \in Nat \ {0} /\ Pixel \in Nat \ {0}
    BY Sizes, Durations
  <2>2. 0 * Pixel + Pixel <= Width * Pixel
    BY <2>1, MulLess
  <2> QED BY <2>1, <2>2
<1>2. PixelsDuration = Width * Pixel
  BY Sizes, Durations DEF PixelsDuration
<1>3. RowTime = PixelsDuration + Separator
  BY <1>2, Zenon DEF RowTime
<1>4. ScanlineDuration = SyncPulse + SyncPorch + Separator * 3 + PixelsDuration * 3
  BY DEF ScanlineDuration
<1>5. PixelsDuration \in Nat \ {0}
  BY <1>1, <1>2
<1> HIDE DEF PixelsDuration, RowTime
<1>6. RowTime \in Nat \ {0} /\ PixelsDuration \in 1..RowTime - 1
  BY <1>3, <1>5, Durations
<1>7. ScanlineDuration = SyncPulse + SyncPorch + 3 * RowTime
  BY <1>3, <1>4, <1>5, Durations
<1> QED BY <1>2, <1>6, <1>7, Zenon

LEMMA ColumnTimes ==
  ASSUME NEW k \in 0..Width - 1
  PROVE  k * Pixel \in 0..RowTime - 1 /\ k * Pixel < Width * Pixel
<1>1. Width \in Nat \ {0} /\ Pixel \in Nat \ {0}
  BY Sizes, Durations
<1>2. k * Pixel \in Nat
  BY <1>1
<1>3. k * Pixel + Pixel <= Width * Pixel
  BY <1>1, MulLess
<1> QED BY <1>1, <1>2, <1>3, RowTimes

LEMMA RowInLine ==
  ASSUME NEW r \in 1..3, NEW q \in 0..RowTime - 1
  PROVE  RowAt(r, q) \in SyncPulse + SyncPorch .. ScanlineDuration - 1
<1>1. RowTime \in Nat
  BY RowTimes
<1>2. (r - 1) * RowTime \in Nat /\ (r - 1) * RowTime + RowTime <= 3 * RowTime
  BY <1>1
<1> HIDE DEF RowTime
<1> QED BY <1>1, <1>2, RowTimes, Durations DEF RowAt

\* Two times in a picture are the same only at the same place of the same line.
LEMMA SameLine ==
  ASSUME NEW l \in Nat, NEW m \in Nat,
         NEW s \in 0..ScanlineDuration - 1, NEW t \in 0..ScanlineDuration - 1,
         LineAt(l) + s = LineAt(m) + t
  PROVE  l = m /\ s = t
<1>1. ScanlineDuration \in Nat \ {0}
  BY Durations
<1>2. l * ScanlineDuration \in Nat /\ m * ScanlineDuration \in Nat /\ VisDuration \in Nat
  BY Durations
<1>3. l * ScanlineDuration + s = m * ScanlineDuration + t
  BY <1>1, <1>2 DEF LineAt
<1> QED BY <1>1, <1>3, UniquePlace

LEMMA SameRow ==
  ASSUME NEW l \in Nat, NEW m \in Nat, NEW r \in 1..3, NEW s \in 1..3,
         NEW q \in 0..RowTime - 1, NEW t \in 0..RowTime - 1,
         LineAt(l) + RowAt(r, q) = LineAt(m) + RowAt(s, t)
  PROVE  l = m /\ r = s /\ q = t
<1>1. RowAt(r, q) \in 0..ScanlineDuration - 1 /\ RowAt(s, t) \in 0..ScanlineDuration - 1
  BY RowInLine, Durations
<1>2. l = m /\ RowAt(r, q) = RowAt(s, t)
  BY <1>1, SameLine
<1>3. RowTime \in Nat \ {0}
  BY RowTimes
<1>4. (r - 1) * RowTime + q = (s - 1) * RowTime + t
  <2>1. (r - 1) * RowTime \in Nat /\ (s - 1) * RowTime \in Nat
    BY <1>3
  <2> HIDE DEF RowTime
  <2> QED BY <1>2, <1>3, <2>1, Durations DEF RowAt
<1>5. r - 1 = s - 1 /\ q = t
  BY <1>3, <1>4, UniquePlace
<1> QED BY <1>2, <1>5

\* A pixel's own time.
LEMMA PixelTimes ==
  ASSUME NEW l \in 0..Height - 1, NEW r \in 1..3, NEW k \in 0..Width - 1
  PROVE  /\ PixelDue(l, r, k) = LineAt(l) + RowAt(r, k * Pixel)
         /\ LineAt(l) \in Nat /\ LineAt(l) >= VisDuration
         /\ RowAt(r, k * Pixel) \in SyncPulse + SyncPorch .. ScanlineDuration - 1
         /\ PixelDue(l, r, k) >= VisDuration
<1>1. RowAt(r, k * Pixel) \in SyncPulse + SyncPorch .. ScanlineDuration - 1
  BY ColumnTimes, RowInLine
<1>2. LineAt(l) \in Nat /\ LineAt(l) >= VisDuration
  <2>1. l * ScanlineDuration \in Nat
    BY Durations
  <2> QED BY <2>1, Durations DEF LineAt
<1>3. PixelDue(l, r, k) = LineAt(l) + RowAt(r, k * Pixel)
  <2>1. (r - 1) * RowTime \in Nat /\ k * Pixel \in Nat
    BY RowTimes, ColumnTimes
  <2>2. (r - 1) * RowTime = (r - 1) * (Width * Pixel + Separator)
    BY DEF RowTime
  <2>3. PixelDue(l, r, k) = LineAt(l) + SyncPulse + SyncPorch + (r - 1) * RowTime + k * Pixel
    BY <2>2, Zenon DEF PixelDue, LineAt
  <2> HIDE DEF RowTime
  <2> QED BY <1>2, <2>1, <2>3, Durations DEF RowAt
<1> QED BY <1>1, <1>2, <1>3, Durations

\* No two pixels are due at the same time.
LEMMA SamePixel ==
  ASSUME NEW l \in 0..Height - 1, NEW r \in 1..3, NEW k \in 0..Width - 1,
         NEW m \in 0..Height - 1, NEW s \in 1..3, NEW i \in 0..Width - 1,
         PixelDue(l, r, k) = PixelDue(m, s, i)
  PROVE  l = m /\ r = s /\ k = i
<1>1. LineAt(l) + RowAt(r, k * Pixel) = LineAt(m) + RowAt(s, i * Pixel)
  BY PixelTimes
<1>2. k * Pixel \in 0..RowTime - 1 /\ i * Pixel \in 0..RowTime - 1
  BY ColumnTimes
<1>3. l = m /\ r = s /\ k * Pixel = i * Pixel
  BY <1>1, <1>2, SameRow
<1>4. k * Pixel + 0 = i * Pixel + 0 /\ Pixel \in Nat \ {0}
  BY <1>2, <1>3, Durations
<1>5. k = i
  BY <1>4, UniquePlace
<1> QED BY <1>3, <1>5

\* When the symbols of a line that are no pixels are due.
Pauses(l) ==
  {LineAt(l), LineAt(l) + SyncPulse}
    \cup {LineAt(l) + RowAt(r, Width * Pixel) : r \in 1..3}

LEMMA NoPixelInPause ==
  ASSUME NEW m \in Nat, NEW t \in Pauses(m),
         NEW l \in 0..Height - 1, NEW r \in 1..3, NEW k \in 0..Width - 1
  PROVE  t # PixelDue(l, r, k) /\ t \in Nat /\ t >= VisDuration
<1> DEFINE o == RowAt(r, k * Pixel)
<1>1. PixelDue(l, r, k) = LineAt(l) + o /\ o \in SyncPulse + SyncPorch .. ScanlineDuration - 1
  BY PixelTimes
<1>2. LineAt(m) \in Nat /\ LineAt(m) >= VisDuration
  <2>1. m * ScanlineDuration \in Nat
    BY Durations
  <2> QED BY <2>1, Durations DEF LineAt
<1> HIDE DEF o
<1>3. ASSUME NEW p \in {0, SyncPulse}, t = LineAt(m) + p
      PROVE  t # PixelDue(l, r, k) /\ t \in Nat /\ t >= VisDuration
  <2>1. p \in 0..ScanlineDuration - 1 /\ o \in 0..ScanlineDuration - 1 /\ p # o
    BY <1>1, Durations
  <2>2. t # LineAt(l) + o
    BY <1>3, <2>1, SameLine
  <2> QED BY <1>1, <1>2, <1>3, <2>2, Durations
<1>4. ASSUME NEW s \in 1..3, t = LineAt(m) + RowAt(s, Width * Pixel)
      PROVE  t # PixelDue(l, r, k) /\ t \in Nat /\ t >= VisDuration
  <2>1. Width * Pixel \in 0..RowTime - 1 /\ k * Pixel \in 0..RowTime - 1
        /\ k * Pixel # Width * Pixel
    BY RowTimes, ColumnTimes
  <2>2. t # LineAt(l) + o
    BY <1>4, <2>1, SameRow DEF o
  <2>3. RowAt(s, Width * Pixel) \in SyncPulse + SyncPorch .. ScanlineDuration - 1
    BY <2>1, RowInLine
  <2> QED BY <1>1, <1>2, <1>4, <2>2, <2>3, Durations
<1>5. CASE t \in {LineAt(m), LineAt(m) + SyncPulse}
  <2>1. t = LineAt(m) + 0 \/ t = LineAt(m) + SyncPulse
    BY <1>2, <1>5
  <2> QED BY <1>3, <2>1
<1>6. CASE t \in {LineAt(m) + RowAt(s, Width * Pixel) : s \in 1..3}
  BY <1>4, <1>6
<1> QED BY <1>5, <1>6 DEF Pauses

-----------------------------------------------------------------------------
(* The header *)

LEMMA BitTimes ==
  ASSUME NEW i \in 0..8
  PROVE  /\ BitDue(i) \in Nat /\ BitDue(i) < VisDuration
         /\ BitDue(i) > Leader + Break + Leader
         /\ \A j \in 0..8 : BitDue(i) = BitDue(j) => i = j
<1> USE Durations
<1>1. i * Bit \in Nat /\ i * Bit <= 8 * Bit
  OBVIOUS
<1>2. ASSUME NEW j \in 0..8, BitDue(i) = BitDue(j) PROVE i = j
  <2>1. i * Bit \in Nat /\ j * Bit \in Nat
    OBVIOUS
  <2>2. i * Bit + 0 = j * Bit + 0
    BY <1>2, <2>1 DEF BitDue
  <2> QED BY <2>2, UniquePlace
<1>3. VisDuration = Leader + Break + Leader + StartBit + 8 * Bit + StopBit
  BY DEF VisDuration
<1>4. BitDue(i) = Leader + Break + Leader + StartBit + i * Bit
  BY DEF BitDue
<1>5. BitDue(i) \in Nat /\ BitDue(i) < VisDuration /\ BitDue(i) > Leader + Break + Leader
  BY <1>1, <1>3, <1>4
<1> QED BY <1>2, <1>5

\* The bits of the code word: those of the code, the lowest first, and even parity.
LEMMA CodeWordBits ==
  \A i \in 0..7 :
    CodeWord(Code)[i + 1] = IF i < 7 THEN BitOf(Code, i) ELSE ParityBit(Code)
<1> DEFINE bits == SevenBits(Code)
<1>1. /\ bits[1] = BitOf(Code, 0) /\ bits[2] = BitOf(Code, 1) /\ bits[3] = BitOf(Code, 2)
      /\ bits[4] = BitOf(Code, 3) /\ bits[5] = BitOf(Code, 4) /\ bits[6] = BitOf(Code, 5)
      /\ bits[7] = BitOf(Code, 6) /\ Len(bits) = 7
      /\ bits \in Seq({BitOf(Code, j) : j \in 0..6})
  BY DEF SevenBits
<1>2. \A i \in 0..6 : bits[i + 1] = BitOf(Code, i)
  BY <1>1
<1>3. ParityOf(bits) = ParityBit(Code)
  BY <1>1, Zenon DEF ParityOf, ParityBit
<1>4. \A S : \A s \in Seq(S) : \A b :
        \A i \in 1..Len(s) : Append(s, b)[i] = s[i] /\ Append(s, b)[Len(s) + 1] = b
  OBVIOUS
<1> DEFINE values == {BitOf(Code, j) : j \in 0..6}
           word == Append(bits, ParityBit(Code))
<1> HIDE DEF bits, values
<1>5. CodeWord(Code) = word
  BY <1>3, Zenon DEF CodeWord, bits
<1>6. \A i \in 1..7 : CodeWord(Code)[i] = bits[i] /\ CodeWord(Code)[8] = ParityBit(Code)
  <2>1. bits \in Seq(values) /\ Len(bits) = 7
    BY <1>1, Zenon DEF values
  <2>2. \A i \in 1..Len(bits) : word[i] = bits[i] /\ word[Len(bits) + 1] = ParityBit(Code)
    BY <1>4, <2>1, Zenon
  <2>3. Len(bits) + 1 = 8
    BY <2>1
  <2> HIDE DEF word
  <2> QED BY <1>5, <2>1, <2>2, <2>3, Zenon
<1>7. \A i \in 0..6 : CodeWord(Code)[i + 1] = BitOf(Code, i)
  BY <1>2, <1>6
<1>8. CodeWord(Code)[7 + 1] = ParityBit(Code)
  BY <1>6
<1> SUFFICES ASSUME NEW i \in 0..7
             PROVE  CodeWord(Code)[i + 1] = IF i < 7 THEN BitOf(Code, i) ELSE ParityBit(Code)
  OBVIOUS
<1>9. CASE i = 7
  BY <1>8, <1>9
<1>10. CASE i \in 0..6
  BY <1>7, <1>10
<1> QED BY <1>9, <1>10

LEMMA CodeWordValues == \A i \in 0..7 : CodeWord(Code)[i + 1] \in {0, 1}
<1>1. \A s \in Seq({0, 1}) : \A i \in 1..Len(s) : s[i] \in {0, 1}
  OBVIOUS
<1>2. \A i \in 1..8 : CodeWord(Code)[i] \in {0, 1}
  BY <1>1, CodeWordType, Zenon
<1> QED BY <1>2

\* What is sent in the header: a bit in its own time, or a tone in the time of no bit.
BitSymbol(i) == Symbol(BitTones[CodeWord(Code)[i + 1] + 1], Bit)
BitSent == \E i \in 0..7 : Start = BitDue(i) /\ sym = BitSymbol(i)
LeaderSent ==
  /\ Start \in {0, Leader, Leader + Break, Leader + Break + Leader, BitDue(8)}
  /\ sym.freq[1] = "tone"

LEMMA HeaderOnAir ==
  ASSUME BitSent \/ LeaderSent
  PROVE  /\ Start \in Nat /\ Start < VisDuration /\ sym.freq[1] = "tone"
         /\ \A i \in 0..7 : Start = BitDue(i) => sym = BitSymbol(i)
<1> USE Durations
<1>1. CASE BitSent
  <2>1. PICK i \in 0..7 : Start = BitDue(i) /\ sym = BitSymbol(i)
    BY <1>1 DEF BitSent
  <2>2. CodeWord(Code)[i + 1] \in {0, 1}
    BY CodeWordValues
  <2>3. sym.freq[1] = "tone"
    BY <2>1, <2>2 DEF BitSymbol, Symbol, BitTones, Tone
  <2>4. \A j \in 0..7 : Start = BitDue(j) => i = j
    <3>1. i \in 0..8 /\ \A j \in 0..7 : j \in 0..8
      OBVIOUS
    <3> QED BY <2>1, <3>1, BitTimes, Zenon
  <2>5. Start \in Nat /\ Start < VisDuration
    BY <2>1, BitTimes
  <2> QED BY <2>1, <2>3, <2>4, <2>5, Zenon
<1>2. CASE LeaderSent
  <2>1. CASE Start = BitDue(8)
    <3>1. Start \in Nat /\ Start < VisDuration /\ \A i \in 0..7 : Start # BitDue(i)
      BY <2>1, BitTimes
    <3> QED BY <1>2, <3>1 DEF LeaderSent
  <2>2. CASE Start \in {0, Leader, Leader + Break, Leader + Break + Leader}
    <3>1. Start \in Nat /\ Start <= Leader + Break + Leader
      BY <2>2
    <3>2. \A i \in 0..7 : BitDue(i) > Leader + Break + Leader /\ BitDue(i) \in Nat
      BY BitTimes
    <3>3. \A i \in 0..7 : Start # BitDue(i)
      BY <3>1, <3>2
    <3>4. Start < VisDuration
      BY <3>1 DEF VisDuration
    <3> QED BY <1>2, <3>1, <3>3, <3>4 DEF LeaderSent
  <2> QED BY <1>2, <2>1, <2>2 DEF LeaderSent
<1> QED BY <1>1, <1>2

-----------------------------------------------------------------------------
(* What every symbol is, and when it starts *)

PauseSent ==
  /\ \E l \in 0..Height - 1 : Start \in Pauses(l)
  /\ sym.freq[1] = "tone"

PixelSent ==
  \E l \in 0..Height - 1, r \in 1..3, k \in 0..Width - 1 :
    /\ Start = PixelDue(l, r, k)
    /\ sym = Symbol(Level(d_data[RowStart(l, r) + k + 1]), Pixel)

SymbolSent == sym = Silence \/ BitSent \/ LeaderSent \/ PauseSent \/ PixelSent

LEMMA ReturnStarts ==
  ASSUME now \in Nat, NEW freq, NEW duration \in Nat, NEW next,
         Return(Symbol(freq, duration), next)
  PROVE  Start' = now /\ sym' = Symbol(freq, duration) /\ d_data' = d_data
<1>1. sym' = Symbol(freq, duration) /\ now' = now + duration /\ d_data' = d_data
  BY DEF Return, Symbol
<1>2. sym'.duration = duration
  BY <1>1 DEF Symbol
<1>3. Start' = now' - sym'.duration
  BY DEF Start
<1> QED BY <1>1, <1>2, <1>3

LEMMA HeaderSends ==
  ASSUME MachineInv, d_state \in {"VIS_START", "VIS_SEND"}, VisSymbol.duration # 0,
         NEW next, Return(VisSymbol, next)
  PROVE  BitSent' \/ LeaderSent'
<1> USE Durations
<1>1. now = VisDue
  BY HeaderInTime
<1>2. now \in Nat /\ vis_code = CodeWord(Code) /\ vis_state \in HeaderStates
      /\ (vis_state = "VIS_BITS" => vis_ptr \in 0..7)
  BY DEF MachineInv, MachineTypes, HeaderState
<1>3. CASE vis_state = "VIS_BITS"
  <2>1. VisSymbol = BitSymbol(vis_ptr)
    BY <1>2, <1>3, Zenon DEF VisSymbol, BitSymbol
  <2>2. Start' = now /\ sym' = BitSymbol(vis_ptr)
    BY <1>2, <2>1, ReturnStarts DEF BitSymbol
  <2>3. now = BitDue(vis_ptr)
    BY <1>1, <1>3 DEF VisDue, BitDue
  <2>4. vis_ptr \in 0..7
    BY <1>2, <1>3
  <2>5. Start' = BitDue(vis_ptr) /\ sym' = BitSymbol(vis_ptr)
    BY <2>2, <2>3, Zenon
  <2> QED BY <2>4, <2>5, Zenon DEF BitSent
<1>4. CASE vis_state \in {"VIS_LEADER0", "VIS_BREAK", "VIS_LEADER1", "VIS_START", "VIS_STOP"}
  <2>1. PICK hz \in Nat, duration \in Nat : VisSymbol = Symbol(Tone(hz), duration)
    BY <1>4 DEF VisSymbol, VisStates
  <2>2. Start' = now /\ sym' = Symbol(Tone(hz), duration)
    BY <1>2, <2>1, ReturnStarts
  <2>3. now \in {0, Leader, Leader + Break, Leader + Break + Leader, BitDue(8)}
    BY <1>1, <1>4 DEF VisDue, BitDue
  <2>4. sym'.freq[1] = "tone"
    BY <2>2 DEF Symbol, Tone
  <2> QED BY <2>2, <2>3, <2>4, Zenon DEF LeaderSent
<1>5. CASE vis_state = "VIS_EXIT"
  BY <1>5 DEF VisSymbol, VisStates, Silence, Symbol
<1> QED BY <1>2, <1>3, <1>4, <1>5 DEF HeaderStates

\* A symbol of a line that is no pixel.
LEMMA PauseSends ==
  ASSUME MachineInv, NEW hz, NEW duration \in Nat, NEW next,
         Return(Symbol(Tone(hz), duration), next),
         NEW l \in 0..Height - 1, now \in Pauses(l)
  PROVE  PauseSent'
<1>1. now \in Nat
  BY DEF MachineInv, MachineTypes
<1>2. Start' = now /\ sym' = Symbol(Tone(hz), duration)
  BY <1>1, ReturnStarts
<1>3. sym'.freq[1] = "tone"
  BY <1>2 DEF Symbol, Tone
<1>4. Start' \in Pauses(l)
  BY <1>2, Zenon
<1> QED BY <1>3, <1>4, Zenon DEF PauseSent

LEMMA PulseSends ==
  ASSUME MachineInv, NEW p \in Pulses, PulseBeforeScan(p)
  PROVE  PauseSent'
<1> USE Durations, Sizes
<1>1. PICK c \in 1..3 :
        /\ d_state = Scans[c]
        /\ Return(Symbol(Tone(1500), IF c = 1 THEN SyncPorch ELSE Separator), Rows[c])
  <2>1. PICK c \in 1..3 : p.at = Scans[c] /\ p.next = Rows[c]
                          /\ (p.at = "SYNC_PORCH" <=> c = 1)
    BY DEF Pulses, Scans, Rows
  <2>2. d_state = p.at
        /\ Return(IF p.at = "SYNC_PORCH" THEN Symbol(Tone(1500), SyncPorch)
                                         ELSE Symbol(Tone(1500), Separator), p.next)
    BY Zenon DEF PulseBeforeScan
  <2> DEFINE duration == IF c = 1 THEN SyncPorch ELSE Separator
  <2>3. (IF p.at = "SYNC_PORCH" THEN Symbol(Tone(1500), SyncPorch)
                                ELSE Symbol(Tone(1500), Separator))
          = Symbol(Tone(1500), duration)
    BY <2>1
  <2> HIDE DEF duration
  <2>4. Return(Symbol(Tone(1500), duration), Rows[c])
    BY <2>1, <2>2, <2>3
  <2>5. d_state = Scans[c]
    BY <2>1, <2>2
  <2> QED BY <2>4, <2>5 DEF duration
<1>2. /\ d_line_no \in 0..Height - 1 /\ LineDue \in Nat
      /\ now = LineDue + SyncPulse + ((c - 1) * Width) * Pixel
                 + IF c = 1 THEN 0 ELSE SyncPorch + (c - 2) * Separator
  <2>1. d_state = Scans[c]
    BY <1>1
  <2>2. /\ d_line_no \in Nat /\ d_line_no < Height /\ LineDue \in Nat
        /\ now = LineDue + SyncPulse + ((c - 1) * Width) * Pixel
                   + IF c = 1 THEN 0 ELSE SyncPorch + (c - 2) * Separator
    BY <2>1, BeforeRow
  <2>3. d_line_no \in 0..Height - 1
    BY <2>2
  <2> QED BY <2>2, <2>3, Zenon
<1>3. now \in Pauses(d_line_no)
  <2>1. LineDue = LineAt(d_line_no)
    BY DEF LineDue, LineAt
  <2>2. CASE c = 1
    <3>1. ((c - 1) * Width) * Pixel = 0
      BY <2>2
    <3>2. now = LineAt(d_line_no) + SyncPulse
      BY <1>2, <2>1, <2>2, <3>1
    <3> QED BY <3>2 DEF Pauses
  <2>3. ASSUME NEW r \in 1..3, c = r + 1
        PROVE  now = LineAt(d_line_no) + RowAt(r, Width * Pixel)
    <3> DEFINE w == Width * Pixel
    <3>1. w \in Nat /\ (r * Width) * Pixel = r * w
      OBVIOUS
    <3>2. (r - 1) * RowTime = r * w - w + (r - 1) * Separator /\ r * w \in Nat
      BY <3>1 DEF RowTime
    <3>3. now = LineDue + SyncPulse + r * w + (SyncPorch + (r - 1) * Separator)
      BY <1>2, <2>3, <3>1
    <3> HIDE DEF w, RowTime
    <3>4. (r - 1) * Separator \in Nat
      OBVIOUS
    <3>5. LineDue + RowAt(r, w)
            = LineDue + SyncPulse + r * w + (SyncPorch + (r - 1) * Separator)
      BY <1>2, <3>1, <3>2, <3>4 DEF RowAt
    <3> QED BY <2>1, <3>3, <3>5, Zenon DEF w
  <2>4. c \in {2, 3} => c - 1 \in 1..3 /\ c = (c - 1) + 1
    OBVIOUS
  <2>5. c # 1 => now \in {LineAt(d_line_no) + RowAt(r, Width * Pixel) : r \in 1..3}
    BY <2>3, <2>4
  <2> QED BY <2>2, <2>5 DEF Pauses
<1>4. (IF c = 1 THEN SyncPorch ELSE Separator) \in Nat
  OBVIOUS
<1> QED BY <1>1, <1>2, <1>3, <1>4, PauseSends

LEMMA PixelSends ==
  ASSUME MachineInv, Len(d_data) = BytesPerImg, NEW colour \in DOMAIN AfterScan, Scan(colour)
  PROVE  PixelSent'
<1> USE Durations, Sizes
<1>1. PICK c \in 1..3, k \in 0..Width - 1 :
        d_state = Rows[c] /\ InColumn(c, k) /\ ScanSent(c, k)
  BY ScanSends
<1>2. /\ d_line_no \in 0..Height - 1 /\ LineDue \in Nat
      /\ d_data_ptr = RowStart(d_line_no, c) + k
      /\ now = LineDue + SyncPulse + SyncPorch + ((c - 1) * Width + k) * Pixel
                 + (c - 1) * Separator
  BY <1>1 DEF InColumn
<1>3. now \in Nat
  BY DEF MachineInv, MachineTypes
<1>4. /\ d_data_ptr' = d_data_ptr + 1
      /\ Start' = now /\ sym' = Symbol(Level(d_data[d_data_ptr']), Pixel)
      /\ d_data' = d_data
  BY <1>1, <1>3, ReturnStarts DEF ScanSent
<1>5. now = PixelDue(d_line_no, c, k)
  <2> DEFINE w == Width * Pixel
             kp == k * Pixel
  <2>1. w \in Nat /\ kp \in Nat /\ ((c - 1) * Width + k) * Pixel = (c - 1) * w + kp
    OBVIOUS
  <2>2. PixelDue(d_line_no, c, k)
          = LineDue + SyncPulse + SyncPorch + (c - 1) * (w + Separator) + kp
    BY Zenon DEF PixelDue, LineDue
  <2>3. now = LineDue + SyncPulse + SyncPorch + ((c - 1) * w + kp) + (c - 1) * Separator
    BY <1>2, <2>1, Zenon
  <2> HIDE DEF w, kp
  <2>4. (c - 1) * (w + Separator) = (c - 1) * w + (c - 1) * Separator
        /\ (c - 1) * w \in Nat /\ (c - 1) * Separator \in Nat
    BY <2>1
  <2> QED BY <1>2, <2>1, <2>2, <2>3, <2>4
<1>6. /\ Start' = PixelDue(d_line_no, c, k)
      /\ sym' = Symbol(Level(d_data'[RowStart(d_line_no, c) + k + 1]), Pixel)
  BY <1>2, <1>4, <1>5, Zenon
<1> QED BY <1>2, <1>6, Zenon DEF PixelSent

\* Without an exception, the last symbol of the header is followed by the first pulse.
LEMMA SendEnds ==
  ASSUME VisSend, ~VisRaises, VisSymbol.duration = 0
  PROVE  Return(Symbol(Tone(1200), SyncPulse), "SYNC_PORCH")
<1>1. Return(Sync, "SYNC_PORCH")
  BY Zenon DEF VisSend
<1> QED BY <1>1, Zenon DEF Sync

LEMMA SendGoesOn ==
  ASSUME VisSend, ~VisRaises, VisSymbol.duration # 0
  PROVE  Return(VisSymbol, "VIS_SEND")
  BY Zenon DEF VisSend

LEMMA NextSymbolSent == MachineInv /\ Len(d_data) = BytesPerImg /\ NextSymbol => SymbolSent'
<1> SUFFICES ASSUME MachineInv, Len(d_data) = BytesPerImg, NextSymbol PROVE SymbolSent'
  OBVIOUS
<1> USE Durations, Sizes
<1>1. CASE VisStart
  <2>1. d_state = "VIS_START" /\ vis_state = "VIS_LEADER0"
    BY <1>1 DEF VisStart, MachineInv, HeaderState
  <2>2. VisSymbol.duration # 0
    BY <2>1 DEF VisSymbol, VisStates, Symbol
  <2> QED BY <1>1, <2>1, <2>2, HeaderSends DEF VisStart, SymbolSent
<1>2. CASE VisSend
  <2>1. d_state = "VIS_SEND" /\ ~VisRaises /\ VisAdvance
    BY <1>2, HeaderInTime DEF VisSend
  <2>2. CASE VisSymbol.duration = 0
    <3>1. now = VisDuration
      BY <2>1, <2>2, HeaderAdvances
    <3>2. 0 \in 0..Height - 1 /\ LineAt(0) = VisDuration
      BY DEF LineAt
    <3>3. now \in Pauses(0)
      BY <3>1, <3>2 DEF Pauses
    <3>4. Return(Symbol(Tone(1200), SyncPulse), "SYNC_PORCH")
      BY <1>2, <2>1, <2>2, SendEnds, Zenon
    <3>5. PauseSent'
      BY <3>2, <3>3, <3>4, PauseSends
    <3> QED BY <3>5 DEF SymbolSent
  <2>3. CASE VisSymbol.duration # 0
    <3>1. Return(VisSymbol, "VIS_SEND")
      BY <1>2, <2>1, <2>3, SendGoesOn, Zenon
    <3> QED BY <2>1, <2>3, <3>1, HeaderSends DEF SymbolSent
  <2> QED BY <2>2, <2>3
<1>3. CASE SyncPulseState
  <2>1. d_line_no \in 0..Height - 1 /\ now = LineDue
    <3>1. d_state = "SYNC_PULSE"
      BY <1>3 DEF SyncPulseState
    <3>2. d_line_no \in 0..Height - 1
      BY <3>1 DEF MachineInv, MachineTypes, Places
    <3>3. now = LineDue
      BY <3>1 DEF MachineInv, OnSchedule, Due
    <3> QED BY <3>2, <3>3
  <2>2. now \in Pauses(d_line_no)
    BY <2>1 DEF Pauses, LineDue, LineAt
  <2>3. Return(Symbol(Tone(1200), SyncPulse), "SYNC_PORCH")
    BY <1>3, Zenon DEF SyncPulseState, Sync
  <2>4. PauseSent'
    BY <2>1, <2>2, <2>3, PauseSends
  <2> QED BY <2>4 DEF SymbolSent
<1>4. CASE \E p \in Pulses : PulseBeforeScan(p)
  BY <1>4, PulseSends DEF SymbolSent
<1>5. CASE \E colour \in DOMAIN AfterScan : Scan(colour)
  BY <1>5, PixelSends DEF SymbolSent
<1>6. CASE SyncSep3
  <2>1. d_state = "SYNC_SEP3"
    BY <1>6 DEF SyncSep3
  <2>2. d_line_no \in 0..Height - 1 /\ LineDue \in Nat
        /\ now + Separator = LineDue + ScanlineDuration
        /\ d_ticbuf["scanline"] = LineDue
    BY <2>1, LineEnds
  <2>3. now \in Nat
    BY DEF MachineInv, MachineTypes
  <2>4. now = LineAt(d_line_no) + RowAt(3, Width * Pixel)
    <3>1. /\ RowTime \in Nat /\ Width * Pixel \in Nat /\ RowTime = Width * Pixel + Separator
          /\ ScanlineDuration = SyncPulse + SyncPorch + 3 * RowTime
      BY RowTimes DEF RowTime
    <3>2. RowAt(3, Width * Pixel) = ScanlineDuration - Separator
      BY <3>1 DEF RowAt
    <3>3. LineDue = LineAt(d_line_no)
      BY DEF LineDue, LineAt
    <3> QED BY <2>2, <2>3, <3>2, <3>3
  <2>5. now \in Pauses(d_line_no)
    BY <2>4 DEF Pauses
  <2>6. Check("scanline", Separator, ScanlineDuration, LineTolerance)
    <3>1. now + Separator - d_ticbuf'["scanline"] = ScanlineDuration
      BY <1>6, <2>2, <2>3 DEF SyncSep3
    <3> QED BY <3>1, ExactPasses DEF Check
  <2>7. Return(Symbol(Tone(1500), Separator),
               IF d_data_ptr = BytesPerImg THEN "SSTV_EXIT" ELSE "SYNC_PULSE")
        /\ UNCHANGED visVars
    BY <1>6, <2>6, Zenon DEF SyncSep3
  <2>8. PauseSent'
    BY <2>2, <2>5, <2>7, PauseSends
  <2> QED BY <2>8 DEF SymbolSent
<1>7. CASE SstvExit
  <2>1. ~raised'
    BY <1>7, SstvExitInv DEF MachineInv, NeverThrows
  <2>2. sym' = Silence
    BY <1>7, <2>1 DEF SstvExit, Throw, Return
  <2> QED BY <2>2 DEF SymbolSent
<1> QED BY <1>1, <1>2, <1>3, <1>4, <1>5, <1>6, <1>7 DEF NextSymbol

-----------------------------------------------------------------------------
(* What work() may rely on *)

\* A symbol as module Modulation takes it (NextSymbols): it starts where the last one
\* ended and lies within the picture; the one of no duration comes exactly at the end.
AsTaken ==
  /\ now' = now + sym'.duration
  /\ IF now = ExpectedDuration THEN sym' = Silence
     ELSE sym'.duration \in 1..(ExpectedDuration - now)

\* The machine is at the end when it has sent everything, and not before.
AtEnd == d_state = "SSTV_EXIT"
OnlyTheEndIsLate ==
  /\ now <= ExpectedDuration
  /\ now = ExpectedDuration <=> AtEnd

LEMMA WithinPicture ==
  ASSUME NEW l \in 0..Height - 1, NEW t \in Int, t < LineAt(l) + ScanlineDuration
  PROVE  t < ExpectedDuration
<1> USE Durations, Sizes
<1>1. l * ScanlineDuration + ScanlineDuration <= Height * ScanlineDuration
  BY MulLess
<1>2. l * ScanlineDuration \in Nat /\ Height * ScanlineDuration \in Nat
  OBVIOUS
<1>3. ExpectedDuration = Height * ScanlineDuration + VisDuration
  BY DEF ExpectedDuration
<1> QED BY <1>1, <1>2, <1>3 DEF LineAt

LEMMA HeaderBeforeLines ==
  MachineInv /\ d_state \in {"VIS_START", "VIS_SEND"} => now < LineAt(0) + ScanlineDuration
<1> SUFFICES ASSUME MachineInv, d_state \in {"VIS_START", "VIS_SEND"}
             PROVE  now < LineAt(0) + ScanlineDuration
  OBVIOUS
<1> USE Durations
<1>1. now = VisDue
  BY HeaderInTime
<1>2. /\ vis_state \in HeaderStates /\ vis_ptr \in 0..8 /\ (vis_state = "VIS_BITS" => vis_ptr < 8)
  BY DEF MachineInv, MachineTypes, HeaderState
<1>3. VisDuration = Leader * 2 + Break + StartBit + StopBit + Bit * 8
  BY DEF VisDuration
<1>4. CASE vis_state = "VIS_BITS"
  <2>1. vis_ptr * Bit + Bit <= 8 * Bit /\ vis_ptr * Bit \in Nat
    BY <1>2, <1>4, MulLess
  <2>2. now = Leader + Break + Leader + StartBit + vis_ptr * Bit
    BY <1>1, <1>4 DEF VisDue
  <2>3. now <= VisDuration
    BY <1>3, <2>1, <2>2
  <2> QED BY <2>2, <2>3, RowTimes DEF LineAt
<1>5. CASE vis_state # "VIS_BITS"
  <2>1. now \in Nat /\ now <= VisDuration
    BY <1>1, <1>2, <1>3, <1>5 DEF VisDue, HeaderStates
  <2> QED BY <2>1, RowTimes DEF LineAt
<1> QED BY <1>4, <1>5

\* Every state of a line is due before the line is over.
LEMMA LineBeforeNext ==
  ASSUME MachineInv, d_state \in {"SYNC_PULSE"} \cup LineStates
  PROVE  d_line_no \in 0..Height - 1 /\ now < LineAt(d_line_no) + ScanlineDuration
<1> USE Durations, Sizes
<1>1. d_line_no \in 0..Height - 1 /\ now \in Nat
  BY DEF MachineInv, MachineTypes, Places, LineStates
<1>2. LineDue \in Nat /\ LineDue = LineAt(d_line_no)
  BY <1>1 DEF LineDue, LineAt
<1> DEFINE w == Width * Pixel
<1>3. /\ w \in Nat \ {0} /\ ScanlineDuration = SyncPulse + SyncPorch + 3 * w + 3 * Separator
      /\ ScanlineDuration > 0
  <2>1. RowTime = w + Separator /\ w \in Nat \ {0}
    BY RowTimes DEF RowTime
  <2> HIDE DEF w
  <2> QED BY <2>1, RowTimes
<1>4. CASE d_state = "SYNC_PULSE"
  BY <1>1, <1>2, <1>3, <1>4 DEF MachineInv, OnSchedule, Due
<1>5. ASSUME NEW c \in 1..3, d_state = Scans[c] PROVE now < LineDue + ScanlineDuration
  <2>1. now = LineDue + SyncPulse + ((c - 1) * Width) * Pixel
                + IF c = 1 THEN 0 ELSE SyncPorch + (c - 2) * Separator
    BY <1>5, BeforeRow
  <2>2. ((c - 1) * Width) * Pixel = (c - 1) * w
    OBVIOUS
  <2> HIDE DEF w
  <2> QED BY <1>2, <1>3, <2>1, <2>2
<1>6. ASSUME NEW c \in 1..3, d_state = Rows[c] PROVE now < LineDue + ScanlineDuration
  <2>1. PICK k \in 0..Width - 1 : InColumn(c, k)
    BY <1>6, InRow
  <2>2. now = LineDue + SyncPulse + SyncPorch + ((c - 1) * Width + k) * Pixel
                + (c - 1) * Separator
    BY <2>1 DEF InColumn
  <2> DEFINE kp == k * Pixel
  <2>3. ((c - 1) * Width + k) * Pixel = (c - 1) * w + kp
    OBVIOUS
  <2>4. kp \in Nat /\ kp < w
    BY ColumnTimes
  <2> HIDE DEF w, kp
  <2> QED BY <1>2, <1>3, <2>2, <2>3, <2>4
<1>7. CASE d_state = "SYNC_SEP3"
  BY <1>1, <1>2, <1>7, LineEnds
<1>8. \/ d_state \in {"SYNC_PULSE", "SYNC_SEP3"}
      \/ \E c \in 1..3 : d_state = Scans[c] \/ d_state = Rows[c]
  <2>1. Scans[1] = "SYNC_PORCH" /\ Scans[2] = "SYNC_SEP1" /\ Scans[3] = "SYNC_SEP2"
        /\ Rows[1] = "GREEN_SCAN" /\ Rows[2] = "BLUE_SCAN" /\ Rows[3] = "RED_SCAN"
    BY DEF Scans, Rows
  <2>2. 1 \in 1..3 /\ 2 \in 1..3 /\ 3 \in 1..3
    OBVIOUS
  <2> QED BY <2>1, <2>2 DEF LineStates
<1> QED BY <1>1, <1>2, <1>4, <1>5, <1>6, <1>7, <1>8

LEMMA EndIsLate == MachineInv => OnlyTheEndIsLate
<1> SUFFICES ASSUME MachineInv PROVE OnlyTheEndIsLate
  OBVIOUS
<1>1. now \in Nat /\ d_state \in MachineStates
  BY DEF MachineInv, MachineTypes
<1>2. ExpectedDuration \in Nat
  BY Durations, Sizes DEF ExpectedDuration
<1>3. CASE AtEnd
  BY <1>2, <1>3 DEF AtEnd, OnlyTheEndIsLate, MachineInv, OnSchedule, Due
<1>4. CASE ~AtEnd
  <2>1. \E l \in 0..Height - 1 : now < LineAt(l) + ScanlineDuration
    <3>1. 0 \in 0..Height - 1
      BY Sizes
    <3> QED BY <1>1, <1>4, <3>1, HeaderBeforeLines, LineBeforeNext DEF AtEnd, MachineStates
  <2>2. now < ExpectedDuration
    BY <1>1, <2>1, WithinPicture
  <2> QED BY <1>1, <1>2, <1>4, <2>2 DEF OnlyTheEndIsLate
<1> QED BY <1>3, <1>4

LEMMA EndIsLateNext == MachineInv' => OnlyTheEndIsLate'
  BY EndIsLate, PTL

\* A symbol that is sent moves the time by its duration.
LEMMA ReturnLasts ==
  ASSUME NEW freq, NEW duration, NEW next, Return(Symbol(freq, duration), next)
  PROVE  sym' = Symbol(freq, duration) /\ sym'.duration = duration /\ now' = now + duration
<1>1. sym' = Symbol(freq, duration) /\ now' = now + sym'.duration
  BY DEF Return
<1> QED BY <1>1 DEF Symbol

\* Only the end is silent.
LEMMA SendLasts ==
  ASSUME MachineInv, Len(d_data) = BytesPerImg, NextSymbol
  PROVE  /\ now' = now + sym'.duration
         /\ IF AtEnd THEN sym' = Silence ELSE sym'.duration \in Nat \ {0}
<1> USE Durations
<1> DEFINE Sent == \E freq, next : \E duration \in Nat \ {0} :
                     Return(Symbol(freq, duration), next)
<1>1. Sent => now' = now + sym'.duration /\ sym'.duration \in Nat \ {0}
  BY ReturnLasts
<1>2. ASSUME d_state \in {"VIS_START", "VIS_SEND"}, VisAdvance, VisSymbol.duration # 0,
             NEW next, Return(VisSymbol, next)
      PROVE  Sent
  <2>1. VisSymbol.duration \in Nat \ {0}
    BY <1>2, HeaderAdvances
  <2>2. \E freq, duration : VisSymbol = Symbol(freq, duration)
    <3>1. vis_state \in HeaderStates
      BY DEF MachineInv, MachineTypes
    <3> QED BY <3>1 DEF VisSymbol, VisStates, HeaderStates, Silence
  <2>3. PICK freq, duration : VisSymbol = Symbol(freq, duration)
    BY <2>2
  <2>4. duration \in Nat \ {0}
    BY <2>1, <2>3 DEF Symbol
  <2> QED BY <1>2, <2>3, <2>4
<1>3. CASE VisStart
  <2>1. d_state = "VIS_START" /\ vis_state = "VIS_LEADER0"
    BY <1>3 DEF VisStart, MachineInv, HeaderState
  <2>2. VisSymbol.duration # 0
    BY <2>1 DEF VisSymbol, VisStates, Symbol
  <2> QED BY <1>1, <1>2, <1>3, <2>1, <2>2 DEF VisStart, AtEnd
<1>4. CASE VisSend
  <2>1. d_state = "VIS_SEND" /\ ~VisRaises /\ VisAdvance
    BY <1>4, HeaderInTime DEF VisSend
  <2>2. VisSymbol.duration = 0 => Sent
    BY <1>4, <2>1, SendEnds
  <2>3. VisSymbol.duration # 0 => Sent
    BY <1>2, <1>4, <2>1, SendGoesOn
  <2> QED BY <1>1, <2>1, <2>2, <2>3 DEF AtEnd
<1>5. CASE SyncPulseState
  <2>1. d_state = "SYNC_PULSE" /\ Return(Symbol(Tone(1200), SyncPulse), "SYNC_PORCH")
    BY <1>5, Zenon DEF SyncPulseState, Sync
  <2> QED BY <1>1, <2>1 DEF AtEnd
<1>6. CASE \E p \in Pulses : PulseBeforeScan(p)
  <2>1. PICK p \in Pulses : PulseBeforeScan(p)
    BY <1>6
  <2>2. d_state # "SSTV_EXIT"
    BY <2>1 DEF PulseBeforeScan, Pulses
  <2>3. Sent
    <3>1. CASE p.at = "SYNC_PORCH"
      <4>1. Return(Symbol(Tone(1500), SyncPorch), p.next)
        BY <2>1, <3>1 DEF PulseBeforeScan
      <4> QED BY <4>1
    <3>2. CASE p.at # "SYNC_PORCH"
      <4>1. Return(Symbol(Tone(1500), Separator), p.next)
        BY <2>1, <3>2 DEF PulseBeforeScan
      <4> QED BY <4>1
    <3> QED BY <3>1, <3>2
  <2> QED BY <1>1, <2>2, <2>3 DEF AtEnd
<1>7. CASE \E colour \in DOMAIN AfterScan : Scan(colour)
  <2>1. PICK colour \in DOMAIN AfterScan : Scan(colour)
    BY <1>7
  <2>2. PICK c \in 1..3, k \in 0..Width - 1 :
          d_state = Rows[c] /\ InColumn(c, k) /\ ScanSent(c, k)
    BY <2>1, ScanSends
  <2>3. d_state # "SSTV_EXIT"
    BY <2>2 DEF Rows
  <2>4. Sent
    BY <2>2 DEF ScanSent
  <2> QED BY <1>1, <2>3, <2>4 DEF AtEnd
<1>8. ~Throw
  BY NextSymbolInv DEF MachineInv, NeverThrows, Throw
<1>9. CASE SyncSep3
  <2>1. d_state = "SYNC_SEP3"
        /\ Check("scanline", Separator, ScanlineDuration, LineTolerance)
    BY <1>8, <1>9, Zenon DEF SyncSep3
  <2>2. Return(Symbol(Tone(1500), Separator),
               IF d_data_ptr = BytesPerImg THEN "SSTV_EXIT" ELSE "SYNC_PULSE")
        /\ UNCHANGED visVars
    BY <1>9, <2>1, Zenon DEF SyncSep3
  <2> QED BY <1>1, <2>1, <2>2 DEF AtEnd
<1>10. CASE SstvExit
  <2>1. d_state = "SSTV_EXIT" /\ Return(Silence, "SSTV_EXIT")
    BY <1>8, <1>10, Zenon DEF SstvExit
  <2>2. sym' = Silence /\ now' = now + sym'.duration
    BY <2>1, ReturnLasts DEF Silence
  <2> QED BY <2>1, <2>2 DEF AtEnd
<1> QED BY <1>3, <1>4, <1>5, <1>6, <1>7, <1>9, <1>10 DEF NextSymbol

LEMMA NextSymbolAsTaken ==
  ASSUME MachineInv, Len(d_data) = BytesPerImg, NextSymbol
  PROVE  AsTaken
<1>1. /\ now' = now + sym'.duration
      /\ IF AtEnd THEN sym' = Silence ELSE sym'.duration \in Nat \ {0}
  BY SendLasts
<1>2. now = ExpectedDuration <=> AtEnd
  BY EndIsLate DEF OnlyTheEndIsLate
<1>3. now' <= ExpectedDuration
  BY NextSymbolInv, EndIsLateNext, Zenon DEF OnlyTheEndIsLate
<1>4. now \in Nat /\ ExpectedDuration \in Nat
  BY Durations, Sizes DEF MachineInv, MachineTypes, ExpectedDuration
<1> QED BY <1>1, <1>2, <1>3, <1>4 DEF AsTaken

-----------------------------------------------------------------------------
(* The bytes *)

LEMMA RowNat == \A l \in 0..Height - 1, r \in 1..3 : RowStart(l, r) \in Nat
<1>1. \A l \in 0..Height - 1 : l \in Nat
  OBVIOUS
<1> QED BY <1>1, RowPlaces, Zenon

\* No two places of a picture are the same place of the data.
LEMMA SamePlace ==
  ASSUME NEW l \in Nat, NEW r \in 1..3, NEW k \in 0..Width - 1,
         NEW m \in Nat, NEW s \in 1..3, NEW i \in 0..Width - 1,
         RowStart(l, r) + k = RowStart(m, s) + i
  PROVE  l = m /\ r = s /\ k = i
<1>1. \A y \in Nat, c \in 1..3 : RowStart(y, c) = (y * 3 + (c - 1)) * Width
  <2> SUFFICES ASSUME NEW y \in Nat, NEW c \in 1..3
               PROVE  RowStart(y, c) = (y * 3 + (c - 1)) * Width
    OBVIOUS
  <2>1. (y * 3 + (c - 1)) * Width = (y * 3) * Width + (c - 1) * Width
    BY Sizes
  <2>2. (y * 3) * Width = y * (3 * Width)
    BY Sizes
  <2> QED BY <2>1, <2>2, Zenon DEF RowStart, LineBytes
<1>2. (l * 3 + (r - 1)) * Width + k = (m * 3 + (s - 1)) * Width + i
  BY <1>1, Zenon
<1>3. l * 3 + (r - 1) = m * 3 + (s - 1) /\ k = i
  BY <1>2, Sizes, UniquePlace
<1> QED BY <1>3

\* The pictures that are laid out, and what their bytes can be.
Layouts == {bands \in Modes : Layout!BandsExist(bands)}
Bytes ==
  {Layout!Byte(bands, y, c, x) :
     bands \in Layouts, y \in 0..Height - 1, c \in 1..3, x \in 0..Width - 1}

\* The bytes that are there are the right ones.
LaidOutAs(data, bands) ==
  \A l \in 0..Height - 1, r \in 1..3, k \in 0..Width - 1 :
    RowStart(l, r) + k < Len(data) =>
      data[RowStart(l, r) + k + 1] = Layout!Byte(bands, l, r, k)

\* The loops are at the place of the data that is appended next.
LayoutInv ==
  /\ at \in (0..Height) \X (1..3) \X (0..Width - 1)
  /\ at[1] = Height => at[2] = 1 /\ at[3] = 0
  /\ img_bands \in Layouts \cup {<<>>}
  /\ raw \in Seq(Bytes)
  /\ IF img_bands = <<>> THEN raw = <<>> ELSE Len(raw) = RowStart(at[1], at[2]) + at[3]
  /\ LaidOutAs(raw, img_bands)

\* The position after the loops' next step is one byte further.
LEMMA FollowingPlace ==
  ASSUME NEW y \in 0..Height - 1, NEW c \in 1..3, NEW x \in 0..Width - 1
  PROVE  LET p == Layout!Following(y, c, x)
         IN  /\ p \in (0..Height) \X (1..3) \X (0..Width - 1)
             /\ p[1] = Height => p[2] = 1 /\ p[3] = 0
             /\ RowStart(p[1], p[2]) + p[3] = RowStart(y, c) + x + 1
<1> USE Sizes
<1>1. /\ RowStart(y, c) \in Nat /\ RowStart(y, c) = y * LineBytes + (c - 1) * Width
      /\ RowStart(y, c) + Width = y * LineBytes + c * Width
      /\ y * LineBytes + 3 * Width = (y + 1) * LineBytes
  <2>1. y \in Nat
    OBVIOUS
  <2> QED BY <2>1, RowPlaces, Zenon
<1>2. CASE x < Width - 1
  <2>1. Layout!Following(y, c, x) = <<y, c, x + 1>>
    BY <1>2 DEF Layout!Following
  <2>2. x + 1 \in 0..Width - 1
    BY <1>2
  <2>3. RowStart(y, c) + (x + 1) = RowStart(y, c) + x + 1
    BY <1>1
  <2> HIDE DEF RowStart
  <2> QED BY <2>1, <2>2, <2>3
<1>3. CASE x = Width - 1 /\ c < 3
  <2>1. Layout!Following(y, c, x) = <<y, c + 1, 0>>
    BY <1>3 DEF Layout!Following
  <2>2. c + 1 \in 1..3 /\ 0 \in 0..Width - 1
    BY <1>3
  <2>3. RowStart(y, c + 1) = RowStart(y, c) + Width
    <3>1. (c + 1) - 1 = c
      OBVIOUS
    <3> QED BY <1>1, <3>1, Zenon DEF RowStart
  <2>4. RowStart(y, c + 1) + 0 = RowStart(y, c) + x + 1
    BY <1>1, <1>3, <2>3
  <2> QED BY <2>1, <2>2, <2>4
<1>4. CASE x = Width - 1 /\ c = 3
  <2>1. Layout!Following(y, c, x) = <<y + 1, 1, 0>>
    BY <1>4 DEF Layout!Following
  <2>2. y + 1 \in 0..Height /\ 0 \in 0..Width - 1
    OBVIOUS
  <2>3. RowStart(y + 1, 1) = (y + 1) * LineBytes
    BY RowPlaces
  <2>4. RowStart(y + 1, 1) = RowStart(y, c) + Width
    BY <1>1, <1>4, <2>3
  <2>5. RowStart(y + 1, 1) + 0 = RowStart(y, c) + x + 1
    BY <1>1, <1>4, <2>4
  <2> QED BY <2>1, <2>2, <2>5
<1> QED BY <1>2, <1>3, <1>4

LEMMA AppendPlaces ==
  ASSUME NEW S, NEW s \in Seq(S), NEW b \in S
  PROVE  /\ Append(s, b) \in Seq(S) /\ Len(Append(s, b)) = Len(s) + 1
         /\ Len(s) \in Nat
         /\ \A i \in 1..Len(s) : Append(s, b)[i] = s[i]
         /\ Append(s, b)[Len(s) + 1] = b
  OBVIOUS

LEMMA LengthInLayout ==
  ASSUME LayoutInv
  PROVE  Len(raw) \in 0..BytesPerImg
<1> USE Sizes
<1>1. Len(raw) \in Nat
  BY DEF LayoutInv
<1>2. CASE img_bands = <<>>
  BY <1>2 DEF LayoutInv
<1>3. CASE img_bands # <<>>
  <2>1. Len(raw) = RowStart(at[1], at[2]) + at[3]
        /\ at[1] \in 0..Height /\ at[2] \in 1..3 /\ at[3] \in 0..Width - 1
        /\ (at[1] = Height => at[2] = 1 /\ at[3] = 0)
    BY <1>3 DEF LayoutInv
  <2>2. RowStart(at[1], at[2]) \in Nat
        /\ (at[1] < Height => RowStart(at[1], at[2]) + Width <= BytesPerImg)
        /\ RowStart(Height, 1) = Height * LineBytes
    <3> DEFINE y == at[1]
               c == at[2]
    <3>1. y \in Nat /\ c \in 1..3 /\ Height \in Nat /\ 1 \in 1..3
      BY <2>1
    <3> HIDE DEF y, c
    <3>2. RowStart(y, c) \in Nat /\ (y < Height => RowStart(y, c) + Width <= BytesPerImg)
      BY <3>1, RowPlaces, Zenon
    <3>3. RowStart(Height, 1) = Height * LineBytes
      BY <3>1, RowPlaces, Zenon
    <3> QED BY <3>2, <3>3, Zenon DEF y, c
  <2>3. CASE at[1] = Height
    <3>1. Len(raw) = RowStart(Height, 1) + 0
      BY <2>1, <2>3
    <3> QED BY <1>1, <2>2, <3>1
  <2>4. CASE at[1] < Height
    BY <1>1, <2>1, <2>2, <2>4
  <2> QED BY <2>1, <2>3, <2>4
<1> QED BY <1>2, <1>3

LEMMA AppendByteInv ==
  ASSUME LayoutInv, img_bands \in Layouts, img_bands # <<>>, Layout!AppendByte
  PROVE  LayoutInv'
<1> DEFINE y == at[1]
           c == at[2]
           x == at[3]
           b == Layout!Byte(img_bands, y, c, x)
<1>1. /\ y \in 0..Height - 1 /\ c \in 1..3 /\ x \in 0..Width - 1
      /\ Len(raw) = RowStart(y, c) + x
  BY Sizes DEF LayoutInv, Layout!AppendByte, Layout!LaidOut
<1>2. raw' = Append(raw, b) /\ at' = Layout!Following(y, c, x) /\ img_bands' = img_bands
  BY DEF Layout!AppendByte
<1>3. b \in Bytes
  BY <1>1 DEF Bytes
<1>4. raw \in Seq(Bytes) /\ LaidOutAs(raw, img_bands)
  BY DEF LayoutInv
<1> HIDE DEF y, c, x, b
<1>5. /\ at' \in (0..Height) \X (1..3) \X (0..Width - 1)
      /\ at'[1] = Height => at'[2] = 1 /\ at'[3] = 0
      /\ RowStart(at'[1], at'[2]) + at'[3] = RowStart(y, c) + x + 1
  <2> DEFINE p == Layout!Following(y, c, x)
  <2>1. /\ p \in (0..Height) \X (1..3) \X (0..Width - 1)
        /\ p[1] = Height => p[2] = 1 /\ p[3] = 0
        /\ RowStart(p[1], p[2]) + p[3] = RowStart(y, c) + x + 1
    BY <1>1, FollowingPlace
  <2>2. at' = p
    BY <1>2
  <2> HIDE DEF p
  <2> QED BY <2>1, <2>2, Zenon
<1>6. /\ raw' \in Seq(Bytes) /\ Len(raw') = Len(raw) + 1 /\ Len(raw) \in Nat
      /\ \A i \in 1..Len(raw) : raw'[i] = raw[i]
      /\ raw'[Len(raw) + 1] = b
  BY <1>2, <1>3, <1>4, AppendPlaces, Zenon
<1>7. LaidOutAs(raw', img_bands)
  <2> SUFFICES ASSUME NEW l \in 0..Height - 1, NEW r \in 1..3, NEW k \in 0..Width - 1,
                      RowStart(l, r) + k < Len(raw')
               PROVE  raw'[RowStart(l, r) + k + 1] = Layout!Byte(img_bands, l, r, k)
    BY DEF LaidOutAs
  <2> DEFINE place == RowStart(l, r) + k
  <2>1. place \in Nat
    <3>1. RowStart(l, r) \in Nat
      BY RowNat
    <3> HIDE DEF RowStart
    <3> QED BY <3>1
  <2>2. CASE place < Len(raw)
    <3>1. raw[place + 1] = Layout!Byte(img_bands, l, r, k)
      BY <1>4, <2>2 DEF LaidOutAs
    <3> HIDE DEF place
    <3>2. place + 1 \in 1..Len(raw)
      BY <1>6, <2>1, <2>2
    <3>3. raw'[place + 1] = raw[place + 1]
      BY <1>6, <3>2, Zenon
    <3> QED BY <3>1, <3>3, Zenon DEF place
  <2>3. CASE place = Len(raw)
    <3>1. RowStart(l, r) + k = RowStart(y, c) + x
      BY <1>1, <2>3
    <3>2. l = y /\ r = c /\ k = x
      BY <1>1, <3>1, SamePlace
    <3>3. raw'[place + 1] = b
      BY <1>6, <2>3, Zenon
    <3> QED BY <3>2, <3>3, Zenon DEF place, b
  <2>4. place < Len(raw) \/ place = Len(raw)
    <3> HIDE DEF place
    <3>1. place < Len(raw')
      BY Zenon DEF place
    <3> QED BY <1>6, <2>1, <3>1
  <2> QED BY <2>2, <2>3, <2>4
<1>8. Len(raw') = RowStart(at'[1], at'[2]) + at'[3]
  <2>1. Len(raw') = RowStart(y, c) + x + 1
    BY <1>1, <1>6, Zenon
  <2> QED BY <1>5, <2>1, Zenon
<1>9. img_bands' \in Layouts \cup {<<>>} /\ img_bands' # <<>>
  BY <1>2
<1>10. LaidOutAs(raw, img_bands)'
  BY <1>2, <1>7, Zenon DEF LaidOutAs
<1> QED BY <1>5, <1>6, <1>8, <1>9, <1>10, Zenon DEF LayoutInv

LEMMA BeginLayoutInv ==
  ASSUME NEW bands \in Modes, Layout!BeginLayout(bands)
  PROVE  LayoutInv' /\ img_bands' = bands /\ bands \in Layouts /\ bands # <<>>
<1> USE Sizes
<1>1. bands \in Layouts /\ bands # <<>>
  BY DEF Layout!BeginLayout, Layouts, Layout!BandsExist, Layout!Inspected
<1>2. img_bands' = bands /\ raw' = <<>> /\ at' = <<0, 1, 0>>
  BY DEF Layout!BeginLayout
<1>3. RowStart(0, 1) = 0
  BY RowPlaces
<1>4. raw' \in Seq(Bytes) /\ Len(raw') = 0
  BY <1>2
<1>5. at' \in (0..Height) \X (1..3) \X (0..Width - 1) /\ at'[1] # Height
      /\ RowStart(at'[1], at'[2]) + at'[3] = 0
  BY <1>2, <1>3
<1>6. LaidOutAs(raw, img_bands)'
  <2> SUFFICES ASSUME NEW l \in 0..Height - 1, NEW r \in 1..3, NEW k \in 0..Width - 1,
                      RowStart(l, r) + k < Len(raw')
               PROVE  FALSE
    BY DEF LaidOutAs
  <2>1. RowStart(l, r) \in Nat
    BY RowNat
  <2> HIDE DEF RowStart
  <2> QED BY <1>4, <2>1
<1> QED BY <1>1, <1>2, <1>4, <1>5, <1>6 DEF LayoutInv

-----------------------------------------------------------------------------
(* The machine and its caller *)

\* The machine has the bytes of the picture, or none yet; while they are laid out it
\* has those of the picture before.
CallerInv ==
  /\ doing \in {"idle", "converting", "sending"}
  /\ doing = "converting" => img_bands \in Layouts /\ img_bands # <<>>
  /\ doing # "converting" => d_data = <<>> \/ d_data = raw
  /\ doing = "sending" => Len(d_data) = BytesPerImg /\ SymbolSent

PictureInv == MachineInv /\ LayoutInv /\ CallerInv

LEMMA PictureInit == Init => PictureInv
<1> SUFFICES ASSUME Init PROVE PictureInv
  OBVIOUS
<1> USE Sizes
<1>1. MachineInv /\ d_data = <<>>
  BY MachineInitInv DEF Init, MachineInit
<1>2. LayoutInv
  <2>1. img_bands = <<>> /\ raw = <<>> /\ at = <<Height, 1, 0>>
    BY DEF Init, Layout!LayoutInit
  <2>2. raw \in Seq(Bytes) /\ Len(raw) = 0
    BY <2>1
  <2>3. LaidOutAs(raw, img_bands)
    <3> SUFFICES ASSUME NEW l \in 0..Height - 1, NEW r \in 1..3, NEW k \in 0..Width - 1,
                        RowStart(l, r) + k < Len(raw)
                 PROVE  FALSE
      BY DEF LaidOutAs
    <3>1. RowStart(l, r) \in Nat
      BY RowNat
    <3> HIDE DEF RowStart
    <3> QED BY <2>2, <3>1
  <2>4. at \in (0..Height) \X (1..3) \X (0..Width - 1) /\ at[2] = 1 /\ at[3] = 0
    BY <2>1
  <2> QED BY <2>1, <2>2, <2>3, <2>4 DEF LayoutInv
<1>3. CallerInv
  BY <1>1 DEF Init, CallerInv
<1> QED BY <1>1, <1>2, <1>3 DEF PictureInv

LEMMA SameLayout == LayoutInv /\ UNCHANGED layoutVars => LayoutInv'
  BY DEF LayoutInv, layoutVars, LaidOutAs

LEMMA SameMachine == MachineInv /\ UNCHANGED machineVars => MachineInv'
<1> SUFFICES ASSUME MachineInv, UNCHANGED machineVars PROVE MachineInv'
  OBVIOUS
<1>1. Len(d_data') \in {0, BytesPerImg}
  BY DEF machineVars, MachineInv, MachineTypes
<1>2. UNCHANGED <<now, raised, vis_code, visVars, d_state, d_data_ptr, d_line_no, d_ticbuf>>
  BY DEF machineVars
<1> QED BY <1>1, <1>2, OtherDataInv

LEMMA PictureStep == PictureInv /\ [Next]_vars => PictureInv'
<1> SUFFICES ASSUME PictureInv, [Next]_vars PROVE PictureInv'
  OBVIOUS
<1>1. MachineInv /\ LayoutInv /\ CallerInv
  BY DEF PictureInv
<1>2. ASSUME NEW bands \in Modes, PrepareImage(bands) PROVE PictureInv'
  <2>1. doing' = "converting" /\ UNCHANGED machineVars /\ Layout!BeginLayout(bands)
    BY <1>2 DEF PrepareImage, Proceed
  <2>2. LayoutInv' /\ img_bands' = bands /\ bands \in Layouts /\ bands # <<>>
    BY <2>1, BeginLayoutInv
  <2>3. MachineInv'
    BY <1>1, <2>1, SameMachine
  <2> QED BY <2>1, <2>2, <2>3 DEF PictureInv, CallerInv
<1>3. CASE ConvertByte
  <2>1. doing = "converting" /\ doing' = "converting" /\ UNCHANGED machineVars
        /\ Layout!AppendByte
    BY <1>3 DEF ConvertByte, Proceed
  <2>2. img_bands \in Layouts /\ img_bands # <<>> /\ img_bands' = img_bands
    BY <1>1, <2>1 DEF CallerInv, Layout!AppendByte
  <2>3. LayoutInv'
    BY <1>1, <2>1, <2>2, AppendByteInv
  <2>4. MachineInv'
    BY <1>1, <2>1, SameMachine
  <2> QED BY <2>1, <2>2, <2>3, <2>4 DEF PictureInv, CallerInv
<1>4. CASE SetData
  <2>1. /\ doing' = "idle" /\ UNCHANGED layoutVars
        /\ Len(raw) = BytesPerImg /\ d_data' = raw
        /\ UNCHANGED <<now, raised, vis_code, visVars, d_state, d_data_ptr, d_line_no,
                       d_ticbuf>>
    BY <1>4 DEF SetData, Proceed, set_data
  <2>2. MachineInv'
    BY <1>1, <2>1, OtherDataInv
  <2>3. LayoutInv'
    BY <1>1, <2>1, SameLayout
  <2>4. CallerInv'
    BY <2>1 DEF CallerInv, layoutVars
  <2> QED BY <2>2, <2>3, <2>4 DEF PictureInv
<1>5. CASE StartSending
  <2>1. /\ doing = "idle" /\ doing' = "sending" /\ UNCHANGED layoutVars
        /\ Len(d_data) = BytesPerImg /\ init
    BY <1>5 DEF StartSending, Proceed, ready
  <2>2. MachineInv'
    BY <1>1, <2>1, ResetInv
  <2>3. LayoutInv'
    BY <1>1, <2>1, SameLayout
  <2>4. SymbolSent' /\ d_data' = d_data
    BY <2>1 DEF init, SymbolSent
  <2>5. CallerInv'
    BY <1>1, <2>1, <2>4 DEF CallerInv, layoutVars
  <2> QED BY <2>2, <2>3, <2>5 DEF PictureInv
<1>6. CASE SendSymbol
  <2>1. /\ doing = "sending" /\ doing' = "sending" /\ UNCHANGED layoutVars /\ NextSymbol
    BY <1>6 DEF SendSymbol, Proceed
  <2>2. Len(d_data) = BytesPerImg
    BY <1>1, <2>1 DEF CallerInv
  <2>3. MachineInv'
    BY <1>1, <2>1, <2>2, NextSymbolInv
  <2>4. SymbolSent'
    BY <1>1, <2>1, <2>2, NextSymbolSent
  <2>5. d_data' = d_data
    BY <2>1 DEF NextSymbol, VisStart, VisSend, SyncPulseState, PulseBeforeScan, Scan,
                SyncSep3, SstvExit, Return, Throw
  <2>6. LayoutInv'
    BY <1>1, <2>1, SameLayout
  <2>7. CallerInv'
    BY <1>1, <2>1, <2>2, <2>4, <2>5 DEF CallerInv, layoutVars
  <2> QED BY <2>3, <2>6, <2>7 DEF PictureInv
<1>7. CASE StopSending
  <2>1. doing = "sending" /\ doing' = "idle" /\ UNCHANGED <<machineVars, layoutVars>>
    BY <1>7 DEF StopSending, Proceed
  <2>2. MachineInv' /\ LayoutInv'
    BY <1>1, <2>1, SameMachine, SameLayout
  <2>3. CallerInv'
    BY <1>1, <2>1 DEF CallerInv, layoutVars, machineVars
  <2> QED BY <2>2, <2>3 DEF PictureInv
<1>8. CASE UNCHANGED vars
  <2>1. UNCHANGED <<machineVars, layoutVars, doing>>
    BY <1>8 DEF vars
  <2>2. MachineInv' /\ LayoutInv'
    BY <1>1, <2>1, SameMachine, SameLayout
  <2>3. SymbolSent' <=> SymbolSent
    BY <2>1 DEF machineVars, SymbolSent, BitSent, LeaderSent, PauseSent, PixelSent, Start
  <2>4. CallerInv'
    BY <1>1, <2>1, <2>3 DEF CallerInv, layoutVars, machineVars
  <2> QED BY <2>2, <2>4 DEF PictureInv
<1> QED BY <1>2, <1>3, <1>4, <1>5, <1>6, <1>7, <1>8 DEF Next

-----------------------------------------------------------------------------
(* What a receiver sees *)

\* A band of this name is found when it is one of the two that are looked at.
LEMMA BandFound ==
  ASSUME NEW bands, NEW name \in {bands[1], bands[2]}, NEW otherwise
  PROVE  bands[Layout!BandOf(bands, name, otherwise)] = name
<1> DEFINE found == {i \in Layout!Inspected : bands[i] = name}
<1>1. \E i \in found : TRUE
  BY DEF Layout!Inspected
<1>2. (CHOOSE i \in found : TRUE) \in found
  BY <1>1
<1>3. Layout!BandOf(bands, name, otherwise) = CHOOSE i \in found : TRUE
  BY <1>1 DEF Layout!BandOf
<1> QED BY <1>2, <1>3

LEMMA ByteColour ==
  ASSUME NEW bands, NEW y, NEW x, NEW c \in 1..3
  PROVE  LET b == Layout!Byte(bands, y, c, x)
         IN  /\ b.x = x /\ b.y = y
             /\ Colours[c] \in {bands[1], bands[2]} => b.band = Colours[c]
<1>1. Layout!color_ind(bands)[c] = Layout!BandOf(bands, Colours[c], c)
  BY DEF Layout!color_ind, Colours
<1>2. Layout!Byte(bands, y, c, x)
        = [x |-> x, y |-> y, band |-> bands[Layout!BandOf(bands, Colours[c], c)]]
  BY <1>1 DEF Layout!Byte
<1>3. Colours[c] \in {bands[1], bands[2]} =>
        bands[Layout!BandOf(bands, Colours[c], c)] = Colours[c]
  BY BandFound
<1> QED BY <1>2, <1>3

\* What is sent as a pixel is the byte of that place of the picture.
LEMMA RightByte ==
  ASSUME PictureInv, doing = "sending",
         NEW l \in 0..Height - 1, NEW r \in 1..3, NEW k \in 0..Width - 1
  PROVE  d_data[RowStart(l, r) + k + 1] = Layout!Byte(img_bands, l, r, k)
<1>1. Len(d_data) = BytesPerImg /\ BytesPerImg \in Nat \ {0}
  BY Sizes DEF PictureInv, CallerInv
<1>2. d_data = raw
  <2>1. Len(<<>>) = 0
    OBVIOUS
  <2> QED BY <1>1, <2>1 DEF PictureInv, CallerInv
<1>3. RowStart(l, r) + k < BytesPerImg
  <2>1. l \in Nat /\ l < Height
    BY Sizes
  <2>2. RowStart(l, r) \in Nat /\ RowStart(l, r) + Width <= BytesPerImg
    BY <2>1, RowPlaces, Zenon
  <2> HIDE DEF RowStart, BytesPerImg
  <2> QED BY <1>1, <2>2, Sizes
<1>4. RowStart(l, r) + k < Len(raw)
  BY <1>1, <1>2, <1>3, Zenon
<1>5. raw[RowStart(l, r) + k + 1] = Layout!Byte(img_bands, l, r, k)
  BY <1>4, Zenon DEF PictureInv, LayoutInv, LaidOutAs
<1> QED BY <1>2, <1>5, Zenon

LEMMA PictureHeader == PictureInv => HeaderRight
<1> SUFFICES ASSUME PictureInv, OnAir, NEW i \in 0..7, Start = BitDue(i)
             PROVE  sym = Symbol(BitTones[1 + IF i < 7 THEN BitOf(Code, i)
                                                       ELSE ParityBit(Code)], Bit)
  BY DEF HeaderRight
<1>1. SymbolSent /\ sym.duration > 0
  BY DEF PictureInv, CallerInv, OnAir
<1>2. BitDue(i) \in Nat /\ BitDue(i) < VisDuration
  <2>1. i \in 0..8
    OBVIOUS
  <2> QED BY <2>1, BitTimes, Zenon
<1>3. CASE sym = Silence
  BY <1>1, <1>3 DEF Silence, Symbol
<1>4. CASE BitSent \/ LeaderSent
  <2>1. sym = BitSymbol(i)
    BY <1>4, HeaderOnAir
  <2> DEFINE bit == IF i < 7 THEN BitOf(Code, i) ELSE ParityBit(Code)
  <2>2. CodeWord(Code)[i + 1] = bit /\ CodeWord(Code)[i + 1] \in {0, 1}
    BY CodeWordBits, CodeWordValues
  <2> HIDE DEF bit
  <2>3. CodeWord(Code)[i + 1] + 1 = 1 + bit
    BY <2>2
  <2>4. sym = Symbol(BitTones[1 + bit], Bit)
    BY <2>1, <2>3, Zenon DEF BitSymbol
  <2> QED BY <2>4 DEF bit
<1>5. CASE PauseSent
  <2>1. PICK l \in 0..Height - 1 : Start \in Pauses(l)
    BY <1>5 DEF PauseSent
  <2>2. l \in Nat /\ 0 \in 0..Height - 1 /\ 1 \in 1..3 /\ 0 \in 0..Width - 1
    BY Sizes
  <2>3. Start >= VisDuration
    BY <2>1, <2>2, NoPixelInPause
  <2> QED BY <1>2, <2>3, Durations
<1>6. CASE PixelSent
  <2>1. PICK l \in 0..Height - 1, r \in 1..3, k \in 0..Width - 1 : Start = PixelDue(l, r, k)
    BY <1>6 DEF PixelSent
  <2>2. PixelDue(l, r, k) >= VisDuration
    BY PixelTimes
  <2> QED BY <1>2, <2>1, <2>2, Durations
<1> QED BY <1>1, <1>3, <1>4, <1>5, <1>6 DEF SymbolSent

LEMMA PicturePainted == PictureInv => PaintedRight
<1> SUFFICES ASSUME PictureInv PROVE PaintedRight
  OBVIOUS
<1>1. ASSUME NEW p \in Painted
      PROVE  /\ OnAir /\ Start = PixelDue(p.line, p.row, p.column)
             /\ p.line \in 0..Height - 1 /\ p.row \in 1..3 /\ p.column \in 0..Width - 1
  BY DEF Painted
<1>2. CASE ~OnAir
  BY <1>1, <1>2 DEF PaintedRight
<1>3. CASE OnAir /\ sym.freq[1] = "tone"
               /\ \A l \in 0..Height - 1, r \in 1..3, k \in 0..Width - 1 :
                    Start # PixelDue(l, r, k)
  <2>1. Painted = {}
    BY <1>1, <1>3
  <2> QED BY <1>3, <2>1 DEF PaintedRight
<1>4. CASE OnAir /\ PixelSent
  <2>1. PICK l \in 0..Height - 1, r \in 1..3, k \in 0..Width - 1 :
          /\ Start = PixelDue(l, r, k)
          /\ sym = Symbol(Level(d_data[RowStart(l, r) + k + 1]), Pixel)
    BY <1>4 DEF PixelSent
  <2>2. d_data[RowStart(l, r) + k + 1] = Layout!Byte(img_bands, l, r, k)
    BY <1>4, RightByte DEF OnAir
  <2>3. sym.freq[1] = "level" /\ sym.freq[2] = Layout!Byte(img_bands, l, r, k)
    BY <2>1, <2>2 DEF Symbol, Level
  <2>4. [line |-> l, row |-> r, column |-> k] \in Painted
    BY <1>4, <2>1 DEF Painted
  <2>5. ASSUME NEW p \in Painted
        PROVE  /\ sym.freq[2].x = p.column /\ sym.freq[2].y = p.line
               /\ Colours[p.row] \in {img_bands[1], img_bands[2]} =>
                    sym.freq[2].band = Colours[p.row]
    <3>1. p.line = l /\ p.row = r /\ p.column = k
      BY <1>1, <2>1, SamePixel
    <3>2. LET b == Layout!Byte(img_bands, l, r, k)
          IN  /\ b.x = k /\ b.y = l
              /\ Colours[r] \in {img_bands[1], img_bands[2]} => b.band = Colours[r]
      BY ByteColour
    <3> QED BY <2>3, <3>1, <3>2, Zenon
  <2> QED BY <2>3, <2>4, <2>5 DEF PaintedRight
<1>5. OnAir => SymbolSent /\ sym # Silence
  BY DEF PictureInv, CallerInv, OnAir, Silence, Symbol
<1>6. ASSUME BitSent \/ LeaderSent, NEW l \in 0..Height - 1, NEW r \in 1..3,
             NEW k \in 0..Width - 1
      PROVE  sym.freq[1] = "tone" /\ Start # PixelDue(l, r, k)
  <2>1. Start < VisDuration /\ Start \in Nat /\ sym.freq[1] = "tone"
    BY <1>6, HeaderOnAir
  <2>2. PixelDue(l, r, k) >= VisDuration
    BY PixelTimes
  <2> QED BY <2>1, <2>2, Durations
<1>7. ASSUME PauseSent, NEW l \in 0..Height - 1, NEW r \in 1..3, NEW k \in 0..Width - 1
      PROVE  sym.freq[1] = "tone" /\ Start # PixelDue(l, r, k)
  <2>1. PICK m \in 0..Height - 1 : Start \in Pauses(m)
    BY <1>7 DEF PauseSent
  <2>2. m \in Nat
    OBVIOUS
  <2> QED BY <1>7, <2>1, <2>2, NoPixelInPause DEF PauseSent
<1>8. 0 \in 0..Height - 1 /\ 1 \in 1..3 /\ 0 \in 0..Width - 1
  BY Sizes
<1>9. OnAir => PixelSent
               \/ /\ sym.freq[1] = "tone"
                  /\ \A l \in 0..Height - 1, r \in 1..3, k \in 0..Width - 1 :
                       Start # PixelDue(l, r, k)
  BY <1>5, <1>6, <1>7, <1>8 DEF SymbolSent
<1> QED BY <1>2, <1>3, <1>4, <1>9

-----------------------------------------------------------------------------
(* The theorems *)

LEMMA PictureInvariant == Spec => []PictureInv
  BY PictureInit, PictureStep, PTL DEF Spec

LEMMA PictureTypes == PictureInv => TypeOK
<1> SUFFICES ASSUME PictureInv PROVE TypeOK
  OBVIOUS
<1>1. MachineTypeOK
  BY TypeInStates DEF PictureInv, MachineInv
<1>2. Len(raw) \in 0..BytesPerImg
  BY LengthInLayout DEF PictureInv
<1> QED BY <1>1, <1>2 DEF PictureInv, LayoutInv, Layouts, CallerInv, TypeOK

\* The types of the machine and its caller; the position in the data (d_data_ptr)
\* never passes its end.
THEOREM PictureTypeCorrect == Spec => []TypeOK
  BY PictureInvariant, PictureTypes, PTL

\* No check of next_symbol ever throws, whatever the timers held before init().
THEOREM NothingThrown == Spec => []NeverThrows
<1>1. PictureInv => NeverThrows
  BY DEF PictureInv, MachineInv
<1> QED BY <1>1, PictureInvariant, PTL

\* The byte that is read belongs to the row and the line that are sent.
THEOREM RowsInPlace == Spec => []RightRow
<1>1. PictureInv => RightRow
  BY DEF PictureInv, MachineInv, Places
<1> QED BY <1>1, PictureInvariant, PTL

\* Every symbol starts when a receiver that knows the mode expects it.
THEOREM SymbolsOnSchedule == Spec => []OnSchedule
<1>1. PictureInv => OnSchedule
  BY DEF PictureInv, MachineInv
<1> QED BY <1>1, PictureInvariant, PTL

\* A receiver reads the VIS code of the mode, and its parity, from the header.
THEOREM ModeReadBack == Spec => []HeaderRight
  BY PictureInvariant, PictureHeader, PTL

\* A receiver paints every byte at the pixel it was taken from, and only bytes.
THEOREM PicturePaintedRight == Spec => []PaintedRight
  BY PictureInvariant, PicturePainted, PTL

\* Each call of next_symbol() gives work() what module Modulation supposes: a symbol
\* that lies within the expected duration, and the end exactly there; so what is
\* proved of the signal there is proved of a signal of these symbols.
THEOREM MachineFeedsModulation == Spec => [][SendSymbol => AsTaken]_vars
<1>1. PictureInv /\ SendSymbol => AsTaken
  <2> SUFFICES ASSUME PictureInv, SendSymbol PROVE AsTaken
    OBVIOUS
  <2>1. doing = "sending" /\ NextSymbol
    BY DEF SendSymbol, Proceed
  <2>2. MachineInv /\ Len(d_data) = BytesPerImg
    BY <2>1 DEF PictureInv, CallerInv
  <2> QED BY <2>1, <2>2, NextSymbolAsTaken
<1>2. PictureInv /\ [Next]_vars => [SendSymbol => AsTaken]_vars
  BY <1>1
<1> QED BY <1>2, PictureInvariant, PTL DEF Spec

-----------------------------------------------------------------------------
(* The numbers of the program *)

\* What the constructors set, in units of 100 ns.
MartinM1Numbers ==
  /\ Leader = 3000000 /\ Break = 100000 /\ StartBit = 300000 /\ Bit = 300000
  /\ StopBit = 300000 /\ SyncPulse = 48620 /\ SyncPorch = 5720 /\ Separator = 5720
  /\ Pixel = 4576 /\ Width = 320 /\ Height = 256

\* With them the expected duration is 115.200176 seconds, which ModulationProofs
\* (BeaconNumbers) takes it for.
THEOREM MartinM1Lasts == MartinM1Numbers => ExpectedDuration = 1152001760
BY SMT DEF MartinM1Numbers, ExpectedDuration, ScanlineDuration, PixelsDuration, VisDuration

=============================================================================
