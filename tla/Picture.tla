------------------------------ MODULE Picture ------------------------------
(***************************************************************************)
(* A picture on its way to the air: beacon.py lays it out as bytes         *)
(* (ImageLayout), hands them to the Martin M1 machine (MartinM1, with      *)
(* VisCode inside), and work() (module Modulation) asks the machine        *)
(* for one symbol after the other, each starting where the last one ended. *)
(* work() may be cancelled after any symbol; the same machine is used for  *)
(* the next picture.                                                       *)
(*                                                                         *)
(* The properties are those of a receiver that knows the mode and, from    *)
(* the first symbol on, the time.                                          *)
(***************************************************************************)
EXTENDS MartinM1

CONSTANT Modes   \* the bands a downloaded picture may have, in the order of PIL

VARIABLES
  img_bands, raw, at,  \* convert_img_to_raw
  doing                \* "idle", "converting", or "sending": work() is in its loop

Layout == INSTANCE ImageLayout

layoutVars == <<img_bands, raw, at>>
vars == <<machineVars, layoutVars, doing>>

Init == MachineInit /\ Layout!LayoutInit /\ doing = "idle"

Proceed(from, to) == doing = from /\ doing' = to

\* prepare_image, when no computation is under way.  A picture without the bands
\* asked for ends the program before.
PrepareImage(bands) ==
  /\ Proceed("idle", "converting")
  /\ Layout!BeginLayout(bands)
  /\ UNCHANGED machineVars

ConvertByte ==
  /\ Proceed("converting", "converting")
  /\ Layout!AppendByte
  /\ UNCHANGED machineVars

\* The bytes are handed over.
SetData ==
  /\ Proceed("converting", "idle")
  /\ Layout!LaidOut
  /\ set_data(raw)
  /\ UNCHANGED <<layoutVars, now, sym, raised, vis_code, visVars, d_state, d_data_ptr,
                 d_line_no, d_ticbuf>>

\* start() and the beginning of work().
StartSending ==
  /\ Proceed("idle", "sending")
  /\ ready
  /\ init
  /\ UNCHANGED layoutVars

SendSymbol == Proceed("sending", "sending") /\ NextSymbol /\ UNCHANGED layoutVars

\* The loop ends with the picture, an exception or a cancel.
StopSending == Proceed("sending", "idle") /\ UNCHANGED <<machineVars, layoutVars>>

Next ==
  \/ \E bands \in Modes : PrepareImage(bands)
  \/ ConvertByte \/ SetData \/ StartSending \/ SendSymbol \/ StopSending

Spec == Init /\ [][Next]_vars

-----------------------------------------------------------------------------
(* Properties *)

\* Types of the machine and of its caller.
TypeOK ==
  /\ MachineTypeOK
  /\ img_bands \in Modes \cup {<<>>} /\ at \in (0..Height) \X (1..3) \X (0..Width - 1)
  /\ Len(raw) \in 0..BytesPerImg /\ doing \in {"idle", "converting", "sending"}

\* The symbol on the air, and when it started.
OnAir == doing = "sending" /\ sym.duration > 0
Start == now - sym.duration

\* When the bits of the header are due.
BitDue(i) == Leader + Break + Leader + StartBit + i * Bit

ParityBit(code) == (BitOf(code, 0) + BitOf(code, 1) + BitOf(code, 2) + BitOf(code, 3)
                     + BitOf(code, 4) + BitOf(code, 5) + BitOf(code, 6)) % 2

\* A receiver reads the mode from the header: bit i of the code, then even
\* parity, each in its own time slot.
HeaderRight ==
  OnAir => \A i \in 0..7 :
    Start = BitDue(i) =>
      sym = Symbol(BitTones[1 + IF i < 7 THEN BitOf(Code, i) ELSE ParityBit(Code)], Bit)

\* When a receiver paints column k of row r (green, blue, red) of line l.
PixelDue(l, r, k) ==
  VisDuration + l * ScanlineDuration + SyncPulse + SyncPorch
    + (r - 1) * (Width * Pixel + Separator) + k * Pixel

\* The place where a receiver paints what is on the air, if it is time to.
Painted ==
  {p \in [line : 0..Height - 1, row : 1..3, column : 0..Width - 1] :
     OnAir /\ Start = PixelDue(p.line, p.row, p.column)}

Colours == <<"G", "B", "R">>

\* A receiver paints every byte at the pixel it was taken from, and nothing but bytes:
\* the loops of a Python function, the positions of a C++ machine and the
\* times of the symbols agree, also after a picture that was cancelled.  A colour
\* that is among the first two bands of the picture is painted in its own row.
PaintedRight ==
  /\ OnAir /\ sym.freq[1] = "level" => Painted # {}
  /\ \A p \in Painted :
       /\ sym.freq[1] = "level"
       /\ sym.freq[2].x = p.column /\ sym.freq[2].y = p.line
       /\ Colours[p.row] \in {img_bands[1], img_bands[2]} =>
            sym.freq[2].band = Colours[p.row]

\* beacon.py:313-314 "check that we have three color components", "check that order is
\* RGB": what is painted in the green, blue and red row has that colour.
ColoursRight == \A p \in Painted : sym.freq[2].band = Colours[p.row]

=============================================================================
