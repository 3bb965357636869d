---------------------------- MODULE ImageLayout ----------------------------
(***************************************************************************)
(* convert_img_to_raw (src/src/python/beacon.py): the picture, which PIL   *)
(* gives as pixels of several bands, becomes the sequence of bytes that    *)
(* the Martin M1 machine reads.  A byte is represented by the pixel and    *)
(* the band it was taken from, a picture by its bands (img.getbands()).    *)
(*                                                                         *)
(* The loops, one byte a step.                                             *)
(***************************************************************************)
EXTENDS Integers, Sequences

CONSTANTS Width, Height   \* imgsize

VARIABLES
  img_bands,  \* the bands of the picture
  raw,        \* data, the bytes so far
  at          \* <<y, c, x>> of the loops

\* `for i in range(2)`: the bands that are looked at.
Inspected == {1, 2}

\* The place of the band with this name, or what color_ind has to begin with.
BandOf(bands, name, otherwise) ==
  LET found == {i \in Inspected : bands[i] = name}
  IN  IF found = {} THEN otherwise ELSE CHOOSE i \in found : TRUE

\* color_ind, for the three rows in the order they are appended.
color_ind(bands) == <<BandOf(bands, "G", 1), BandOf(bands, "B", 2), BandOf(bands, "R", 3)>>

\* No IndexError, as there is for a grey picture.
BandsExist(bands) ==
  /\ Inspected \subseteq DOMAIN bands
  /\ \A c \in 1..3 : color_ind(bands)[c] \in DOMAIN bands

Byte(bands, y, c, x) == [x |-> x, y |-> y, band |-> bands[color_ind(bands)[c]]]

LayoutInit == img_bands = <<>> /\ raw = <<>> /\ at = <<Height, 1, 0>>

BeginLayout(bands) ==
  /\ BandsExist(bands)
  /\ img_bands' = bands /\ raw' = <<>> /\ at' = <<0, 1, 0>>

LaidOut == at[1] = Height

PixelByPixel(y, c, x) ==                                         \* faulty
  CASE c < 3                      -> <<y, c + 1, x>>
    [] c = 3 /\ x < Width - 1     -> <<y, 1, x + 1>>
    [] c = 3 /\ x = Width - 1     -> <<y + 1, 1, 0>>
\* The loops over y, c and x.
Following(y, c, x) ==
  CASE x < Width - 1              -> <<y, c, x + 1>>
    [] x = Width - 1 /\ c < 3     -> <<y, c + 1, 0>>
    [] x = Width - 1 /\ c = 3     -> <<y + 1, 1, 0>>

AppendByte ==
  /\ ~LaidOut
  /\ raw' = Append(raw, Byte(img_bands, at[1], at[2], at[3]))
  /\ at' = Following(at[1], at[2], at[3])
  /\ UNCHANGED img_bands

=============================================================================
