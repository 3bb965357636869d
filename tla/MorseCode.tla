----------------------------- MODULE MorseCode -----------------------------
(***************************************************************************)
(* The C++ Morse generator, sstvi_morse_code_state_machine (src/src/lib/   *)
(* sstvi_morse_code_state_machine.cc, .h): how a text becomes the sequence *)
(* of tones and silences that next_symbol will send.  The class is not     *)
(* built yet (next_symbol is a copy of the one of the Martin M1 machine);  *)
(* translate_data and what it calls are complete.                          *)
(*                                                                         *)
(* d_morse_seq is represented by what a receiver makes of it: what was     *)
(* heard grows by an element with each push_back.  The receiver measures   *)
(* silences and knows nothing of the sender but the table: silence up to   *)
(* two units is inside a letter, from five on it is between words.         *)
(***************************************************************************)
EXTENDS MorseInfo, Sequences

CONSTANTS
  MorseTable,  \* the codes of the characters
  Texts        \* what is sent, sequences of characters

\* No two characters have the same code, and only the space has none.
ASSUME TableAssumption ==
  /\ Space \in DOMAIN MorseTable /\ DOMAIN MorseTable \subseteq STRING
  /\ \A c \in DOMAIN MorseTable :
       MorseTable[c] \in Seq({dih, dah}) /\ (MorseTable[c] = <<>> <=> c = Space)
  /\ \A c, d \in DOMAIN MorseTable : MorseTable[c] = MorseTable[d] => c = d

\* set_data throws on an empty text.
ASSUME TextsAssumption == Texts \subseteq Seq(STRING) \ {<<>>}

VARIABLES
  d_data,
  doing,                \* "idle" or "translating"
  i, j,                 \* the loops: characters, and elements of the next one, that are over
  heard,                \* d_morse_seq: text, elements of the letter under way, silence since
                        \* the last tone, silences between two tones, length of it all
  d_expected_duration,
  said                  \* auxiliary: what there is to read of the characters that are over

loopVars == <<doing, i, j>>
vars == <<d_data, loopVars, heard, d_expected_duration, said>>

-----------------------------------------------------------------------------
(* The receiver *)

Nothing == [text |-> <<>>, letter |-> <<>>, silence |-> 0, silences |-> {}, length |-> 0]

TakenForWordGap(units) == units >= 5

Letter(code) == CHOOSE c \in DOMAIN MorseTable : MorseTable[c] = code

EndLetter(h) ==
  IF h.letter = <<>> THEN h.text
  ELSE h.text \o <<Letter(h.letter)>> \o IF TakenForWordGap(h.silence) THEN <<Space>> ELSE <<>>

HearSilence(h, s) == [h EXCEPT !.silence = @ + s.units, !.length = @ + s.units]

HearTone(h, s) ==
  IF h.silence <= 2
  THEN [h EXCEPT !.letter = Append(@, s), !.silence = 0, !.length = @ + s.units]
  ELSE [text |-> EndLetter(h), letter |-> <<s>>, silence |-> 0,
        silences |-> IF h.letter = <<>> THEN {} ELSE h.silences \cup {h.silence},
        length |-> h.length + s.units]

\* A character that is not in the table adds nothing, and is no failure.
Code(c) == IF c \in DOMAIN MorseTable THEN MorseTable[c] ELSE <<>>
Blank(c) == Code(c) = <<>>

\* A text with everything that has no code blank, and blanks merged.
AndThen(text, c) ==
  IF ~Blank(c) THEN Append(text, c)
  ELSE IF text = <<>> \/ text[Len(text)] = Space THEN text
  ELSE Append(text, Space)

-----------------------------------------------------------------------------
Init ==
  /\ d_data = <<>> /\ doing = "idle" /\ i = 0 /\ j = 0
  /\ heard = Nothing /\ d_expected_duration = 0 /\ said = <<>>

NotCleared == heard                                              \* faulty
Cleared == Nothing

\* set_data, then translate_data up to its loop.
SetData(text) ==
  /\ doing = "idle" /\ doing' = "translating"
  /\ d_data' = text /\ i' = 0 /\ j' = 0
  /\ heard' = Cleared /\ said' = <<>>
  /\ UNCHANGED d_expected_duration

Translating == doing = "translating" /\ i < Len(d_data)

NoLastGap(h) ==                                                  \* faulty
  IF j + 1 < Len(Code(d_data[i + 1])) THEN HearSilence(h, intra_character_gap) ELSE h
WithGap(h) == HearSilence(h, intra_character_gap)

\* One round of the loop in translate_letter: an element and the gap behind it,
\* behind the last one too.
SendElement ==
  /\ Translating /\ j < Len(Code(d_data[i + 1]))
  /\ j' = j + 1
  /\ heard' = WithGap(HearTone(heard, Code(d_data[i + 1])[j + 1]))
  /\ UNCHANGED <<d_data, doing, i, d_expected_duration, said>>

\* insert_gap, behind every character.
InsertGap ==
  /\ Translating /\ j = Len(Code(d_data[i + 1]))
  /\ i' = i + 1 /\ j' = 0
  /\ heard' = HearSilence(heard, short_gap)
  /\ said' = AndThen(said, d_data[i + 1])
  /\ UNCHANGED <<d_data, doing, d_expected_duration>>

\* Behind the loop.  What translate_data returns is undefined, and used nowhere.
Finish ==
  /\ doing = "translating" /\ i = Len(d_data)
  /\ doing' = "idle"
  /\ heard' = HearSilence(heard, Terminator)
  /\ d_expected_duration' = heard'.length
  /\ UNCHANGED <<d_data, i, j, said>>

Next == (\E text \in Texts : SetData(text)) \/ SendElement \/ InsertGap \/ Finish

Spec == Init /\ [][Next]_vars

-----------------------------------------------------------------------------
(* Properties *)

\* Wherever a character is over the receiver has read the text so far and nothing else,
\* letter by letter and word by word: codes, gaps and the table of translate_letter fit.
ReadBack == j = 0 => EndLetter(heard) = said

BlanksApart ==
  /\ d_data # <<>> => ~Blank(d_data[1])
  /\ \A k \in 1..Len(d_data) - 1 : ~(Blank(d_data[k]) /\ Blank(d_data[k + 1]))

\* cc:193-197 "effectively gives a long gap between words": where words are one
\* space apart, what is heard between them lasts exactly a long_gap.
WordsApart ==
  BlanksApart =>
    \A units \in heard.silences : TakenForWordGap(units) => units = long_gap.units

=============================================================================
