----------------------------- MODULE MorseProofs -----------------------------
(***************************************************************************)
(* What a receiver makes of the Morse code, proved for every text and for  *)
(* every table in which no two characters share a code: it reads the text  *)
(* back (ReadBack), and hears a long gap between words (WordsApart).       *)
(*                                                                         *)
(* The text is not known where the code is generated, so the proof is an   *)
(* invariant of two parts: what has been heard between two characters, and *)
(* within one.                                                             *)
(***************************************************************************)
EXTENDS MorseCode, TLAPS

Letters == DOMAIN MorseTable \ {Space}
Heard ==
  [text : Seq(STRING), letter : Seq({dih, dah}), silence : Nat,
   silences : SUBSET Nat, length : Nat]

\* Between two characters s is read: its last letter is still under way, with one element's
\* gap and a character's behind it, or more characters' gaps where blanks followed.
Read(h, s) ==
  \/ s = <<>> /\ h.text = <<>> /\ h.letter = <<>>
  \/ \E c \in Letters :
       /\ h.letter = MorseTable[c]
       /\ \/ h.silence = 4 /\ s = Append(h.text, c)
          \/ h.silence >= 7 /\ s = Append(Append(h.text, c), Space)

-----------------------------------------------------------------------------
(* Texts and codes *)

LEMMA AppendType ==
  ASSUME NEW S, NEW s \in Seq(S), NEW e \in S
  PROVE  /\ Append(s, e) \in Seq(S) /\ Append(s, e) # <<>>
         /\ Len(Append(s, e)) = Len(s) + 1
         /\ Append(s, e)[Len(Append(s, e))] = e
OBVIOUS

LEMMA ConcatOne ==
  ASSUME NEW S, NEW s \in Seq(S), NEW e \in S
  PROVE  s \o <<e>> = Append(s, e)
OBVIOUS

LEMMA ConcatNothing ==
  ASSUME NEW S, NEW s \in Seq(S)
  PROVE  s \o <<>> = s
OBVIOUS

LEMMA Prefixes ==
  ASSUME NEW S, NEW s \in Seq(S), NEW n \in 0..Len(s) - 1
  PROVE  /\ s[n + 1] \in S
         /\ SubSeq(s, 1, n + 1) = Append(SubSeq(s, 1, n), s[n + 1])
OBVIOUS

LEMMA WholePrefix ==
  ASSUME NEW S, NEW s \in Seq(S)
  PROVE  SubSeq(s, 1, Len(s)) = s
OBVIOUS

LEMMA FirstPrefix ==
  ASSUME NEW S, NEW s \in Seq(S), s # <<>>
  PROVE  Len(s) > 0 /\ SubSeq(s, 1, 1) = <<s[1]>>
<1>1. Len(s) \in Nat /\ Len(s) # 0
  OBVIOUS
<1>2. s[1] \in S /\ SubSeq(s, 1, 1) = Append(SubSeq(s, 1, 0), s[1])
  BY <1>1, Prefixes
<1>3. SubSeq(s, 1, 0) = <<>>
  OBVIOUS
<1>4. ASSUME NEW e \in S PROVE Append(<<>>, e) = <<e>>
  OBVIOUS
<1>5. Append(<<>>, s[1]) = <<s[1]>>
  BY <1>2, <1>4
<1>6. SubSeq(s, 1, 1) = <<s[1]>>
  BY <1>2, <1>3, <1>5, Zenon
<1> QED BY <1>1, <1>6

LEMMA NoLength ==
  ASSUME NEW S, NEW s \in Seq(S)
  PROVE  Len(s) \in Nat /\ (s = <<>> <=> Len(s) = 0)
OBVIOUS

-----------------------------------------------------------------------------
(* The elements and the table *)

LEMMA Elements ==
  /\ dih.units = 1 /\ dah.units = 3 /\ dih # dah
  /\ intra_character_gap.units = 1 /\ short_gap.units = 3 /\ long_gap.units = 7
  /\ Terminator.units = 0
BY DEF dih, dah, intra_character_gap, short_gap, long_gap, Terminator

LEMMA CodeType ==
  ASSUME NEW c
  PROVE  /\ Code(c) \in Seq({dih, dah}) /\ Len(Code(c)) \in Nat
         /\ ~Blank(c) => c \in Letters /\ Code(c) = MorseTable[c]
         /\ Blank(c) <=> Len(Code(c)) = 0
<1>1. CASE c \in DOMAIN MorseTable
  <2>1. MorseTable[c] \in Seq({dih, dah}) /\ (MorseTable[c] = <<>> <=> c = Space)
    BY <1>1, TableAssumption
  <2>2. Code(c) = MorseTable[c]
    BY <1>1 DEF Code
  <2>3. Len(Code(c)) \in Nat /\ (Code(c) = <<>> <=> Len(Code(c)) = 0)
    BY <2>1, <2>2, NoLength
  <2> QED BY <1>1, <2>1, <2>2, <2>3 DEF Blank, Letters
<1>2. CASE c \notin DOMAIN MorseTable
  <2>1. Code(c) = <<>>
    BY <1>2 DEF Code
  <2> QED BY <2>1 DEF Blank
<1> QED BY <1>1, <1>2

\* The table can be read backwards.
LEMMA LetterOfCode ==
  ASSUME NEW c \in Letters
  PROVE  /\ Letter(MorseTable[c]) = c /\ MorseTable[c] # <<>>
         /\ c \in STRING /\ c # Space
<1>1. c \in DOMAIN MorseTable /\ c # Space
  BY DEF Letters
<1>2. \A d \in DOMAIN MorseTable : MorseTable[d] = MorseTable[c] => d = c
  BY <1>1, TableAssumption
<1>3. Letter(MorseTable[c]) = c
  BY <1>1, <1>2 DEF Letter
<1> QED BY <1>1, <1>3, TableAssumption

-----------------------------------------------------------------------------
(* The receiver *)

LEMMA WithSilence ==
  ASSUME NEW h \in Heard, NEW n \in Nat
  PROVE  /\ [h EXCEPT !.silence = n] \in Heard
         /\ [h EXCEPT !.silence = n].silence = n
         /\ [h EXCEPT !.silence = n].text = h.text
         /\ [h EXCEPT !.silence = n].letter = h.letter
         /\ [h EXCEPT !.silence = n].silences = h.silences
         /\ [h EXCEPT !.silence = n].length = h.length
BY DEF Heard

LEMMA WithLength ==
  ASSUME NEW h \in Heard, NEW n \in Nat
  PROVE  /\ [h EXCEPT !.length = n] \in Heard
         /\ [h EXCEPT !.length = n].length = n
         /\ [h EXCEPT !.length = n].text = h.text
         /\ [h EXCEPT !.length = n].letter = h.letter
         /\ [h EXCEPT !.length = n].silence = h.silence
         /\ [h EXCEPT !.length = n].silences = h.silences
BY DEF Heard

LEMMA WithLetter ==
  ASSUME NEW h \in Heard, NEW l \in Seq({dih, dah})
  PROVE  /\ [h EXCEPT !.letter = l] \in Heard
         /\ [h EXCEPT !.letter = l].letter = l
         /\ [h EXCEPT !.letter = l].text = h.text
         /\ [h EXCEPT !.letter = l].silence = h.silence
         /\ [h EXCEPT !.letter = l].silences = h.silences
         /\ [h EXCEPT !.letter = l].length = h.length
BY DEF Heard

LEMMA HeardFields ==
  ASSUME NEW h \in Heard
  PROVE  /\ h.text \in Seq(STRING) /\ h.letter \in Seq({dih, dah})
         /\ h.silence \in Nat /\ h.silences \in SUBSET Nat /\ h.length \in Nat
BY DEF Heard

LEMMA SilenceType ==
  ASSUME NEW h \in Heard, NEW s, s.units \in Nat
  PROVE  /\ HearSilence(h, s) \in Heard
         /\ HearSilence(h, s).text = h.text
         /\ HearSilence(h, s).letter = h.letter
         /\ HearSilence(h, s).silence = h.silence + s.units
         /\ HearSilence(h, s).silences = h.silences
<1>1. h.silence + s.units \in Nat /\ h.length + s.units \in Nat
  BY HeardFields
<1> DEFINE k == [h EXCEPT !.silence = h.silence + s.units]
<1>2. /\ k \in Heard /\ k.silence = h.silence + s.units
      /\ k.text = h.text /\ k.letter = h.letter /\ k.silences = h.silences
  BY <1>1, WithSilence, Zenon
<1> DEFINE m == [k EXCEPT !.length = h.length + s.units]
<1>3. HearSilence(h, s) = m
  BY Zenon DEF HearSilence
<1> HIDE DEF k
<1>4. /\ m \in Heard /\ m.silence = k.silence
      /\ m.text = k.text /\ m.letter = k.letter /\ m.silences = k.silences
  BY <1>1, <1>2, WithLength, Zenon
<1> HIDE DEF m
<1> QED BY <1>2, <1>3, <1>4

LEMMA ElementGapHeard ==
  ASSUME NEW h \in Heard
  PROVE  /\ HearSilence(h, intra_character_gap) \in Heard
         /\ HearSilence(h, intra_character_gap).text = h.text
         /\ HearSilence(h, intra_character_gap).letter = h.letter
         /\ HearSilence(h, intra_character_gap).silence = h.silence + 1
         /\ HearSilence(h, intra_character_gap).silences = h.silences
<1>1. intra_character_gap.units = 1 /\ 1 \in Nat
  BY Elements
<1> QED BY <1>1, SilenceType

LEMMA ShortGapHeard ==
  ASSUME NEW h \in Heard
  PROVE  /\ HearSilence(h, short_gap) \in Heard
         /\ HearSilence(h, short_gap).text = h.text
         /\ HearSilence(h, short_gap).letter = h.letter
         /\ HearSilence(h, short_gap).silence = h.silence + 3
         /\ HearSilence(h, short_gap).silences = h.silences
<1>1. short_gap.units = 3 /\ 3 \in Nat
  BY Elements
<1> QED BY <1>1, SilenceType

LEMMA TerminatorHeard ==
  ASSUME NEW h \in Heard
  PROVE  /\ HearSilence(h, Terminator) \in Heard
         /\ HearSilence(h, Terminator).text = h.text
         /\ HearSilence(h, Terminator).letter = h.letter
         /\ HearSilence(h, Terminator).silence = h.silence + 0
         /\ HearSilence(h, Terminator).silences = h.silences
<1>1. Terminator.units = 0 /\ 0 \in Nat
  BY Elements
<1> QED BY <1>1, SilenceType

\* A tone behind a silence that is short enough belongs to the letter under way.
LEMMA ToneInLetter ==
  ASSUME NEW h \in Heard, h.silence <= 2, NEW e \in {dih, dah}
  PROVE  /\ HearTone(h, e) \in Heard
         /\ HearTone(h, e).text = h.text /\ HearTone(h, e).letter = Append(h.letter, e)
         /\ HearTone(h, e).silence = 0 /\ HearTone(h, e).silences = h.silences
<1>1. /\ Append(h.letter, e) \in Seq({dih, dah}) /\ h.length + e.units \in Nat
      /\ 0 \in Nat
  <2>1. h.letter \in Seq({dih, dah}) /\ h.length \in Nat /\ e.units \in Nat
    BY HeardFields, Elements
  <2> QED BY <2>1, AppendType
<1> DEFINE k == [h EXCEPT !.letter = Append(h.letter, e)]
           l == [k EXCEPT !.silence = 0]
           m == [l EXCEPT !.length = h.length + e.units]
<1>2. /\ k \in Heard /\ k.letter = Append(h.letter, e)
      /\ k.text = h.text /\ k.silences = h.silences
  BY <1>1, WithLetter, Zenon
<1>3. HearTone(h, e) = m
  BY Zenon DEF HearTone
<1> HIDE DEF k
<1>4. /\ l \in Heard /\ l.letter = Append(h.letter, e) /\ l.silence = 0
      /\ l.text = h.text /\ l.silences = h.silences
  BY <1>1, <1>2, WithSilence, Zenon
<1> HIDE DEF l
<1>5. /\ m \in Heard /\ m.silence = l.silence
      /\ m.text = l.text /\ m.letter = l.letter /\ m.silences = l.silences
  BY <1>1, <1>4, WithLength, Zenon
<1> HIDE DEF m
<1> QED BY <1>3, <1>4, <1>5

\* Where s is read, it is what the receiver ends its letter with.
LEMMA ReadIsHeard ==
  ASSUME NEW h \in Heard, NEW s \in Seq(STRING), Read(h, s)
  PROVE  EndLetter(h) = s
<1>1. h.text \in Seq(STRING) /\ h.silence \in Nat
  BY DEF Heard
<1>2. CASE s = <<>> /\ h.text = <<>> /\ h.letter = <<>>
  BY <1>2 DEF EndLetter
<1>3. CASE \E c \in Letters :
              /\ h.letter = MorseTable[c]
              /\ \/ h.silence = 4 /\ s = Append(h.text, c)
                 \/ h.silence >= 7 /\ s = Append(Append(h.text, c), Space)
  <2>1. PICK c \in Letters :
              /\ h.letter = MorseTable[c]
              /\ \/ h.silence = 4 /\ s = Append(h.text, c)
                 \/ h.silence >= 7 /\ s = Append(Append(h.text, c), Space)
    BY <1>3
  <2>2. /\ Letter(h.letter) = c /\ h.letter # <<>> /\ c \in STRING
    BY <2>1, LetterOfCode
  <2>3. /\ h.text \o <<c>> = Append(h.text, c) /\ Append(h.text, c) \in Seq(STRING)
    BY <1>1, <2>2, ConcatOne, AppendType
  <2>4. /\ Append(h.text, c) \o <<Space>> = Append(Append(h.text, c), Space)
        /\ Append(h.text, c) \o <<>> = Append(h.text, c)
    <3>1. Space \in STRING
      BY TableAssumption
    <3> QED BY <2>3, <3>1, ConcatOne, ConcatNothing, Zenon
  <2>5. EndLetter(h) =
          h.text \o <<c>> \o IF TakenForWordGap(h.silence) THEN <<Space>> ELSE <<>>
    BY <2>2 DEF EndLetter
  <2>6. CASE h.silence = 4 /\ s = Append(h.text, c)
    <3>1. ~TakenForWordGap(h.silence)
      BY <2>6 DEF TakenForWordGap
    <3> QED BY <2>3, <2>4, <2>5, <2>6, <3>1
  <2>7. CASE h.silence >= 7 /\ s = Append(Append(h.text, c), Space)
    <3>1. TakenForWordGap(h.silence)
      BY <1>1, <2>7 DEF TakenForWordGap
    <3> QED BY <2>3, <2>4, <2>5, <2>7, <3>1
  <2> QED BY <2>1, <2>6, <2>7
<1> QED BY <1>2, <1>3 DEF Read

\* The first tone of a character ends what was read before it.
LEMMA FirstTone ==
  ASSUME NEW h \in Heard, NEW s \in Seq(STRING), Read(h, s), NEW e \in {dih, dah}
  PROVE  /\ HearTone(h, e) \in Heard
         /\ HearTone(h, e).text = s /\ HearTone(h, e).letter = <<e>>
         /\ HearTone(h, e).silence = 0
         /\ HearTone(h, e).silences \in
              {h.silences, {}, h.silences \cup {h.silence}}
         /\ h.silence = 0 => HearTone(h, e).silences = h.silences
<1>1. /\ h.text \in Seq(STRING) /\ h.silence \in Nat /\ h.silences \in SUBSET Nat
      /\ h.length \in Nat /\ e.units \in Nat
  BY Elements DEF Heard
<1>2. CASE h.silence <= 2
  <2>1. s = <<>> /\ h.text = <<>> /\ h.letter = <<>>
    BY <1>1, <1>2 DEF Read
  <2>2. Append(h.letter, e) = <<e>>
    BY <2>1
  <2>3. /\ HearTone(h, e) \in Heard /\ HearTone(h, e).text = h.text
        /\ HearTone(h, e).letter = Append(h.letter, e)
        /\ HearTone(h, e).silence = 0 /\ HearTone(h, e).silences = h.silences
    BY <1>2, ToneInLetter
  <2> QED BY <2>1, <2>2, <2>3, Zenon
<1>3. CASE ~(h.silence <= 2)
  <2>1. EndLetter(h) = s
    BY ReadIsHeard
  <2>2. <<e>> \in Seq({dih, dah})
    OBVIOUS
  <2>3. HearTone(h, e) =
          [text |-> s, letter |-> <<e>>, silence |-> 0,
           silences |-> IF h.letter = <<>> THEN {} ELSE h.silences \cup {h.silence},
           length |-> h.length + e.units]
    BY <1>3, <2>1 DEF HearTone
  <2> QED BY <1>1, <1>3, <2>2, <2>3 DEF Heard
<1> QED BY <1>2, <1>3

\* A character that is over is read, whether it has a code or not.
LEMMA ReadLetter ==
  ASSUME NEW h \in Heard, NEW c, ~Blank(c), h.letter = Code(c), h.silence = 1
  PROVE  /\ Read(HearSilence(h, short_gap), AndThen(h.text, c))
         /\ AndThen(h.text, c) \in Seq(STRING)
<1>1. c \in Letters /\ Code(c) = MorseTable[c] /\ c \in STRING
  BY CodeType, LetterOfCode
<1>2. AndThen(h.text, c) = Append(h.text, c) /\ Append(h.text, c) \in Seq(STRING)
  BY <1>1, HeardFields, AppendType DEF AndThen
<1>3. /\ HearSilence(h, short_gap).text = h.text
      /\ HearSilence(h, short_gap).letter = h.letter
      /\ HearSilence(h, short_gap).silence = 4
  BY ShortGapHeard
<1> QED BY <1>1, <1>2, <1>3 DEF Read

LEMMA ReadBlank ==
  ASSUME NEW h \in Heard, NEW s \in Seq(STRING), Read(h, s), NEW c, Blank(c)
  PROVE  /\ Read(HearSilence(h, short_gap), AndThen(s, c))
         /\ AndThen(s, c) \in Seq(STRING)
<1>1. /\ HearSilence(h, short_gap).text = h.text
      /\ HearSilence(h, short_gap).letter = h.letter
      /\ HearSilence(h, short_gap).silence = h.silence + 3
      /\ h.silence \in Nat /\ h.text \in Seq(STRING)
  BY ShortGapHeard, HeardFields
<1>2. CASE s = <<>> /\ h.text = <<>> /\ h.letter = <<>>
  <2>1. AndThen(s, c) = s
    BY <1>2 DEF AndThen
  <2> QED BY <1>1, <1>2, <2>1 DEF Read
<1>3. ASSUME NEW d \in Letters, h.letter = MorseTable[d],
             h.silence = 4, s = Append(h.text, d)
      PROVE  /\ Read(HearSilence(h, short_gap), AndThen(s, c))
             /\ AndThen(s, c) \in Seq(STRING)
  <2>1. d \in STRING /\ d # Space
    BY LetterOfCode
  <2>2. s # <<>> /\ s[Len(s)] # Space
    BY <1>1, <1>3, <2>1, AppendType
  <2>3. AndThen(s, c) = Append(s, Space)
    BY <2>2 DEF AndThen
  <2>4. Append(s, Space) \in Seq(STRING)
    BY AppendType, TableAssumption
  <2>5. HearSilence(h, short_gap).silence >= 7
    BY <1>1, <1>3
  <2> QED BY <1>1, <1>3, <2>3, <2>4, <2>5 DEF Read
<1>4. ASSUME NEW d \in Letters, h.letter = MorseTable[d],
             h.silence >= 7, s = Append(Append(h.text, d), Space)
      PROVE  /\ Read(HearSilence(h, short_gap), AndThen(s, c))
             /\ AndThen(s, c) \in Seq(STRING)
  <2>1. Append(h.text, d) \in Seq(STRING) /\ Space \in STRING
    BY <1>1, LetterOfCode, AppendType, TableAssumption
  <2>2. s[Len(s)] = Space
    BY <1>4, <2>1, AppendType
  <2>3. AndThen(s, c) = s
    BY <2>2 DEF AndThen
  <2>4. HearSilence(h, short_gap).silence >= 7
    BY <1>1, <1>4
  <2> QED BY <1>1, <1>4, <2>3, <2>4 DEF Read
<1> QED BY <1>2, <1>3, <1>4 DEF Read

-----------------------------------------------------------------------------
(* The invariant *)

\* The loops are in the text and what is heard and said has its type.
MorseTypeOK ==
  /\ d_data \in Seq(STRING) /\ i \in 0..Len(d_data) /\ j \in Nat
  /\ heard \in Heard /\ said \in Seq(STRING)

\* Between two characters all that was said is read ...
Between == j = 0 => Read(heard, said)

\* ... and within one the elements sent so far are all of a letter.
Within ==
  j > 0 =>
    /\ i < Len(d_data) /\ j <= Len(Code(d_data[i + 1]))
    /\ heard.letter = SubSeq(Code(d_data[i + 1]), 1, j)
    /\ heard.text = said /\ heard.silence = 1

\* Where no two blanks meet, a tone is heard after a character's gap or a word's.
Spacing ==
  BlanksApart =>
    /\ heard.silences \subseteq {4, 7}
    /\ j = 0 => heard.silence = IF i = 0 THEN 0 ELSE IF Blank(d_data[i]) THEN 7 ELSE 4

MorseInv == MorseTypeOK /\ Between /\ Within /\ Spacing

\* A receiver that has heard nothing has read nothing.
LEMMA NothingRead == Nothing \in Heard /\ Read(Nothing, <<>>)
<1>1. <<>> \in Seq(STRING) /\ <<>> \in Seq({dih, dah})
  OBVIOUS
<1> QED BY <1>1 DEF Nothing, Heard, Read

LEMMA InitInv == Init => MorseInv
<1> SUFFICES ASSUME Init PROVE MorseInv
  OBVIOUS
<1>1. d_data = <<>> /\ i = 0 /\ j = 0 /\ heard = Nothing /\ said = <<>>
  BY DEF Init
<1>2. MorseTypeOK
  BY <1>1, NothingRead DEF MorseTypeOK
<1>3. Between /\ Within
  BY <1>1, NothingRead DEF Between, Within
<1>4. Spacing
  BY <1>1 DEF Spacing, Nothing
<1> QED BY <1>2, <1>3, <1>4 DEF MorseInv

LEMMA SetDataKeepsInv ==
  ASSUME NEW text \in Texts, SetData(text)
  PROVE  MorseInv'
<1>1. /\ d_data' = text /\ i' = 0 /\ j' = 0 /\ heard' = Nothing /\ said' = <<>>
      /\ text \in Seq(STRING)
  BY TextsAssumption DEF SetData, Cleared
<1>2. MorseTypeOK'
  BY <1>1, NothingRead DEF MorseTypeOK
<1>3. Between' /\ Within'
  BY <1>1, NothingRead DEF Between, Within
<1>4. Spacing'
  BY <1>1 DEF Spacing, Nothing
<1> QED BY <1>2, <1>3, <1>4 DEF MorseInv

LEMMA SendElementKeepsInv ==
  ASSUME MorseInv, SendElement
  PROVE  MorseInv'
<1> DEFINE code == Code(d_data[i + 1])
           e == code[j + 1]
           h == HearTone(heard, e)
<1>1. /\ d_data \in Seq(STRING) /\ i \in 0..Len(d_data) /\ j \in Nat
      /\ heard \in Heard /\ said \in Seq(STRING)
  BY DEF MorseInv, MorseTypeOK
<1>2. /\ i < Len(d_data) /\ j < Len(code) /\ j' = j + 1
      /\ heard' = HearSilence(h, intra_character_gap)
      /\ d_data' = d_data /\ i' = i /\ said' = said
  BY DEF SendElement, Translating, WithGap
<1>3. code \in Seq({dih, dah}) /\ Len(code) \in Nat
  BY CodeType
<1> HIDE DEF code
<1>4. e \in {dih, dah} /\ SubSeq(code, 1, j + 1) = Append(SubSeq(code, 1, j), e)
  <2>1. j \in 0..Len(code) - 1
    BY <1>1, <1>2, <1>3
  <2> QED BY <1>3, <2>1, Prefixes
<1> HIDE DEF e
<1>5. /\ h \in Heard /\ h.text = said /\ h.letter = SubSeq(code, 1, j + 1)
      /\ h.silence = 0
      /\ BlanksApart => h.silences \subseteq {4, 7}
  <2>1. CASE j = 0
    <3>1. Read(heard, said)
      BY <2>1 DEF MorseInv, Between
    <3>2. /\ h \in Heard /\ h.text = said /\ h.letter = <<e>> /\ h.silence = 0
          /\ h.silences \in {heard.silences, {}, heard.silences \cup {heard.silence}}
          /\ heard.silence = 0 => h.silences = heard.silences
      BY <1>1, <1>4, <3>1, FirstTone
    <3>3. <<e>> = SubSeq(code, 1, 1)
      <4>1. code # <<>>
        BY <1>2, <1>3, <2>1, NoLength
      <4> QED BY <1>3, <2>1, <4>1, FirstPrefix DEF e
    <3>4. ASSUME BlanksApart PROVE h.silences \subseteq {4, 7}
      <4>1. heard.silences \subseteq {4, 7} /\ heard.silence \in {0, 4, 7}
        BY <2>1, <3>4 DEF MorseInv, Spacing
      <4> QED BY <3>2, <4>1
    <3> QED BY <2>1, <3>2, <3>3, <3>4
  <2>2. CASE j > 0
    <3>1. /\ heard.letter = SubSeq(code, 1, j) /\ heard.text = said /\ heard.silence = 1
      BY <2>2 DEF MorseInv, Within, code
    <3>2. /\ h \in Heard /\ h.text = heard.text /\ h.letter = Append(heard.letter, e)
          /\ h.silence = 0 /\ h.silences = heard.silences
      <4>1. heard.silence <= 2
        BY <3>1
      <4> HIDE DEF h
      <4>2. /\ HearTone(heard, e) \in Heard /\ HearTone(heard, e).text = heard.text
            /\ HearTone(heard, e).letter = Append(heard.letter, e)
            /\ HearTone(heard, e).silence = 0
            /\ HearTone(heard, e).silences = heard.silences
        BY <1>1, <1>4, <4>1, ToneInLetter, Zenon
      <4> QED BY <4>2, Zenon DEF h
    <3>3. BlanksApart => heard.silences \subseteq {4, 7}
      BY DEF MorseInv, Spacing
    <3> QED BY <1>4, <3>1, <3>2, <3>3
  <2> QED BY <1>1, <2>1, <2>2
<1> HIDE DEF h
<1>6. /\ heard' \in Heard /\ heard'.text = said /\ heard'.letter = SubSeq(code, 1, j')
      /\ heard'.silence = 1 /\ heard'.silences = h.silences
  BY <1>2, <1>5, ElementGapHeard
<1>7. MorseTypeOK'
  BY <1>1, <1>2, <1>6 DEF MorseTypeOK
<1>8. Between' /\ Within'
  <2>1. j' # 0 /\ j' <= Len(code)
    BY <1>1, <1>2, <1>3
  <2>2. Code(d_data[i + 1])' = code
    BY <1>2 DEF code, Code
  <2> QED BY <1>2, <1>6, <2>1, <2>2 DEF Between, Within
<1>9. Spacing'
  <2>1. BlanksApart' <=> BlanksApart
    BY <1>2 DEF BlanksApart, Blank, Code
  <2>2. j' # 0
    BY <1>1, <1>2
  <2> QED BY <1>5, <1>6, <2>1, <2>2 DEF Spacing
<1> QED BY <1>7, <1>8, <1>9 DEF MorseInv

LEMMA InsertGapKeepsInv ==
  ASSUME MorseInv, InsertGap
  PROVE  MorseInv'
<1> DEFINE c == d_data[i + 1]
<1>1. /\ d_data \in Seq(STRING) /\ i \in 0..Len(d_data) /\ j \in Nat
      /\ heard \in Heard /\ said \in Seq(STRING)
  BY DEF MorseInv, MorseTypeOK
<1>2. /\ i < Len(d_data) /\ j = Len(Code(c)) /\ i' = i + 1 /\ j' = 0
      /\ heard' = HearSilence(heard, short_gap) /\ said' = AndThen(said, c)
      /\ d_data' = d_data
  BY DEF InsertGap, Translating
<1>3. /\ heard' \in Heard /\ heard'.silence = heard.silence + 3
      /\ heard'.silences = heard.silences /\ heard.silence \in Nat
  BY <1>1, <1>2, ShortGapHeard, HeardFields
<1>4. /\ Code(c) \in Seq({dih, dah}) /\ (Blank(c) <=> Len(Code(c)) = 0)
  BY CodeType
<1>5. ~Blank(c) => /\ heard.letter = Code(c) /\ heard.text = said
                   /\ heard.silence = 1
  <2>1. SUFFICES ASSUME ~Blank(c)
                 PROVE  heard.letter = Code(c) /\ heard.text = said /\ heard.silence = 1
    OBVIOUS
  <2>2. j > 0
    BY <1>1, <1>2, <1>4, <2>1
  <2>3. /\ heard.letter = SubSeq(Code(c), 1, j) /\ heard.text = said
        /\ heard.silence = 1
    BY <2>2 DEF MorseInv, Within
  <2> QED BY <1>2, <1>4, <2>3, WholePrefix
<1>6. Blank(c) => j = 0 /\ Read(heard, said)
  BY <1>2, <1>4 DEF MorseInv, Between
<1> HIDE DEF c
<1>7. Read(heard', said') /\ said' \in Seq(STRING)
  <2>1. CASE Blank(c)
    BY <1>1, <1>2, <1>6, <2>1, ReadBlank
  <2>2. CASE ~Blank(c)
    BY <1>1, <1>2, <1>5, <2>2, ReadLetter
  <2> QED BY <2>1, <2>2
<1>8. i' \in 1..Len(d_data)
  <2>1. Len(d_data) \in Nat
    BY <1>1, NoLength
  <2> QED BY <1>1, <1>2, <2>1
<1>9. MorseTypeOK'
  BY <1>1, <1>2, <1>3, <1>7, <1>8 DEF MorseTypeOK
<1>10. Between' /\ Within'
  BY <1>2, <1>7 DEF Between, Within
<1>11. Spacing'
  <2> SUFFICES ASSUME BlanksApart'
               PROVE  /\ heard'.silences \subseteq {4, 7}
                      /\ heard'.silence = IF Blank(c) THEN 7 ELSE 4
    <3>1. c = d_data'[i'] /\ i' # 0
      BY <1>1, <1>2 DEF c
    <3> QED BY <1>2, <3>1 DEF Spacing, Blank, Code
  <2>1. BlanksApart
    BY <1>2 DEF BlanksApart, Blank, Code
  <2>2. /\ heard.silences \subseteq {4, 7}
        /\ j = 0 => heard.silence = IF i = 0 THEN 0 ELSE IF Blank(d_data[i]) THEN 7 ELSE 4
    BY <2>1 DEF MorseInv, Spacing
  <2>3. CASE ~Blank(c)
    BY <1>3, <1>5, <2>2, <2>3
  <2>4. CASE Blank(c)
    <3>1. i # 0 /\ ~Blank(d_data[i])
      <4>1. i = 0 => ~Blank(c)
        <5>1. Len(d_data) > 0
          BY <1>1, <1>2
        <5>2. d_data # <<>>
          BY <1>1, <5>1, NoLength
        <5> QED BY <2>1, <5>2 DEF BlanksApart, c
      <4>2. i # 0 => ~Blank(d_data[i])
        <5>1. ASSUME i # 0 PROVE i \in 1..Len(d_data) - 1
          <6>1. Len(d_data) \in Nat
            BY <1>1, NoLength
          <6> QED BY <1>1, <1>2, <5>1, <6>1
        <5> QED BY <2>1, <2>4, <5>1 DEF BlanksApart, c
      <4> QED BY <2>4, <4>1, <4>2
    <3>2. heard.silence = 4
      BY <1>6, <2>2, <2>4, <3>1
    <3> QED BY <1>3, <2>2, <2>4, <3>2
  <2> QED BY <2>3, <2>4
<1> QED BY <1>9, <1>10, <1>11 DEF MorseInv

LEMMA FinishKeepsInv ==
  ASSUME MorseInv, Finish
  PROVE  MorseInv'
<1>1. /\ d_data \in Seq(STRING) /\ i \in 0..Len(d_data) /\ j \in Nat
      /\ heard \in Heard /\ said \in Seq(STRING)
  BY DEF MorseInv, MorseTypeOK
<1>2. /\ i = Len(d_data) /\ heard' = HearSilence(heard, Terminator)
      /\ d_data' = d_data /\ i' = i /\ j' = j /\ said' = said
  BY DEF Finish
<1>3. /\ heard' \in Heard /\ heard'.text = heard.text /\ heard'.letter = heard.letter
      /\ heard'.silence = heard.silence /\ heard'.silences = heard.silences
  <2>1. heard.silence \in Nat /\ heard.silence + 0 = heard.silence
    BY <1>1, HeardFields
  <2> QED BY <1>1, <1>2, <2>1, TerminatorHeard
<1>4. MorseTypeOK'
  BY <1>1, <1>2, <1>3 DEF MorseTypeOK
<1>5. j = 0
  <2>1. ~(j > 0)
    BY <1>1, <1>2 DEF MorseInv, Within
  <2> QED BY <1>1, <2>1
<1>6. Between' /\ Within'
  <2>1. Read(heard, said)
    BY <1>5 DEF MorseInv, Between
  <2>2. Read(heard', said')
    BY <1>2, <1>3, <2>1 DEF Read
  <2> QED BY <1>2, <1>5, <2>2 DEF Between, Within
<1>7. Spacing'
  BY <1>2, <1>3 DEF MorseInv, Spacing, BlanksApart, Blank, Code
<1> QED BY <1>4, <1>6, <1>7 DEF MorseInv

LEMMA NextKeepsInv == MorseInv /\ [Next]_vars => MorseInv'
<1> SUFFICES ASSUME MorseInv, [Next]_vars PROVE MorseInv'
  OBVIOUS
<1>1. ASSUME NEW text \in Texts, SetData(text) PROVE MorseInv'
  BY <1>1, SetDataKeepsInv
<1>2. CASE SendElement
  BY <1>2, SendElementKeepsInv
<1>3. CASE InsertGap
  BY <1>3, InsertGapKeepsInv
<1>4. CASE Finish
  BY <1>4, FinishKeepsInv
<1>5. CASE UNCHANGED vars
  BY <1>5 DEF vars, loopVars, MorseInv, MorseTypeOK, Between, Within, Spacing,
              BlanksApart, Blank, Code
<1> QED BY <1>1, <1>2, <1>3, <1>4, <1>5 DEF Next

-----------------------------------------------------------------------------
(* The properties *)

LEMMA InvReadsBack == MorseInv => ReadBack
<1> SUFFICES ASSUME MorseInv, j = 0 PROVE EndLetter(heard) = said
  BY DEF ReadBack
<1>1. heard \in Heard /\ said \in Seq(STRING) /\ Read(heard, said)
  BY DEF MorseInv, MorseTypeOK, Between
<1> QED BY <1>1, ReadIsHeard

LEMMA InvWordsApart == MorseInv => WordsApart
<1> SUFFICES ASSUME MorseInv, BlanksApart,
                    NEW units \in heard.silences, TakenForWordGap(units)
             PROVE  units = long_gap.units
  BY DEF WordsApart
<1>1. units \in {4, 7} /\ units >= 5
  BY DEF MorseInv, Spacing, TakenForWordGap
<1> QED BY <1>1, Elements

LEMMA Invariance == Spec => []MorseInv
<1> QED BY InitInv, NextKeepsInv, PTL DEF Spec

\* Wherever translate_data is between two characters, and at its end, a receiver has read
\* exactly the text so far, whatever the text, for every table that translate_letter can use.
THEOREM TextReadBack == Spec => []ReadBack
BY Invariance, InvReadsBack, PTL

\* insert_gap's claim: a space between two words makes the gap between them a long_gap.
THEOREM WordsLongGapApart == Spec => []WordsApart
BY Invariance, InvWordsApart, PTL

=============================================================================
