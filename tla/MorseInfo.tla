----------------------------- MODULE MorseInfo -----------------------------
(***************************************************************************)
(* The elements of Morse code (the values that the constructor in          *)
(* sstvi_morse_code_state_machine.cc gives to d_info) and the table of     *)
(* src/src/lib/sstvi_morse_code_info.h.                                    *)
(*                                                                         *)
(* Durations are in units, d_info.unit = 1200 ms / wpm.                    *)
(***************************************************************************)
EXTENDS Integers, TLC

dih == [tone |-> TRUE, units |-> 1]
dah == [tone |-> TRUE, units |-> 3]
intra_character_gap == [tone |-> FALSE, units |-> 1]
short_gap == [tone |-> FALSE, units |-> 3]
long_gap == [tone |-> FALSE, units |-> 7]
Terminator == [tone |-> FALSE, units |-> 0]

Space == " "

CodeTable ==
  LET E == dih  T == dah IN [
    A |-> <<E,T>>,     B |-> <<T,E,E,E>>, C |-> <<T,E,T,E>>, D |-> <<T,E,E>>,
    E |-> <<E>>,       F |-> <<E,E,T,E>>, G |-> <<T,T,E>>,   H |-> <<E,E,E,E>>,
    I |-> <<E,E>>,     J |-> <<E,T,T,T>>, K |-> <<T,E,T>>,   L |-> <<E,T,E,E>>,
    M |-> <<T,T>>,     N |-> <<T,E>>,     O |-> <<T,T,T>>,   P |-> <<E,T,T,E>>,
    Q |-> <<T,T,E,T>>, R |-> <<E,T,E>>,   S |-> <<E,E,E>>,   T |-> <<T>>,
    U |-> <<E,E,T>>,   V |-> <<E,E,E,T>>, W |-> <<E,T,T>>,   X |-> <<T,E,E,T>>,
    Y |-> <<T,E,T,T>>, Z |-> <<T,T,E,E>>]
  @@ Space :> <<>>
  @@ "1" :> <<E,T,T,T,T>> @@ "2" :> <<E,E,T,T,T>> @@ "3" :> <<E,E,E,T,T>>
  @@ "4" :> <<E,E,E,E,T>> @@ "5" :> <<E,E,E,E,E>> @@ "6" :> <<T,E,E,E,E>>
  @@ "7" :> <<T,T,E,E,E>> @@ "8" :> <<T,T,T,E,E>> @@ "9" :> <<T,T,T,T,E>>
  @@ "0" :> <<T,T,T,T,T>> @@ "/" :> <<T,E,E,T,E>> @@ "*" :> <<E,T,E,T,E>>
  @@ "." :> <<E,T,E,T,E,T>> @@ "-" :> <<T,E,E,E,E,T>> @@ "," :> <<T,T,E,E,T,T>>
  @@ "?" :> <<E,E,T,T,E,E>>

=============================================================================
