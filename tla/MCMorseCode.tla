---------------------------- MODULE MCMorseCode ----------------------------
\* Every character of the table alone, and every text of up to three of a few
\* characters, with spaces and one that is not in the table.
EXTENDS MorseCode, SequencesExt

MCTexts ==
  {<<c>> : c \in DOMAIN CodeTable}
    \cup (BoundedSeq({"E", "T", "N", "?", " ", "$"}, 3) \ {<<>>})

=============================================================================
