----------------------------- MODULE MCPicture -----------------------------
\* The modes of a JPEG file (grey, colour, CMYK) and other orders of the colours.
EXTENDS Picture

MCModes ==
  {<<"R", "G", "B">>, <<"R", "B", "G">>, <<"G", "R", "B">>, <<"B", "G", "R">>,
   <<"L">>, <<"C", "M", "Y", "K">>}

RGB == {<<"R", "G", "B">>}

=============================================================================
