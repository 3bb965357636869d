--------------------------- MODULE MCAudioServer ---------------------------
\* audio_server with two message sources, one constant source and the tone.
EXTENDS AudioServer

MCConstLength == (0 :> 1) @@ (3 :> 2)

=============================================================================
