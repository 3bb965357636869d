---------------------------- MODULE MCModulation ----------------------------
\* Symbols below, between and above the distance of two samples (3 or 4), frequencies on
\* both sides of the base frequency.
EXTENDS Modulation

MCSymbols == [freq : {-13, 9}, duration : {1, 4, 5, 8}]

=============================================================================
