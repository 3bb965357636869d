------------------------------ MODULE MCBeacon ------------------------------
\* The beacon with a pause of one item, pictures of two, a Morse signal of two
\* and a tone of one; the ids are those add_source() returns in beacon.py.
EXTENDS Beacon

MCConstLength == (0 :> 1) @@ (2 :> 2)
MCSignals == {Pause, Pause + Image}

=============================================================================
