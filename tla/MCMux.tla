------------------------------- MODULE MCMux -------------------------------
\* Instances of Mux for TLC: three inputs (the default tone, one constant and
\* one message source), a request for each of the last two, and one for an input
\* that does not exist.
EXTENDS Mux

MCRequests == {[port |-> 1, length |-> 2], [port |-> 2, length |-> 3],
               [port |-> 3, length |-> 1]}

=============================================================================
