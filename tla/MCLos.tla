-------------------------------- MODULE MCLos --------------------------------
EXTENDS Los

\* Above the surface on three sides, and on it.
Places == {<<2, 0, 0>>, <<-1, 2, 1>>, <<0, -2, 1>>, <<1, 0, 0>>}

MCFile == {[size |-> 2, carrier |-> <<p, q>>, craft |-> <<<<r, s>>>>] :
             p, q, r, s \in Places}
=============================================================================
