--------------------------- MODULE MCGenericXmit ---------------------------
EXTENDS GenericXmit

CONSTANTS s1, s2

TwoSkbs == {s1, s2}
=============================================================================
