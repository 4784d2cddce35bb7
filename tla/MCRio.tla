------------------------------- MODULE MCRio -------------------------------
EXTENDS Rio
MCNL == {2, 3, 6}
=============================================================================
