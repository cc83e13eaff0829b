--------------------------- MODULE MCIRIGBConfig ----------------------------
EXTENDS IRIGBConfig

\* A -100 % tolerance (1.0 + tolerance = 0), none, and the usual 10 %.
MCTols == {-100, 0, 10}
=============================================================================
