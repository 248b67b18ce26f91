--------------------------- MODULE MCProverManager ---------------------------
\* Instances of ProverManager, given by their configurations.
EXTENDS ProverManager
SomeB(x, y) == <<5, 7, 11, 13, 19, 23>>[((x + 7 * y) % 6) + 1]
=============================================================================
