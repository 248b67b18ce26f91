----------------------------- MODULE MCHwClient -----------------------------
\* Model values for the hardware client: the engines in use.
EXTENDS HwClient
FirstTwo == {1, 2}
=============================================================================
