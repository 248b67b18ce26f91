----------------------------- MODULE MCHwProof -----------------------------
\* Instances of HwProof, given by their configurations.
EXTENDS HwProof
=============================================================================
