----------------------------- MODULE MCSession -----------------------------
\* Instances of Session, given by their configurations.
EXTENDS Session
=============================================================================
