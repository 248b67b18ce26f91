-------------------------- MODULE MCSquarePipeline --------------------------
\* Instances of SquarePipeline, given by Square.cfg.
EXTENDS SquarePipeline
=============================================================================
