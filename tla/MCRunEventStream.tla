-------------------------- MODULE MCRunEventStream --------------------------
\* RunEventStream as TLC checks it, with the constants of the cfg.
EXTENDS RunEventStream, TLC
=============================================================================
