--------------------------- MODULE MCLlamaServer ---------------------------
(***************************************************************************)
(* TLC instances of LlamaServer.                                           *)
(***************************************************************************)
EXTENDS LlamaServer

\* WedgeEnds and DeadNotLoaded are settled as soon as overlap = 1, for good: the
\* run that checks them need not go on from there.
Serial == overlap = 0
=============================================================================
