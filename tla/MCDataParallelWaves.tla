------------------------ MODULE MCDataParallelWaves ------------------------
(* API servers and requests of a small data-parallel deployment.           *)
EXTENDS DataParallelWaves

CONSTANTS c1, c2, r1, r2, r3
=============================================================================
