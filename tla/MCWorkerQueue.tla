--------------------------- MODULE MCWorkerQueue ---------------------------
(***************************************************************************)
(* One record, of any of the four queues, and two or three workers for     *)
(* TLC, two of them passes of one process.                                 *)
(***************************************************************************)
EXTENDS WorkerQueue

CONSTANTS w1, w2, w3,   \* workers
          p1, p2        \* processes

\* The cycles of p1 overlap: w1 and w2 are passes of it.  w3 is the pass of p2.
OverlappingCycles == [w \in Worker |-> IF w = w3 THEN p2 ELSE p1]
=============================================================================
