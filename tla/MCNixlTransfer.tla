--------------------------- MODULE MCNixlTransfer ---------------------------
EXTENDS NixlTransfer

CONSTANTS r1, r2

(* 2 ranks read by 3 and 3 by 2, where neither size divides the other, and *)
(* two requests over one rank, on a reliable network; a rank read by 2,    *)
(* and latents read from the first of 2, with faults.                      *)
MCTopologies ==
    {[ptp |-> 2, ctp |-> 3, heads |-> 6, reqs |-> {r1}, faulty |-> FALSE],
     [ptp |-> 3, ctp |-> 2, heads |-> 6, reqs |-> {r1}, faulty |-> FALSE],
     [ptp |-> 1, ctp |-> 1, heads |-> 1, reqs |-> {r1, r2}, faulty |-> FALSE],
     [ptp |-> 1, ctp |-> 2, heads |-> 2, reqs |-> {r1}, faulty |-> TRUE],
     [ptp |-> 2, ctp |-> 1, heads |-> 0, reqs |-> {r1}, faulty |-> TRUE]}
=============================================================================
