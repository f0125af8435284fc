----------------------------- MODULE MCServing ------------------------------
EXTENDS Serving, FiniteSetsExt

CONSTANTS r1, r2

MCMaxOutputs == [r \in {r1, r2} |-> IF r = r1 THEN 2 ELSE 1]

(* Any two calls at a time: two requests, or a request and a scrape. *)
MCWorkloads == kSubset(2, Calls)
=============================================================================
