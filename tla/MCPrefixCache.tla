--------------------------- MODULE MCPrefixCache ----------------------------
EXTENDS PrefixCache

(* Two-token blocks: partial last blocks, growth across a block boundary,  *)
(* and a first block common to both.                                       *)
MCReqs == {"r1", "r2"}

MCPrompt == [r \in Reqs |-> CASE r = "r1" -> <<1, 1, 2>>
                              [] r = "r2" -> <<1, 1, 1, 1>>]
=============================================================================
