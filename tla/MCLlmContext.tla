---------------------------- MODULE MCLlmContext ----------------------------
(***************************************************************************)
(* A working memory of 16 tokens: a compaction keeps 12, a feed brings at  *)
(* most 2, a thought is longer than the margin, and as in llm.c a batch is *)
(* smaller than what a compaction keeps.                                   *)
(***************************************************************************)
EXTENDS LlmContext

MCPieceLens == {0, 1, 3}
=============================================================================
