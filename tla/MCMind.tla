------------------------------- MODULE MCMind -------------------------------
(***************************************************************************)
(* Texts for Mind: every sequence of up to four symbols, each long enough  *)
(* for a tag inside another's token.                                       *)
(***************************************************************************)
EXTENDS Mind

MCSymbols == {"<", ">", "ACT:MEMORY_STORE", "ACT:DISPLAY_CLEAR",
              NoData, BadTone}
MCTexts == UNION {[1 .. n -> MCSymbols] : n \in 1 .. 4}
MCMemories == Contents
=============================================================================
