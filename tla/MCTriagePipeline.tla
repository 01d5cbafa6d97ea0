-------------------------- MODULE MCTriagePipeline --------------------------
(* Instances of TriagePipeline for TLC: one or two LLM backends, in the  *)
(* order in which the auto chain tries them.                                *)
EXTENDS TriagePipeline, TLC

CONSTANTS r1, r2

MCShortChain == <<"ollama", "heuristic">>
MCGeminiChain == <<"gemini", "heuristic">>
MCAutoChain == <<"ollama", "gemini", "heuristic">>

\* Confidences as a completion gives them, below zero, zero and in range.
MCConfidences == {-1, 9}
MCOutOfRange == {-1}

RunSymmetry == Permutations(Runs)
=============================================================================
