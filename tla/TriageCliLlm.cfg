\* A CLI run with an LLM fills the cache a bare heuristic scan reads.
CONSTANTS
  r1 = r1
  r2 = r2
  Runs = {r1, r2}
  NumCandidates = 1
  LLMs = {"ollama"}
  Timed = {"ollama"}
  AutoChain <- MCShortChain
  Entries = {"cli"}
  LLMVerdicts = {"likely_safe"}
  LLMConfidences = {9}
  Errors = {"none"}
  SourceEdits = FALSE
  TTL = 1
  MaxNow = 2
SPECIFICATION Spec
INVARIANTS
  HeuristicReproducible
