\* The backend the web UI reports for the one LLM there is, or for auto.
CONSTANTS
  r1 = r1
  r2 = r2
  Runs = {r1}
  NumCandidates = 1
  LLMs = {"gemini"}
  Timed = {}
  AutoChain <- MCGeminiChain
  Entries = {"web"}
  LLMVerdicts = {"likely_safe"}
  LLMConfidences = {9}
  Errors = {"none"}
  SourceEdits = FALSE
  TTL = 1
  MaxNow = 2
SPECIFICATION Spec
INVARIANTS
  EffectiveBackendProduced
