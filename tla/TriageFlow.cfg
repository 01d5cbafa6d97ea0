\* Two web scans walk the auto chain or one they name, and its LLMs fail.
CONSTANTS
  r1 = r1
  r2 = r2
  Runs = {r1, r2}
  NumCandidates = 2
  LLMs = {"ollama", "gemini"}
  Timed = {"ollama"}
  AutoChain <- MCAutoChain
  Entries = {"web"}
  LLMVerdicts = {"likely_safe"}
  LLMConfidences = {9}
  Errors = {"refused", "timeout"}
  SourceEdits = FALSE
  TTL = 0
  MaxNow = 0
SPECIFICATION Spec
INVARIANTS
  FallbackExplained
  WarningsDistinct
  ExplicitBackendReported
PROPERTIES
  ImplementsOrderedTriage
  EveryRunStops
CHECK_DEADLOCK FALSE
