\* Two runs race on one row of the cache; clears, expiry, source edits.
CONSTANTS
  r1 = r1
  r2 = r2
  Runs = {r1, r2}
  NumCandidates = 1
  LLMs = {"ollama"}
  Timed = {"ollama"}
  AutoChain <- MCShortChain
  Entries = {"cli", "web"}
  LLMVerdicts = {"likely_safe", "likely_race"}
  LLMConfidences <- MCConfidences
  Errors = {"none"}
  SourceEdits = TRUE
  TTL = 1
  MaxNow = 2
SPECIFICATION Spec
SYMMETRY RunSymmetry
INVARIANTS
  TypeOK
  CacheProvenance
  DemoStaysOffline
