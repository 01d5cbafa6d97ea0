\* Two built-in detectors fire on one line, one of them mitigated.
CONSTANTS
  site1 = site1
  site2 = site2
  Sites = {site1}
  EngineSites = {site1}
  Files = {"file1"}
  FileOf <- MCOneFile
  CocciRules <- MCNoRules
  SemgrepRules = {}
  Visits <- MCTwoVisits
  CVEs = {"CVE-2022-0847", "CVE-2022-2590"}
  NoCve = NoCve
  CveOf <- MCCveOf
  Recognised <- MCRecognised
  MaxHits = 0
SPECIFICATION Spec
INVARIANTS
  LiveFindingSurvives
CHECK_DEADLOCK FALSE
