\* Files of up to six lines and three functions for the callers, of four for
\* the windows, of five for the hop; some versions; two trees of up to three
\* candidates; every result with some confidences.
CONSTANTS
  f1 = f1
  f2 = f2
  f3 = f3
  k1 = k1
  k2 = k2
  h1 = h1
  h2 = h2
  Names = {f1, f2, f3}
  Locks = {"mutex_lock", "spin_lock"}
  Reach = 3
  Depth = 3
  MaxLines = 6
  Versions <- MCVersions
  Junk = Junk
  Base = 3
  Keys = {k1, k2}
  MaxFindings = 3
  Confidences = {0, 60, 70, 100}
  WindowLines <- MCWindowLines
  WindowLength = 4
  ConfirmSpan <- MCConfirmSpan
  RequireSpan <- MCRequireSpan
  GuardSpan <- MCGuardSpan
  Helpers = {h1, h2}
  TaintLines <- MCTaintLines
  TaintLength = 5
  Hop = 3
  BodyCap = 3
SPECIFICATION Spec
SYMMETRY NameSymmetry
INVARIANTS
  WalkMatchesChains
  NameIsTaken
  AffectedIsRange
  DiffClassifies
  ScoreKeepsOrder
  JudgedByOwnBranch
  TaintMatchesBody
