--------------------------- MODULE AnalysesProofs ---------------------------
(* Proofs about the analyses: versions, scores, the windows of the          *)
(* detectors, the comparison of two trees, the walk over the callers and    *)
(* the hop into a helper.                                                   *)
EXTENDS VersionTracker, Score, DetectorWindow, DiffMode, CallerLock, Taint,
        FiniteSetTheorems, InductionFacts

-----------------------------------------------------------------------------
(* Versions compare as the numbers they are the digits of.                  *)

Triples == [1 .. 3 -> 0 .. Base - 1]

Number(t) == (t[1] * Base + t[2]) * Base + t[3]

\* _ver yields three numbers for any version.
LEMMA VerType ==
  ASSUME NEW v \in Versions
  PROVE  Ver(v) \in Triples
<1>1. v \in Seq(0 .. Base - 1 \union {Junk})
  BY VersionsAssumption
<1>2. \A i \in DOMAIN v : v[i] # Junk => v[i] \in 0 .. Base - 1
  BY <1>1
<1>3. 0 \in 0 .. Base - 1
  BY BaseAssumption
<1> QED BY <1>2, <1>3 DEF Ver, Triples

\* One digit in a higher place outweighs all lower ones.
LEMMA Digit ==
  ASSUME NEW x \in Nat, NEW y \in Nat, x > y,
         NEW p \in 0 .. Base - 1, NEW q \in 0 .. Base - 1
  PROVE  x * Base + p > y * Base + q
<1> DEFINE d == x - (y + 1)
<1>1. d \in Nat /\ x = y + 1 + d /\ Base \in Nat
  BY BaseAssumption
<1> HIDE DEF d
<1>2. x * Base = y * Base + Base + d * Base
  BY <1>1
<1>3. d * Base \in Nat /\ y * Base \in Nat
  BY <1>1
<1> QED BY <1>1, <1>2, <1>3

LEMMA OrderIsNumeric ==
  ASSUME NEW a \in Triples, NEW b \in Triples
  PROVE  AtLeast(a, b) <=> Number(b) <= Number(a)
<1> DEFINE high(t) == t[1] * Base + t[2]
<1>1. \A t \in Triples : t[1] \in 0 .. Base - 1 /\ t[2] \in 0 .. Base - 1 /\ t[3] \in 0 .. Base - 1
  BY DEF Triples
<1>2. Base \in Nat
  BY BaseAssumption
<1>3. \A t \in Triples : t[1] * Base \in Nat
  BY <1>1, <1>2
<1>4. \A t \in Triples : high(t) \in Nat
  BY <1>1, <1>3
<1>5. \A t, u \in Triples : t[1] > u[1] => high(t) > high(u)
  BY <1>1, Digit
<1>6. \A t, u \in Triples : t[1] = u[1] /\ t[2] > u[2] => high(t) > high(u)
  BY <1>1, <1>3
<1>7. \A t, u \in Triples : t[1] = u[1] /\ t[2] = u[2] => high(t) = high(u)
  OBVIOUS
<1> HIDE DEF high
<1>8. \A t \in Triples : high(t) * Base \in Nat
  BY <1>2, <1>4
<1>9. \A t, u \in Triples : high(t) > high(u) => high(t) * Base + t[3] > high(u) * Base + u[3]
  BY <1>1, <1>4, Digit
<1>10. \A t \in Triples : Number(t) = high(t) * Base + t[3]
  BY DEF high, Number
<1> QED BY <1>1, <1>4, <1>5, <1>6, <1>7, <1>8, <1>9, <1>10 DEF AtLeast

\* An entry's bounds and its fix are versions, and so is the kernel.
LEMMA VersionShape ==
  VersionSpec => [](entry \in Entries /\ kernel \in Versions)
<1>1. VersionInit => entry \in Entries /\ kernel \in Versions
  BY DEF VersionInit
<1>2. entry \in Entries /\ kernel \in Versions /\ [VersionNext]_<<entry, kernel>>
        => (entry \in Entries /\ kernel \in Versions)'
  BY DEF VersionNext, RenderFor
<1> QED BY <1>1, <1>2, PTL DEF VersionSpec

LEMMA RangeIsNumeric ==
  ASSUME entry \in Entries, kernel \in Versions
  PROVE  AffectedIsRange
<1>1. \A v \in Versions : Rank(v) = Number(Ver(v))
  BY DEF Rank, Number
<1>2. \A v, w \in Versions : AtLeast(Ver(v), Ver(w)) <=> Rank(w) <= Rank(v)
  BY <1>1, VerType, OrderIsNumeric
<1>3. \A v \in Versions : Rank(v) \in Int
  <2> SUFFICES ASSUME NEW v \in Versions PROVE Rank(v) \in Int
    OBVIOUS
  <2>1. Ver(v) \in Triples
    BY VerType
  <2>2. Ver(v)[1] \in Nat /\ Ver(v)[2] \in Nat /\ Ver(v)[3] \in Nat /\ Base \in Nat
    BY <2>1, BaseAssumption DEF Triples
  <2>3. Ver(v)[1] * Base + Ver(v)[2] \in Nat
    BY <2>2
  <2> QED BY <2>2, <2>3 DEF Rank
<1>4. entry.low \in Versions /\ entry.high \in Versions /\ entry.fixed \subseteq Versions
  BY DEF Entries
<1> QED BY <1>2, <1>3, <1>4 DEF AffectedIsRange, KernelIsAffected, IsAffected

\* A kernel is affected just if its version is in the entry's range and before
\* the fix, for any set of versions, however many parts they have.
THEOREM RangeCorrect == VersionSpec => []AffectedIsRange
BY VersionShape, RangeIsNumeric, PTL

-----------------------------------------------------------------------------
(* Scores keep the order of the evidence.                                   *)

LEMMA ClampFacts ==
  ASSUME NEW m \in Int, NEW n \in Int
  PROVE  /\ Clamp(n) \in 0 .. One
         /\ m <= n => Clamp(m) <= Clamp(n)
         /\ n > 0 => Clamp(n) > 0
BY DEF Clamp, One

LEMMA Amounts ==
  ASSUME NEW signals
  PROVE  /\ Raised(signals) \in Nat /\ Lowered(signals) \in Nat
         /\ signals \intersect Protections = {} => Lowered(signals) = 0
<1>1. signals \intersect Protections = {} =>
        /\ "caller_lock_held" \notin signals
        /\ "annotation_protected" \notin signals
        /\ "barrier_protected" \notin signals
  BY DEF Protections
<1> QED BY <1>1 DEF Raised, Lowered, If

LEMMA EscalationRaises ==
  ASSUME NEW signals, NEW s \in Escalations
  PROVE  /\ Raised(signals \union {s}) >= Raised(signals)
         /\ Lowered(signals \union {s}) = Lowered(signals)
<1> DEFINE more == signals \union {s}
<1>1. \A p \in Protections : p \in more <=> p \in signals
  BY DEF Escalations, Protections
<1>2. \A e \in Escalations : e \in signals => e \in more
  OBVIOUS
<1> HIDE DEF more
<1>3. Lowered(more) = Lowered(signals)
  BY <1>1 DEF Lowered, If, Protections
<1>4. Raised(more) >= Raised(signals)
  BY <1>1, <1>2 DEF Raised, If, Protections, Escalations
<1> QED BY <1>3, <1>4 DEF more

LEMMA ProtectionLowers ==
  ASSUME NEW signals, NEW s \in Protections
  PROVE  /\ Raised(signals \union {s}) <= Raised(signals)
         /\ Lowered(signals \union {s}) >= Lowered(signals)
<1> DEFINE more == signals \union {s}
<1>1. \A p \in Protections : p \in signals => p \in more
  OBVIOUS
<1>2. \A e \in Escalations : e \in signals <=> e \in more
  BY DEF Escalations, Protections
<1> HIDE DEF more
<1>3. Lowered(more) >= Lowered(signals)
  BY <1>1 DEF Lowered, If, Protections
<1>4. Raised(more) <= Raised(signals)
  BY <1>1, <1>2 DEF Raised, If, Protections, Escalations
<1> QED BY <1>3, <1>4 DEF more

\* The weight of a verdict: nothing for an exonerated one, something for any
\* other, and the more the surer.
LEMMA Weights ==
  ASSUME NEW r \in Results
  PROVE  /\ Weighted(r) \in Nat
         /\ VerdictBase(r.verdict) > 0 <=> r.verdict # "likely_safe"
         /\ Weighted(r) > 0 <=> r.verdict # "likely_safe"
<1>1. r.confidence \in 0 .. 100 /\ r.verdict \in Verdicts
  BY ConfidencesAssumption DEF Results
<1>2. PICK n \in 0 .. 100 : n = r.confidence
  BY <1>1
<1>3. \/ r.verdict = "likely_race"  /\ Weighted(r) = 50 * (100 + n)
      \/ r.verdict = "needs_review" /\ Weighted(r) = 25 * (100 + n)
      \/ r.verdict = "triage_error" /\ Weighted(r) = 20 * (100 + n)
      \/ r.verdict = "likely_safe"  /\ Weighted(r) = 0
  BY <1>1, <1>2 DEF Weighted, VerdictBase, Verdicts
<1>4. Weighted(r) \in Nat
  BY <1>3
<1>5. Weighted(r) > 0 <=> r.verdict # "likely_safe"
  BY <1>3
<1>6. VerdictBase(r.verdict) > 0 <=> r.verdict # "likely_safe"
  BY <1>1 DEF VerdictBase, Verdicts
<1> QED BY <1>4, <1>5, <1>6

LEMMA WeightsGrow ==
  ASSUME NEW r \in Results, NEW q \in Results,
         r.verdict = q.verdict, r.confidence <= q.confidence
  PROVE  Weighted(r) <= Weighted(q)
<1>1. PICK m \in 0 .. 100, n \in 0 .. 100 : m = r.confidence /\ n = q.confidence
  BY ConfidencesAssumption DEF Results
<1>2. PICK b \in 0 .. 10 : b = VerdictBase(r.verdict)
  BY DEF Results, Verdicts, VerdictBase
<1>3. Weighted(r) = 5 * b * (100 + m) /\ Weighted(q) = 5 * b * (100 + n)
  BY <1>1, <1>2 DEF Weighted
<1>4. b * m <= b * n
  BY <1>1
<1> QED BY <1>3, <1>4

LEMMA ScoreOf ==
  ASSUME NEW r \in Results
  PROVE  /\ r.verdict = "likely_safe" => Score(r) = Clamp(0)
         /\ r.verdict # "likely_safe" =>
              Score(r) = Clamp(Weighted(r) + Raised(r.signals) - Lowered(r.signals))
<1>1. r.verdict = "likely_safe" => Weighted(r) = 0
  BY Weights
<1> QED BY <1>1, Weights DEF Score

LEMMA ScoreShape == ScoreSpec => [](result \in Results)
<1>1. ScoreInit => result \in Results
  BY DEF ScoreInit
<1>2. result \in Results /\ [MarkMissing]_result => (result \in Results)'
  BY DEF MarkMissing, Results, Escalations
<1> QED BY <1>1, <1>2, PTL DEF ScoreSpec

LEMMA OrderKept ==
  ASSUME result \in Results
  PROVE  ScoreKeepsOrder
<1> DEFINE sum(r) == Weighted(r) + Raised(r.signals) - Lowered(r.signals)
<1>1. \A r \in Results : sum(r) \in Int
  BY Weights, Amounts
<1>2. ASSUME NEW r \in Results, NEW q \in Results,
             r.verdict = q.verdict, sum(r) <= sum(q)
      PROVE  Score(r) <= Score(q)
  <2>1. sum(r) \in Int /\ sum(q) \in Int
    BY <1>1
  <2>2. \/ Score(r) = Clamp(sum(r)) /\ Score(q) = Clamp(sum(q))
        \/ Score(r) = Clamp(0) /\ Score(q) = Clamp(0)
    BY <1>2, ScoreOf
  <2> HIDE DEF sum
  <2>3. Clamp(sum(r)) <= Clamp(sum(q))
    BY <1>2, <2>1, ClampFacts
  <2>4. Clamp(0) <= Clamp(0)
    BY ClampFacts
  <2> QED BY <2>2, <2>3, <2>4
<1>3. Score(result) \in 0 .. One
  <2>1. PICK n \in Int : Score(result) = Clamp(n)
    BY <1>1, ScoreOf
  <2> QED BY <2>1, ClampFacts
<1>4. ASSUME NEW s \in Escalations \union Protections
      PROVE  /\ With(result, s) \in Results
             /\ With(result, s).verdict = result.verdict
             /\ With(result, s).signals = result.signals \union {s}
             /\ Weighted(With(result, s)) = Weighted(result)
  BY DEF With, Results, Weighted
<1>5. \A r \in Results :
        Weighted(r) \in Int /\ Raised(r.signals) \in Int /\ Lowered(r.signals) \in Int
  BY Weights, Amounts
<1>6. \A s \in Escalations : Score(With(result, s)) >= Score(result)
  <2> SUFFICES ASSUME NEW s \in Escalations
               PROVE  Score(result) <= Score(With(result, s))
    BY <1>2, <1>3, <1>4
  <2>1. /\ Raised(With(result, s).signals) >= Raised(result.signals)
        /\ Lowered(With(result, s).signals) = Lowered(result.signals)
    BY <1>4, EscalationRaises
  <2>2. sum(result) <= sum(With(result, s))
    BY <1>4, <1>5, <2>1
  <2> QED BY <2>2, <1>2, <1>4
<1>7. \A s \in Protections : Score(With(result, s)) <= Score(result)
  <2> SUFFICES ASSUME NEW s \in Protections
               PROVE  Score(With(result, s)) <= Score(result)
    OBVIOUS
  <2>1. /\ Raised(With(result, s).signals) <= Raised(result.signals)
        /\ Lowered(With(result, s).signals) >= Lowered(result.signals)
    BY <1>4, ProtectionLowers
  <2>2. sum(With(result, s)) <= sum(result)
    BY <1>4, <1>5, <2>1
  <2> QED BY <2>2, <1>2, <1>4
<1>8. \A c \in Confidences :
        c >= result.confidence =>
          Score([result EXCEPT !.confidence = c]) >= Score(result)
  <2> SUFFICES ASSUME NEW c \in Confidences, c >= result.confidence
               PROVE  Score(result) <= Score([result EXCEPT !.confidence = c])
    OBVIOUS
  <2> DEFINE surer == [result EXCEPT !.confidence = c]
  <2>1. /\ surer \in Results /\ surer.verdict = result.verdict
        /\ surer.signals = result.signals /\ surer.confidence = c
    BY DEF Results
  <2>2. c \in Int /\ result.confidence \in Int
    <3>1. result.confidence \in Confidences
      BY DEF Results
    <3>2. c \in 0 .. 100 /\ result.confidence \in 0 .. 100
      BY <3>1, ConfidencesAssumption
    <3> QED BY <3>2
  <2> HIDE DEF surer
  <2>3. Weighted(result) <= Weighted(surer)
    BY <2>1, <2>2, WeightsGrow
  <2>4. sum(result) <= sum(surer)
    BY <2>1, <2>3, Weights, Amounts
  <2>5. Score(result) <= Score(surer)
    BY <2>1, <2>4, <1>2
  <2> QED BY <2>5 DEF surer
<1>9. ASSUME NEW other \in Results, result.verdict # "likely_safe",
             result.signals \intersect Protections = {},
             other.verdict = "likely_safe"
      PROVE  Score(result) > Score(other)
  <2>1. Lowered(result.signals) = 0 /\ Raised(result.signals) \in Nat
    BY <1>9, Amounts
  <2>2. Weighted(result) > 0 /\ Weighted(result) \in Nat
    BY <1>9, Weights
  <2>3. sum(result) \in Int /\ sum(result) > 0
    BY <2>1, <2>2
  <2>4. Score(result) = Clamp(sum(result)) /\ Score(other) = Clamp(0)
    BY <1>9, ScoreOf
  <2> HIDE DEF sum
  <2>5. Clamp(sum(result)) > 0
    BY <2>3, ClampFacts
  <2>6. Clamp(0) = 0
    BY DEF Clamp, One
  <2> QED BY <2>4, <2>5, <2>6
<1> QED BY <1>3, <1>6, <1>7, <1>8, <1>9 DEF ScoreKeepsOrder

\* The ranking keeps its order, for any set of confidences.
THEOREM RankingCorrect == ScoreSpec => []ScoreKeepsOrder
BY ScoreShape, OrderKept, PTL

-----------------------------------------------------------------------------
(* A clipped window is a part of the file between directives.               *)

LEMMA SamePart ==
  ASSUME NEW i \in Nat, NEW j \in Nat, j <= i
  PROVE  Part(j) = Part(i) <=> \A k \in j + 1 .. i : ~IsBranch(k)
<1> DEFINE upTo(n) == {k \in 1 .. n : IsBranch(k)}
<1>1. \A n \in Nat : IsFiniteSet(upTo(n))
  <2> SUFFICES ASSUME NEW n \in Nat PROVE IsFiniteSet(upTo(n))
    OBVIOUS
  <2>1. IsFiniteSet(1 .. n) /\ upTo(n) \subseteq 1 .. n
    BY FS_Interval
  <2> QED BY <2>1, FS_Subset
<1>2. upTo(j) \subseteq upTo(i)
  OBVIOUS
<1>3. Cardinality(upTo(j)) = Cardinality(upTo(i)) <=> upTo(j) = upTo(i)
  BY <1>1, <1>2, FS_Subset
<1>4. upTo(j) = upTo(i) <=> \A k \in j + 1 .. i : ~IsBranch(k)
  OBVIOUS
<1> QED BY <1>3, <1>4 DEF Part

LEMMA WindowIsPart ==
  ASSUME NEW n \in Nat, DOMAIN code = 1 .. n,
         NEW i \in 1 .. n, NEW j \in 1 .. n, ~IsBranch(i), ~IsBranch(j),
         NEW span \in Spans
  PROVE  j \in ClipWindow(i, span) <=>
           /\ Part(j) = Part(i)
           /\ IF j < i THEN i - j <= span.before ELSE j - i <= span.after
<1>1. span.before \in Nat /\ span.after \in Nat
  BY DEF Spans
<1>2. CASE j < i
  <2>1. Part(j) = Part(i) <=> \A k \in j + 1 .. i : ~IsBranch(k)
    BY <1>2, SamePart
  <2>2. (\A k \in j + 1 .. i : ~IsBranch(k)) <=> \A k \in j .. i - 1 : ~IsBranch(k)
    OBVIOUS
  <2> QED BY <1>1, <1>2, <2>1, <2>2 DEF ClipWindow, Near
<1>3. CASE i <= j
  <2>1. Part(i) = Part(j) <=> \A k \in i + 1 .. j : ~IsBranch(k)
    BY <1>3, SamePart
  <2> QED BY <1>1, <1>3, <2>1 DEF ClipWindow, Near
<1> QED BY <1>2, <1>3

\* A line is judged by its own part of the file, whatever the length of the
\* file, the spans of the windows and what the lines hold.
THEOREM BranchesApart == CodeInit => JudgedByOwnBranch
<1> SUFFICES ASSUME CodeInit, NEW i \in DOMAIN code, Says(i, "trigger")
             PROVE  /\ Mitigated(i) <=> Speak(i, GuardSpan, "guard")
                    /\ needs = "confirm" =>
                         (i \in Reported <=> Speak(i, ConfirmSpan, "context"))
  BY DEF JudgedByOwnBranch
<1>1. PICK n \in Nat : DOMAIN code = 1 .. n
  BY WindowLinesAssumption DEF CodeInit
<1>2. \A j \in DOMAIN code : \A token : Says(j, token) => ~IsBranch(j)
  BY DEF Says, IsBranch
<1>3. ASSUME NEW span \in Spans, NEW token
      PROVE  (\E j \in ClipWindow(i, span) : Says(j, token)) <=> Speak(i, span, token)
  <2>1. \A j \in DOMAIN code : Says(j, token) =>
          (j \in ClipWindow(i, span) <=>
             /\ Part(j) = Part(i)
             /\ IF j < i THEN i - j <= span.before ELSE j - i <= span.after)
    BY <1>1, <1>2, WindowIsPart
  <2>2. ClipWindow(i, span) \subseteq DOMAIN code
    BY DEF ClipWindow, Near
  <2> QED BY <2>1, <2>2 DEF Speak, Says
<1>4. GuardSpan \in Spans /\ ConfirmSpan \in Spans
  BY SpansAssumption
<1>5. Mitigated(i) <=> Speak(i, GuardSpan, "guard")
  BY <1>3, <1>4 DEF Mitigated
<1>6. needs = "confirm" => (i \in Reported <=> Speak(i, ConfirmSpan, "context"))
  BY <1>3, <1>4 DEF Reported, InContext
<1> QED BY <1>5, <1>6

-----------------------------------------------------------------------------
(* The comparison of two trees.                                             *)

LEMMA DiffShape == DiffSpec => [](old \in Trees /\ new \in Trees)
<1>1. DiffInit => old \in Trees /\ new \in Trees
  BY DEF DiffInit
<1>2. old \in Trees /\ new \in Trees /\ [Swap]_<<old, new>>
        => (old \in Trees /\ new \in Trees)'
  BY DEF Swap
<1> QED BY <1>1, <1>2, PTL DEF DiffSpec

\* The dict has the keys of the live findings, and keeps a live one of each.
LEMMA FindingsAreLive ==
  ASSUME NEW tree \in Trees
  PROVE  /\ DOMAIN FindingsOf(tree) = {key \in Keys : HasLive(tree, key)}
         /\ \A key \in DOMAIN FindingsOf(tree) :
              /\ tree[FindingsOf(tree)[key]].key = key
              /\ tree[FindingsOf(tree)[key]].mitigation # "present"
<1>1. PICK n \in Nat : tree \in [1 .. n -> Findings]
  BY FindingsAssumption DEF Trees
<1>2. \A i \in DOMAIN tree : tree[i].key \in Keys
  BY <1>1 DEF Findings
<1>3. DOMAIN FindingsOf(tree) = {key \in Keys : HasLive(tree, key)}
  BY <1>2 DEF FindingsOf, HasLive, IsLive
<1>4. ASSUME NEW key \in DOMAIN FindingsOf(tree)
      PROVE  /\ tree[FindingsOf(tree)[key]].key = key
             /\ tree[FindingsOf(tree)[key]].mitigation # "present"
  <2>1. LiveOf(tree, key) \subseteq 1 .. n
    BY <1>1 DEF LiveOf
  <2>2. LiveOf(tree, key) # {}
    BY <1>3, <1>4 DEF LiveOf, HasLive, IsLive
  <2>3. Max(LiveOf(tree, key)) \in LiveOf(tree, key)
    <3>1. LiveOf(tree, key) \subseteq 0 .. n
      BY <2>1
    <3> QED BY <2>2, <3>1, GreatestElement
  <2>4. FindingsOf(tree)[key] = Max(LiveOf(tree, key))
    BY <1>4 DEF FindingsOf
  <2> QED BY <2>3, <2>4 DEF LiveOf, IsLive
<1> QED BY <1>3, <1>4

LEMMA TreesClassified ==
  ASSUME old \in Trees, new \in Trees
  PROVE  DiffClassifies
<1> DEFINE oldF == FindingsOf(old)
           newF == FindingsOf(new)
           diff == Compare(old, new)
<1>1. /\ DOMAIN oldF = {key \in Keys : HasLive(old, key)}
      /\ DOMAIN newF = {key \in Keys : HasLive(new, key)}
  BY FindingsAreLive
<1>2. DOMAIN diff = DOMAIN oldF \union DOMAIN newF
  BY DEF Compare
<1>3. ASSUME NEW key \in DOMAIN diff, key \in DOMAIN newF
      PROVE  /\ diff[key].status = IF key \in DOMAIN oldF THEN "PERSISTENT" ELSE "NEW"
             /\ diff[key].at = newF[key]
  BY <1>3 DEF Compare
<1>4. ASSUME NEW key \in DOMAIN diff, key \notin DOMAIN newF
      PROVE  key \in DOMAIN oldF /\ diff[key].status = "RESOLVED" /\ diff[key].at = oldF[key]
  BY <1>2, <1>4 DEF Compare
<1>5. /\ \A key \in DOMAIN oldF :
           old[oldF[key]].key = key /\ old[oldF[key]].mitigation # "present"
      /\ \A key \in DOMAIN newF :
           new[newF[key]].key = key /\ new[newF[key]].mitigation # "present"
  BY FindingsAreLive
<1>6. \A key \in DOMAIN diff :
        /\ key \in DOMAIN oldF <=> HasLive(old, key)
        /\ key \in DOMAIN newF <=> HasLive(new, key)
  BY <1>1, <1>2
<1>7. DOMAIN diff = {key \in Keys : HasLive(old, key) \/ HasLive(new, key)}
  BY <1>1, <1>2
<1> HIDE DEF oldF, newF, diff
<1>8. ASSUME NEW key \in DOMAIN diff
      PROVE  LET e == diff[key]
                 tree == IF e.status = "RESOLVED" THEN old ELSE new
             IN  /\ e.status = "NEW" <=> ~HasLive(old, key)
                 /\ e.status = "RESOLVED" <=> ~HasLive(new, key)
                 /\ tree[e.at].key = key /\ tree[e.at].mitigation # "present"
  <2>1. CASE key \in DOMAIN newF
    BY <1>3, <1>5, <1>6, <2>1
  <2>2. CASE key \notin DOMAIN newF
    BY <1>4, <1>5, <1>6, <2>2
  <2> QED BY <2>1, <2>2
<1> QED BY <1>7, <1>8 DEF DiffClassifies, diff

\* Each file and field has the status of its live findings, for any trees.
THEOREM DiffCorrect == DiffSpec => []DiffClassifies
BY DiffShape, TreesClassified, PTL

-----------------------------------------------------------------------------
(* The walk over the callers.                                               *)

LEMMA FileShape ==
  ASSUME FileInit
  PROVE  /\ \E n \in Nat : DOMAIN file = 1 .. n
         /\ \A i \in DOMAIN file : file[i] \in Lines
BY LinesAssumption DEF FileInit

LEMMA CallsOfFile ==
  /\ \A f \in Names : CallersOf(f) \subseteq Calls
  /\ FileInit => \A c \in Calls : c.by \in Names /\ CallersOf(c.by) \subseteq Calls
<1>1. \A f \in Names : CallersOf(f) \subseteq Calls
  BY DEF Calls
<1>2. ASSUME FileInit, NEW c \in Calls PROVE c.by \in Names
  <2>1. PICK f \in Names : c \in CallersOf(f)
    BY DEF Calls
  <2>2. PICK i \in DOMAIN file : \E g \in Enclosing(i) : c = [by |-> g, at |-> i]
    BY <2>1 DEF CallersOf
  <2>3. PICK j \in Headers(i) : c.by = file[j].of
    BY <2>2 DEF Enclosing
  <2>4. file[j] \in Lines /\ file[j].kind = "def"
    BY <1>2, <2>3, FileShape DEF Headers
  <2> QED BY <2>3, <2>4 DEF Lines
<1> QED BY <1>1, <1>2

\* A call stands below a header of the function it is a call by, and no other
\* header comes between.
LEMMA HeaderAbove ==
  ASSUME FileInit, NEW c \in Calls
  PROVE  /\ c.at \in DOMAIN file /\ file[c.at].kind = "call"
         /\ \E h \in DOMAIN file :
              /\ h < c.at /\ Is(h, "def", c.by)
              /\ \A k \in DOMAIN file : h < k /\ k <= c.at => file[k].kind # "def"
<1>1. PICK f \in Names : c \in CallersOf(f)
  BY DEF Calls
<1>2. PICK i \in DOMAIN file :
        Is(i, "call", f) /\ \E g \in Enclosing(i) : c = [by |-> g, at |-> i]
  BY <1>1 DEF CallersOf
<1>3. c.at = i /\ c.by \in Enclosing(i)
  BY <1>2
<1>4. PICK h \in Headers(i) : c.by = file[h].of /\ \A k \in Headers(i) : k <= h
  BY <1>3 DEF Enclosing
<1>5. PICK n \in Nat : DOMAIN file = 1 .. n
  BY FileShape
<1>6. file[i].kind = "call" /\ file[h].kind = "def"
  BY <1>2, <1>4 DEF Is, Headers
<1>7. h \in DOMAIN file /\ h <= i /\ i < h + Reach
  BY <1>4 DEF Headers
<1>8. Is(h, "def", c.by)
  <2>1. file[h] \in Lines
    BY <1>7, FileShape
  <2> QED BY <1>4, <1>6, <2>1 DEF Is, Lines
<1>9. h < i
  <2>1. h # i
    BY <1>6
  <2> QED BY <1>5, <1>7, <2>1
<1>10. ASSUME NEW k \in DOMAIN file, h < k, k <= i, file[k].kind = "def" PROVE FALSE
  <2>1. k <= i /\ i < k + Reach
    BY <1>5, <1>7, <1>10, LinesAssumption
  <2>2. k \in Headers(i)
    BY <1>10, <2>1 DEF Headers
  <2> QED BY <1>4, <1>5, <1>7, <1>10, <2>2
<1> QED BY <1>3, <1>6, <1>7, <1>8, <1>9, <1>10

\* The locks that count for a call are those of the body it is in.
LEMMA LocksOfBody ==
  ASSUME FileInit, OneHeaderEach, NEW c \in Calls
  PROVE  LockLines(c) = {j \in DOMAIN file : TakenBefore(j, c.at)}
<1>1. PICK n \in Nat : DOMAIN file = 1 .. n
  BY FileShape
<1>2. PICK h \in DOMAIN file :
        /\ h < c.at /\ Is(h, "def", c.by)
        /\ \A k \in DOMAIN file : h < k /\ k <= c.at => file[k].kind # "def"
  BY HeaderAbove
<1>3. c.at \in DOMAIN file
  BY HeaderAbove
<1>4. file[h].kind = "def"
  BY <1>2 DEF Is
<1>5. {i \in DOMAIN file : Is(i, "def", c.by)} = {h}
  BY <1>2, <1>4 DEF OneHeaderEach, Is
<1>6. FirstDef(c.by) = h
  <2>1. {h} \subseteq Nat /\ {h} # {}
    BY <1>1
  <2>2. Min({h}) \in {h}
    BY <2>1, LeastElement
  <2> QED BY <1>5, <2>2 DEF FirstDef
<1>7. ASSUME NEW j \in h .. c.at - 1, file[j].kind = "lock"
      PROVE  j \in DOMAIN file /\ TakenBefore(j, c.at)
  <2>1. j \in DOMAIN file /\ j < c.at
    BY <1>1, <1>3, <1>7
  <2>2. j # h
    BY <1>4, <1>7
  <2>3. h \in 1 .. j
    BY <1>1, <1>7
  <2>4. \A k \in j .. c.at : k \in DOMAIN file /\ h < k /\ k <= c.at
    BY <1>1, <1>3, <1>7, <2>2
  <2> QED BY <1>2, <1>4, <1>7, <2>1, <2>3, <2>4 DEF TakenBefore
<1>8. ASSUME NEW j \in DOMAIN file, TakenBefore(j, c.at)
      PROVE  j \in h .. c.at - 1 /\ file[j].kind = "lock"
  <2>1. file[j].kind = "lock" /\ j < c.at
    BY <1>8 DEF TakenBefore
  <2>2. ~(j <= h)
    <3> SUFFICES ASSUME j <= h PROVE FALSE
      OBVIOUS
    <3>1. h \in j .. c.at
      BY <1>1, <1>2, <1>3
    <3> QED BY <1>4, <1>8, <3>1 DEF TakenBefore
  <2> QED BY <1>1, <1>3, <2>1, <2>2
<1> QED BY <1>6, <1>7, <1>8 DEF LockLines

\* The recursive definition of the covered calls holds.
LEMMA CoveredSteps ==
  /\ Covered[0] = {}
  /\ \A d \in Nat :
       Covered[d + 1] =
         {c \in Calls : LockLines(c) # {} \/ (d > 0 /\ ParentsHold(c, Covered[d]))}
<1> DEFINE Rule(v, d) == {c \in Calls : LockLines(c) # {} \/ (d > 1 /\ ParentsHold(c, v))}
           T == [d \in Nat |-> SUBSET Calls]
           Step == [d \in Nat |-> [v \in SUBSET Calls |-> Rule(v, d + 1)]]
<1>1. PICK h : /\ h = [d \in Nat |-> h[d]]
               /\ h[0] = {}
               /\ \A d \in Nat : h[d] \in SUBSET Calls /\ h[d + 1] = Rule(h[d], d + 1)
  <2>1. {} \in T[0] /\ \A d \in Nat : \A v \in T[d] : Step[d][v] \in T[d + 1]
    OBVIOUS
  <2>2. PICK h : /\ h = [d \in Nat |-> h[d]]
                 /\ h[0] = {}
                 /\ \A d \in Nat : h[d] \in T[d] /\ h[d + 1] = Step[d][h[d]]
    <3> HIDE DEF T, Step
    <3> QED BY <2>1, Recursion
  <2>3. \A d \in Nat : h[d] \in SUBSET Calls
    BY <2>2
  <2>4. \A d \in Nat : h[d + 1] = Rule(h[d], d + 1)
    <3> HIDE DEF Rule
    <3> QED BY <2>2, <2>3
  <2> QED BY <2>2, <2>3, <2>4
<1>2. \A d \in Nat : h[d] = IF d = 0 THEN {} ELSE Rule(h[d - 1], d)
  <2> SUFFICES ASSUME NEW d \in Nat, d # 0 PROVE h[d] = Rule(h[d - 1], d)
    BY <1>1
  <2>1. d - 1 \in Nat /\ (d - 1) + 1 = d
    OBVIOUS
  <2> HIDE DEF Rule
  <2> QED BY <1>1, <2>1
<1>3. h = [d \in Nat |-> IF d = 0 THEN {} ELSE Rule(h[d - 1], d)]
  <2> HIDE DEF Rule
  <2> QED BY <1>1, <1>2
<1>4. Covered = [d \in Nat |-> IF d = 0 THEN {} ELSE Rule(Covered[d - 1], d)]
  BY <1>3 DEF Covered
<1>5. Covered[0] = {}
  BY <1>4
<1>6. ASSUME NEW d \in Nat PROVE Covered[d + 1] = Rule(Covered[d], d + 1)
  <2>1. d + 1 \in Nat /\ d + 1 # 0 /\ (d + 1) - 1 = d
    OBVIOUS
  <2> HIDE DEF Rule
  <2> QED BY <1>4, <2>1
<1> QED BY <1>5, <1>6

-----------------------------------------------------------------------------
(* Chains of calls, the nearest call first.                                 *)

Links(s, n) == \A i \in 1 .. n - 1 : s[i + 1] \in CallersOf(s[i].by)

\* s is the chain t with a nearer call c in front.
Longer(s, c, t, n) ==
  /\ s \in [1 .. n + 1 -> Calls] /\ s[1] = c /\ Links(s, n + 1)
  /\ \A k \in 1 .. n : s[k + 1] = t[k]

LEMMA ChainGrows ==
  ASSUME NEW c \in Calls, NEW n, n \in Nat, n > 0, NEW t, t \in [1 .. n -> Calls],
         t[1] \in CallersOf(c.by), Links(t, n)
  PROVE  \E s : Longer(s, c, t, n)
<1> DEFINE s == [i \in 1 .. n + 1 |-> IF i = 1 THEN c ELSE t[i - 1]]
<1>1. s \in [1 .. n + 1 -> Calls] /\ s[1] = c /\ \A k \in 1 .. n : s[k + 1] = t[k]
  OBVIOUS
<1> HIDE DEF s
<1>2. ASSUME NEW i \in 1 .. n PROVE s[i + 1] \in CallersOf(s[i].by)
  <2>1. CASE i = 1
    BY <1>1, <2>1
  <2>2. CASE i # 1
    <3>1. i - 1 \in 1 .. n - 1 /\ i - 1 \in 1 .. n /\ (i - 1) + 1 = i
      BY <2>2
    <3>2. t[(i - 1) + 1] \in CallersOf(t[i - 1].by)
      BY <3>1 DEF Links
    <3>3. s[i] = t[i - 1]
      BY <1>1, <3>1
    <3> QED BY <1>1, <3>1, <3>2, <3>3
  <2> QED BY <2>1, <2>2
<1>3. Links(s, n + 1)
  BY <1>2 DEF Links
<1>4. Longer(s, c, t, n)
  BY <1>1, <1>3 DEF Longer
<1> QED BY <1>4

\* A chain from c on that shows c not to be covered, as far as d calls up.
Open(s, n, c, d) ==
  /\ s \in [1 .. n -> Calls] /\ s[1] = c /\ Links(s, n)
  /\ \A k \in 1 .. n : LockLines(s[k]) = {}
  /\ n = d \/ CallersOf(s[n].by) = {}

HasOpen(c, d) == \E n \in 1 .. d : \E s : Open(s, n, c, d)

LEMMA OpenOfOne ==
  ASSUME NEW c \in Calls, NEW d \in Nat, LockLines(c) = {},
         d = 0 \/ CallersOf(c.by) = {}
  PROVE  HasOpen(c, d + 1)
<1> DEFINE s == [i \in 1 .. 1 |-> c]
<1>1. Open(s, 1, c, d + 1)
  BY DEF Open, Links
<1> QED BY <1>1 DEF HasOpen

LEMMA OpenGrows ==
  ASSUME NEW c \in Calls, NEW d \in Nat, LockLines(c) = {},
         NEW e \in CallersOf(c.by), HasOpen(e, d)
  PROVE  HasOpen(c, d + 1)
<1>1. PICK n \in 1 .. d : \E t : Open(t, n, e, d)
  BY DEF HasOpen
<1>2. PICK t \in [1 .. n -> Calls] : Open(t, n, e, d)
  BY <1>1 DEF Open
<1>3. /\ t[1] \in CallersOf(c.by) /\ Links(t, n)
      /\ \A k \in 1 .. n : LockLines(t[k]) = {}
      /\ n = d \/ CallersOf(t[n].by) = {}
  BY <1>2 DEF Open
<1>4. PICK s \in [1 .. n + 1 -> Calls] :
        s[1] = c /\ Links(s, n + 1) /\ \A k \in 1 .. n : s[k + 1] = t[k]
  <2>1. n \in Nat /\ n > 0
    OBVIOUS
  <2>2. PICK s : Longer(s, c, t, n)
    BY <1>2, <1>3, <2>1, ChainGrows
  <2> QED BY <2>2 DEF Longer
<1>5. ASSUME NEW k \in 1 .. n + 1 PROVE LockLines(s[k]) = {}
  <2>1. CASE k = 1
    BY <1>4, <2>1
  <2>2. CASE k # 1
    <3>1. k - 1 \in 1 .. n /\ (k - 1) + 1 = k
      BY <2>2
    <3> QED BY <1>3, <1>4, <3>1
  <2> QED BY <2>1, <2>2
<1>6. s[n + 1] = t[n]
  BY <1>4
<1>7. Open(s, n + 1, c, d + 1)
  BY <1>3, <1>4, <1>5, <1>6 DEF Open
<1> QED BY <1>7 DEF HasOpen

LEMMA OpenShrinks ==
  ASSUME NEW c \in Calls, NEW d \in Nat, HasOpen(c, d + 1)
  PROVE  /\ LockLines(c) = {}
         /\ \/ d = 0
            \/ CallersOf(c.by) = {}
            \/ \E e \in CallersOf(c.by) \cap Calls : HasOpen(e, d)
<1>1. PICK n \in 1 .. d + 1 : \E s : Open(s, n, c, d + 1)
  BY DEF HasOpen
<1>2. PICK s : Open(s, n, c, d + 1)
  BY <1>1
<1>3. s \in [1 .. n -> Calls] /\ s[1] = c /\ Links(s, n)
      /\ (\A k \in 1 .. n : LockLines(s[k]) = {})
      /\ (n = d + 1 \/ CallersOf(s[n].by) = {})
  BY <1>2 DEF Open
<1>4. LockLines(c) = {}
  BY <1>3
<1>5. CASE n = 1
  BY <1>3, <1>4, <1>5
<1>6. CASE n # 1
  <2> DEFINE m == n - 1
             t == [i \in 1 .. m |-> s[i + 1]]
  <2>1. m \in 1 .. d /\ n = m + 1
    BY <1>6
  <2>2. t \in [1 .. m -> Calls] /\ t[1] = s[2]
    BY <1>3, <2>1
  <2>3. \A i \in 1 .. m : t[i] = s[i + 1]
    OBVIOUS
  <2>4. s[2] \in CallersOf(c.by) \cap Calls
    <3>1. 1 \in 1 .. n - 1
      BY <1>6
    <3>2. s[1 + 1] \in CallersOf(s[1].by)
      BY <1>3, <3>1 DEF Links
    <3>3. s[2] \in Calls
      BY <1>3, <1>6
    <3> QED BY <1>3, <3>2, <3>3
  <2> HIDE DEF m, t
  <2>5. ASSUME NEW i \in 1 .. m - 1 PROVE t[i + 1] \in CallersOf(t[i].by)
    <3>1. i + 1 \in 1 .. n - 1 /\ i \in 1 .. m /\ i + 1 \in 1 .. m
      BY <2>1
    <3>2. s[(i + 1) + 1] \in CallersOf(s[i + 1].by)
      BY <1>3, <3>1 DEF Links
    <3> QED BY <2>3, <3>1, <3>2
  <2>6. \A k \in 1 .. m : LockLines(t[k]) = {}
    BY <1>3, <2>1, <2>3
  <2>7. m = d \/ CallersOf(t[m].by) = {}
    BY <1>3, <2>1, <2>3
  <2>8. Open(t, m, s[2], d)
    BY <2>2, <2>5, <2>6, <2>7 DEF Open, Links
  <2> QED BY <1>4, <2>1, <2>4, <2>8 DEF HasOpen
<1> QED BY <1>5, <1>6

\* A call is not covered just if such a chain starts with it.
LEMMA UncoveredIsOpen ==
  ASSUME FileInit
  PROVE  \A d \in Nat : \A c \in Calls : c \notin Covered[d + 1] <=> HasOpen(c, d + 1)
<1> DEFINE Good == {d \in Nat : \A c \in Calls : c \notin Covered[d + 1] <=> HasOpen(c, d + 1)}
<1>1. ASSUME NEW d \in Nat, d = 0 \/ d - 1 \in Good PROVE d \in Good
  <2> SUFFICES ASSUME NEW c \in Calls
               PROVE  c \notin Covered[d + 1] <=> HasOpen(c, d + 1)
    OBVIOUS
  <2>1. c \notin Covered[d + 1] <=>
          /\ LockLines(c) = {}
          /\ \/ d = 0
             \/ CallersOf(c.by) = {}
             \/ \E e \in CallersOf(c.by) : e \notin Covered[d]
    BY CoveredSteps DEF ParentsHold
  <2>2. CallersOf(c.by) \subseteq Calls
    BY CallsOfFile
  <2>3. d # 0 => \A e \in CallersOf(c.by) : e \notin Covered[d] <=> HasOpen(e, d)
    BY <1>1, <2>2
  <2>4. ASSUME c \notin Covered[d + 1] PROVE HasOpen(c, d + 1)
    BY <2>1, <2>3, <2>4, OpenOfOne, OpenGrows
  <2>5. ASSUME HasOpen(c, d + 1) PROVE c \notin Covered[d + 1]
    <3>1. /\ LockLines(c) = {}
          /\ \/ d = 0
             \/ CallersOf(c.by) = {}
             \/ \E e \in CallersOf(c.by) \cap Calls : HasOpen(e, d)
      BY <2>5, OpenShrinks
    <3> QED BY <2>1, <2>3, <3>1
  <2> QED BY <2>4, <2>5
<1>2. 0 \in Good
  BY <1>1
<1>3. ASSUME NEW d \in Nat, d \in Good PROVE d + 1 \in Good
  <2>1. d + 1 \in Nat /\ (d + 1) - 1 = d
    OBVIOUS
  <2> HIDE DEF Good
  <2> QED BY <1>1, <1>3, <2>1
<1>4. \A d \in Nat : d \in Good
  <2> HIDE DEF Good
  <2> QED BY <1>2, <1>3, Induction
<1> QED BY <1>4

\* The chains of the reference, with their lengths.
LEMMA ChainsOf ==
  ASSUME FileInit, OneHeaderEach, NEW f \in Names, NEW n \in 1 .. Depth, NEW s \in [1 .. n -> Calls]
  PROVE  /\ Len(s) = n
         /\ s \in ChainsTo(f) <=> s[1] \in CallersOf(f) /\ Links(s, n)
         /\ Unlocked(s) <=> \A k \in 1 .. n : LockLines(s[k]) = {}
<1>1. n \in Nat /\ n \in 1 .. Depth
  BY LinesAssumption
<1>2. Len(s) = n
  BY <1>1
<1>3. s \in UNION {[1 .. m -> Calls] : m \in 1 .. Depth}
  BY <1>1
<1>4. s \in ChainsTo(f) <=> s[1] \in CallersOf(f) /\ Links(s, n)
  BY <1>2, <1>3 DEF ChainsTo, Links
<1>5. ASSUME NEW k \in 1 .. n
      PROVE  LockLines(s[k]) = {} <=> \A j \in DOMAIN file : ~TakenBefore(j, s[k].at)
  <2>1. s[k] \in Calls
    OBVIOUS
  <2>2. LockLines(s[k]) = {j \in DOMAIN file : TakenBefore(j, s[k].at)}
    BY <2>1, LocksOfBody
  <2> QED BY <2>2
<1>6. DOMAIN s = 1 .. n
  OBVIOUS
<1>7. Unlocked(s) <=> \A k \in 1 .. n : LockLines(s[k]) = {}
  BY <1>5, <1>6 DEF Unlocked
<1> QED BY <1>2, <1>4, <1>7

\* In a file that defines each function once, of any length and for any bound on
\* the walk: a candidate is exonerated just if its function is called and no
\* chain of calls that leads to it is free of locks.
THEOREM WalkCorrect == FileInit => WalkMatchesChains
<1> SUFFICES ASSUME FileInit, OneHeaderEach, NEW f \in Names
             PROVE  (\E c \in CallersOf(f) : c \notin Covered[Depth]) <=>
                      \E s \in ChainsTo(f) : Complete(s) /\ Unlocked(s)
  BY DEF WalkMatchesChains, Held
<1>1. Depth \in Nat /\ Depth - 1 \in Nat /\ (Depth - 1) + 1 = Depth
  BY LinesAssumption
<1>2. ASSUME NEW c \in CallersOf(f) PROVE c \notin Covered[Depth] <=> HasOpen(c, Depth)
  <2>1. c \in Calls
    BY CallsOfFile
  <2> QED BY <1>1, <2>1, UncoveredIsOpen
<1>3. ASSUME NEW c \in CallersOf(f), HasOpen(c, Depth)
      PROVE  \E s \in ChainsTo(f) : Complete(s) /\ Unlocked(s)
  <2>1. PICK n \in 1 .. Depth : \E s : Open(s, n, c, Depth)
    BY <1>3 DEF HasOpen
  <2>2. PICK s : Open(s, n, c, Depth)
    BY <2>1
  <2>3. s \in [1 .. n -> Calls] /\ s[1] = c /\ Links(s, n)
        /\ (\A k \in 1 .. n : LockLines(s[k]) = {})
        /\ (n = Depth \/ CallersOf(s[n].by) = {})
    BY <2>2 DEF Open
  <2>4. Len(s) = n /\ s \in ChainsTo(f) /\ Unlocked(s)
    BY <2>3, ChainsOf
  <2> QED BY <2>3, <2>4 DEF Complete
<1>4. ASSUME NEW s \in ChainsTo(f), Complete(s), Unlocked(s)
      PROVE  s[1] \in CallersOf(f) /\ HasOpen(s[1], Depth)
  <2>1. PICK n \in 1 .. Depth : s \in [1 .. n -> Calls]
    BY DEF ChainsTo
  <2>2. Len(s) = n /\ s[1] \in CallersOf(f) /\ Links(s, n)
        /\ \A k \in 1 .. n : LockLines(s[k]) = {}
    BY <1>4, <2>1, ChainsOf
  <2>3. Open(s, n, s[1], Depth)
    BY <1>4, <2>1, <2>2 DEF Open, Complete
  <2> QED BY <2>2, <2>3 DEF HasOpen
<1> QED BY <1>2, <1>3, <1>4

-----------------------------------------------------------------------------
(* The lock that is named.                                                  *)

LEMMA FirstOfFacts ==
  ASSUME FileInit, NEW f \in Names, CallersOf(f) # {}
  PROVE  FirstOf(CallersOf(f)) \in CallersOf(f)
<1> DEFINE lines == {c.at : c \in CallersOf(f)}
<1>1. lines \subseteq Nat /\ lines # {}
  <2>1. PICK n \in Nat : DOMAIN file = 1 .. n
    BY FileShape
  <2>2. \A c \in CallersOf(f) : c.at \in DOMAIN file
    BY CallsOfFile, HeaderAbove
  <2> QED BY <2>1, <2>2
<1>2. PICK m \in lines : \A i \in lines : m <= i
  <2> HIDE DEF lines
  <2> QED BY <1>1, HasLeast
<1>3. PICK c \in CallersOf(f) : m = c.at
  OBVIOUS
<1>4. \A e \in CallersOf(f) : c.at <= e.at
  BY <1>2, <1>3
<1> QED BY <1>4 DEF FirstOf

LEMMA CoveredType ==
  \A d \in Nat : Covered[d] \subseteq Calls
<1> SUFFICES ASSUME NEW d \in Nat PROVE Covered[d] \subseteq Calls
  OBVIOUS
<1>1. CASE d = 0
  BY <1>1, CoveredSteps
<1>2. CASE d # 0
  <2>1. d - 1 \in Nat /\ (d - 1) + 1 = d
    BY <1>2
  <2> QED BY <2>1, CoveredSteps
<1> QED BY <1>1, <1>2

\* A covered call has a lock, or each caller of its caller is covered.
LEMMA CoveredBecause ==
  ASSUME FileInit, NEW d \in Nat, NEW c \in Covered[d + 1], LockLines(c) = {}
  PROVE  /\ FirstOf(CallersOf(c.by)) \in CallersOf(c.by)
         /\ FirstOf(CallersOf(c.by)) \in Covered[d]
<1>1. c \in Calls /\ ParentsHold(c, Covered[d])
  BY CoveredSteps
<1>2. CallersOf(c.by) # {} /\ CallersOf(c.by) \subseteq Covered[d]
  BY <1>1 DEF ParentsHold
<1>3. c.by \in Names
  BY <1>1, CallsOfFile
<1>4. FirstOf(CallersOf(c.by)) \in CallersOf(c.by)
  BY <1>2, <1>3, FirstOfFacts
<1> QED BY <1>2, <1>4

\* The first lock of the body is one of its locks.
LEMMA FirstLock ==
  ASSUME FileInit, NEW c \in Calls, LockLines(c) # {}
  PROVE  Min(LockLines(c)) \in LockLines(c) /\ file[Min(LockLines(c))].of \in Locks
<1>1. PICK n \in Nat : DOMAIN file = 1 .. n
  BY FileShape
<1>2. PICK h \in DOMAIN file : h < c.at /\ Is(h, "def", c.by)
  BY HeaderAbove
<1>3. c.at \in DOMAIN file
  BY HeaderAbove
<1>4. FirstDef(c.by) \in DOMAIN file
  <2> DEFINE defs == {i \in DOMAIN file : Is(i, "def", c.by)}
  <2>1. defs \subseteq Nat /\ defs # {}
    BY <1>1, <1>2
  <2>2. Min(defs) \in defs
    <3> HIDE DEF defs
    <3> QED BY <2>1, LeastElement
  <2> QED BY <2>2 DEF FirstDef
<1>5. LockLines(c) \subseteq DOMAIN file
  BY <1>1, <1>3, <1>4 DEF LockLines
<1>6. Min(LockLines(c)) \in LockLines(c)
  <2>1. LockLines(c) \subseteq Nat
    BY <1>1, <1>5
  <2> QED BY <2>1, LeastElement
<1>7. file[Min(LockLines(c))].kind = "lock"
  BY <1>6 DEF LockLines
<1>8. file[Min(LockLines(c))] \in Lines
  BY <1>5, <1>6, FileShape
<1> QED BY <1>6, <1>7, <1>8 DEF Lines

\* The recursive definition of the names holds.
LEMMA NameSteps ==
  ASSUME FileInit
  PROVE  \A d \in Nat : \A c \in Covered[d + 1] :
           NameOf[d + 1][c] =
             IF LockLines(c) # {} THEN file[Min(LockLines(c))].of
             ELSE NameOf[d][FirstOf(CallersOf(c.by))]
<1> DEFINE Rule(v, d) ==
             [c \in Covered[d] |->
                IF LockLines(c) # {} THEN file[Min(LockLines(c))].of
                ELSE v[FirstOf(CallersOf(c.by))]]
           T == [d \in Nat |-> [Covered[d] -> Locks]]
           Step == [d \in Nat |-> [v \in [Covered[d] -> Locks] |-> Rule(v, d + 1)]]
           first == [c \in {} |-> c]
<1>1. first \in T[0]
  BY CoveredSteps
<1>2. ASSUME NEW d \in Nat, NEW v \in T[d] PROVE Step[d][v] \in T[d + 1]
  <2>1. v \in [Covered[d] -> Locks]
    OBVIOUS
  <2>2. ASSUME NEW c \in Covered[d + 1]
        PROVE  (IF LockLines(c) # {} THEN file[Min(LockLines(c))].of
                ELSE v[FirstOf(CallersOf(c.by))]) \in Locks
    <3>1. c \in Calls
      BY CoveredType
    <3>2. LockLines(c) # {} => file[Min(LockLines(c))].of \in Locks
      BY <3>1, FirstLock
    <3>3. LockLines(c) = {} => FirstOf(CallersOf(c.by)) \in Covered[d]
      BY CoveredBecause
    <3> QED BY <2>1, <3>2, <3>3
  <2>3. Rule(v, d + 1) \in [Covered[d + 1] -> Locks]
    BY <2>2
  <2>4. Step[d][v] = Rule(v, d + 1) /\ T[d + 1] = [Covered[d + 1] -> Locks]
    <3> HIDE DEF Rule
    <3> QED BY <2>1
  <2> QED BY <2>3, <2>4
<1>3. PICK h : /\ h = [d \in Nat |-> h[d]]
               /\ h[0] = first
               /\ \A d \in Nat : h[d] \in T[d] /\ h[d + 1] = Step[d][h[d]]
  <2> HIDE DEF T, Step, first
  <2> QED BY <1>1, <1>2, Recursion
<1>4. \A d \in Nat : h[d + 1] = Rule(h[d], d + 1)
  <2> HIDE DEF Rule, first
  <2>1. \A d \in Nat : h[d] \in [Covered[d] -> Locks]
    BY <1>3
  <2> QED BY <1>3, <2>1
<1>5. \A d \in Nat : h[d] = Rule(h[d - 1], d)
  <2> SUFFICES ASSUME NEW d \in Nat PROVE h[d] = Rule(h[d - 1], d)
    OBVIOUS
  <2>1. CASE d = 0
    <3>1. Rule(h[d - 1], d) = first
      BY <2>1, CoveredSteps
    <3> QED BY <1>3, <2>1, <3>1
  <2>2. CASE d # 0
    <3>1. d - 1 \in Nat /\ (d - 1) + 1 = d
      BY <2>2
    <3> HIDE DEF Rule
    <3> QED BY <1>4, <3>1
  <2> QED BY <2>1, <2>2
<1>6. h = [d \in Nat |-> Rule(h[d - 1], d)]
  <2> HIDE DEF Rule, T, Step, first
  <2> QED BY <1>3, <1>5
<1>7. NameOf = [d \in Nat |-> Rule(NameOf[d - 1], d)]
  BY <1>6 DEF NameOf
<1>8. ASSUME NEW d \in Nat PROVE NameOf[d + 1] = Rule(NameOf[d], d + 1)
  <2>1. d + 1 \in Nat /\ (d + 1) - 1 = d
    OBVIOUS
  <2> HIDE DEF Rule
  <2> QED BY <1>7, <2>1
<1> QED BY <1>8

\* A chain from c on whose last call, and no call before it, has locks, of which
\* the first is the one that is named for c.
Named(s, n, c, d) ==
  /\ s \in [1 .. n -> Calls] /\ s[1] = c /\ Links(s, n)
  /\ \A k \in 1 .. n - 1 : LockLines(s[k]) = {}
  /\ LockLines(s[n]) # {}
  /\ file[Min(LockLines(s[n]))].of = NameOf[d][c]

HasNamed(c, d) == \E n \in 1 .. d : \E s : Named(s, n, c, d)

LEMMA NamedOfOne ==
  ASSUME FileInit, NEW d \in Nat, NEW c \in Covered[d + 1], LockLines(c) # {}
  PROVE  HasNamed(c, d + 1)
<1> DEFINE s == [i \in 1 .. 1 |-> c]
<1>1. c \in Calls /\ NameOf[d + 1][c] = file[Min(LockLines(c))].of
  <2>1. d + 1 \in Nat
    OBVIOUS
  <2>2. c \in Calls
    BY <2>1, CoveredType
  <2>3. NameOf[d + 1][c] = file[Min(LockLines(c))].of
    BY NameSteps
  <2> QED BY <2>2, <2>3
<1>2. s \in [1 .. 1 -> Calls] /\ s[1] = c /\ 1 \in 1 .. d + 1
  BY <1>1
<1> HIDE DEF s
<1>3. Named(s, 1, c, d + 1)
  BY <1>1, <1>2 DEF Named, Links
<1> QED BY <1>2, <1>3 DEF HasNamed

LEMMA NamedGrows ==
  ASSUME FileInit, NEW d \in Nat, NEW c \in Covered[d + 1], LockLines(c) = {},
         HasNamed(FirstOf(CallersOf(c.by)), d)
  PROVE  HasNamed(c, d + 1)
<1> DEFINE e == FirstOf(CallersOf(c.by))
<1>1. PICK n \in 1 .. d : \E t : Named(t, n, e, d)
  BY DEF HasNamed
<1>2. PICK t \in [1 .. n -> Calls] : Named(t, n, e, d)
  BY <1>1 DEF Named
<1>3. /\ t[1] \in CallersOf(c.by) /\ Links(t, n)
      /\ \A k \in 1 .. n - 1 : LockLines(t[k]) = {}
      /\ LockLines(t[n]) # {}
      /\ file[Min(LockLines(t[n]))].of = NameOf[d][e]
  BY <1>2, CoveredBecause DEF Named
<1>4. c \in Calls /\ NameOf[d + 1][c] = NameOf[d][e]
  <2>1. d + 1 \in Nat
    OBVIOUS
  <2>2. c \in Calls
    BY <2>1, CoveredType
  <2>3. NameOf[d + 1][c] = NameOf[d][e]
    BY NameSteps
  <2> QED BY <2>2, <2>3
<1>5. PICK s \in [1 .. n + 1 -> Calls] :
        s[1] = c /\ Links(s, n + 1) /\ \A k \in 1 .. n : s[k + 1] = t[k]
  <2>1. n \in Nat /\ n > 0
    OBVIOUS
  <2>2. PICK s : Longer(s, c, t, n)
    BY <1>2, <1>3, <1>4, <2>1, ChainGrows
  <2> QED BY <2>2 DEF Longer
<1>6. ASSUME NEW k \in 1 .. n PROVE LockLines(s[k]) = {}
  <2>1. CASE k = 1
    BY <1>5, <2>1
  <2>2. CASE k # 1
    <3>1. k - 1 \in 1 .. n - 1 /\ k - 1 \in 1 .. n /\ (k - 1) + 1 = k
      BY <2>2
    <3>2. s[k] = t[k - 1]
      BY <1>5, <3>1
    <3> QED BY <1>3, <3>1, <3>2
  <2> QED BY <2>1, <2>2
<1>7. s[n + 1] = t[n]
  BY <1>5
<1> HIDE DEF e
<1>8. Named(s, n + 1, c, d + 1)
  <2>1. (n + 1) - 1 = n
    OBVIOUS
  <2> QED BY <1>3, <1>4, <1>5, <1>6, <1>7, <2>1 DEF Named
<1> QED BY <1>8 DEF HasNamed

LEMMA CoveredIsNamed ==
  ASSUME FileInit
  PROVE  \A d \in Nat : \A c \in Covered[d] : HasNamed(c, d)
<1> DEFINE Good == {d \in Nat : \A c \in Covered[d] : HasNamed(c, d)}
<1>1. 0 \in Good
  BY CoveredSteps
<1>2. ASSUME NEW d \in Nat, d \in Good PROVE d + 1 \in Good
  <2> SUFFICES ASSUME NEW c \in Covered[d + 1] PROVE HasNamed(c, d + 1)
    OBVIOUS
  <2>1. CASE LockLines(c) # {}
    BY <2>1, NamedOfOne
  <2>2. CASE LockLines(c) = {}
    <3>1. HasNamed(FirstOf(CallersOf(c.by)), d)
      BY <1>2, <2>2, CoveredBecause
    <3> QED BY <2>2, <3>1, NamedGrows
  <2> QED BY <2>1, <2>2
<1>3. \A d \in Nat : d \in Good
  <2> HIDE DEF Good
  <2> QED BY <1>1, <1>2, Induction
<1> QED BY <1>3

\* In such a file, the lock that is named with an exonerated candidate is taken
\* on the way from its first caller, and no lock nearer to the candidate.
THEOREM NamingCorrect == FileInit => NameIsTaken
<1> SUFFICES ASSUME FileInit, OneHeaderEach, NEW f \in Names, Held(f)
             PROVE  \E s \in ChainsTo(f) :
                      /\ s[1] = FirstOf(CallersOf(f))
                      /\ \A k \in 1 .. Len(s) - 1 : Unlocked(<<s[k]>>)
                      /\ \E j \in DOMAIN file :
                           TakenBefore(j, s[Len(s)].at) /\ file[j].of = HeldName(f)
  BY DEF NameIsTaken
<1> DEFINE c == FirstOf(CallersOf(f))
<1>1. c \in CallersOf(f) /\ c \in Covered[Depth] /\ Depth \in Nat
  BY FirstOfFacts, LinesAssumption DEF Held
<1>2. HeldName(f) = NameOf[Depth][c]
  BY DEF HeldName
<1> HIDE DEF c
<1>3. PICK n \in 1 .. Depth : \E s : Named(s, n, c, Depth)
  BY <1>1, CoveredIsNamed DEF HasNamed
<1>4. PICK s \in [1 .. n -> Calls] : Named(s, n, c, Depth)
  BY <1>3 DEF Named
<1>5. /\ s[1] = c /\ Links(s, n)
      /\ \A k \in 1 .. n - 1 : LockLines(s[k]) = {}
      /\ LockLines(s[n]) # {}
      /\ file[Min(LockLines(s[n]))].of = NameOf[Depth][c]
  BY <1>4 DEF Named
<1>6. Len(s) = n /\ s \in ChainsTo(f)
  BY <1>1, <1>5, ChainsOf
<1>7. ASSUME NEW k \in 1 .. n - 1 PROVE Unlocked(<<s[k]>>)
  <2>1. s[k] \in Calls
    OBVIOUS
  <2>2. LockLines(s[k]) = {j \in DOMAIN file : TakenBefore(j, s[k].at)}
    BY <2>1, LocksOfBody
  <2>3. \A j \in DOMAIN file : ~TakenBefore(j, s[k].at)
    BY <1>5, <2>2
  <2> QED BY <2>3 DEF Unlocked
<1>8. \E j \in DOMAIN file : TakenBefore(j, s[n].at) /\ file[j].of = HeldName(f)
  <2>1. s[n] \in Calls
    BY <1>1
  <2>2. Min(LockLines(s[n])) \in LockLines(s[n])
    BY <1>5, <2>1, FirstLock
  <2>3. LockLines(s[n]) = {j \in DOMAIN file : TakenBefore(j, s[n].at)}
    BY <2>1, LocksOfBody
  <2> QED BY <1>2, <1>5, <2>2, <2>3
<1> QED BY <1>5, <1>6, <1>7, <1>8 DEF c

-----------------------------------------------------------------------------
(* The hop: the braces of a file.                                           *)

LEMMA SourceShape ==
  ASSUME TaintInit
  PROVE  /\ \E n \in Nat \ {0} : DOMAIN source = 1 .. n
         /\ \A i \in DOMAIN source : source[i] \in SourceLines
         /\ flagged \in DOMAIN source
BY TaintLinesAssumption, CapsAssumption DEF TaintInit

LEMMA LineShape ==
  ASSUME NEW line \in SourceLines
  PROVE  /\ line.is \in {"header", "mention", "call", "plain"}
         /\ line.is # "plain" => line.of \in Helpers
         /\ line.opens \in 0 .. 1 /\ line.closes \in 0 .. 1 /\ line.lock \in BOOLEAN
BY DEF SourceLines

\* Counting a property up to one line more.
LEMMA CountNext ==
  ASSUME NEW P, NEW i \in Nat, NEW j \in Nat, i <= j + 1
  PROVE  /\ Cardinality((i .. j) \cap P) \in Nat
         /\ Cardinality((i .. j + 1) \cap P) =
              Cardinality((i .. j) \cap P) + IF j + 1 \in P THEN 1 ELSE 0
<1>1. IsFiniteSet(i .. j)
  BY FS_Interval
<1>2. IsFiniteSet((i .. j) \cap P)
  BY <1>1, FS_Subset
<1>3. Cardinality((i .. j) \cap P) \in Nat
  BY <1>2, FS_CardinalityType
<1>4. CASE j + 1 \in P
  <2>1. (i .. j + 1) \cap P = ((i .. j) \cap P) \union {j + 1}
    BY <1>4
  <2>2. j + 1 \notin (i .. j) \cap P
    OBVIOUS
  <2>3. Cardinality(((i .. j) \cap P) \union {j + 1}) = Cardinality((i .. j) \cap P) + 1
    BY <1>2, <2>2, FS_AddElement
  <2> QED BY <1>3, <1>4, <2>1, <2>3
<1>5. CASE j + 1 \notin P
  <2>1. (i .. j + 1) \cap P = (i .. j) \cap P
    BY <1>5
  <2>2. Cardinality((i .. j + 1) \cap P) = Cardinality((i .. j) \cap P)
    BY <2>1
  <2> QED BY <1>3, <1>5, <2>2
<1> QED BY <1>3, <1>4, <1>5

LEMMA DepthNext ==
  ASSUME NEW s, NEW i \in Nat, NEW j \in Nat, i <= j + 1,
         s[j + 1].opens \in 0 .. 1, s[j + 1].closes \in 0 .. 1
  PROVE  /\ BraceDepth(s, i, j) \in Int
         /\ BraceDepth(s, i, j + 1) = BraceDepth(s, i, j) + s[j + 1].opens - s[j + 1].closes
<1> DEFINE opening == {k \in Nat : s[k].opens = 1}
           closing == {k \in Nat : s[k].closes = 1}
<1>1. \A m \in Nat : BraceDepth(s, i, m) =
        Cardinality((i .. m) \cap opening) - Cardinality((i .. m) \cap closing)
  <2> SUFFICES ASSUME NEW m \in Nat
               PROVE  BraceDepth(s, i, m) =
                 Cardinality((i .. m) \cap opening) - Cardinality((i .. m) \cap closing)
    OBVIOUS
  <2>1. {k \in i .. m : s[k].opens = 1} = (i .. m) \cap opening
    OBVIOUS
  <2>2. {k \in i .. m : s[k].closes = 1} = (i .. m) \cap closing
    OBVIOUS
  <2> QED BY <2>1, <2>2 DEF BraceDepth
<1>2. j + 1 \in Nat
  OBVIOUS
<1>3. (j + 1 \in opening <=> s[j + 1].opens = 1) /\ (j + 1 \in closing <=> s[j + 1].closes = 1)
  OBVIOUS
<1> HIDE DEF opening, closing
<1>4. /\ Cardinality((i .. j) \cap opening) \in Nat
      /\ Cardinality((i .. j + 1) \cap opening) =
           Cardinality((i .. j) \cap opening) + IF j + 1 \in opening THEN 1 ELSE 0
  BY CountNext
<1>5. /\ Cardinality((i .. j) \cap closing) \in Nat
      /\ Cardinality((i .. j + 1) \cap closing) =
           Cardinality((i .. j) \cap closing) + IF j + 1 \in closing THEN 1 ELSE 0
  BY CountNext
<1>6. /\ BraceDepth(s, i, j) =
           Cardinality((i .. j) \cap opening) - Cardinality((i .. j) \cap closing)
      /\ BraceDepth(s, i, j + 1) =
           Cardinality((i .. j + 1) \cap opening) - Cardinality((i .. j + 1) \cap closing)
  BY <1>1, <1>2
<1>7. /\ s[j + 1].opens = IF j + 1 \in opening THEN 1 ELSE 0
      /\ s[j + 1].closes = IF j + 1 \in closing THEN 1 ELSE 0
  BY <1>3
<1> QED BY <1>4, <1>5, <1>6, <1>7

LEMMA DepthOfNone ==
  ASSUME NEW s, NEW i \in Nat \ {0}
  PROVE  BraceDepth(s, i, i - 1) = 0
<1>1. {k \in i .. i - 1 : s[k].opens = 1} = {} /\ {k \in i .. i - 1 : s[k].closes = 1} = {}
  OBVIOUS
<1>2. Cardinality({}) = 0
  BY FS_EmptySet
<1>3. BraceDepth(s, i, i - 1) = Cardinality({}) - Cardinality({})
  BY <1>1 DEF BraceDepth
<1> QED BY <1>2, <1>3

\* The depth of a part is what it adds to the depth of the file.
LEMMA DepthOfPart ==
  ASSUME TaintInit, NEW i \in DOMAIN source, NEW j \in DOMAIN source, i <= j
  PROVE  /\ BraceDepth(source, 1, j) \in Int /\ BraceDepth(source, 1, i - 1) \in Int
         /\ BraceDepth(source, i, j) = BraceDepth(source, 1, j) - BraceDepth(source, 1, i - 1)
<1>1. PICK n \in Nat \ {0} : DOMAIN source = 1 .. n
  BY SourceShape
<1>2. i \in Nat /\ i > 0 /\ j \in Nat /\ j <= n /\ i - 1 \in Nat /\ i - 1 < n
  BY <1>1
<1>3. ASSUME NEW k \in Nat, k < n
      PROVE  /\ BraceDepth(source, 1, k) \in Int
             /\ BraceDepth(source, 1, k + 1) =
                  BraceDepth(source, 1, k) + source[k + 1].opens - source[k + 1].closes
             /\ i <= k + 1 =>
                  /\ BraceDepth(source, i, k) \in Int
                  /\ BraceDepth(source, i, k + 1) =
                       BraceDepth(source, i, k) + source[k + 1].opens - source[k + 1].closes
  <2>1. k + 1 \in DOMAIN source
    BY <1>1, <1>3
  <2>2. source[k + 1].opens \in 0 .. 1 /\ source[k + 1].closes \in 0 .. 1
    BY <2>1, SourceShape, LineShape
  <2>3. 1 \in Nat /\ 1 <= k + 1 /\ i \in Nat
    BY <1>2
  <2> QED BY <2>2, <2>3, DepthNext
<1> DEFINE Adds == {k \in Nat :
             i - 1 <= k /\ k <= n =>
               /\ BraceDepth(source, 1, k) \in Int
               /\ BraceDepth(source, i, k) =
                    BraceDepth(source, 1, k) - BraceDepth(source, 1, i - 1)}
<1>4. ASSUME NEW k \in Nat, k + 1 <= n
      PROVE  /\ BraceDepth(source, 1, k + 1) \in Int
  <2>1. k < n /\ k + 1 \in DOMAIN source
    BY <1>1, <1>4
  <2>2. source[k + 1].opens \in 0 .. 1 /\ source[k + 1].closes \in 0 .. 1
    BY <2>1, SourceShape, LineShape
  <2>3. /\ BraceDepth(source, 1, k) \in Int
        /\ BraceDepth(source, 1, k + 1) =
                  BraceDepth(source, 1, k) + source[k + 1].opens - source[k + 1].closes
    BY <1>3, <2>1
  <2> QED BY <2>2, <2>3
<1>5. BraceDepth(source, 1, i - 1) \in Int
  BY <1>2, <1>3
<1>6. i - 1 \in Adds
  BY <1>2, <1>5, DepthOfNone
<1>7. ASSUME NEW k \in Nat, k \in Adds, k + 1 # i - 1 PROVE k + 1 \in Adds
  <2> SUFFICES ASSUME i - 1 <= k + 1, k + 1 <= n
               PROVE  /\ BraceDepth(source, 1, k + 1) \in Int
                      /\ BraceDepth(source, i, k + 1) =
                           BraceDepth(source, 1, k + 1) - BraceDepth(source, 1, i - 1)
    OBVIOUS
  <2>1. i - 1 <= k /\ k < n /\ i <= k + 1
    BY <1>2, <1>7
  <2>2. /\ BraceDepth(source, 1, k) \in Int
        /\ BraceDepth(source, i, k) =
             BraceDepth(source, 1, k) - BraceDepth(source, 1, i - 1)
    BY <1>7, <2>1
  <2>3. k + 1 \in DOMAIN source
    BY <1>1, <2>1
  <2>4. source[k + 1].opens \in 0 .. 1 /\ source[k + 1].closes \in 0 .. 1
    BY <2>3, SourceShape, LineShape
  <2>5. BraceDepth(source, 1, k + 1) =
          BraceDepth(source, 1, k) + source[k + 1].opens - source[k + 1].closes
    BY <1>3, <2>1
  <2>6. BraceDepth(source, i, k + 1) =
          BraceDepth(source, i, k) + source[k + 1].opens - source[k + 1].closes
    BY <1>3, <2>1
  <2> QED BY <1>5, <2>2, <2>4, <2>5, <2>6
<1>8. \A k \in Nat : k \in Adds
  <2>1. 0 \in Adds
    <3>1. CASE i - 1 = 0
      BY <1>6, <3>1
    <3>2. CASE i - 1 # 0
      BY <1>2, <3>2
    <3> QED BY <3>1, <3>2
  <2>2. \A k \in Nat : k \in Adds => k + 1 \in Adds
    <3> HIDE DEF Adds
    <3> QED BY <1>6, <1>7
  <2> HIDE DEF Adds
  <2> QED BY <2>1, <2>2, Induction
<1>9. j \in Adds
  BY <1>2, <1>8
<1> QED BY <1>2, <1>5, <1>9

\* What a compiler takes, in terms of the depth before and behind a line.
LEMMA FileRules ==
  ASSUME TaintInit, NEW j \in DOMAIN source
  PROVE  LET before == BraceDepth(source, 1, j - 1)
             behind == BraceDepth(source, 1, j)
             line   == source[j]
         IN  /\ before \in Int /\ behind \in Nat
             /\ behind = before + line.opens - line.closes
             /\ line.is = "header" =>
                  /\ before = 0
                  /\ line.opens = 1 \/ (j + 1 \in DOMAIN source /\ source[j + 1].opens = 1
                                         /\ source[j + 1].is = "plain" /\ line.closes = 0)
                  /\ \A k \in DOMAIN source :
                       source[k].is = "header" /\ source[k].of = line.of => k = j
             /\ line.is = "mention" => line.opens = 0 /\ line.closes = 0
             /\ line.is = "call" \/ (line.is = "plain" /\ line.closes = 1) => before > 0
             /\ line.lock => behind > 0 \/ line.opens = 1
             /\ line.is = "plain" /\ line.opens = 1 =>
                  before > 0 \/ (j > 1 /\ source[j - 1].is = "header" /\ source[j - 1].opens = 0)
<1> DEFINE before == BraceDepth(source, 1, j - 1)
           behind == BraceDepth(source, 1, j)
           line   == source[j]
<1>1. WellFormed(source)
  BY DEF TaintInit
<1>2. /\ behind >= 0
      /\ line.is = "header" =>
           /\ before = 0
           /\ line.opens = 1 \/ (j + 1 \in DOMAIN source /\ source[j + 1].opens = 1
                                  /\ source[j + 1].is = "plain" /\ line.closes = 0)
           /\ \A k \in DOMAIN source :
                source[k].is = "header" /\ source[k].of = line.of => k = j
      /\ line.is = "mention" => line.opens = 0 /\ line.closes = 0
      /\ line.is = "call" \/ (line.is = "plain" /\ line.closes = 1) => before > 0
      /\ line.lock => behind > 0 \/ line.opens = 1
      /\ line.is = "plain" /\ line.opens = 1 =>
           before > 0 \/ (j > 1 /\ source[j - 1].is = "header" /\ source[j - 1].opens = 0)
  <2>1. behind >= 0
    BY <1>1 DEF WellFormed
  <2>2. line.is = "header" =>
          /\ before = 0
          /\ line.opens = 1 \/ (j + 1 \in DOMAIN source /\ source[j + 1].opens = 1
                                 /\ source[j + 1].is = "plain" /\ line.closes = 0)
          /\ \A k \in DOMAIN source :
               source[k].is = "header" /\ source[k].of = line.of => k = j
    BY <1>1, Zenon DEF WellFormed
  <2>3. /\ line.is = "mention" => line.opens = 0 /\ line.closes = 0
        /\ line.is = "call" \/ (line.is = "plain" /\ line.closes = 1) => before > 0
    BY <1>1 DEF WellFormed
  <2>4. /\ line.lock => behind > 0 \/ line.opens = 1
        /\ line.is = "plain" /\ line.opens = 1 =>
             before > 0 \/ (j > 1 /\ source[j - 1].is = "header" /\ source[j - 1].opens = 0)
    BY <1>1, Zenon DEF WellFormed
  <2> HIDE DEF before, behind, line
  <2> QED BY <2>1, <2>2, <2>3, <2>4
<1>3. before \in Int /\ behind \in Int
  <2>1. j <= j
    BY SourceShape
  <2> QED BY <2>1, DepthOfPart
<1>4. behind = before + line.opens - line.closes
  <2>1. PICK n \in Nat \ {0} : DOMAIN source = 1 .. n
    BY SourceShape
  <2>2. j - 1 \in Nat /\ (j - 1) + 1 = j /\ 1 \in Nat /\ 1 <= (j - 1) + 1
    BY <2>1
  <2>3. line.opens \in 0 .. 1 /\ line.closes \in 0 .. 1
    BY SourceShape, LineShape
  <2>4. DEFINE m == j - 1
  <2>5. m \in Nat /\ m + 1 = j
    BY <2>2
  <2> HIDE DEF m
  <2>6. BraceDepth(source, 1, m + 1) =
          BraceDepth(source, 1, m) + source[m + 1].opens - source[m + 1].closes
    BY <2>2, <2>3, <2>5, DepthNext
  <2> QED BY <2>5, <2>6 DEF m
<1> HIDE DEF before, behind, line
<1>5. behind \in Nat
  BY <1>2, <1>3
<1>6. /\ before \in Int /\ behind \in Nat
      /\ behind = before + line.opens - line.closes
      /\ line.is = "header" =>
           /\ before = 0
           /\ line.opens = 1 \/ (j + 1 \in DOMAIN source /\ source[j + 1].opens = 1
                                  /\ source[j + 1].is = "plain" /\ line.closes = 0)
           /\ \A k \in DOMAIN source :
                source[k].is = "header" /\ source[k].of = line.of => k = j
      /\ line.is = "mention" => line.opens = 0 /\ line.closes = 0
      /\ line.is = "call" \/ (line.is = "plain" /\ line.closes = 1) => before > 0
      /\ line.lock => behind > 0 \/ line.opens = 1
      /\ line.is = "plain" /\ line.opens = 1 =>
           before > 0 \/ (j > 1 /\ source[j - 1].is = "header" /\ source[j - 1].opens = 0)
  BY <1>2, <1>3, <1>4, <1>5
<1> QED BY <1>6 DEF before, behind, line

\* The lines from a header on are read up to the first one behind which all
\* braces are closed.
LEMMA ClosedIsZero ==
  ASSUME TaintInit, NEW d \in DOMAIN source, source[d].is = "header",
         NEW k \in DOMAIN source, d <= k
  PROVE  Closed(d, k) <=>
           /\ \E m \in d .. k : source[m].opens = 1
           /\ BraceDepth(source, 1, k) = 0
<1>1. BraceDepth(source, 1, d - 1) = 0
  BY FileRules
<1>2. BraceDepth(source, 1, k) \in Nat
  BY FileRules
<1>3. BraceDepth(source, d, k) = BraceDepth(source, 1, k)
  BY <1>1, <1>2, DepthOfPart
<1> QED BY <1>2, <1>3 DEF Closed

\* There is no header among them but the first.
LEMMA BodyHasOneHeader ==
  ASSUME TaintInit, NEW d \in DOMAIN source, source[d].is = "header",
         NEW j \in Body(d), NEW k \in DOMAIN source, d < k, k <= j
  PROVE  source[k].is # "header"
<1>1. PICK n \in Nat \ {0} : DOMAIN source = 1 .. n
  BY SourceShape
<1>2. d \in 1 .. n /\ k \in 1 .. n /\ j \in 1 .. n
  BY <1>1 DEF Body
<1> SUFFICES ASSUME source[k].is = "header" PROVE FALSE
  OBVIOUS
<1>3. k - 1 \in DOMAIN source /\ d <= k - 1 /\ k - 1 \in d .. j - 1
  BY <1>1, <1>2
<1>4. ~Closed(d, k - 1)
  BY <1>3 DEF Body
<1>5. BraceDepth(source, 1, k - 1) = 0
  BY FileRules
<1>6. \A m \in d .. k - 1 : source[m].opens # 1
  BY <1>3, <1>4, <1>5, ClosedIsZero
<1>7. source[d].opens # 1 /\ d + 1 \in DOMAIN source
      /\ source[d + 1].opens = 1 /\ source[d + 1].is = "plain"
  <2>1. d \in d .. k - 1
    BY <1>2
  <2>2. source[d].opens # 1
    BY <1>6, <2>1
  <2> QED BY <2>2, FileRules
<1>8. CASE k = d + 1
  BY <1>7, <1>8
<1>9. CASE k # d + 1
  <2>1. d + 1 \in d .. k - 1
    BY <1>2, <1>9
  <2> QED BY <1>6, <1>7, <2>1
<1> QED BY <1>8, <1>9

\* Once they are closed, nothing opens before the next header, and no lock is
\* taken.
LEMMA NothingBehind ==
  ASSUME TaintInit, NEW d \in DOMAIN source, source[d].is = "header",
         NEW j \in DOMAIN source, NEW k \in DOMAIN source, d <= k, k < j, Closed(d, k),
         \A m \in DOMAIN source : d < m /\ m <= j => source[m].is # "header"
  PROVE  ~source[j].lock
<1>1. PICK n \in Nat \ {0} : DOMAIN source = 1 .. n
  BY SourceShape
<1>2. d \in 1 .. n /\ k \in 1 .. n /\ j \in 1 .. n
  BY <1>1
<1>3. ASSUME NEW m \in DOMAIN source, k < m, m <= j, BraceDepth(source, 1, m - 1) = 0
      PROVE  source[m].opens = 0 /\ BraceDepth(source, 1, m) = 0
  <2>1. source[m].is # "header" /\ source[m].is \in {"header", "mention", "call", "plain"}
        /\ source[m].opens \in 0 .. 1 /\ source[m].closes \in 0 .. 1
    BY <1>1, <1>2, <1>3, SourceShape, LineShape
  <2>2. /\ source[m].is = "mention" => source[m].opens = 0 /\ source[m].closes = 0
        /\ ~(source[m].is = "call" \/ (source[m].is = "plain" /\ source[m].closes = 1))
        /\ source[m].is = "plain" /\ source[m].opens = 1 =>
             m > 1 /\ source[m - 1].is = "header" /\ source[m - 1].opens = 0
        /\ BraceDepth(source, 1, m) = 0 + source[m].opens - source[m].closes
    BY <1>3, FileRules
  <2>3. ASSUME source[m].is = "plain", source[m].opens = 1 PROVE FALSE
    <3>1. m - 1 \in DOMAIN source /\ d <= m - 1 /\ m - 1 <= j
      BY <1>1, <1>2, <1>3
    <3>2. source[m - 1].is = "header" /\ source[m - 1].opens = 0
      BY <2>2, <2>3
    <3>3. m - 1 = d
      BY <1>1, <1>2, <3>1, <3>2
    <3>4. k = d
      BY <1>1, <1>2, <1>3, <3>3
    <3>5. \E i \in d .. k : source[i].opens = 1
      BY ClosedIsZero
    <3> QED BY <1>1, <1>2, <3>2, <3>3, <3>4, <3>5
  <2>4. source[m].opens = 0 /\ source[m].closes = 0
    BY <2>1, <2>2, <2>3
  <2> QED BY <2>2, <2>4
<1> DEFINE Shut == {m \in Nat : k <= m /\ m <= j => BraceDepth(source, 1, m) = 0}
<1>4. k \in Shut
  BY <1>2, ClosedIsZero
<1>5. ASSUME NEW m \in Nat, m \in Shut PROVE m + 1 \in Shut
  <2>1. CASE m + 1 = k
    BY <1>4, <2>1
  <2>2. CASE m + 1 # k
    <3> SUFFICES ASSUME k <= m + 1, m + 1 <= j PROVE BraceDepth(source, 1, m + 1) = 0
      OBVIOUS
    <3>1. m + 1 \in DOMAIN source /\ k < m + 1 /\ (m + 1) - 1 = m
      BY <1>1, <1>2, <2>2
    <3>2. BraceDepth(source, 1, m) = 0
      BY <1>2, <1>5, <3>1
    <3> QED BY <1>3, <3>1, <3>2
  <2> QED BY <2>1, <2>2
<1>6. 0 \in Shut
  BY <1>2
<1>7. \A m \in Nat : m \in Shut
  <2> HIDE DEF Shut
  <2> QED BY <1>5, <1>6, Induction
<1>8. BraceDepth(source, 1, j - 1) = 0 /\ BraceDepth(source, 1, j) = 0
  <2>1. j - 1 \in Nat /\ k <= j - 1 /\ j - 1 <= j /\ j \in Nat /\ k <= j
    BY <1>2
  <2> QED BY <1>7, <2>1
<1>9. source[j].opens = 0
  BY <1>2, <1>3, <1>8
<1> QED BY <1>8, <1>9, FileRules

\* The locks that _callee_has_lock finds from a header on are those of its helper.
LEMMA LocksOfHelper ==
  ASSUME TaintInit, LocksInReach, NEW d \in DOMAIN source, source[d].is = "header",
         NEW j \in DOMAIN source, source[j].lock
  PROVE  j \in Body(d) <=> OwnerOf(j) = source[d].of
<1>1. PICK n \in Nat \ {0} : DOMAIN source = 1 .. n
  BY SourceShape
<1> DEFINE headers == {k \in 1 .. j : source[k].is = "header"}
<1>2. OwnerOf(j) = IF headers = {} THEN NoHelper ELSE source[Max(headers)].of
  BY DEF OwnerOf
<1>3. headers # {} => Max(headers) \in headers /\ \A k \in headers : k <= Max(headers)
  <2>1. j \in Nat /\ headers \subseteq 0 .. j
    BY <1>1
  <2> HIDE DEF headers
  <2> QED BY <2>1, GreatestElement
<1>4. headers \subseteq DOMAIN source
  BY <1>1
<1>5. ASSUME j \in Body(d) PROVE OwnerOf(j) = source[d].of
  <2>1. d \in headers
    BY <1>1, <1>5 DEF Body
  <2>2. \A k \in headers : ~(d < k)
    BY <1>1, <1>4, <1>5, BodyHasOneHeader
  <2>3. Max(headers) = d
    <3> HIDE DEF headers
    <3>1. Max(headers) \in headers /\ d <= Max(headers) /\ ~(d < Max(headers))
      BY <1>3, <2>1, <2>2
    <3>2. Max(headers) \in 1 .. n /\ d \in 1 .. n
      BY <1>1, <1>4, <3>1
    <3> QED BY <3>1, <3>2
  <2> QED BY <1>2, <2>1, <2>3
<1>6. ASSUME OwnerOf(j) = source[d].of PROVE j \in Body(d)
  <2>1. source[d].of \in Helpers /\ NoHelper \notin Helpers
    BY SourceShape, LineShape, TaintLinesAssumption
  <2>2. headers # {}
    BY <1>2, <1>6, <2>1
  <2>3. Max(headers) \in headers /\ source[Max(headers)].of = source[d].of
    BY <1>2, <1>3, <1>6, <2>2
  <2>4. Max(headers) = d
    <3>1. Max(headers) \in DOMAIN source /\ source[Max(headers)].is = "header"
      BY <1>4, <2>3
    <3> QED BY <2>3, <3>1, FileRules
  <2>5. d <= j
    BY <1>1, <2>3, <2>4
  <2>6. \A m \in DOMAIN source : d < m /\ m <= j => source[m].is # "header"
    <3> SUFFICES ASSUME NEW m \in DOMAIN source, d < m, m <= j, source[m].is = "header"
                 PROVE  FALSE
      OBVIOUS
    <3>1. m \in headers
      BY <1>1
    <3>2. m <= d
      BY <1>3, <2>2, <2>4, <3>1
    <3> QED BY <1>1, <3>2
  <2>7. j < d + BodyCap
    BY <1>6 DEF LocksInReach
  <2>8. ASSUME NEW k \in d .. j - 1, Closed(d, k) PROVE FALSE
    <3>1. k \in DOMAIN source /\ d <= k /\ k < j
      BY <1>1
    <3> QED BY <2>6, <2>8, <3>1, NothingBehind
  <2> QED BY <2>5, <2>7, <2>8 DEF Body
<1> QED BY <1>5, <1>6

\* In a well-formed file of any length, the risk is raised just if the first
\* helper the variable is passed to has no lock of its own.
THEOREM HopCorrect == TaintInit => TaintMatchesBody
<1> SUFFICES ASSUME TaintInit, CommentsFollow, OnlyCalls, LocksInReach
             PROVE  Propagated <=>
                      \E i \in HopLines :
                        /\ \A k \in HopLines : i <= k
                        /\ \A j \in DOMAIN source : source[j].lock => OwnerOf(j) # source[i].of
  BY DEF TaintMatchesBody
<1>1. ASSUME NEW i \in HopLines
      PROVE  CalleeHasLock(source[i].of) <=>
               \E j \in DOMAIN source : source[j].lock /\ OwnerOf(j) = source[i].of
  <2> DEFINE h == source[i].of
             places == {k \in DOMAIN source :
                          source[k].is \in {"header", "mention"} /\ source[k].of = h}
  <2>1. PICK d \in DOMAIN source : source[d].is = "header" /\ source[d].of = h
    BY DEF HopLines, LocalDefs
  <2>2. PICK n \in Nat \ {0} : DOMAIN source = 1 .. n
    BY SourceShape
  <2>3. \A k \in places : d <= k
    <3> SUFFICES ASSUME NEW k \in places PROVE d <= k
      OBVIOUS
    <3>1. CASE source[k].is = "header"
      BY <2>1, <2>2, <3>1, FileRules
    <3>2. CASE source[k].is = "mention"
      BY <2>1, <2>2, <3>2 DEF CommentsFollow
    <3> QED BY <3>1, <3>2
  <2>4. DefinitionOf(h) = d
    <3>1. d \in places /\ places \subseteq Nat
      BY <2>1, <2>2
    <3>2. Min(places) \in places /\ Min(places) <= d
      <4> HIDE DEF places
      <4> QED BY <3>1, LeastElement
    <3>3. d <= Min(places) /\ Min(places) \in Nat /\ d \in Nat
      BY <2>3, <3>1, <3>2
    <3>4. Min(places) = d
      <4> HIDE DEF places
      <4> QED BY <3>2, <3>3
    <3> QED BY <3>4 DEF DefinitionOf
  <2>5. CalleeHasLock(h) <=> \E j \in Body(d) : source[j].lock
    BY <2>4 DEF CalleeHasLock
  <2>6. Body(d) \subseteq DOMAIN source
    BY DEF Body
  <2>7. \A j \in DOMAIN source : source[j].lock => (j \in Body(d) <=> OwnerOf(j) = h)
    BY <2>1, LocksOfHelper
  <2> QED BY <2>5, <2>6, <2>7
<1>2. Propagated <=> \E i \in HopLines :
                       (\A k \in HopLines : i <= k) /\ ~CalleeHasLock(source[i].of)
  BY DEF Propagated, Callees
<1> QED BY <1>1, <1>2

=============================================================================
