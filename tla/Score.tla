------------------------------- MODULE Score -------------------------------
(***************************************************************************)
(* The number that ranks a finding (src/models.py): its verdict weighted   *)
(* by the confidence of the triage, raised by what makes a race likelier   *)
(* and lowered by what protects the access.  Scores are in units of        *)
(* 1/10000, the precision the code rounds to, confidences in percent.      *)
(* A definition named Bug_X is X with a mistake that code could contain.   *)
(***************************************************************************)
EXTENDS Integers

CONSTANT Confidences   \* confidences a triage may give

ASSUME ConfidencesAssumption == Confidences \subseteq 0 .. 100

VARIABLE result

Verdicts == {"likely_race", "needs_review", "triage_error", "likely_safe"}

Escalations == {"taint_propagated", "patch_missing", "interrupt_context",
                "workqueue_async"}

Protections == {"caller_lock_held", "annotation_protected", "barrier_protected"}

\* A triage result with the signals of its candidate that are set.
Results ==
  [verdict : Verdicts, confidence : Confidences,
   signals : SUBSET (Escalations \union Protections)]

-----------------------------------------------------------------------------

\* What a verdict counts, in tenths.
VerdictBase(verdict) ==
  CASE verdict = "likely_race"  -> 10
    [] verdict = "needs_review" -> 5
    [] verdict = "triage_error" -> 4
    [] verdict = "likely_safe"  -> 0

If(condition, amount) == IF condition THEN amount ELSE 0

Raised(signals) ==
  If("taint_propagated" \in signals, 2000)
  + If("patch_missing" \in signals, 1500)
  + If("interrupt_context" \in signals, 1000)
  + If("workqueue_async" \in signals /\ "caller_lock_held" \notin signals, 1000)

Lowered(signals) ==
  If("caller_lock_held" \in signals, 3000)
  + If("annotation_protected" \in signals, 2000)
  + If("barrier_protected" \in signals, 1500)

One == 10000

Clamp(n) == IF n < 0 THEN 0 ELSE IF n > One THEN One ELSE n

Weighted(r) == 5 * VerdictBase(r.verdict) * (100 + r.confidence)

Bug_Score(r) == Clamp(Weighted(r) + Raised(r.signals) - Lowered(r.signals))

\* TriageResult.score: signals count for a candidate that is not exonerated.
Score(r) ==
  IF VerdictBase(r.verdict) > 0
  THEN Clamp(Weighted(r) + Raised(r.signals) - Lowered(r.signals))
  ELSE Clamp(Weighted(r))

ScoreInit == result \in Results

\* The patch-gap check marks the candidate of a result that may be scored
\* already (patch_gap.apply_all).
MarkMissing ==
  result' = [result EXCEPT !.signals = @ \union {"patch_missing"}]

ScoreSpec == ScoreInit /\ [][MarkMissing]_result

-----------------------------------------------------------------------------
(* Properties.                                                             *)

With(r, signal) == [r EXCEPT !.signals = @ \union {signal}]

(* The ranking keeps its order although the terms overlap and the sum is    *)
(* clamped at both ends (models.py:183-208): a score is from 0 to 1; a sign *)
(* of a race never lowers it and a protection never raises it, the caller's *)
(* lock included, which also silences the work queue; more confidence in a  *)
(* finding never lowers it; and a live finding without protection outranks  *)
(* every exonerated one, whatever was found out about that.                 *)
ScoreKeepsOrder ==
  /\ Score(result) \in 0 .. One
  /\ \A s \in Escalations : Score(With(result, s)) >= Score(result)
  /\ \A s \in Protections : Score(With(result, s)) <= Score(result)
  /\ \A c \in Confidences :
       c >= result.confidence =>
         Score([result EXCEPT !.confidence = c]) >= Score(result)
  /\ \A other \in Results :
       /\ result.verdict # "likely_safe" /\ result.signals \intersect Protections = {}
       /\ other.verdict = "likely_safe"
       => Score(result) > Score(other)

=============================================================================
