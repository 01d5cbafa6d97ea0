--------------------------- MODULE TriagePipeline ---------------------------
(***************************************************************************)
(* The triage stage of racemap: several runs (CLI processes, web requests, *)
(* Streamlit sessions) turn the scanner's candidates into verdicts, one    *)
(* candidate after the other, and share the SQLite response cache          *)
(* ~/.racemap/cache.db.  A candidate is first looked up in the cache; on a *)
(* miss the run walks the chain of backends of the selected --llm until    *)
(* one of them answers, and stores the answer.                             *)
(*                                                                         *)
(* Every step that another run can interleave with is an action: the       *)
(* SELECT of the lookup, each backend call, and the INSERT OR REPLACE.     *)
(*                                                                         *)
(* A definition named Bug_X is X with a mistake that code could contain;   *)
(* the specification never uses it.  It is there to show that a property   *)
(* would notice the mistake.                                               *)
(***************************************************************************)
EXTENDS Integers, Sequences, FiniteSets

CONSTANTS
  Runs,            \* processes and requests that triage a scan
  NumCandidates,   \* candidates of a scan, in the scanner's order
  LLMs,            \* names of the LLM backends
  Timed,           \* those of them whose call is given a timeout
  AutoChain,       \* the order tried by --llm auto, heuristic last
  Entries,         \* entry points in use: subset of AllEntries
  LLMVerdicts,     \* verdicts a model completion may carry
  LLMConfidences,  \* confidences (in tenths) a completion may carry
  Errors,          \* failure reasons a backend may report
  SourceEdits,     \* may the scanned tree change between runs?
  TTL,             \* cache.py TTL_SECONDS, in clock ticks
  MaxNow           \* bound on the clock

Candidates == 1 .. NumCandidates
Verdicts == {"likely_race", "needs_review", "likely_safe", "triage_error"}
Confidences == 0 .. 10
Backends == LLMs \union {"heuristic"}
Choices == Backends \union {"auto"}
Requests == Choices \union {"unregistered"}   \* /api/scan takes any string
AllEntries == {"cli", "web", "validate"}

ASSUME RunsAssumption == IsFiniteSet(Runs)
ASSUME CandidatesAssumption == NumCandidates \in Nat \ {0}
ASSUME BackendsAssumption ==
  /\ {"heuristic", "auto", "unregistered"} \cap LLMs = {}
  /\ Timed \subseteq LLMs
ASSUME ChainAssumption ==
  /\ AutoChain \in Seq(Backends)
  /\ AutoChain # << >>
  /\ \A k \in 1 .. Len(AutoChain) :
        AutoChain[k] = "heuristic" <=> k = Len(AutoChain)
  /\ \A j, k \in 1 .. Len(AutoChain) : AutoChain[j] = AutoChain[k] => j = k
ASSUME AnswersAssumption ==
  /\ LLMVerdicts \subseteq Verdicts
  /\ LLMConfidences \subseteq Int
ASSUME EntriesAssumption == Entries \subseteq AllEntries /\ SourceEdits \in BOOLEAN
ASSUME ClockAssumption == TTL \in Nat /\ MaxNow \in Nat

VARIABLES
  tree,       \* per candidate: does its window hold a mitigation right now?
  rows,       \* the triage_cache table, by candidate key
  now,        \* time.time()
  mode,       \* per run: how its TriagePipeline was constructed
  stage,      \* per run: where triage() stands
  cands,      \* per run: mitigation_present of the candidates it scanned
  link,       \* per run: position in the backend chain
  pending,    \* per run: answer not yet stored
  results,    \* per run: the list triage() is building
  warnings,   \* per run: TriagePipeline.warnings
  answers     \* history: every answer a backend chain has produced

shared == <<tree, rows, now>>
vars == <<tree, rows, now, mode, stage, cands, link, pending, results,
          warnings, answers>>

-----------------------------------------------------------------------------
(* Data.  A model label is the backend's model_id ("own"), the model_id    *)
(* with "+heuristic" ("unparsed") or "X (fallback: heuristic)"             *)
(* ("fallback"); cached stands for the " [CACHED]" suffix.                 *)

Labels == [by : Backends, how : {"own", "unparsed", "fallback"}]

Answer(c, verdict, conf, label) ==
  [cand |-> c, verdict |-> verdict, conf |-> conf, label |-> label,
   cached |-> FALSE]

Results == [cand : Candidates, verdict : Verdicts, conf : Confidences,
            label : Labels, cached : BOOLEAN]

NoAnswer == [cand |-> 0]

Bug_Row(answer, ts) == [verdict |-> answer.verdict, conf |-> answer.conf,
                        label |-> answer.label, ts |-> ts + TTL]
Row(answer, ts) == [verdict |-> answer.verdict, conf |-> answer.conf,
                    label |-> answer.label, ts |-> ts]

NoRow == [ts |-> 0]

Rows == [verdict : Verdicts, conf : Confidences, label : Labels,
         ts : 0 .. MaxNow]

\* TriagePipeline(...) as each entry point constructs it; the Streamlit page
\* (cached_scan) constructs it as the command line does.
Modes(entries, requests, demos, caches) ==
  [entry : entries, requested : requests, demo : demos, cache : caches]

CliModes == Modes({"cli"}, Choices, BOOLEAN, {TRUE})
WebModes == {m \in Modes({"web"}, Requests, {FALSE}, BOOLEAN) :
               m.cache = (m.requested = "heuristic")}
ValidateModes == Modes({"validate"}, Choices, {FALSE}, {FALSE})

AllModes == CliModes \union WebModes \union ValidateModes
NoMode == [entry |-> "none", requested |-> "heuristic", demo |-> FALSE,
           cache |-> FALSE]

\* TriagePipeline._chain
Chain(requested) ==
  CASE requested = "auto"      -> AutoChain
    [] requested \in LLMs      -> <<requested, "heuristic">>
    [] OTHER                   -> <<"heuristic">>

\* heuristic_triage: the mitigation found by the scanner decides.
HeuristicVerdict(mitigated) ==
  IF mitigated THEN "likely_safe" ELSE "likely_race"

HeuristicConfidence(mitigated) == IF mitigated THEN 6 ELSE 7

HeuristicAnswer(c, mitigated, label) ==
  Answer(c, HeuristicVerdict(mitigated), HeuristicConfidence(mitigated), label)

Plain(b) == [by |-> b, how |-> "own"]

Bug_HeuristicLabel(requested, k) == Plain("heuristic")

\* The label of a heuristic answer reached at position k of the chain.
HeuristicLabel(requested, k) ==
  IF k > 1 /\ requested \notin {"auto", "heuristic"}
    THEN [by |-> requested, how |-> "fallback"]
    ELSE Plain("heuristic")

\* TriageCache.get: a row past the TTL is ignored (and stays in the table).
Live(c) == rows[c] # NoRow /\ now - rows[c].ts <= TTL

\* parse_triage: "data.get('confidence', 0.5) or 0.5", then clamped to [0, 1].
ParsedConfidence(k) ==
  CASE k = 0  -> 5
    [] k < 0  -> 0
    [] k > 10 -> 10
    [] OTHER  -> k

\* TriageCache.to_result: "rec.get('confidence', 0.5) or 0.5".
RestoredConfidence(conf) == IF conf = 0 THEN 5 ELSE conf

Bug_Restored(c, row) ==
  [cand |-> c, verdict |-> "needs_review", conf |-> RestoredConfidence(row.conf),
   label |-> row.label, cached |-> TRUE]

Restored(c, row) ==
  [cand |-> c, verdict |-> row.verdict, conf |-> RestoredConfidence(row.conf),
   label |-> row.label, cached |-> TRUE]

-----------------------------------------------------------------------------
(* Where a run stands.                                                     *)

Current(r) == Len(results[r]) + 1

Backend(r) == Chain(mode[r].requested)[link[r]]

FirstStage(m) == IF m.cache THEN "lookup" ELSE "attempt"

Active(r) == stage[r] \in {"lookup", "attempt", "store"}

Bug_Emit(r, answer) ==
  /\ results' = [results EXCEPT ![r] = Append(@, answer)]
  /\ stage' = [stage EXCEPT ![r] =
        IF Len(results[r]) = NumCandidates THEN "done" ELSE FirstStage(mode[r])]
  /\ link' = [link EXCEPT ![r] = 1]

\* triage(): the answer joins the list and the next candidate's turn comes.
Emit(r, answer) ==
  /\ results' = [results EXCEPT ![r] = Append(@, answer)]
  /\ stage' = [stage EXCEPT ![r] =
        IF Current(r) = NumCandidates THEN "done" ELSE FirstStage(mode[r])]
  /\ link' = [link EXCEPT ![r] = 1]

\* triage_one: an answer of the chain is stored first when caching is on.
Answered(r, answer) ==
  /\ answers' = answers \union {answer}
  /\ IF mode[r].cache
       THEN /\ pending' = [pending EXCEPT ![r] = answer]
            /\ stage' = [stage EXCEPT ![r] = "store"]
            /\ UNCHANGED <<results, link>>
       ELSE /\ Emit(r, answer)
            /\ UNCHANGED pending
  /\ UNCHANGED <<shared, mode, cands, warnings>>

-----------------------------------------------------------------------------
(* The steps of a run.                                                     *)

\* A run scans the tree, then triages what the scanner saw.
Start(r, m) ==
  /\ stage[r] = "idle"
  /\ m.entry \in Entries
  /\ mode' = [mode EXCEPT ![r] = m]
  /\ cands' = [cands EXCEPT ![r] = tree]
  /\ stage' = [stage EXCEPT ![r] = FirstStage(m)]
  /\ UNCHANGED <<shared, link, pending, results, warnings, answers>>

\* triage_one, lookup: an unexpired row is served.
CacheHit(r) ==
  /\ stage[r] = "lookup"
  /\ Live(Current(r))
  /\ Emit(r, Restored(Current(r), rows[Current(r)]))
  /\ UNCHANGED <<shared, mode, cands, pending, warnings, answers>>

\* triage_one, lookup: demo mode answers a miss offline and stores nothing.
DemoMiss(r) ==
  /\ stage[r] = "lookup"
  /\ ~ Live(Current(r))
  /\ mode[r].demo
  /\ Emit(r, HeuristicAnswer(Current(r), cands[r][Current(r)],
                             Plain("heuristic")))
  /\ UNCHANGED <<shared, mode, cands, pending, warnings, answers>>

Bug_CacheMiss(r) ==
  /\ stage[r] = "lookup"
  /\ ~ Live(Current(r))
  /\ stage' = [stage EXCEPT ![r] = "attempt"]
  /\ UNCHANGED <<shared, mode, cands, link, pending, results, warnings, answers>>

\* triage_one, lookup: any other miss goes to the backends.
CacheMiss(r) ==
  /\ stage[r] = "lookup"
  /\ ~ Live(Current(r))
  /\ ~ mode[r].demo
  /\ stage' = [stage EXCEPT ![r] = "attempt"]
  /\ UNCHANGED <<shared, mode, cands, link, pending, results, warnings, answers>>

\* The backend answers with a completion parse_triage understands.
LlmAnswers(r, verdict, conf) ==
  /\ stage[r] = "attempt"
  /\ Backend(r) # "heuristic"
  /\ Answered(r, Answer(Current(r), verdict, ParsedConfidence(conf),
                        Plain(Backend(r))))

\* parse_triage: no JSON, or a field that does not fit; the heuristic decides.
LlmUnparseable(r) ==
  /\ stage[r] = "attempt"
  /\ Backend(r) # "heuristic"
  /\ Answered(r, HeuristicAnswer(Current(r), cands[r][Current(r)],
                                 [by |-> Backend(r), how |-> "unparsed"]))

\* parse_triage: valid JSON that is not an object; data.get raises, and
\* nothing between here and the entry point catches it.
LlmNotAnObject(r) ==
  /\ stage[r] = "attempt"
  /\ Backend(r) # "heuristic"
  /\ stage' = [stage EXCEPT ![r] = "crashed"]
  /\ UNCHANGED <<shared, mode, cands, link, pending, results, warnings, answers>>

Bug_LlmFails(r, e) ==
  /\ stage[r] = "attempt"
  /\ Backend(r) # "heuristic"
  /\ link' = [link EXCEPT ![r] = @ + 1]
  /\ warnings' = [warnings EXCEPT ![r] = Append(@, <<Backend(r), e>>)]
  /\ UNCHANGED <<shared, mode, stage, cands, pending, results, answers>>

\* The backend is unavailable or its call fails: warn once, try the next one.
LlmFails(r, e) ==
  LET msg == <<Backend(r), e>> IN
  /\ stage[r] = "attempt"
  /\ Backend(r) # "heuristic"
  /\ link' = [link EXCEPT ![r] = @ + 1]
  /\ warnings' = [warnings EXCEPT ![r] =
        IF \E i \in 1 .. Len(@) : @[i] = msg THEN @ ELSE Append(@, msg)]
  /\ UNCHANGED <<shared, mode, stage, cands, pending, results, answers>>

\* The end of every chain: the heuristic always answers.
HeuristicAnswers(r) ==
  /\ stage[r] = "attempt"
  /\ Backend(r) = "heuristic"
  /\ Answered(r, HeuristicAnswer(Current(r), cands[r][Current(r)],
                                 HeuristicLabel(mode[r].requested, link[r])))

Bug_Store(r) ==
  /\ stage[r] = "store"
  /\ rows' = [rows EXCEPT ![pending[r].cand] = Row(pending[r], now)]
  /\ UNCHANGED <<tree, now, mode, stage, cands, link, pending, results,
                 warnings, answers>>

\* TriageCache.put: INSERT OR REPLACE, stamped with the time of the insert.
Store(r) ==
  /\ stage[r] = "store"
  /\ rows' = [rows EXCEPT ![pending[r].cand] = Row(pending[r], now)]
  /\ Emit(r, pending[r])
  /\ pending' = [pending EXCEPT ![r] = NoAnswer]
  /\ UNCHANGED <<tree, now, mode, cands, warnings, answers>>

\* The process is killed, or sqlite raises: what was stored stays stored.
Abort(r) ==
  /\ Active(r)
  /\ stage' = [stage EXCEPT ![r] = "aborted"]
  /\ UNCHANGED <<shared, mode, cands, link, pending, results, warnings, answers>>

Bug_FellBack(r) ==
  \A i \in 1 .. Len(results[r]) : results[r][i].label.how = "fallback"

\* server._effective_backend, on the results and warnings of a run.
FellBack(r) ==
  \/ warnings[r] # << >>
  \/ \E i \in 1 .. Len(results[r]) : results[r][i].label.how = "fallback"

Effective(r) ==
  IF mode[r].requested # "heuristic" /\ FellBack(r)
    THEN "heuristic" ELSE mode[r].requested

-----------------------------------------------------------------------------
(* The steps around the runs.                                              *)

\* TriageCache.clear, from the command line or a web request.
Clear ==
  /\ rows' = [c \in Candidates |-> NoRow]
  /\ rows' # rows
  /\ UNCHANGED <<tree, now, mode, stage, cands, link, pending, results,
                 warnings, answers>>

Tick ==
  /\ now < MaxNow
  /\ now' = now + 1
  /\ UNCHANGED <<tree, rows, mode, stage, cands, link, pending, results,
                 warnings, answers>>

\* The source is edited below the snippet but inside the mitigation window:
\* the key (file, line, primitive, snippet[:200]) does not change.
EditSource(c) ==
  /\ SourceEdits
  /\ tree' = [tree EXCEPT ![c] = ~ @]
  /\ UNCHANGED <<rows, now, mode, stage, cands, link, pending, results,
                 warnings, answers>>

Init ==
  /\ tree \in [Candidates -> BOOLEAN]
  /\ rows = [c \in Candidates |-> NoRow]
  /\ now = 0
  /\ mode = [r \in Runs |-> NoMode]
  /\ stage = [r \in Runs |-> "idle"]
  /\ cands = [r \in Runs |-> [c \in Candidates |-> FALSE]]
  /\ link = [r \in Runs |-> 1]
  /\ pending = [r \in Runs |-> NoAnswer]
  /\ results = [r \in Runs |-> << >>]
  /\ warnings = [r \in Runs |-> << >>]
  /\ answers = {}

Step(r) ==
  \/ CacheHit(r)
  \/ DemoMiss(r)
  \/ CacheMiss(r)
  \/ \E v \in LLMVerdicts, k \in LLMConfidences : LlmAnswers(r, v, k)
  \/ LlmUnparseable(r)
  \/ LlmNotAnObject(r)
  \/ \E e \in Errors : LlmFails(r, e)
  \/ HeuristicAnswers(r)
  \/ Store(r)

Next ==
  \/ \E r \in Runs : Step(r) \/ Abort(r) \/ \E m \in AllModes : Start(r, m)
  \/ Clear
  \/ Tick
  \/ \E c \in Candidates : EditSource(c)

\* Nothing bounds the call the run is in: some backends hand their client no
\* timeout.
Waits(r) == stage[r] = "attempt" /\ Backend(r) \in LLMs \ Timed

\* A started run keeps going, except where it waits for such a call.
Fairness == \A r \in Runs : WF_vars(~ Waits(r) /\ Step(r))

Spec == Init /\ [][Next]_vars /\ Fairness

-----------------------------------------------------------------------------
(* Properties.                                                             *)

Stages == {"idle", "lookup", "attempt", "store", "done", "crashed", "aborted"}

\* Every variable keeps its shape, and a run's position is one its stage allows.
TypeOK ==
  /\ tree \in [Candidates -> BOOLEAN]
  /\ rows \in [Candidates -> Rows \union {NoRow}]
  /\ now \in 0 .. MaxNow
  /\ mode \in [Runs -> AllModes \union {NoMode}]
  /\ stage \in [Runs -> Stages]
  /\ cands \in [Runs -> [Candidates -> BOOLEAN]]
  /\ link \in [Runs -> Nat \ {0}]
  /\ pending \in [Runs -> Results \union {NoAnswer}]
  /\ results \in [Runs -> Seq(Results)]
  /\ warnings \in [Runs -> Seq(LLMs \X Errors)]
  /\ answers \subseteq Results

\* A run never walks off its chain or its candidates: while it is active it has
\* a backend to call and a candidate to answer, its answers are those of the
\* candidates 1, 2, ... in that order, and an answer waits to be stored exactly
\* between the chain and the cache (pipeline.py:78-79, 95-116).
InPosition(r) ==
  /\ link[r] <= Len(Chain(mode[r].requested))
  /\ stage[r] = "idle" => results[r] = << >> /\ warnings[r] = << >> /\ link[r] = 1
  /\ Active(r) => Len(results[r]) < NumCandidates
  /\ stage[r] = "done" => Len(results[r]) = NumCandidates
  /\ stage[r] = "store" =>
       pending[r] \in Results /\ pending[r].cand = Len(results[r]) + 1
  /\ \A i \in 1 .. Len(results[r]) : results[r][i].cand = i

PositionOK == \A r \in Runs : InPosition(r)

\* The answers among given ones that may stand behind what a row or a cached
\* result says of a candidate.
Behind(given, c, verdict, label) ==
  {a \in given : a.cand = c /\ a.verdict = verdict /\ a.label = label}

\* ... and of those, one whose confidence the cached result carries.
Served(given, c, result) ==
  \E a \in Behind(given, c, result.verdict, result.label) :
    result.conf = RestoredConfidence(a.conf)

\* The cache invents nothing and never feeds on itself: every stored row, every
\* answer waiting to be stored and every cached result a run reports goes back
\* to an answer some run's backend chain gave for the same candidate, whatever
\* the order in which runs look up, store and clear (pipeline.py:81-93).  Only a
\* confidence of zero is served as another one (cache.py:78).
CacheProvenance ==
  /\ \A c \in Candidates : rows[c] # NoRow =>
        \E a \in Behind(answers, c, rows[c].verdict, rows[c].label) :
          a.conf = rows[c].conf /\ ~ a.cached
  /\ \A r \in Runs : pending[r] # NoAnswer => pending[r] \in answers
  /\ \A r \in Runs : \A i \in 1 .. Len(results[r]) :
        results[r][i].cached => Served(answers, i, results[r][i])

\* Position in the chain at which an uncached result was produced.
ProducedAt(r, result) ==
  CHOOSE k \in 1 .. Len(Chain(mode[r].requested)) :
    Chain(mode[r].requested)[k] =
      IF result.label.how = "fallback" THEN "heuristic" ELSE result.label.by

Warned(r, b) == \E i \in 1 .. Len(warnings[r]) : warnings[r][i][1] = b

Explained(r, result) ==
  /\ \A k \in 1 .. ProducedAt(r, result) - 1 :
       Warned(r, Chain(mode[r].requested)[k])
  /\ mode[r].requested \in LLMs => result.label.by = mode[r].requested

\* No silent fallback: if a run reports a verdict it computed at some position
\* of the chain, each backend tried before that position left a warning, and a
\* heuristic verdict given in place of a requested LLM says so in its label
\* (pipeline.py:102-115, "Make the fallback explicit").
FallbackExplained ==
  \A r \in Runs : \A i \in 1 .. Len(results[r]) :
    ~ results[r][i].cached /\ ~ mode[r].demo => Explained(r, results[r][i])

\* A failing backend fails for every candidate, but one message is logged once
\* per run (pipeline.py:113, _seen_warnings).
WarningsDistinct ==
  \A r \in Runs : \A i, j \in 1 .. Len(warnings[r]) :
    warnings[r][i] = warnings[r][j] => i = j

\* "never call an LLM API": all a demo run reports was either in the cache or
\* is the plain heuristic verdict, no backend was even tried, and nothing it
\* computed is waiting for the cache (main.py:149-150, pipeline.py:87-89).
DemoStaysOffline ==
  \A r \in Runs : mode[r].demo =>
    /\ stage[r] \notin {"attempt", "store"}
    /\ warnings[r] = << >>
    /\ \A i \in 1 .. Len(results[r]) :
         results[r][i].cached \/ results[r][i].label = Plain("heuristic")

\* Who gave a verdict: the heuristic does where no completion came, or none
\* that could be parsed.
Author(result) ==
  IF result.label.how = "own" THEN result.label.by ELSE "heuristic"

\* For an explicitly selected LLM the web UI says "heuristic" only if the
\* heuristic gave some verdict, and names the LLM only if the LLM gave each of
\* them, unparseable completions aside: the UI does not notice those, see
\* EffectiveBackendProduced (server.py:147-166).
ExplicitBackendReported ==
  \A r \in Runs :
    stage[r] = "done" /\ mode[r].entry = "web" /\ mode[r].requested \in LLMs =>
      /\ Effective(r) = "heuristic" =>
           \E i \in 1 .. NumCandidates : Author(results[r][i]) = "heuristic"
      /\ Effective(r) # "heuristic" =>
           \A i \in 1 .. NumCandidates :
             \/ Author(results[r][i]) = Effective(r)
             \/ results[r][i].label.how = "unparsed"

\* Every run that was started stops, unless some call of a backend without a
\* timeout never returns: the chain is finite and its end answers
\* (pipeline.py:78-79, 98-116).
EveryRunStops ==
  \A r \in Runs :
    []<> ~ Waits(r) =>
      ((stage[r] # "idle") ~> (stage[r] \in {"done", "crashed", "aborted"}))

\* The promise of triage(): one verdict per candidate, in the scanner's order.
Promise == INSTANCE OrderedTriage WITH
  status <- [r \in Runs |->
               CASE stage[r] = "idle" -> "idle"
                 [] Active(r)         -> "running"
                 [] stage[r] = "done" -> "done"
                 [] OTHER             -> "stopped"],
  answered <- [r \in Runs |->
                 [i \in 1 .. Len(results[r]) |-> results[r][i].cand]]

\* The pipeline implements that promise (pipeline.py:78-79).
ImplementsOrderedTriage == Promise!Spec

-----------------------------------------------------------------------------
(* Claims of the documentation the code does not keep.                     *)

\* "Report which triage backend actually produced the verdicts"
\* (server.py:148): the backend named is one that produced a verdict.
EffectiveBackendProduced ==
  \A r \in Runs :
    stage[r] = "done" /\ mode[r].entry = "web" /\ mode[r].requested \in Choices
      => \/ Effective(r) = "auto"
         \/ \E i \in 1 .. NumCandidates : Effective(r) = Author(results[r][i])

\* "the offline heuristic so a bare 'scan' is deterministic and reproducible"
\* (main.py:134-135): a finished --llm heuristic run reports what the heuristic
\* says of the source it scanned, also when the source was never edited.
HeuristicReproducible ==
  \A r \in Runs :
    stage[r] = "done" /\ mode[r].requested = "heuristic" /\ ~ mode[r].demo =>
      \A i \in 1 .. NumCandidates :
        results[r][i].verdict = HeuristicVerdict(cands[r][i])
=============================================================================
