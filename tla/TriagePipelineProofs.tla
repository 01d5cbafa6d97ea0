------------------------ MODULE TriagePipelineProofs ------------------------
(***************************************************************************)
(* What holds of the triage stage for every set of runs, every number of   *)
(* candidates and every chain of backends.                                 *)
(***************************************************************************)
EXTENDS TriagePipeline, SequenceTheorems, TLAPS

(* Every chain is a non-empty sequence of backends that ends, and only      *)
(* ends, with the heuristic (pipeline.py:66-74).                            *)
LEMMA ChainShape ==
  ASSUME NEW q \in Requests
  PROVE  /\ Chain(q) \in Seq(Backends)
         /\ Len(Chain(q)) \in Nat \ {0}
         /\ \A k \in 1 .. Len(Chain(q)) :
              /\ Chain(q)[k] \in Backends
              /\ Chain(q)[k] = "heuristic" <=> k = Len(Chain(q))
         /\ \A j, k \in 1 .. Len(Chain(q)) : Chain(q)[j] = Chain(q)[k] => j = k
<1> USE DEF Backends
<1>1. CASE q = "auto"
  <2>1. Chain(q) = AutoChain
    BY <1>1, BackendsAssumption DEF Chain
  <2> QED BY <2>1, ChainAssumption
<1>2. CASE q = "heuristic"
  <2>1. Chain(q) = <<"heuristic">>
    BY <1>2, BackendsAssumption DEF Chain
  <2> QED BY <2>1
<1>3. CASE q \in LLMs
  <2>1. q # "auto" /\ q # "heuristic"
    BY <1>3, BackendsAssumption
  <2>2. Chain(q) = <<q, "heuristic">>
    BY <1>3, <2>1 DEF Chain
  <2> QED BY <1>3, <2>1, <2>2
<1>4. CASE q = "unregistered"
  <2>1. q \notin LLMs
    BY <1>4, BackendsAssumption
  <2>2. Chain(q) = <<"heuristic">>
    BY <1>4, <2>1 DEF Chain
  <2> QED BY <2>2
<1> QED BY <1>1, <1>2, <1>3, <1>4 DEF Requests, Choices

(* The modes are records whose request names a chain.                      *)
LEMMA ModeShape ==
  ASSUME NEW m \in AllModes \union {NoMode}
  PROVE  /\ m.requested \in Requests
         /\ m.cache \in BOOLEAN
         /\ m.demo \in BOOLEAN
         /\ m.demo => m.cache
<1> USE DEF Modes, Requests, Choices, Backends
<1>1. CASE m \in CliModes
  <2>1. m.requested \in Choices /\ m.demo \in BOOLEAN /\ m.cache = TRUE
    BY <1>1 DEF CliModes
  <2> QED BY <2>1
<1>2. CASE m \in WebModes
  <2>1. m.requested \in Requests /\ m.demo = FALSE /\ m.cache \in BOOLEAN
    BY <1>2 DEF WebModes
  <2> QED BY <2>1
<1>3. CASE m \in ValidateModes
  <2>1. m.requested \in Choices /\ m.demo = FALSE /\ m.cache = FALSE
    BY <1>3 DEF ValidateModes
  <2> QED BY <2>1
<1>4. CASE m = NoMode
  <2>1. m.requested = "heuristic" /\ m.demo = FALSE /\ m.cache = FALSE
    BY <1>4 DEF NoMode
  <2> QED BY <2>1
<1> QED BY <1>1, <1>2, <1>3, <1>4 DEF AllModes

Inv == TypeOK /\ PositionOK

(* What triage() does with an answer: it joins the list of its own run.     *)
LEMMA EmitStep ==
  ASSUME Inv, NEW r \in Runs, Active(r),
         NEW a \in Results, a.cand = Current(r), Emit(r, a)
  PROVE  /\ results' \in [Runs -> Seq(Results)]
         /\ stage' \in [Runs -> Stages]
         /\ link' \in [Runs -> Nat \ {0}]
         /\ results'[r] = Append(results[r], a)
         /\ Len(results'[r]) = Len(results[r]) + 1
         /\ Len(results'[r]) <= NumCandidates
         /\ \A i \in 1 .. Len(results'[r]) : results'[r][i].cand = i
         /\ link'[r] = 1
         /\ stage'[r] \in {"done", "lookup", "attempt"}
         /\ stage'[r] = "done" <=> Len(results'[r]) = NumCandidates
         /\ \A q \in Runs \ {r} :
              results'[q] = results[q] /\ link'[q] = link[q] /\ stage'[q] = stage[q]
<1> USE CandidatesAssumption
<1>1. /\ results[r] \in Seq(Results)
      /\ Len(results[r]) \in Nat
      /\ Len(results[r]) < NumCandidates
      /\ \A i \in 1 .. Len(results[r]) : results[r][i].cand = i
  BY DEF Inv, TypeOK, PositionOK, InPosition
<1>2. /\ results'[r] = Append(results[r], a)
      /\ results' \in [Runs -> Seq(Results)]
      /\ \A q \in Runs \ {r} : results'[q] = results[q]
  BY <1>1 DEF Emit, Inv, TypeOK
<1>3. /\ Len(results'[r]) = Len(results[r]) + 1
      /\ \A i \in 1 .. Len(results[r]) : results'[r][i] = results[r][i]
      /\ results'[r][Len(results[r]) + 1] = a
  BY <1>1, <1>2
<1>4. \A i \in 1 .. Len(results'[r]) : results'[r][i].cand = i
  <2> TAKE i \in 1 .. Len(results'[r])
  <2>1. CASE i = Len(results[r]) + 1
    BY <1>3, <2>1 DEF Current
  <2>2. CASE i \in 1 .. Len(results[r])
    BY <1>1, <1>3, <2>2
  <2> QED BY <1>1, <1>3, <2>1, <2>2
<1>5. /\ stage' \in [Runs -> Stages]
      /\ stage'[r] \in {"done", "lookup", "attempt"}
      /\ stage'[r] = "done" <=> Len(results[r]) + 1 = NumCandidates
      /\ \A q \in Runs \ {r} : stage'[q] = stage[q]
  BY <1>1 DEF Emit, Inv, TypeOK, Stages, FirstStage, Current
<1>6. /\ link' \in [Runs -> Nat \ {0}]
      /\ link'[r] = 1
      /\ \A q \in Runs \ {r} : link'[q] = link[q]
  BY DEF Emit, Inv, TypeOK
<1> QED BY <1>1, <1>2, <1>3, <1>4, <1>5, <1>6

(* What an active run may rely on.                                         *)
LEMMA ActiveRun ==
  ASSUME Inv, NEW r \in Runs, Active(r)
  PROVE  /\ Current(r) \in Candidates
         /\ mode[r].requested \in Requests
         /\ cands[r][Current(r)] \in BOOLEAN
         /\ link[r] \in 1 .. Len(Chain(mode[r].requested))
         /\ Backend(r) \in Backends
         /\ Backend(r) # "heuristic" =>
              Backend(r) \in LLMs /\ link[r] < Len(Chain(mode[r].requested))
<1>1. mode[r] \in AllModes \union {NoMode}
  BY DEF Inv, TypeOK
<1>2. mode[r].requested \in Requests
  BY <1>1, ModeShape
<1>3. /\ Len(results[r]) \in Nat
      /\ Len(results[r]) < NumCandidates
      /\ link[r] \in Nat \ {0}
      /\ link[r] <= Len(Chain(mode[r].requested))
      /\ cands[r] \in [Candidates -> BOOLEAN]
  BY DEF Inv, TypeOK, PositionOK, InPosition
<1>4. Current(r) \in Candidates
  BY <1>3, CandidatesAssumption DEF Current, Candidates
<1>5. link[r] \in 1 .. Len(Chain(mode[r].requested))
  BY <1>2, <1>3, ChainShape
<1>6. /\ Backend(r) \in Backends
      /\ Backend(r) = "heuristic" <=> link[r] = Len(Chain(mode[r].requested))
  BY <1>2, <1>5, ChainShape DEF Backend
<1> QED BY <1>2, <1>3, <1>4, <1>5, <1>6, ChainShape DEF Backends

(* A run none of whose own state changes keeps its position.               *)
LEMMA Bystander ==
  ASSUME Inv, NEW q \in Runs,
         results'[q] = results[q], stage'[q] = stage[q], link'[q] = link[q],
         mode'[q] = mode[q], pending'[q] = pending[q], warnings'[q] = warnings[q]
  PROVE  InPosition(q)'
BY DEF Inv, PositionOK, InPosition, Active

(* Storing, or skipping the cache, puts the answer in the run's list.      *)
LEMMA EmitInv ==
  ASSUME Inv, NEW r \in Runs, Active(r),
         NEW a \in Results, a.cand = Current(r), Emit(r, a),
         UNCHANGED <<mode, warnings>>, pending' \in [Runs -> Results \union {NoAnswer}],
         \A q \in Runs \ {r} : pending'[q] = pending[q]
  PROVE  PositionOK'
<1> SUFFICES ASSUME NEW q \in Runs PROVE InPosition(q)'
  BY DEF PositionOK
<1>1. CASE q # r
  BY <1>1, EmitStep, Bystander
<1>2. CASE q = r
  <2>1. /\ Len(results'[r]) <= NumCandidates
        /\ \A i \in 1 .. Len(results'[r]) : results'[r][i].cand = i
        /\ link'[r] = 1
        /\ stage'[r] \in {"done", "lookup", "attempt"}
        /\ stage'[r] = "done" <=> Len(results'[r]) = NumCandidates
        /\ results'[r] \in Seq(Results)
    BY EmitStep
  <2>2. Len(Chain(mode[r].requested)) \in Nat \ {0}
    BY ActiveRun, ChainShape
  <2>3. Len(results'[r]) \in Nat
    BY <2>1
  <2> QED
    BY <1>2, <2>1, <2>2, <2>3, CandidatesAssumption DEF InPosition, Active
<1> QED BY <1>1, <1>2

(* Whatever backend answered, its answer is stored or listed.              *)
LEMMA AnsweredInv ==
  ASSUME Inv, NEW r \in Runs, stage[r] = "attempt",
         NEW a \in Results, a.cand = Current(r), Answered(r, a)
  PROVE  Inv'
<1>1. Active(r)
  BY DEF Active
<1>2. answers' \subseteq Results
  BY DEF Answered, Inv, TypeOK
<1>3. CASE mode[r].cache
  <2>1. /\ pending' = [pending EXCEPT ![r] = a]
        /\ stage' = [stage EXCEPT ![r] = "store"]
        /\ UNCHANGED <<results, link, tree, rows, now, mode, cands, warnings>>
    BY <1>3 DEF Answered, shared
  <2>2. TypeOK'
    BY <1>2, <2>1 DEF Inv, TypeOK, Stages
  <2>3. ASSUME NEW q \in Runs PROVE InPosition(q)'
    <3>1. CASE q # r
      BY <2>1, <3>1, Bystander DEF Inv, TypeOK
    <3>2. CASE q = r
      BY <1>1, <2>1, <3>2 DEF Inv, TypeOK, PositionOK, InPosition, Active, Current
    <3> QED BY <3>1, <3>2
  <2> QED BY <2>2, <2>3 DEF Inv, PositionOK
<1>4. CASE ~ mode[r].cache
  <2>1. /\ Emit(r, a)
        /\ UNCHANGED <<pending, tree, rows, now, mode, cands, warnings>>
    BY <1>4 DEF Answered, shared
  <2>2. PositionOK'
    BY <1>1, <2>1, EmitInv DEF Inv, TypeOK
  <2>3. TypeOK'
    BY <1>1, <1>2, <2>1, EmitStep DEF Inv, TypeOK
  <2> QED BY <2>2, <2>3 DEF Inv
<1> QED BY <1>3, <1>4

(* A stage that has just been started satisfies the invariant.             *)
LEMMA InvInit == Init => Inv
<1> SUFFICES ASSUME Init PROVE Inv
  OBVIOUS
<1>1. TypeOK
  BY ClockAssumption DEF Init, TypeOK, Stages
<1>2. ASSUME NEW r \in Runs PROVE InPosition(r)
  <2>1. /\ mode[r].requested \in Requests /\ warnings[r] = << >>
        /\ results[r] = << >> /\ link[r] = 1 /\ stage[r] = "idle"
    BY ModeShape DEF Init
  <2> QED
    BY <2>1, ChainShape, CandidatesAssumption DEF InPosition, Active
<1> QED BY <1>1, <1>2 DEF Inv, PositionOK

(* The steps of a run, each from the state Inv allows it.                  *)
LEMMA StepInv ==
  ASSUME Inv, NEW r \in Runs, Step(r)
  PROVE  Inv'
<1>1. Active(r)
  BY DEF Step, CacheHit, DemoMiss, CacheMiss, LlmAnswers, LlmUnparseable,
         LlmNotAnObject, LlmFails, HeuristicAnswers, Store, Active
<1>2. /\ Current(r) \in Candidates
      /\ cands[r][Current(r)] \in BOOLEAN
      /\ Backend(r) \in Backends
      /\ mode[r].requested \in Requests
  BY <1>1, ActiveRun
<1>3. ASSUME NEW b \in Backends PROVE Plain(b) \in Labels
  BY DEF Plain, Labels
<1>4. CASE CacheHit(r)
  <2> DEFINE a == Restored(Current(r), rows[Current(r)])
  <2>1. rows[Current(r)] \in Rows
    BY <1>2, <1>4 DEF CacheHit, Live, Inv, TypeOK
  <2>2. a \in Results /\ a.cand = Current(r)
    BY <1>2, <2>1 DEF Restored, RestoredConfidence, Results, Rows, Confidences
  <2>3. Emit(r, a) /\ UNCHANGED <<shared, mode, cands, pending, warnings, answers>>
    BY <1>4 DEF CacheHit
  <2>4. PositionOK'
    BY <1>1, <2>2, <2>3, EmitInv DEF Inv, TypeOK
  <2> QED BY <1>1, <2>2, <2>3, <2>4, EmitStep DEF Inv, TypeOK, shared
<1>5. CASE DemoMiss(r)
  <2> DEFINE a == HeuristicAnswer(Current(r), cands[r][Current(r)],
                                  Plain("heuristic"))
  <2>1. Plain("heuristic") \in Labels
    BY <1>3 DEF Backends
  <2>2. a \in Results /\ a.cand = Current(r)
    BY <1>2, <2>1 DEF HeuristicAnswer, HeuristicVerdict, HeuristicConfidence,
                      Answer, Results, Verdicts, Confidences
  <2>3. Emit(r, a) /\ UNCHANGED <<shared, mode, cands, pending, warnings, answers>>
    BY <1>5 DEF DemoMiss
  <2>4. PositionOK'
    BY <1>1, <2>2, <2>3, EmitInv DEF Inv, TypeOK
  <2> QED BY <1>1, <2>2, <2>3, <2>4, EmitStep DEF Inv, TypeOK, shared
<1>6. CASE CacheMiss(r) \/ LlmNotAnObject(r)
  <2>1. /\ stage'[r] \in {"attempt", "crashed"}
        /\ \A q \in Runs \ {r} : stage'[q] = stage[q]
        /\ TypeOK'
        /\ UNCHANGED <<mode, link, pending, results, warnings>>
    BY <1>6 DEF CacheMiss, LlmNotAnObject, Inv, TypeOK, Stages, shared
  <2>2. ASSUME NEW q \in Runs PROVE InPosition(q)'
    <3>1. CASE q # r
      BY <2>1, <3>1, Bystander DEF Inv, TypeOK
    <3>2. CASE q = r
      BY <1>1, <2>1, <3>2 DEF Inv, TypeOK, PositionOK, InPosition, Active
    <3> QED BY <3>1, <3>2
  <2> QED BY <2>1, <2>2 DEF Inv, PositionOK
<1>7. ASSUME NEW v \in LLMVerdicts, NEW k \in LLMConfidences, LlmAnswers(r, v, k)
      PROVE  Inv'
  <2> DEFINE a == Answer(Current(r), v, ParsedConfidence(k), Plain(Backend(r)))
  <2>1. ParsedConfidence(k) \in Confidences
    BY AnswersAssumption DEF ParsedConfidence, Confidences
  <2>2. a \in Results /\ a.cand = Current(r)
    BY <1>2, <1>3, <2>1, AnswersAssumption DEF Answer, Results
  <2> QED BY <1>7, <2>2, AnsweredInv DEF LlmAnswers
<1>8. CASE LlmUnparseable(r)
  <2> DEFINE label == [by |-> Backend(r), how |-> "unparsed"]
             a == HeuristicAnswer(Current(r), cands[r][Current(r)], label)
  <2>1. label \in Labels
    BY <1>2 DEF Labels
  <2>2. a \in Results /\ a.cand = Current(r)
    BY <1>2, <2>1 DEF HeuristicAnswer, HeuristicVerdict, HeuristicConfidence,
                      Answer, Results, Verdicts, Confidences
  <2> QED BY <1>8, <2>2, AnsweredInv DEF LlmUnparseable
<1>9. CASE HeuristicAnswers(r)
  <2> DEFINE label == HeuristicLabel(mode[r].requested, link[r])
             a == HeuristicAnswer(Current(r), cands[r][Current(r)], label)
  <2>1. label \in Labels
    <3>1. Plain("heuristic") \in Labels
      BY <1>3 DEF Backends
    <3>2. CASE link[r] > 1 /\ mode[r].requested \notin {"auto", "heuristic"}
      <4>1. mode[r].requested # "unregistered"
        <5>1. Len(Chain(mode[r].requested)) > 1
          BY <1>1, <3>2, ActiveRun, ChainShape
        <5>2. ASSUME mode[r].requested = "unregistered"
              PROVE  Chain(mode[r].requested) = <<"heuristic">>
          BY <5>2, BackendsAssumption DEF Chain
        <5>3. Len(<<"heuristic">>) = 1
          OBVIOUS
        <5> QED BY <5>1, <5>2, <5>3
      <4> QED BY <1>2, <3>2, <4>1 DEF HeuristicLabel, Labels, Requests, Choices
    <3> QED BY <3>1, <3>2 DEF HeuristicLabel
  <2>2. a \in Results /\ a.cand = Current(r)
    BY <1>2, <2>1 DEF HeuristicAnswer, HeuristicVerdict, HeuristicConfidence,
                      Answer, Results, Verdicts, Confidences
  <2> QED BY <1>9, <2>2, AnsweredInv DEF HeuristicAnswers
<1>10. ASSUME NEW e \in Errors, LlmFails(r, e) PROVE Inv'
  <2>1. /\ Backend(r) \in LLMs
        /\ link[r] < Len(Chain(mode[r].requested))
    BY <1>1, <1>10, ActiveRun DEF LlmFails
  <2>2. /\ link' = [link EXCEPT ![r] = @ + 1]
        /\ warnings' \in [Runs -> Seq(LLMs \X Errors)]
        /\ \A q \in Runs \ {r} : warnings'[q] = warnings[q]
        /\ stage[r] = "attempt"
        /\ UNCHANGED <<tree, rows, now, mode, stage, cands, pending, results,
                       answers>>
    BY <1>10, <2>1 DEF LlmFails, Inv, TypeOK, shared
  <2>3. TypeOK'
    BY <2>2 DEF Inv, TypeOK
  <2>4. ASSUME NEW q \in Runs PROVE InPosition(q)'
    <3>1. CASE q # r
      BY <2>2, <3>1, Bystander DEF Inv, TypeOK
    <3>2. CASE q = r
      <4>1. Len(Chain(mode[r].requested)) \in Nat
        BY <1>2, ChainShape
      <4> QED
        BY <1>1, <2>1, <2>2, <3>2, <4>1 DEF Inv, TypeOK, PositionOK, InPosition, Active
    <3> QED BY <3>1, <3>2
  <2> QED BY <2>3, <2>4 DEF Inv, PositionOK
<1>11. CASE Store(r)
  <2>1. pending[r] \in Results /\ pending[r].cand = Current(r)
    BY <1>11 DEF Store, Inv, PositionOK, InPosition, Current
  <2>2. /\ Emit(r, pending[r])
        /\ pending' = [pending EXCEPT ![r] = NoAnswer]
        /\ rows' = [rows EXCEPT ![pending[r].cand] = Row(pending[r], now)]
        /\ UNCHANGED <<tree, now, mode, cands, warnings, answers>>
    BY <1>11 DEF Store
  <2>3. PositionOK'
    BY <1>1, <2>1, <2>2, EmitInv DEF Inv, TypeOK
  <2>4. Row(pending[r], now) \in Rows
    BY <2>1 DEF Row, Rows, Results, Inv, TypeOK
  <2> QED
    BY <1>1, <2>1, <2>2, <2>3, <2>4, EmitStep DEF Inv, TypeOK
<1> QED
  BY <1>4, <1>5, <1>6, <1>7, <1>8, <1>9, <1>10, <1>11 DEF Step

(* Every step of the runs, the cache and the clock keeps the invariant.    *)
LEMMA InvNext == Inv /\ [Next]_vars => Inv'
<1> SUFFICES ASSUME Inv, [Next]_vars PROVE Inv'
  OBVIOUS
<1>1. ASSUME NEW r \in Runs, Step(r) PROVE Inv'
  BY <1>1, StepInv
<1>2. ASSUME NEW r \in Runs, Abort(r) PROVE Inv'
  <2>1. /\ stage' = [stage EXCEPT ![r] = "aborted"]
        /\ UNCHANGED <<tree, rows, now, mode, cands, link, pending, results,
                       warnings, answers>>
    BY <1>2 DEF Abort, shared
  <2>2. TypeOK'
    BY <2>1 DEF Inv, TypeOK, Stages
  <2>3. ASSUME NEW q \in Runs PROVE InPosition(q)'
    BY <2>1 DEF Inv, TypeOK, PositionOK, InPosition, Active
  <2> QED BY <2>2, <2>3 DEF Inv, PositionOK
<1>3. ASSUME NEW r \in Runs, NEW m \in AllModes, Start(r, m) PROVE Inv'
  <2>1. /\ mode' = [mode EXCEPT ![r] = m]
        /\ stage' = [stage EXCEPT ![r] = FirstStage(m)]
        /\ cands' = [cands EXCEPT ![r] = tree]
        /\ stage[r] = "idle"
        /\ UNCHANGED <<tree, rows, now, link, pending, results, warnings, answers>>
    BY <1>3 DEF Start, shared
  <2>2. TypeOK'
    BY <2>1 DEF Inv, TypeOK, Stages, FirstStage
  <2>3. ASSUME NEW q \in Runs PROVE InPosition(q)'
    <3>1. CASE q # r
      BY <2>1, <3>1, Bystander DEF Inv, TypeOK
    <3>2. CASE q = r
      <4>1. mode'[r] = m /\ stage'[r] \in {"lookup", "attempt"}
        BY <2>1 DEF Inv, TypeOK, FirstStage
      <4>2. results[r] = << >> /\ link[r] = 1
        BY <2>1 DEF Inv, PositionOK, InPosition
      <4>3. Len(Chain(m.requested)) \in Nat \ {0}
        BY ModeShape, ChainShape
      <4> QED
        BY <2>1, <3>2, <4>1, <4>2, <4>3, CandidatesAssumption DEF InPosition, Active
    <3> QED BY <3>1, <3>2
  <2> QED BY <2>2, <2>3 DEF Inv, PositionOK
<1>4. ASSUME \/ Clear \/ Tick \/ (\E c \in Candidates : EditSource(c))
             \/ UNCHANGED vars
      PROVE  Inv'
  <2>1. UNCHANGED <<mode, stage, cands, link, pending, results, warnings, answers>>
    BY <1>4 DEF Clear, Tick, EditSource, vars
  <2>2. /\ tree' \in [Candidates -> BOOLEAN]
        /\ rows' \in [Candidates -> Rows \union {NoRow}]
        /\ now' \in 0 .. MaxNow
    <3>1. CASE Clear
      BY <3>1 DEF Clear, Inv, TypeOK
    <3>2. CASE Tick
      BY <3>2, ClockAssumption DEF Tick, Inv, TypeOK
    <3>3. ASSUME NEW c \in Candidates, EditSource(c)
          PROVE  tree' \in [Candidates -> BOOLEAN] /\ UNCHANGED <<rows, now>>
      <4>1. tree' = [tree EXCEPT ![c] = ~ tree[c]] /\ UNCHANGED <<rows, now>>
        BY <3>3 DEF EditSource
      <4>2. (~ tree[c]) \in BOOLEAN
        OBVIOUS
      <4> QED BY <4>1, <4>2 DEF Inv, TypeOK
    <3>4. CASE UNCHANGED vars
      BY <3>4 DEF vars, Inv, TypeOK
    <3> QED BY <1>4, <3>1, <3>2, <3>3, <3>4 DEF Inv, TypeOK
  <2>3. TypeOK'
    BY <2>1, <2>2 DEF Inv, TypeOK
  <2>4. ASSUME NEW q \in Runs PROVE InPosition(q)'
    BY <2>1, Bystander
  <2> QED BY <2>3, <2>4 DEF Inv, PositionOK
<1> QED
  BY <1>1, <1>2, <1>3, <1>4 DEF Next

(* The types of all variables, in every reachable state.                   *)
THEOREM TypeCorrect == Spec => []TypeOK
<1>1. Inv => TypeOK
  BY DEF Inv
<1> QED BY <1>1, InvInit, InvNext, PTL DEF Spec

(* No run leaves its chain or its candidate list; its answers are those of *)
(* candidates 1, 2, ... and it is done exactly with the last one.          *)
THEOREM PositionCorrect == Spec => []PositionOK
<1>1. Inv => PositionOK
  BY DEF Inv
<1> QED BY <1>1, InvInit, InvNext, PTL DEF Spec

-----------------------------------------------------------------------------
(* Provenance of what the cache holds and serves.                          *)

ProvenanceInv ==
  /\ CacheProvenance
  /\ \A a \in answers : ~ a.cached

(* An answer that joins a list is justified if it is fresh, or if an answer *)
(* of a chain stands behind it.                                             *)
LEMMA EmitProvenance ==
  ASSUME Inv, ProvenanceInv, NEW r \in Runs, Active(r),
         NEW a \in Results, a.cand = Current(r), Emit(r, a),
         answers \subseteq answers',
         a.cached => Served(answers, Current(r), a)
  PROVE  \A q \in Runs : \A i \in 1 .. Len(results'[q]) :
           results'[q][i].cached =>
             Served(answers', i, results'[q][i])
<1> SUFFICES ASSUME NEW q \in Runs, NEW i \in 1 .. Len(results'[q]),
                    results'[q][i].cached
             PROVE  Served(answers', i, results'[q][i])
  OBVIOUS
<1>1. \A c, b : Served(answers, c, b) => Served(answers', c, b)
  BY DEF Served, Behind
<1>2. results[q] \in Seq(Results) /\ results[r] \in Seq(Results)
  BY DEF Inv, TypeOK
<1>3. CASE q # r \/ i \in 1 .. Len(results[r])
  <2>1. i \in 1 .. Len(results[q]) /\ results'[q][i] = results[q][i]
    <3>1. CASE q # r
      BY <3>1, EmitStep
    <3>2. CASE q = r /\ i \in 1 .. Len(results[r])
      <4>1. results'[r] = Append(results[r], a)
        BY EmitStep
      <4> QED BY <1>2, <3>2, <4>1
    <3> QED BY <1>3, <3>1, <3>2
  <2>2. Served(answers, i, results[q][i])
    BY <2>1 DEF ProvenanceInv, CacheProvenance
  <2> QED BY <1>1, <2>1, <2>2
<1>4. CASE q = r /\ i \notin 1 .. Len(results[r])
  <2>1. i = Current(r) /\ results'[q][i] = a
    BY <1>2, <1>4, EmitStep DEF Current
  <2> QED BY <1>1, <2>1
<1> QED BY <1>3, <1>4

(* An answer of a backend is its own provenance, stored or listed.         *)
LEMMA AnsweredProvenance ==
  ASSUME Inv, ProvenanceInv, NEW r \in Runs, stage[r] = "attempt",
         NEW a \in Results, a.cand = Current(r), ~ a.cached, Answered(r, a)
  PROVE  ProvenanceInv'
<1>1. /\ answers' = answers \union {a}
      /\ UNCHANGED rows
  BY DEF Answered, shared
<1>2. \A c \in Candidates : rows'[c] # NoRow =>
        \E b \in Behind(answers', c, rows'[c].verdict, rows'[c].label) :
          b.conf = rows'[c].conf /\ ~ b.cached
  BY <1>1 DEF ProvenanceInv, CacheProvenance, Behind
<1>3. \A q \in Runs : pending'[q] # NoAnswer => pending'[q] \in answers'
  BY <1>1 DEF Answered, ProvenanceInv, CacheProvenance, Inv, TypeOK
<1>4. \A q \in Runs : \A i \in 1 .. Len(results'[q]) :
        results'[q][i].cached =>
          Served(answers', i, results'[q][i])
  <2>1. CASE mode[r].cache
    BY <1>1, <2>1 DEF Answered, ProvenanceInv, CacheProvenance, Behind, Served
  <2>2. CASE ~ mode[r].cache
    BY <1>1, <2>2, EmitProvenance DEF Answered, Active
  <2> QED BY <2>1, <2>2
<1>5. \A b \in answers' : ~ b.cached
  BY <1>1 DEF ProvenanceInv
<1> QED BY <1>2, <1>3, <1>4, <1>5 DEF ProvenanceInv, CacheProvenance

(* The steps of a run carry answers on; only a backend makes new ones.     *)
LEMMA StepProvenance ==
  ASSUME Inv, ProvenanceInv, NEW r \in Runs, Step(r)
  PROVE  ProvenanceInv'
<1>1. Active(r)
  BY DEF Step, CacheHit, DemoMiss, CacheMiss, LlmAnswers, LlmUnparseable,
         LlmNotAnObject, LlmFails, HeuristicAnswers, Store, Active
<1>2. Current(r) \in Candidates
  BY <1>1, ActiveRun
<1> DEFINE Listed(a) == /\ a \in Results
                        /\ a.cand = Current(r)
                        /\ Emit(r, a)
<1>3. CASE CacheHit(r)
  <2> DEFINE a == Restored(Current(r), rows[Current(r)])
  <2>1. rows[Current(r)] \in Rows /\ rows[Current(r)] # NoRow
    BY <1>2, <1>3 DEF CacheHit, Live, Inv, TypeOK
  <2>2. Listed(a)
    BY <1>2, <1>3, <2>1 DEF CacheHit, Restored, RestoredConfidence, Results, Rows,
                            Confidences
  <2>3. Served(answers, Current(r), a)
    BY <1>2, <2>1 DEF ProvenanceInv, CacheProvenance, Restored, Served
  <2>4. UNCHANGED <<rows, pending, answers>>
    BY <1>3 DEF CacheHit, shared
  <2> HIDE DEF a
  <2>5. \A q \in Runs : \A i \in 1 .. Len(results'[q]) :
          results'[q][i].cached =>
            Served(answers', i, results'[q][i])
    BY <1>1, <2>2, <2>3, <2>4, EmitProvenance
  <2> QED BY <2>4, <2>5 DEF ProvenanceInv, CacheProvenance, Behind
<1>4. CASE DemoMiss(r)
  <2> DEFINE a == HeuristicAnswer(Current(r), cands[r][Current(r)],
                                  Plain("heuristic"))
  <2>1. a \in Results /\ a.cand = Current(r) /\ ~ a.cached
    BY <1>1, ActiveRun DEF HeuristicAnswer, HeuristicVerdict,
         HeuristicConfidence, Answer, Results, Verdicts, Confidences, Plain,
         Labels, Backends
  <2>2. Emit(r, a) /\ UNCHANGED <<rows, pending, answers>>
    BY <1>4 DEF DemoMiss, shared
  <2> HIDE DEF a
  <2>3. \A q \in Runs : \A i \in 1 .. Len(results'[q]) :
          results'[q][i].cached =>
            Served(answers', i, results'[q][i])
    BY <1>1, <2>1, <2>2, EmitProvenance
  <2> QED BY <2>2, <2>3 DEF ProvenanceInv, CacheProvenance, Behind
<1>5. CASE CacheMiss(r) \/ LlmNotAnObject(r) \/ (\E e \in Errors : LlmFails(r, e))
  <2>1. UNCHANGED <<rows, pending, results, answers>>
    BY <1>5 DEF CacheMiss, LlmNotAnObject, LlmFails, shared
  <2> QED BY <2>1 DEF ProvenanceInv, CacheProvenance, Behind, Served
<1>6. CASE \/ \E v \in LLMVerdicts, k \in LLMConfidences : LlmAnswers(r, v, k)
           \/ LlmUnparseable(r)
           \/ HeuristicAnswers(r)
  <2>1. PICK a : stage[r] = "attempt" /\ ~ a.cached /\ a.cand = Current(r)
                 /\ Answered(r, a)
    BY <1>6 DEF LlmAnswers, LlmUnparseable, HeuristicAnswers, HeuristicAnswer, Answer
  <2>2. a \in Results
    <3>1. CASE mode[r].cache
      <4>1. pending'[r] = a /\ stage'[r] = "store"
        BY <2>1, <3>1 DEF Answered, Inv, TypeOK
      <4> QED BY <4>1, StepInv DEF Inv, PositionOK, InPosition
    <3>2. CASE ~ mode[r].cache
      <4>1. a \in answers'
        BY <2>1 DEF Answered
      <4> QED BY <4>1, StepInv DEF Inv, TypeOK
    <3> QED BY <3>1, <3>2
  <2> QED BY <2>1, <2>2, AnsweredProvenance
<1>7. CASE Store(r)
  <2> DEFINE a == pending[r]
  <2>1. a \in Results /\ a.cand = Current(r)
    BY <1>7 DEF Store, Inv, PositionOK, InPosition, Current
  <2>2. a # NoAnswer
    BY <1>2, <2>1 DEF NoAnswer, Results, Candidates
  <2>3. a \in answers /\ ~ a.cached
    BY <2>2 DEF ProvenanceInv, CacheProvenance
  <2>4. /\ Emit(r, a)
        /\ pending' = [pending EXCEPT ![r] = NoAnswer]
        /\ rows' = [rows EXCEPT ![a.cand] = Row(a, now)]
        /\ UNCHANGED answers
    BY <1>7 DEF Store
  <2> HIDE DEF a
  <2>5. \A q \in Runs : \A i \in 1 .. Len(results'[q]) :
          results'[q][i].cached =>
            Served(answers', i, results'[q][i])
    BY <1>1, <2>1, <2>3, <2>4, EmitProvenance
  <2>6. ASSUME NEW c \in Candidates, rows'[c] # NoRow
        PROVE  \E b \in Behind(answers', c, rows'[c].verdict, rows'[c].label) :
                 b.conf = rows'[c].conf /\ ~ b.cached
    <3>1. CASE c # a.cand
      BY <2>4, <2>6, <3>1 DEF ProvenanceInv, CacheProvenance, Behind, Inv, TypeOK
    <3>2. CASE c = a.cand
      <4>1. rows'[c] = Row(a, now)
        BY <2>4, <3>2 DEF Inv, TypeOK
      <4> QED BY <2>3, <2>4, <3>2, <4>1 DEF Row, Behind
    <3> QED BY <3>1, <3>2
  <2>7. \A q \in Runs : pending'[q] # NoAnswer => pending'[q] \in answers'
    BY <2>4 DEF ProvenanceInv, CacheProvenance, Inv, TypeOK
  <2> QED BY <2>4, <2>5, <2>6, <2>7 DEF ProvenanceInv, CacheProvenance
<1> QED BY <1>3, <1>4, <1>5, <1>6, <1>7 DEF Step

(* What runs do not do themselves can only empty the table.                *)
LEMMA ProvenanceNext == Inv /\ ProvenanceInv /\ [Next]_vars => ProvenanceInv'
<1> SUFFICES ASSUME Inv, ProvenanceInv, [Next]_vars PROVE ProvenanceInv'
  OBVIOUS
<1>1. ASSUME NEW r \in Runs, Step(r) PROVE ProvenanceInv'
  BY <1>1, StepProvenance
<1>2. CASE \/ \E r \in Runs : Abort(r) \/ \E m \in AllModes : Start(r, m)
           \/ Clear \/ Tick \/ \E c \in Candidates : EditSource(c)
           \/ UNCHANGED vars
  <2>1. UNCHANGED <<pending, results, answers>>
    BY <1>2 DEF Abort, Start, Clear, Tick, EditSource, vars
  <2>2. \A c \in Candidates : rows'[c] # NoRow => rows'[c] = rows[c]
    BY <1>2 DEF Abort, Start, Clear, Tick, EditSource, vars, shared
  <2> QED BY <2>1, <2>2 DEF ProvenanceInv, CacheProvenance, Behind, Served
<1> QED BY <1>1, <1>2 DEF Next

(* The cache never serves a verdict that no backend chain gave.            *)
THEOREM ProvenanceCorrect == Spec => []CacheProvenance
<1>1. Init => ProvenanceInv
  BY DEF Init, ProvenanceInv, CacheProvenance
<1>2. ProvenanceInv => CacheProvenance
  BY DEF ProvenanceInv
<1> QED BY <1>1, <1>2, InvInit, InvNext, ProvenanceNext, PTL DEF Spec

-----------------------------------------------------------------------------
(* Demo mode.                                                              *)

(* No step takes a demo run to a backend or puts a backend's answer in it. *)
LEMMA DemoNext == Inv /\ DemoStaysOffline /\ [Next]_vars => DemoStaysOffline'
<1> SUFFICES ASSUME Inv, DemoStaysOffline, [Next]_vars,
                    NEW q \in Runs, mode'[q].demo
             PROVE  /\ stage'[q] \notin {"attempt", "store"}
                    /\ warnings'[q] = << >>
                    /\ \A i \in 1 .. Len(results'[q]) :
                         \/ results'[q][i].cached
                         \/ results'[q][i].label = Plain("heuristic")
  BY DEF DemoStaysOffline
<1> DEFINE Elsewhere ==
             \/ \E r \in Runs \ {q} : Step(r) \/ \E m \in AllModes : Start(r, m)
             \/ \E r \in Runs : Abort(r)
             \/ Clear \/ Tick \/ (\E c \in Candidates : EditSource(c))
             \/ UNCHANGED vars
<1>1. mode[q] \in AllModes \union {NoMode} /\ results[q] \in Seq(Results)
  BY DEF Inv, TypeOK
<1>2. mode[q].demo =>
        /\ mode[q].cache
        /\ stage[q] \notin {"attempt", "store"}
        /\ warnings[q] = << >>
        /\ \A i \in 1 .. Len(results[q]) :
             results[q][i].cached \/ results[q][i].label = Plain("heuristic")
  BY <1>1, ModeShape DEF DemoStaysOffline
<1>3. ASSUME NEW r \in Runs, NEW m \in AllModes, Start(r, m), r = q
      PROVE  /\ stage'[q] = "lookup" /\ warnings'[q] = << >>
             /\ results'[q] = << >>
  <2>1. mode'[q] = m /\ stage'[q] = FirstStage(m) /\ UNCHANGED <<results, warnings>>
    BY <1>3 DEF Start, Inv, TypeOK
  <2>2. m.cache
    BY <2>1, ModeShape
  <2>3. results[q] = << >> /\ warnings[q] = << >>
    BY <1>3 DEF Start, Inv, PositionOK, InPosition
  <2> QED BY <2>1, <2>2, <2>3 DEF FirstStage
<1>4. ASSUME NEW r \in Runs, Step(r), r = q
      PROVE  /\ stage'[q] \notin {"attempt", "store"}
             /\ warnings'[q] = << >>
             /\ \A i \in 1 .. Len(results'[q]) :
                  \/ results'[q][i].cached
                  \/ results'[q][i].label = Plain("heuristic")
  <2>1. mode[q].demo
    BY <1>4 DEF Step, CacheHit, DemoMiss, CacheMiss, LlmAnswers, LlmUnparseable,
         LlmNotAnObject, LlmFails, HeuristicAnswers, Store, Answered
  <2>2. CacheHit(q) \/ DemoMiss(q)
    BY <1>2, <1>4, <2>1 DEF Step, CacheHit, DemoMiss, CacheMiss, LlmAnswers,
         LlmUnparseable, LlmNotAnObject, LlmFails, HeuristicAnswers, Store
  <2>3. PICK a \in Results : /\ Emit(q, a) /\ UNCHANGED warnings
                             /\ a.cached \/ a.label = Plain("heuristic")
    <3>1. PICK a : /\ Emit(q, a) /\ UNCHANGED warnings
                   /\ a.cached \/ a.label = Plain("heuristic")
      BY <2>2 DEF CacheHit, DemoMiss, Restored, HeuristicAnswer, Answer
    <3>2. results'[q] \in Seq(Results)
      BY <1>4, StepInv DEF Inv, TypeOK
    <3>3. results'[q] = Append(results[q], a)
      BY <3>1 DEF Emit, Inv, TypeOK
    <3>4. a \in Results
      <4>1. Append(results[q], a)[Len(results[q]) + 1] = a
            /\ Len(results[q]) + 1 \in 1 .. Len(Append(results[q], a))
        BY <1>1
      <4> QED BY <3>2, <3>3, <4>1
    <3> QED BY <3>1, <3>4
  <2>4. results'[q] = Append(results[q], a) /\ stage'[q] \in {"done", "lookup"}
    BY <1>2, <2>1, <2>3 DEF Emit, FirstStage, Inv, TypeOK
  <2>5. ASSUME NEW i \in 1 .. Len(results'[q])
        PROVE  results'[q][i].cached \/ results'[q][i].label = Plain("heuristic")
    <3>1. CASE i \in 1 .. Len(results[q])
      <4>1. results'[q][i] = results[q][i]
        BY <1>1, <2>4, <3>1
      <4> QED BY <1>2, <2>1, <3>1, <4>1
    <3>2. CASE i = Len(results[q]) + 1
      <4>1. results'[q][i] = a
        BY <1>1, <2>4, <3>2
      <4> QED BY <2>3, <4>1
    <3> QED BY <1>1, <2>4, <3>1, <3>2
  <2> QED BY <1>2, <2>1, <2>3, <2>4, <2>5
<1>5. ASSUME Elsewhere
      PROVE  /\ mode'[q] = mode[q]
             /\ stage'[q] \in {stage[q], "aborted"}
             /\ warnings'[q] = warnings[q]
             /\ results'[q] = results[q]
  <2>1. ASSUME NEW r \in Runs, r # q, Step(r)
        PROVE  UNCHANGED <<mode, results[q], stage[q], warnings[q]>>
    BY <2>1 DEF Step, CacheHit, DemoMiss, CacheMiss, LlmAnswers, LlmUnparseable,
         LlmNotAnObject, LlmFails, HeuristicAnswers, Store, Answered, Emit, Inv, TypeOK
  <2>2. ASSUME NEW r \in Runs, NEW m \in AllModes, r # q, Start(r, m)
        PROVE  UNCHANGED <<mode[q], results, stage[q], warnings>>
    BY <2>2 DEF Start, Inv, TypeOK
  <2>3. ASSUME NEW r \in Runs, Abort(r)
        PROVE  stage'[q] \in {stage[q], "aborted"} /\ UNCHANGED <<mode, results, warnings>>
    BY <2>3 DEF Abort, Inv, TypeOK
  <2>4. CASE Clear \/ Tick \/ (\E c \in Candidates : EditSource(c)) \/ UNCHANGED vars
    BY <2>4 DEF Clear, Tick, EditSource, vars
  <2> QED BY <1>5, <2>1, <2>2, <2>3, <2>4
<1>6. \/ \E r \in Runs, m \in AllModes : Start(r, m) /\ r = q
      \/ \E r \in Runs : Step(r) /\ r = q
      \/ Elsewhere
  BY DEF Next
<1>7. CASE \E r \in Runs, m \in AllModes : Start(r, m) /\ r = q
  <2>1. stage'[q] = "lookup" /\ warnings'[q] = << >> /\ results'[q] = << >>
    BY <1>3, <1>7
  <2> QED BY <2>1
<1>8. CASE \E r \in Runs : Step(r) /\ r = q
  BY <1>4, <1>8
<1>9. CASE ~ (\E r \in Runs, m \in AllModes : Start(r, m) /\ r = q)
           /\ ~ (\E r \in Runs : Step(r) /\ r = q)
  <2>1. /\ mode'[q] = mode[q]
        /\ stage'[q] \in {stage[q], "aborted"}
        /\ warnings'[q] = warnings[q]
        /\ results'[q] = results[q]
    BY <1>5, <1>6, <1>9
  <2> QED BY <1>2, <2>1
<1> QED BY <1>7, <1>8, <1>9

(* A demo run calls no backend, whatever the other runs and the cache do.  *)
THEOREM DemoCorrect == Spec => []DemoStaysOffline
<1>1. Init => DemoStaysOffline
  BY DEF Init, DemoStaysOffline, NoMode
<1> QED BY <1>1, InvInit, InvNext, DemoNext, PTL DEF Spec

-----------------------------------------------------------------------------
(* Warnings and fallbacks.                                                 *)

(* A new message is appended once; the log of every other run is left alone. *)
LEMMA FailureLogged ==
  ASSUME Inv, NEW r \in Runs, NEW e \in Errors, LlmFails(r, e)
  PROVE  /\ <<Backend(r), e>> \in LLMs \X Errors
         /\ \/ /\ warnings'[r] = warnings[r]
               /\ \E i \in 1 .. Len(warnings[r]) : warnings[r][i] = <<Backend(r), e>>
            \/ /\ warnings'[r] = Append(warnings[r], <<Backend(r), e>>)
               /\ \A i \in 1 .. Len(warnings[r]) : warnings[r][i] # <<Backend(r), e>>
         /\ \A q \in Runs \ {r} : warnings'[q] = warnings[q]
         /\ warnings[r] \in Seq(LLMs \X Errors)
         /\ link' = [link EXCEPT ![r] = link[r] + 1]
         /\ stage[r] = "attempt" /\ Backend(r) \in LLMs
         /\ UNCHANGED <<mode, stage, results, pending>>
<1>1. Active(r) /\ Backend(r) # "heuristic"
  BY DEF LlmFails, Active
<1>2. Backend(r) \in LLMs
  BY <1>1, ActiveRun
<1> DEFINE msg == <<Backend(r), e>>
<1>3. /\ warnings[r] \in Seq(LLMs \X Errors)
      /\ warnings \in [Runs -> Seq(LLMs \X Errors)]
  BY DEF Inv, TypeOK
<1>4. warnings' = [warnings EXCEPT ![r] =
        IF \E i \in 1 .. Len(warnings[r]) : warnings[r][i] = msg
        THEN warnings[r] ELSE Append(warnings[r], msg)]
  BY DEF LlmFails
<1>5. /\ link' = [link EXCEPT ![r] = link[r] + 1]
      /\ stage[r] = "attempt"
      /\ UNCHANGED <<mode, stage, results, pending>>
  BY DEF LlmFails
<1> QED BY <1>2, <1>3, <1>4, <1>5

(* The steps that log nothing.                                             *)
LEMMA NothingLogged ==
  ASSUME [Next]_vars, ~ \E r \in Runs, e \in Errors : LlmFails(r, e)
  PROVE  UNCHANGED warnings
BY DEF Next, Step, CacheHit, DemoMiss, CacheMiss, LlmAnswers, LlmUnparseable,
       LlmNotAnObject, HeuristicAnswers, Store, Answered, Abort, Start, Clear,
       Tick, EditSource, vars

LEMMA DistinctNext == Inv /\ WarningsDistinct /\ [Next]_vars => WarningsDistinct'
<1> SUFFICES ASSUME Inv, WarningsDistinct, [Next]_vars PROVE WarningsDistinct'
  OBVIOUS
<1>1. CASE ~ \E r \in Runs, e \in Errors : LlmFails(r, e)
  BY <1>1, NothingLogged DEF WarningsDistinct
<1>2. ASSUME NEW r \in Runs, NEW e \in Errors, LlmFails(r, e)
      PROVE  WarningsDistinct'
  <2> DEFINE msg == <<Backend(r), e>>
             log == warnings[r]
  <2> SUFFICES ASSUME NEW q \in Runs, NEW i \in 1 .. Len(warnings'[q]),
                      NEW j \in 1 .. Len(warnings'[q]),
                      warnings'[q][i] = warnings'[q][j]
               PROVE  i = j
    BY DEF WarningsDistinct
  <2>1. CASE warnings'[q] = warnings[q]
    BY <2>1 DEF WarningsDistinct
  <2>2. CASE /\ q = r
             /\ warnings'[r] = Append(log, msg)
             /\ \A k \in 1 .. Len(log) : log[k] # msg
    <3>1. log \in Seq(LLMs \X Errors) /\ msg \in LLMs \X Errors
      BY <1>2, FailureLogged
    <3>2. /\ Len(warnings'[r]) = Len(log) + 1 /\ Len(log) \in Nat
          /\ \A k \in 1 .. Len(log) : warnings'[r][k] = log[k]
          /\ warnings'[r][Len(log) + 1] = msg
      <4> HIDE DEF msg, log
      <4> QED BY <2>2, <3>1
    <3>3. \A k, l \in 1 .. Len(log) : log[k] = log[l] => k = l
      BY DEF WarningsDistinct
    <3>4. i \in 1 .. Len(log) \/ i = Len(log) + 1
      BY <2>2, <3>2
    <3>5. j \in 1 .. Len(log) \/ j = Len(log) + 1
      BY <2>2, <3>2
    <3> HIDE DEF msg, log
    <3> QED BY <2>2, <3>2, <3>3, <3>4, <3>5
  <2>3. /\ \A p \in Runs \ {r} : warnings'[p] = warnings[p]
        /\ \/ warnings'[r] = warnings[r]
           \/ /\ warnings'[r] = Append(log, msg)
              /\ \A k \in 1 .. Len(log) : log[k] # msg
    BY <1>2, FailureLogged
  <2> HIDE DEF log, msg
  <2>4. CASE q # r
    BY <2>1, <2>3, <2>4
  <2> QED BY <2>1, <2>2, <2>3, <2>4
<1> QED BY <1>1, <1>2

(* No run logs a message twice, however often a backend fails.             *)
THEOREM DistinctCorrect == Spec => []WarningsDistinct
<1>1. Init => WarningsDistinct
  BY DEF Init, WarningsDistinct
<1> QED BY <1>1, InvInit, InvNext, DistinctNext, PTL DEF Spec

(* What a run knows half-way: who was tried before the present backend has  *)
(* left a warning, and what waits to be stored is explained already.        *)
WalkInv(r) ==
  /\ Active(r) =>
       \A k \in 1 .. link[r] - 1 : Warned(r, Chain(mode[r].requested)[k])
  /\ stage[r] = "store" => Explained(r, pending[r])
  /\ \A i \in 1 .. Len(results[r]) :
       ~ results[r][i].cached /\ ~ mode[r].demo => Explained(r, results[r][i])

FallbackInv == \A r \in Runs : WalkInv(r)

(* A run whose log only grew, and that did not move on, stays as it was.    *)
LEMMA WalkKept ==
  ASSUME NEW q \in Runs, WalkInv(q),
         mode'[q] = mode[q], link'[q] = link[q], results'[q] = results[q],
         pending'[q] = pending[q],
         \A b : Warned(q, b) => Warned(q, b)',
         Active(q)' => Active(q), stage'[q] = "store" => stage[q] = "store"
  PROVE  WalkInv(q)'
<1>1. ASSUME NEW a, Explained(q, a) PROVE Explained(q, a)'
  <2>1. ProducedAt(q, a)' = ProducedAt(q, a)
    BY DEF ProducedAt
  <2> QED BY <1>1, <2>1 DEF Explained
<1> QED BY <1>1 DEF WalkInv

(* What a backend's answer is labelled with.                               *)
Labelled(r, a) ==
  \/ /\ Backend(r) # "heuristic"
     /\ a.label.by = Backend(r) /\ a.label.how # "fallback"
  \/ /\ Backend(r) = "heuristic"
     /\ a.label = HeuristicLabel(mode[r].requested, link[r])

(* An explicit chain is the LLM, then the heuristic.                        *)
LEMMA ExplicitChain ==
  ASSUME Inv, NEW r \in Runs, Active(r), mode[r].requested \in LLMs
  PROVE  /\ mode[r].requested \notin {"auto", "heuristic"}
         /\ Backend(r) # "heuristic" =>
              Backend(r) = mode[r].requested /\ link[r] = 1
         /\ Backend(r) = "heuristic" => link[r] = 2
<1> DEFINE b == mode[r].requested
<1>1. b \notin {"auto", "heuristic"}
  BY BackendsAssumption
<1>2. Chain(b) = <<b, "heuristic">>
  BY <1>1 DEF Chain
<1>3. Len(Chain(b)) = 2 /\ Chain(b)[1] = b /\ Chain(b)[2] = "heuristic"
  BY <1>2
<1>4. link[r] \in 1 .. 2
  BY <1>3, ActiveRun
<1> QED BY <1>1, <1>3, <1>4 DEF Backend

(* Whoever answers, everyone tried before has been reported.               *)
LEMMA AnswerExplained ==
  ASSUME Inv, NEW r \in Runs, stage[r] = "attempt", WalkInv(r),
         NEW a, Labelled(r, a)
  PROVE  Explained(r, a)
<1> DEFINE q == mode[r].requested
           by == IF a.label.how = "fallback" THEN "heuristic" ELSE a.label.by
<1>1. Active(r)
  BY DEF Active
<1>2. q \in Requests /\ link[r] \in 1 .. Len(Chain(q))
  BY <1>1, ActiveRun
<1>3. by = Backend(r) /\ (q \in LLMs => a.label.by = q)
  <2>1. CASE Backend(r) # "heuristic"
    BY <1>1, <2>1, ExplicitChain DEF Labelled
  <2>2. CASE Backend(r) = "heuristic"
    <3>1. a.label = HeuristicLabel(q, link[r])
      BY <2>2 DEF Labelled
    <3>2. CASE link[r] > 1 /\ q \notin {"auto", "heuristic"}
      <4>1. a.label.how = "fallback" /\ a.label.by = q
        BY <3>1, <3>2 DEF HeuristicLabel
      <4> QED BY <2>2, <4>1
    <3>3. CASE ~ (link[r] > 1 /\ q \notin {"auto", "heuristic"})
      <4>1. a.label.how = "own" /\ a.label.by = "heuristic"
        BY <3>1, <3>3 DEF HeuristicLabel, Plain
      <4>2. q \notin LLMs
        BY <1>1, <2>2, <3>3, ExplicitChain
      <4> QED BY <2>2, <4>1, <4>2
    <3> QED BY <3>2, <3>3
  <2> QED BY <2>1, <2>2
<1>4. ProducedAt(r, a) = link[r]
  <2>1. \A k \in 1 .. Len(Chain(q)) : Chain(q)[k] = by <=> k = link[r]
    BY <1>2, <1>3, ChainShape DEF Backend
  <2> HIDE DEF by
  <2>2. ProducedAt(r, a) = CHOOSE k \in 1 .. Len(Chain(q)) : Chain(q)[k] = by
    BY DEF ProducedAt, by
  <2> QED BY <1>2, <2>1, <2>2
<1>5. \A k \in 1 .. link[r] - 1 : Warned(r, Chain(q)[k])
  BY <1>1 DEF WalkInv
<1> QED BY <1>3, <1>4, <1>5 DEF Explained

(* An answer that joins the list is cached, a demo's, or explained.         *)
LEMMA EmitWalk ==
  ASSUME Inv, NEW r \in Runs, Active(r), WalkInv(r),
         NEW a \in Results, a.cand = Current(r), Emit(r, a),
         mode' = mode, warnings' = warnings,
         a.cached \/ mode[r].demo \/ Explained(r, a)
  PROVE  WalkInv(r)'
<1>1. \A b : Warned(r, b)' <=> Warned(r, b)
  BY DEF Warned
<1>2. link'[r] = 1 /\ stage'[r] # "store"
  BY EmitStep
<1>3. ASSUME NEW i \in 1 .. Len(results'[r]),
             ~ results'[r][i].cached, ~ mode'[r].demo
      PROVE  Explained(r, results[r][i])'
  <2>1. /\ results'[r] = Append(results[r], a)
        /\ results[r] \in Seq(Results)
    BY EmitStep DEF Inv, TypeOK
  <2>2. \/ i \in 1 .. Len(results[r]) /\ results'[r][i] = results[r][i]
        \/ results'[r][i] = a
    BY <2>1
  <2>3. Explained(r, results'[r][i])
    BY <1>3, <2>2 DEF WalkInv
  <2>4. ProducedAt(r, results[r][i])' = ProducedAt(r, results'[r][i])
    BY DEF ProducedAt
  <2> QED BY <1>1, <2>3, <2>4 DEF Explained
<1> QED BY <1>2, <1>3 DEF WalkInv

(* The steps of a run: each answer is explained when it is given.           *)
LEMMA StepWalk ==
  ASSUME Inv, NEW r \in Runs, Step(r), WalkInv(r)
  PROVE  WalkInv(r)'
<1>1. Active(r)
  BY DEF Step, CacheHit, DemoMiss, CacheMiss, LlmAnswers, LlmUnparseable,
         LlmNotAnObject, LlmFails, HeuristicAnswers, Store, Active
<1>2. CASE CacheHit(r) \/ DemoMiss(r)
  <2>1. PICK a : /\ Emit(r, a) /\ UNCHANGED <<mode, warnings>>
                 /\ a.cand = Current(r) /\ (a.cached \/ mode[r].demo)
    BY <1>2 DEF CacheHit, DemoMiss, Restored, HeuristicAnswer, Answer
  <2>2. results'[r] = Append(results[r], a) /\ results[r] \in Seq(Results)
    BY <2>1 DEF Emit, Inv, TypeOK
  <2>3. results'[r] \in Seq(Results)
    BY StepInv DEF Inv, TypeOK
  <2>4. a \in Results
    <3>1. /\ Append(results[r], a)[Len(results[r]) + 1] = a
          /\ Len(results[r]) + 1 \in 1 .. Len(Append(results[r], a))
      BY <2>2
    <3> QED BY <2>2, <2>3, <3>1
  <2> QED BY <1>1, <2>1, <2>4, EmitWalk
<1>3. CASE CacheMiss(r) \/ LlmNotAnObject(r)
  <2>1. /\ UNCHANGED <<mode, link, pending, results, warnings>>
        /\ stage'[r] # "store"
    BY <1>3 DEF CacheMiss, LlmNotAnObject, Inv, TypeOK
  <2>2. \A b : Warned(r, b) => Warned(r, b)'
    BY <2>1 DEF Warned
  <2> QED BY <1>1, <2>1, <2>2, WalkKept
<1>4. ASSUME NEW a, stage[r] = "attempt", a.cand = Current(r), Labelled(r, a),
             Answered(r, a)
      PROVE  WalkInv(r)'
  <2>1. Explained(r, a)
    BY <1>4, AnswerExplained
  <2>2. mode' = mode /\ warnings' = warnings
    BY <1>4 DEF Answered
  <2>3. CASE mode[r].cache
    <3>1. /\ pending'[r] = a /\ stage'[r] = "store"
          /\ UNCHANGED <<results, link>>
      BY <1>4, <2>3 DEF Answered, Inv, TypeOK
    <3>2. ASSUME NEW b, Explained(r, b) PROVE Explained(r, b)'
      <4>1. ProducedAt(r, b)' = ProducedAt(r, b)
        BY <2>2 DEF ProducedAt
      <4>2. \A c : Warned(r, c)' <=> Warned(r, c)
        BY <2>2 DEF Warned
      <4> QED BY <2>2, <3>2, <4>1, <4>2 DEF Explained
    <3>3. \A c : Warned(r, c)' <=> Warned(r, c)
      BY <2>2 DEF Warned
    <3>4. Explained(r, pending[r])'
      BY <2>1, <3>1, <3>2
    <3> QED BY <1>1, <2>2, <3>1, <3>2, <3>3, <3>4 DEF WalkInv
  <2>4. CASE ~ mode[r].cache
    <3>1. Emit(r, a) /\ a \in answers'
      BY <1>4, <2>4 DEF Answered
    <3>2. a \in Results
      BY <3>1, StepInv DEF Inv, TypeOK
    <3> QED BY <1>1, <1>4, <2>1, <2>2, <3>1, <3>2, EmitWalk
  <2> QED BY <2>3, <2>4
<1>5. ASSUME NEW v \in LLMVerdicts, NEW k \in LLMConfidences, LlmAnswers(r, v, k)
      PROVE  WalkInv(r)'
  BY <1>4, <1>5 DEF LlmAnswers, Answer, Labelled, Plain
<1>6. CASE LlmUnparseable(r)
  BY <1>4, <1>6 DEF LlmUnparseable, HeuristicAnswer, Answer, Labelled
<1>7. CASE HeuristicAnswers(r)
  BY <1>4, <1>7 DEF HeuristicAnswers, HeuristicAnswer, Answer, Labelled
<1>8. ASSUME NEW e \in Errors, LlmFails(r, e) PROVE WalkInv(r)'
  <2>0. PICK b0 : b0 = Backend(r)
    OBVIOUS
  <2> DEFINE msg == <<b0, e>>
  <2>1. /\ link'[r] = link[r] + 1 /\ link[r] \in Nat \ {0}
        /\ UNCHANGED <<mode, stage, results, pending>>
        /\ warnings[r] \in Seq(LLMs \X Errors)
        /\ stage[r] = "attempt"
        /\ msg \in LLMs \X Errors
    BY <1>8, <2>0, FailureLogged DEF Inv, TypeOK
  <2>2. (\A b : Warned(r, b) => Warned(r, b)') /\ Warned(r, b0)'
    <3>1. CASE /\ warnings'[r] = warnings[r]
               /\ \E i \in 1 .. Len(warnings[r]) : warnings[r][i] = msg
      <4>1. PICK i \in 1 .. Len(warnings'[r]) : warnings'[r][i] = msg
        BY <3>1
      <4>2. warnings'[r][i][1] = b0
        BY <4>1
      <4>3. Warned(r, b0)'
        BY <4>1, <4>2 DEF Warned
      <4>4. \A b : Warned(r, b) => Warned(r, b)'
        BY <3>1 DEF Warned
      <4> QED BY <4>3, <4>4
    <3>2. CASE warnings'[r] = Append(warnings[r], msg)
      <4>1. msg[1] = b0
        OBVIOUS
      <4> HIDE DEF msg
      <4>2. /\ \A i \in 1 .. Len(warnings[r]) :
                 i \in 1 .. Len(warnings'[r]) /\ warnings'[r][i] = warnings[r][i]
            /\ Len(warnings[r]) + 1 \in 1 .. Len(warnings'[r])
            /\ warnings'[r][Len(warnings[r]) + 1] = msg
        BY <2>1, <3>2
      <4>3. \A b : Warned(r, b) => Warned(r, b)'
        BY <4>2 DEF Warned
      <4>4. \E i \in 1 .. Len(warnings'[r]) : warnings'[r][i][1] = b0
        BY <4>1, <4>2
      <4>5. Warned(r, b0)'
        BY <4>4 DEF Warned
      <4> QED BY <4>3, <4>5
    <3> QED BY <1>8, <2>0, <3>1, <3>2, FailureLogged
  <2>3. ASSUME NEW b, Explained(r, b) PROVE Explained(r, b)'
    <3>1. ProducedAt(r, b)' = ProducedAt(r, b)
      BY <2>1 DEF ProducedAt
    <3> QED BY <2>1, <2>2, <2>3, <3>1 DEF Explained
  <2>4. ASSUME NEW k \in 1 .. link'[r] - 1
        PROVE  Warned(r, Chain(mode[r].requested)[k])'
    <3>0. PICK b : b = Chain(mode[r].requested)[k]
      OBVIOUS
    <3>1. CASE k = link[r]
      <4>1. b = b0
        BY <2>0, <3>0, <3>1 DEF Backend
      <4>2. Warned(r, b)'
        BY <2>2, <4>1
      <4> QED BY <2>1, <3>0, <4>2 DEF Warned
    <3>2. CASE k \in 1 .. link[r] - 1
      <4>1. Warned(r, b)
        BY <1>1, <3>0, <3>2 DEF WalkInv
      <4>2. Warned(r, b)'
        BY <2>2, <4>1
      <4> QED BY <2>1, <3>0, <4>2 DEF Warned
    <3> QED BY <2>1, <3>1, <3>2
  <2> QED BY <2>1, <2>3, <2>4 DEF WalkInv
<1>9. CASE Store(r)
  <2>1. /\ pending[r] \in Results /\ pending[r].cand = Current(r)
        /\ Explained(r, pending[r])
    BY <1>9 DEF Store, Inv, PositionOK, InPosition, Current, WalkInv
  <2>2. Emit(r, pending[r]) /\ mode' = mode /\ warnings' = warnings
    BY <1>9 DEF Store
  <2> QED BY <1>1, <2>1, <2>2, EmitWalk
<1> QED BY <1>2, <1>3, <1>5, <1>6, <1>7, <1>8, <1>9 DEF Step

(* A step of a run is nobody else's.                                       *)
LEMMA OwnSteps ==
  ASSUME Inv, NEW r \in Runs, Step(r), NEW q \in Runs, q # r
  PROVE  /\ mode' = mode
         /\ link'[q] = link[q] /\ results'[q] = results[q]
         /\ pending'[q] = pending[q] /\ stage'[q] = stage[q]
         /\ warnings'[q] = warnings[q]
BY DEF Step, CacheHit, DemoMiss, CacheMiss, LlmAnswers, LlmUnparseable,
       LlmNotAnObject, LlmFails, HeuristicAnswers, Store, Answered, Emit, Inv, TypeOK

(* The steps that are no run's leave each run where it is, or end it.       *)
LEMMA OtherSteps ==
  ASSUME Inv, NEW q \in Runs,
         \/ \E r \in Runs : Abort(r)
         \/ Clear \/ Tick \/ (\E c \in Candidates : EditSource(c))
         \/ UNCHANGED vars
  PROVE  /\ UNCHANGED <<mode, link, results, pending, warnings>>
         /\ stage'[q] \in {stage[q], "aborted"}
BY DEF Abort, Clear, Tick, EditSource, vars, Inv, TypeOK

LEMMA Started ==
  ASSUME Inv, NEW r \in Runs, NEW m \in AllModes, Start(r, m)
  PROVE  /\ mode'[r] = m /\ stage'[r] = FirstStage(m)
         /\ results'[r] = << >> /\ warnings'[r] = << >> /\ link'[r] = 1
         /\ UNCHANGED <<link, results, pending, warnings>>
         /\ \A q \in Runs \ {r} : mode'[q] = mode[q] /\ stage'[q] = stage[q]
<1>1. stage[r] = "idle"
  BY DEF Start
<1>2. results[r] = << >> /\ warnings[r] = << >> /\ link[r] = 1
  BY <1>1 DEF Inv, PositionOK, InPosition
<1> QED BY <1>2 DEF Start, Inv, TypeOK

LEMMA FallbackNext == Inv /\ FallbackInv /\ [Next]_vars => FallbackInv'
<1> SUFFICES ASSUME Inv, FallbackInv, [Next]_vars, NEW q \in Runs
             PROVE  WalkInv(q)'
  BY DEF FallbackInv
<1>1. WalkInv(q)
  BY DEF FallbackInv
<1>2. ASSUME NEW r \in Runs, Step(r) PROVE WalkInv(q)'
  <2>1. CASE r = q
    BY <1>1, <1>2, <2>1, StepWalk
  <2>2. CASE r # q
    <3>1. \A b : Warned(q, b) => Warned(q, b)'
      BY <1>2, <2>2, OwnSteps DEF Warned
    <3> QED BY <1>1, <1>2, <2>2, <3>1, OwnSteps, WalkKept DEF Active
  <2> QED BY <2>1, <2>2
<1>3. ASSUME NEW r \in Runs, NEW m \in AllModes, Start(r, m) PROVE WalkInv(q)'
  <2>1. CASE r = q
    BY <1>3, <2>1, Started DEF WalkInv, FirstStage
  <2>2. CASE r # q
    <3>1. \A b : Warned(q, b) => Warned(q, b)'
      BY <1>3, Started DEF Warned
    <3> QED BY <1>1, <1>3, <2>2, <3>1, Started, WalkKept DEF Active
  <2> QED BY <2>1, <2>2
<1>4. CASE \/ \E r \in Runs : Abort(r)
           \/ Clear \/ Tick \/ (\E c \in Candidates : EditSource(c))
           \/ UNCHANGED vars
  <2>1. /\ UNCHANGED <<mode, link, results, pending, warnings>>
        /\ stage'[q] \in {stage[q], "aborted"}
    BY <1>4, OtherSteps
  <2>2. \A b : Warned(q, b) => Warned(q, b)'
    BY <2>1 DEF Warned
  <2> QED BY <1>1, <2>1, <2>2, WalkKept DEF Active
<1> QED BY <1>2, <1>3, <1>4 DEF Next

(* No fallback is silent, whichever backends fail for whichever candidate.  *)
THEOREM FallbackCorrect == Spec => []FallbackExplained
<1>1. Init => FallbackInv
  BY DEF Init, FallbackInv, WalkInv, Active
<1>2. FallbackInv => FallbackExplained
  BY DEF FallbackInv, WalkInv, FallbackExplained
<1> QED BY <1>1, <1>2, InvInit, InvNext, FallbackNext, PTL DEF Spec

-----------------------------------------------------------------------------
(* What the web UI says of an explicitly selected LLM.                     *)

Explicit(r) == mode[r].entry = "web" /\ mode[r].requested \in LLMs

Fell(r) == \E i \in 1 .. Len(results[r]) : results[r][i].label.how = "fallback"

(* A warning means that the heuristic answered once, or is about to, and    *)
(* every label names the LLM.                                               *)
Honest(r) ==
  Explicit(r) =>
    /\ \A i \in 1 .. Len(results[r]) : results[r][i].label.by = mode[r].requested
    /\ stage[r] \notin {"idle", "lookup", "store"}
    /\ stage[r] \in {"attempt", "done"} /\ warnings[r] # << >> =>
         (stage[r] = "attempt" /\ link[r] > 1) \/ Fell(r)

HonestInv == \A r \in Runs : Honest(r)

(* A web run of an LLM never uses the cache.                               *)
LEMMA ExplicitMode ==
  ASSUME NEW m \in AllModes \union {NoMode}, m.entry = "web", m.requested \in LLMs
  PROVE  m.cache = FALSE
<1>1. CASE m \in CliModes
  BY <1>1 DEF CliModes, Modes
<1>2. CASE m \in WebModes
  BY <1>2, BackendsAssumption DEF WebModes, Modes
<1>3. CASE m \in ValidateModes
  BY <1>3 DEF ValidateModes, Modes
<1>4. CASE m = NoMode
  BY <1>4 DEF NoMode
<1> QED BY <1>1, <1>2, <1>3, <1>4 DEF AllModes

(* An answer keeps what fell back, and is a fallback past the first link.   *)
LEMMA StepHonest ==
  ASSUME Inv, NEW r \in Runs, Step(r), Honest(r)
  PROVE  Honest(r)'
<1> SUFFICES ASSUME Explicit(r)' PROVE Honest(r)'
  BY DEF Honest
<1>1. mode' = mode
  BY DEF Step, CacheHit, DemoMiss, CacheMiss, LlmAnswers, LlmUnparseable,
         LlmNotAnObject, LlmFails, HeuristicAnswers, Store, Answered
<1>2. /\ Explicit(r) /\ mode[r].requested \in LLMs /\ mode[r].cache = FALSE
      /\ stage[r] \notin {"idle", "lookup", "store"}
      /\ stage[r] \in {"attempt", "done"} /\ warnings[r] # << >> =>
           (stage[r] = "attempt" /\ link[r] > 1) \/ Fell(r)
      /\ \A i \in 1 .. Len(results[r]) : results[r][i].label.by = mode[r].requested
  BY <1>1, ExplicitMode DEF Explicit, Honest, Inv, TypeOK
<1>3. stage[r] = "attempt" /\ Active(r)
  BY <1>2 DEF Step, CacheHit, DemoMiss, CacheMiss, LlmAnswers, LlmUnparseable,
         LlmNotAnObject, LlmFails, HeuristicAnswers, Store, Active
<1>4. ASSUME NEW a, a.cand = Current(r), Answered(r, a),
             a.label.by = mode[r].requested,
             link[r] = 1 \/ a.label.how = "fallback"
      PROVE  Honest(r)'
  <2>1. Emit(r, a) /\ a \in answers' /\ warnings' = warnings
    BY <1>2, <1>4 DEF Answered
  <2>2. a \in Results
    BY <2>1, StepInv DEF Inv, TypeOK
  <2>3. /\ results'[r] = Append(results[r], a) /\ results[r] \in Seq(Results)
        /\ stage'[r] \in {"done", "lookup", "attempt"}
    BY <1>3, <1>4, <2>1, <2>2, EmitStep DEF Inv, TypeOK
  <2>4. stage'[r] # "lookup"
    BY <1>2, <2>1 DEF Emit, FirstStage, Inv, TypeOK
  <2>5. /\ Len(results[r]) + 1 \in 1 .. Len(results'[r])
        /\ results'[r][Len(results[r]) + 1] = a
        /\ \A i \in 1 .. Len(results[r]) :
             i \in 1 .. Len(results'[r]) /\ results'[r][i] = results[r][i]
    BY <2>2, <2>3
  <2>6. warnings[r] # << >> => Fell(r)'
    <3>1. CASE a.label.how = "fallback"
      BY <2>5, <3>1 DEF Fell
    <3>2. CASE warnings[r] # << >> /\ link[r] = 1
      <4>1. Fell(r)
        BY <1>2, <1>3, <3>2
      <4> QED BY <2>5, <4>1 DEF Fell
    <3> QED BY <1>4, <3>1, <3>2
  <2>7. \A i \in 1 .. Len(results'[r]) : results'[r][i].label.by = mode'[r].requested
    <3> TAKE i \in 1 .. Len(results'[r])
    <3>1. i \in 1 .. Len(results[r]) \/ i = Len(results[r]) + 1
      BY <2>2, <2>3
    <3> QED BY <1>1, <1>2, <1>4, <2>5, <3>1
  <2> QED BY <2>1, <2>3, <2>4, <2>6, <2>7 DEF Honest
<1>5. ASSUME NEW v \in LLMVerdicts, NEW k \in LLMConfidences, LlmAnswers(r, v, k)
      PROVE  Honest(r)'
  BY <1>2, <1>3, <1>4, <1>5, ExplicitChain DEF LlmAnswers, Answer, Plain
<1>6. CASE LlmUnparseable(r)
  <2>1. link[r] = 1 /\ Backend(r) = mode[r].requested
    BY <1>2, <1>3, <1>6, ExplicitChain DEF LlmUnparseable
  <2>2. PICK a : a.cand = Current(r) /\ Answered(r, a) /\ a.label.by = Backend(r)
    BY <1>6 DEF LlmUnparseable, HeuristicAnswer, Answer
  <2> QED BY <1>4, <2>1, <2>2
<1>7. CASE HeuristicAnswers(r)
  <2>1. link[r] = 2 /\ mode[r].requested \notin {"auto", "heuristic"}
    BY <1>2, <1>3, <1>7, ExplicitChain DEF HeuristicAnswers
  <2>2. HeuristicLabel(mode[r].requested, link[r]) =
          [by |-> mode[r].requested, how |-> "fallback"]
    BY <2>1 DEF HeuristicLabel
  <2>3. PICK a : /\ a.cand = Current(r) /\ Answered(r, a)
                 /\ a.label = HeuristicLabel(mode[r].requested, link[r])
    BY <1>7 DEF HeuristicAnswers, HeuristicAnswer, Answer
  <2> QED BY <1>4, <2>2, <2>3
<1>8. CASE LlmNotAnObject(r)
  <2>1. stage'[r] = "crashed"
    BY <1>8 DEF LlmNotAnObject, Inv, TypeOK
  <2>2. results' = results
    BY <1>8 DEF LlmNotAnObject
  <2> QED BY <1>1, <1>2, <2>1, <2>2 DEF Honest
<1>9. ASSUME NEW e \in Errors, LlmFails(r, e) PROVE Honest(r)'
  <2>1. link'[r] = link[r] + 1 /\ link[r] \in Nat \ {0} /\ stage'[r] = "attempt"
    BY <1>3, <1>9, FailureLogged DEF Inv, TypeOK
  <2>2. results' = results
    BY <1>9 DEF LlmFails
  <2> QED BY <1>1, <1>2, <2>1, <2>2 DEF Honest
<1>10. ~ CacheHit(r) /\ ~ DemoMiss(r) /\ ~ CacheMiss(r) /\ ~ Store(r)
  BY <1>3 DEF CacheHit, DemoMiss, CacheMiss, Store
<1> QED BY <1>5, <1>6, <1>7, <1>8, <1>9, <1>10 DEF Step

LEMMA HonestNext == Inv /\ HonestInv /\ [Next]_vars => HonestInv'
<1> SUFFICES ASSUME Inv, HonestInv, [Next]_vars, NEW q \in Runs
             PROVE  Honest(q)'
  BY DEF HonestInv
<1>1. Honest(q)
  BY DEF HonestInv
<1>2. ASSUME NEW r \in Runs, Step(r) PROVE Honest(q)'
  <2>1. CASE r = q
    BY <1>1, <1>2, <2>1, StepHonest
  <2>2. CASE r # q
    BY <1>1, <1>2, <2>2, OwnSteps DEF Honest, Explicit, Fell
  <2> QED BY <2>1, <2>2
<1>3. ASSUME NEW r \in Runs, NEW m \in AllModes, Start(r, m) PROVE Honest(q)'
  <2>1. CASE r = q
    <3>1. stage'[q] = FirstStage(m) /\ mode'[q] = m /\ warnings'[q] = << >>
      BY <1>3, <2>1, Started
    <3>2. Explicit(q)' => m.cache = FALSE
      BY <3>1, ExplicitMode DEF Explicit
    <3>3. results'[q] = << >>
      BY <1>3, <2>1, Started
    <3> QED BY <3>1, <3>2, <3>3 DEF Honest, FirstStage
  <2>2. CASE r # q
    BY <1>1, <1>3, <2>2, Started DEF Honest, Explicit, Fell
  <2> QED BY <2>1, <2>2
<1>4. CASE \/ \E r \in Runs : Abort(r)
           \/ Clear \/ Tick \/ (\E c \in Candidates : EditSource(c))
           \/ UNCHANGED vars
  <2>1. /\ UNCHANGED <<mode, link, results, pending, warnings>>
        /\ stage'[q] \in {stage[q], "aborted"}
    BY <1>4, OtherSteps
  <2> QED BY <1>1, <2>1 DEF Honest, Explicit, Fell
<1> QED BY <1>2, <1>3, <1>4 DEF Next

(* For an LLM selected by name, the web UI says "heuristic" only if the      *)
(* heuristic gave some verdict, and names the LLM only if the LLM gave every *)
(* verdict whose completion could be parsed (server.py:147-166).             *)
THEOREM ReportCorrect == Spec => []ExplicitBackendReported
<1>1. Init => HonestInv
  BY DEF Init, HonestInv, Honest, Explicit, NoMode
<1>2. ASSUME Inv, HonestInv PROVE ExplicitBackendReported
  <2> SUFFICES ASSUME NEW r \in Runs, stage[r] = "done",
                      mode[r].entry = "web", mode[r].requested \in LLMs
               PROVE  /\ Effective(r) = "heuristic" =>
                           \E i \in 1 .. NumCandidates :
                             Author(results[r][i]) = "heuristic"
                      /\ Effective(r) # "heuristic" =>
                           \A i \in 1 .. NumCandidates :
                             \/ Author(results[r][i]) = Effective(r)
                             \/ results[r][i].label.how = "unparsed"
    BY DEF ExplicitBackendReported
  <2>1. Len(results[r]) = NumCandidates
    BY <1>2 DEF Inv, PositionOK, InPosition
  <2>2. /\ warnings[r] # << >> => Fell(r)
        /\ \A i \in 1 .. NumCandidates : results[r][i].label.by = mode[r].requested
    BY <1>2, <2>1 DEF HonestInv, Honest, Explicit
  <2>3. FellBack(r) <=> Fell(r)
    BY <2>2 DEF FellBack, Fell
  <2>4. mode[r].requested # "heuristic"
    BY BackendsAssumption
  <2>5. CASE Fell(r)
    <3>1. Effective(r) = "heuristic"
      BY <2>3, <2>4, <2>5 DEF Effective
    <3>2. \E i \in 1 .. NumCandidates : Author(results[r][i]) = "heuristic"
      BY <2>1, <2>5 DEF Fell, Author
    <3> QED BY <3>1, <3>2
  <2>6. CASE ~ Fell(r)
    <3>1. Effective(r) = mode[r].requested
      BY <2>3, <2>6 DEF Effective
    <3>2. ASSUME NEW i \in 1 .. NumCandidates
          PROVE  results[r][i].label.how \in {"own", "unparsed"}
      <4>1. results[r][i] \in Results
        BY <1>2, <2>1 DEF Inv, TypeOK
      <4>2. results[r][i].label.how \in {"own", "unparsed", "fallback"}
        BY <4>1 DEF Results, Labels
      <4> QED BY <2>1, <2>6, <4>2 DEF Fell
    <3> QED BY <2>2, <2>4, <3>1, <3>2 DEF Author
  <2> QED BY <2>5, <2>6
<1> QED BY <1>1, <1>2, InvInit, InvNext, HonestNext, PTL DEF Spec

-----------------------------------------------------------------------------
(* The promise of triage(), step by step.                                  *)

\* What the promise sees of a run.
StatusOf(r) ==
  CASE stage[r] = "idle" -> "idle"
    [] Active(r)         -> "running"
    [] stage[r] = "done" -> "done"
    [] OTHER             -> "stopped"

AnsweredBy(r) == [i \in 1 .. Len(results[r]) |-> results[r][i].cand]

Status == [r \in Runs |-> StatusOf(r)]
Listed == [r \in Runs |-> AnsweredBy(r)]

(* The answers of a run are 1, 2, ... as far as it has come.                *)
LEMMA AnsweredShape ==
  ASSUME Inv, NEW r \in Runs
  PROVE  /\ AnsweredBy(r) \in Seq(Nat)
         /\ Len(AnsweredBy(r)) = Len(results[r])
         /\ Len(results[r]) \in Nat
         /\ AnsweredBy(r) = [i \in 1 .. Len(results[r]) |-> i]
<1>1. results[r] \in Seq(Results) /\ \A i \in 1 .. Len(results[r]) : results[r][i].cand = i
  BY DEF Inv, TypeOK, PositionOK, InPosition
<1>2. Len(results[r]) \in Nat
  BY <1>1
<1>3. AnsweredBy(r) = [i \in 1 .. Len(results[r]) |-> i]
  BY <1>1 DEF AnsweredBy
<1>4. \A n \in Nat : [i \in 1 .. n |-> i] \in Seq(Nat) /\ Len([i \in 1 .. n |-> i]) = n
  OBVIOUS
<1> QED BY <1>2, <1>3, <1>4

(* An answer that joins the list is the promised next one.                 *)
LEMMA EmitAnswers ==
  ASSUME Inv, Inv', NEW r \in Runs, Active(r),
         NEW a \in Results, a.cand = Current(r), Emit(r, a)
  PROVE  Promise!AnswerNext(r)
<1>1. /\ Len(results'[r]) = Len(results[r]) + 1
      /\ stage'[r] \in {"done", "lookup", "attempt"}
      /\ stage'[r] = "done" <=> Len(results'[r]) = NumCandidates
      /\ \A q \in Runs \ {r} : results'[q] = results[q] /\ stage'[q] = stage[q]
  BY EmitStep
<1> DEFINE c == Len(Listed[r]) + 1
<1>2. c = Len(results[r]) + 1 /\ Len(results[r]) \in Nat
  BY AnsweredShape DEF Listed
<1>3. Status[r] = "running"
  BY DEF Status, StatusOf, Active
<1>4. AnsweredBy(r)' = Append(AnsweredBy(r), c)
  <2>1. AnsweredBy(r)' = [i \in 1 .. Len(results[r]) + 1 |-> i]
    <3>1. AnsweredBy(r)' = [i \in 1 .. Len(results'[r]) |-> results'[r][i].cand]
      BY DEF AnsweredBy
    <3>2. \A i \in 1 .. Len(results'[r]) : results'[r][i].cand = i
      BY EmitStep
    <3> QED BY <1>1, <3>1, <3>2
  <2>2. \A n \in Nat : Append([i \in 1 .. n |-> i], n + 1) = [i \in 1 .. n + 1 |-> i]
    OBVIOUS
  <2> QED BY <1>2, <2>1, <2>2, AnsweredShape
<1>5. StatusOf(r)' = IF c = NumCandidates THEN "done" ELSE "running"
  BY <1>1, <1>2 DEF StatusOf, Active
<1>6. ASSUME NEW q \in Runs \ {r}
      PROVE  StatusOf(q)' = StatusOf(q) /\ AnsweredBy(q)' = AnsweredBy(q)
  <2>1. results'[q] = results[q] /\ stage'[q] = stage[q]
    BY <1>1
  <2> QED BY <2>1 DEF StatusOf, AnsweredBy, Active
<1>7. Listed' = [Listed EXCEPT ![r] = Append(@, c)]
  BY <1>4, <1>6 DEF Listed
<1>8. Status' = [Status EXCEPT ![r] = IF c = NumCandidates THEN "done" ELSE @]
  BY <1>3, <1>5, <1>6 DEF Status
<1> HIDE DEF c
<1> QED BY <1>3, <1>7, <1>8 DEF Promise!AnswerNext, Status, StatusOf, Listed,
         AnsweredBy, c

(* A run that ends before its last answer is cut short.                    *)
LEMMA EndsEarly ==
  ASSUME Inv, NEW r \in Runs, Active(r), results' = results,
         stage' = [stage EXCEPT ![r] = "crashed"] \/ stage' = [stage EXCEPT ![r] = "aborted"]
  PROVE  Promise!CutShort(r)
<1>1. /\ stage'[r] \in {"crashed", "aborted"}
      /\ \A q \in Runs \ {r} : stage'[q] = stage[q]
  BY DEF Inv, TypeOK
<1>2. /\ StatusOf(r)' = "stopped"
      /\ \A q \in Runs \ {r} : StatusOf(q)' = StatusOf(q)
  BY <1>1 DEF StatusOf, Active
<1>3. Status' = [Status EXCEPT ![r] = "stopped"] /\ Status[r] = "running"
  BY <1>2 DEF Status, StatusOf, Active
<1>4. Listed' = Listed
  BY DEF Listed, AnsweredBy
<1> QED BY <1>3, <1>4 DEF Promise!CutShort, Status, StatusOf, Listed, AnsweredBy

(* Every step of a run is the next answer, the end, or not seen at all.     *)
LEMMA StepPromised ==
  ASSUME Inv, Inv', NEW r \in Runs, Step(r)
  PROVE  \/ Promise!AnswerNext(r) \/ Promise!CutShort(r)
         \/ UNCHANGED <<Status, Listed>>
<1>1. Active(r)
  BY DEF Step, CacheHit, DemoMiss, CacheMiss, LlmAnswers, LlmUnparseable,
         LlmNotAnObject, LlmFails, HeuristicAnswers, Store, Active
<1>2. ASSUME results' = results, \A q \in Runs \ {r} : stage'[q] = stage[q], Active(r)'
      PROVE  UNCHANGED <<Status, Listed>>
  <2>1. \A q \in Runs : StatusOf(q)' = StatusOf(q) /\ AnsweredBy(q)' = AnsweredBy(q)
    <3> TAKE q \in Runs
    <3>1. results'[q] = results[q] /\ (stage'[q] = stage[q] \/ (Active(q) /\ Active(q)'))
      BY <1>1, <1>2
    <3> QED BY <3>1 DEF StatusOf, AnsweredBy, Active
  <2> QED BY <2>1 DEF Status, Listed
<1>3. ASSUME NEW a, a.cand = Current(r), Emit(r, a) PROVE Promise!AnswerNext(r)
  <2>1. results'[r] = Append(results[r], a) /\ results[r] \in Seq(Results)
    BY <1>3 DEF Emit, Inv, TypeOK
  <2>2. results'[r] \in Seq(Results)
    BY DEF Inv, TypeOK
  <2>3. /\ Append(results[r], a)[Len(results[r]) + 1] = a
        /\ Len(results[r]) + 1 \in 1 .. Len(Append(results[r], a))
    BY <2>1
  <2>4. a \in Results
    BY <2>1, <2>2, <2>3
  <2> QED BY <1>1, <1>3, <2>4, EmitAnswers
<1>4. CASE CacheHit(r) \/ DemoMiss(r)
  BY <1>3, <1>4 DEF CacheHit, DemoMiss, Restored, HeuristicAnswer, Answer
<1>5. CASE CacheMiss(r) \/ \E e \in Errors : LlmFails(r, e)
  <2>1. /\ results' = results /\ \A q \in Runs \ {r} : stage'[q] = stage[q]
        /\ stage'[r] = "attempt"
    BY <1>5 DEF CacheMiss, LlmFails, Inv, TypeOK
  <2> QED BY <1>2, <2>1 DEF Active
<1>6. CASE LlmNotAnObject(r)
  <2>1. results' = results /\ stage' = [stage EXCEPT ![r] = "crashed"]
    BY <1>6 DEF LlmNotAnObject
  <2> QED BY <1>1, <2>1, EndsEarly
<1>7. CASE \/ \E v \in LLMVerdicts, k \in LLMConfidences : LlmAnswers(r, v, k)
           \/ LlmUnparseable(r)
           \/ HeuristicAnswers(r)
  <2>1. PICK a : a.cand = Current(r) /\ Answered(r, a)
    BY <1>7 DEF LlmAnswers, LlmUnparseable, HeuristicAnswers, HeuristicAnswer, Answer
  <2>2. CASE mode[r].cache
    <3>1. /\ results' = results /\ \A q \in Runs \ {r} : stage'[q] = stage[q]
          /\ stage'[r] = "store"
      BY <2>1, <2>2 DEF Answered, Inv, TypeOK
    <3> QED BY <1>2, <3>1 DEF Active
  <2>3. CASE ~ mode[r].cache
    BY <1>3, <2>1, <2>3 DEF Answered
  <2> QED BY <2>2, <2>3
<1>8. CASE Store(r)
  <2>1. Emit(r, pending[r]) /\ pending[r].cand = Current(r)
    BY <1>8 DEF Store, Inv, PositionOK, InPosition, Current
  <2>2. PICK a : a = pending[r]
    OBVIOUS
  <2>3. Emit(r, a)
    BY <2>1, <2>2 DEF Emit
  <2> QED BY <1>3, <2>1, <2>2, <2>3
<1> QED BY <1>4, <1>5, <1>6, <1>7, <1>8 DEF Step

LEMMA NextPromised ==
  ASSUME Inv, Inv', [Next]_vars
  PROVE  [Promise!Next]_(Promise!vars)
<1>1. ASSUME UNCHANGED <<Status, Listed>> PROVE UNCHANGED Promise!vars
  BY <1>1 DEF Promise!vars, Status, StatusOf, Listed, AnsweredBy
<1>2. ASSUME NEW r \in Runs, Step(r) PROVE [Promise!Next]_(Promise!vars)
  BY <1>1, <1>2, StepPromised DEF Promise!Next
<1>3. ASSUME NEW r \in Runs, Abort(r) PROVE Promise!Next
  BY <1>3, EndsEarly DEF Abort, Promise!Next
<1>4. ASSUME NEW r \in Runs, NEW m \in AllModes, Start(r, m) PROVE Promise!Next
  <2>1. /\ results' = results /\ stage[r] = "idle"
        /\ stage'[r] \in {"lookup", "attempt"}
        /\ \A q \in Runs \ {r} : stage'[q] = stage[q]
    BY <1>4 DEF Start, FirstStage, Inv, TypeOK
  <2>2. StatusOf(r) = "idle" /\ StatusOf(r)' = "running"
    BY <2>1 DEF StatusOf, Active
  <2>3. ASSUME NEW q \in Runs \ {r} PROVE StatusOf(q)' = StatusOf(q)
    <3>1. results'[q] = results[q] /\ stage'[q] = stage[q]
      BY <2>1
    <3> QED BY <3>1 DEF StatusOf, AnsweredBy, Active
  <2>4. Status' = [Status EXCEPT ![r] = "running"] /\ Status[r] = "idle"
    BY <2>2, <2>3 DEF Status
  <2>5. Listed' = Listed
    BY <2>1 DEF Listed, AnsweredBy
  <2>6. Promise!Begin(r)
    BY <2>4, <2>5 DEF Promise!Begin, Status, StatusOf, Listed, AnsweredBy
  <2> QED BY <2>6 DEF Promise!Next
<1>5. CASE Clear \/ Tick \/ (\E c \in Candidates : EditSource(c)) \/ UNCHANGED vars
  <2>1. results' = results /\ stage' = stage
    BY <1>5 DEF Clear, Tick, EditSource, vars
  <2>2. UNCHANGED <<Status, Listed>>
    BY <2>1 DEF Status, StatusOf, Listed, AnsweredBy, Active
  <2> QED BY <1>1, <2>2
<1> QED BY <1>2, <1>3, <1>4, <1>5 DEF Next

(* Whatever runs, backends and the cache do, what a caller of triage()      *)
(* sees is its next verdict, or the end (pipeline.py:78-79).                *)
THEOREM OrderCorrect == Spec => ImplementsOrderedTriage
<1>1. Init => Promise!Init
  BY DEF Init, Promise!Init, Active
<1>2. Spec => Promise!Init /\ [][Promise!Next]_(Promise!vars)
  BY <1>1, InvInit, InvNext, NextPromised, PTL DEF Spec
<1> QED BY <1>2, PTL DEF ImplementsOrderedTriage, Promise!Spec

-----------------------------------------------------------------------------
(* Why every run stops.  What is left to do for a run, as a number: its      *)
(* candidates, each of which costs at most a look into the cache, a call of  *)
(* each backend of the chain and a store.                                    *)

Depth(r) == Len(Chain(mode[r].requested))

\* What is left of the present candidate.
AtHand(r) ==
  CASE stage[r] = "lookup"  -> Depth(r) + 2
    [] stage[r] = "attempt" -> Depth(r) + 2 - link[r]
    [] OTHER                -> 1

ToDo(r) ==
  IF Active(r) THEN (NumCandidates - Current(r)) * (Depth(r) + 2) + AtHand(r) ELSE 0

Stopped(r) == stage[r] \in {"done", "crashed", "aborted"}

\* A step of a run leaves less to do, nothing else leaves more, and what a
\* stopped run has reported is final.
CountsDown(r) ==
  /\ Step(r) => ToDo(r)' < ToDo(r)
  /\ Active(r) => ToDo(r)' <= ToDo(r)
  /\ Stopped(r) => Stopped(r)' /\ UNCHANGED <<results[r], warnings[r], mode[r]>>

LEMMA OneLess ==
  ASSUME NEW n \in Nat, NEW d \in Nat
  PROVE  n * d \in Nat /\ (n + 1) * d = n * d + d
BY Z3

Measured ==
  \A r \in Runs :
    /\ ToDo(r) \in Nat
    /\ ToDo(r) = 0 <=> ~ Active(r)
    /\ Active(r) =>
         /\ Depth(r) \in Nat \ {0}
         /\ NumCandidates - Current(r) \in Nat
         /\ AtHand(r) \in 1 .. Depth(r) + 2

LEMMA ToDoType == Inv => Measured
<1> SUFFICES ASSUME Inv, NEW r \in Runs
             PROVE  /\ ToDo(r) \in Nat
                    /\ ToDo(r) = 0 <=> ~ Active(r)
                    /\ Active(r) =>
                         /\ Depth(r) \in Nat \ {0}
                         /\ NumCandidates - Current(r) \in Nat
                         /\ AtHand(r) \in 1 .. Depth(r) + 2
  BY DEF Measured
<1>1. CASE ~ Active(r)
  BY <1>1 DEF ToDo
<1>2. CASE Active(r)
  <2>1. /\ Current(r) \in 1 .. NumCandidates
        /\ Depth(r) \in Nat \ {0}
        /\ link[r] \in 1 .. Depth(r)
    BY <1>2, ActiveRun, ChainShape DEF Depth, Candidates
  <2>2. NumCandidates - Current(r) \in Nat
    BY <2>1, CandidatesAssumption
  <2>3. AtHand(r) \in 1 .. Depth(r) + 2
    BY <2>1 DEF AtHand
  <2>4. (NumCandidates - Current(r)) * (Depth(r) + 2) \in Nat
    BY <2>1, <2>2, OneLess
  <2> QED BY <1>2, <2>1, <2>2, <2>3, <2>4 DEF ToDo
<1> QED BY <1>1, <1>2

LEMMA Remeasured == Inv' => Measured'
BY ToDoType, PTL

(* An answer in the list is a candidate less, whatever the next one costs.  *)
LEMMA EmitCounts ==
  ASSUME Inv, Inv', NEW r \in Runs, Active(r), NEW a, Emit(r, a), mode' = mode
  PROVE  ToDo(r)' < ToDo(r)
<1>1. /\ ToDo(r) \in Nat /\ ToDo(r) # 0
      /\ Depth(r) \in Nat \ {0} /\ NumCandidates - Current(r) \in Nat
      /\ AtHand(r) \in 1 .. Depth(r) + 2
  BY ToDoType DEF Measured
<1>2. Depth(r)' = Depth(r)
  BY DEF Depth
<1>3. CASE ~ Active(r)'
  BY <1>1, <1>3 DEF ToDo
<1>4. CASE Active(r)'
  <2> DEFINE n == NumCandidates - Current(r)'
             d == Depth(r) + 2
  <2>1. n \in Nat /\ AtHand(r)' \in 1 .. Depth(r)' + 2
    BY <1>4, Remeasured DEF Measured
  <2>2. NumCandidates - Current(r) = n + 1
    <3>1. results[r] \in Seq(Results) /\ results'[r] = Append(results[r], a)
      BY DEF Emit, Inv, TypeOK
    <3>2. Len(results'[r]) = Len(results[r]) + 1 /\ Len(results[r]) \in Nat
      BY <3>1
    <3> QED BY <3>2, CandidatesAssumption DEF Current
  <2>3. d \in Nat
    BY <1>1
  <2>4. n * d \in Nat /\ (n + 1) * d = n * d + d
    BY <2>1, <2>3, OneLess
  <2>5. ToDo(r) = (n + 1) * d + AtHand(r)
    BY <2>2 DEF ToDo
  <2>6. ToDo(r)' = n * d + AtHand(r)'
    BY <1>2, <1>4 DEF ToDo
  <2> HIDE DEF n, d
  <2>7. AtHand(r)' <= d /\ AtHand(r)' \in Int /\ AtHand(r) >= 1 /\ AtHand(r) \in Int
    BY <1>1, <1>2, <2>1 DEF d
  <2> QED BY <2>3, <2>4, <2>5, <2>6, <2>7
<1> QED BY <1>3, <1>4

(* A step within one candidate: a miss, a failure, an answer to be stored.  *)
LEMMA SameCandidate ==
  ASSUME Inv, Inv', NEW r \in Runs, Active(r), Active(r)',
         results' = results, mode' = mode, AtHand(r)' < AtHand(r)
  PROVE  ToDo(r)' < ToDo(r)
<1> DEFINE m == (NumCandidates - Current(r)) * (Depth(r) + 2)
<1>1. /\ AtHand(r) \in 1 .. Depth(r) + 2 /\ AtHand(r)' \in 1 .. Depth(r)' + 2
      /\ Depth(r) \in Nat /\ NumCandidates - Current(r) \in Nat
  BY ToDoType, Remeasured DEF Measured
<1>2. Depth(r)' = Depth(r) /\ Current(r)' = Current(r)
  BY DEF Depth, Current
<1>3. m \in Nat
  BY <1>1, OneLess
<1>4. ToDo(r) = m + AtHand(r) /\ ToDo(r)' = m + AtHand(r)'
  BY <1>2 DEF ToDo
<1> HIDE DEF m
<1> QED BY <1>1, <1>2, <1>3, <1>4

(* The answer of a chain is stored next, or listed at once.                 *)
LEMMA AnsweredCounts ==
  ASSUME Inv, Inv', NEW r \in Runs, stage[r] = "attempt",
         NEW a, Answered(r, a)
  PROVE  ToDo(r)' < ToDo(r)
<1>1. Active(r) /\ mode' = mode
  BY DEF Active, Answered
<1>2. CASE ~ mode[r].cache
  BY <1>1, <1>2, EmitCounts DEF Answered
<1>3. CASE mode[r].cache
  <2>1. stage'[r] = "store" /\ results' = results /\ link' = link
    BY <1>3 DEF Answered, Inv, TypeOK
  <2>2. link[r] \in 1 .. Depth(r) /\ Depth(r) \in Nat
    BY <1>1, ActiveRun, ChainShape DEF Depth
  <2>3. AtHand(r)' = 1 /\ AtHand(r) = Depth(r) + 2 - link[r]
    BY <2>1 DEF AtHand
  <2> QED BY <1>1, <2>1, <2>2, <2>3, SameCandidate DEF Active
<1> QED BY <1>2, <1>3

LEMMA StepCounts ==
  ASSUME Inv, Inv', NEW r \in Runs, Step(r)
  PROVE  Active(r) /\ ToDo(r)' < ToDo(r)
<1>1. Active(r)
  BY DEF Step, CacheHit, DemoMiss, CacheMiss, LlmAnswers, LlmUnparseable,
         LlmNotAnObject, LlmFails, HeuristicAnswers, Store, Active
<1>2. /\ link[r] \in 1 .. Depth(r) /\ Depth(r) \in Nat \ {0}
      /\ ToDo(r) \in Nat /\ ToDo(r) # 0
  BY <1>1, ActiveRun, ChainShape, ToDoType DEF Depth, Measured
<1>3. CASE \E a : Emit(r, a) /\ mode' = mode
  BY <1>1, <1>3, EmitCounts
<1>4. CASE CacheMiss(r)
  <2>1. /\ stage[r] = "lookup" /\ stage'[r] = "attempt"
        /\ UNCHANGED <<link, results, mode>>
    BY <1>4 DEF CacheMiss, Inv, TypeOK
  <2>2. AtHand(r) = Depth(r) + 2 /\ AtHand(r)' = Depth(r) + 2 - link[r]
    BY <2>1 DEF AtHand, Depth
  <2> QED BY <1>1, <1>2, <2>1, <2>2, SameCandidate DEF Active
<1>5. ASSUME NEW a, stage[r] = "attempt", Answered(r, a)
      PROVE  ToDo(r)' < ToDo(r)
  BY <1>5, AnsweredCounts
<1>6. CASE LlmNotAnObject(r)
  <2>1. stage'[r] = "crashed"
    BY <1>6 DEF LlmNotAnObject, Inv, TypeOK
  <2> QED BY <1>2, <2>1 DEF ToDo, Active
<1>7. CASE \E e \in Errors : LlmFails(r, e)
  <2>1. /\ stage[r] = "attempt" /\ stage' = stage
        /\ link'[r] = link[r] + 1
        /\ UNCHANGED <<results, mode>>
    BY <1>7 DEF LlmFails, Inv, TypeOK
  <2>2. AtHand(r) = Depth(r) + 2 - link[r] /\ AtHand(r)' = Depth(r) + 2 - (link[r] + 1)
    BY <2>1 DEF AtHand, Depth
  <2> QED BY <1>1, <1>2, <2>1, <2>2, SameCandidate DEF Active
<1> QED
  BY <1>1, <1>3, <1>4, <1>5, <1>6, <1>7 DEF Step, CacheHit, DemoMiss, LlmAnswers,
     LlmUnparseable, HeuristicAnswers, Store

LEMMA NextCounts ==
  ASSUME Inv, Inv', [Next]_vars, NEW q \in Runs
  PROVE  CountsDown(q)
<1>1. ToDo(q) \in Nat
  BY ToDoType DEF Measured
<1>2. ASSUME ~ Step(q), NEW a, a \in {stage[q], "aborted"}, stage'[q] = a,
             UNCHANGED <<link[q], results[q], warnings[q], mode[q]>>
      PROVE  CountsDown(q)
  <2>1. CASE a = stage[q]
    <3>1. ToDo(q)' = ToDo(q)
      BY <1>2, <2>1 DEF ToDo, Active, Current, Depth, AtHand
    <3> QED BY <1>1, <1>2, <2>1, <3>1 DEF CountsDown, Stopped
  <2>2. CASE a = "aborted"
    <3>1. ToDo(q)' = 0
      BY <1>2, <2>2 DEF ToDo, Active
    <3> QED BY <1>1, <1>2, <2>2, <3>1 DEF CountsDown, Stopped
  <2> QED BY <1>2, <2>1, <2>2
<1>3. CASE Step(q)
  <2>1. Active(q) /\ ToDo(q)' < ToDo(q) /\ ToDo(q)' \in Nat
    BY <1>3, StepCounts, Remeasured DEF Measured
  <2> QED BY <1>1, <2>1 DEF CountsDown, Stopped, Active
<1>4. ASSUME NEW r \in Runs, Step(r), ~ Step(q) PROVE CountsDown(q)
  <2>1. r # q
    BY <1>4
  <2> QED BY <1>2, <1>4, <2>1, OwnSteps
<1>5. ASSUME NEW r \in Runs, NEW m \in AllModes, Start(r, m), ~ Step(q)
      PROVE  CountsDown(q)
  <2>1. CASE r = q
    <3>1. stage[q] = "idle"
      BY <1>5, <2>1 DEF Start
    <3> QED BY <1>5, <3>1 DEF CountsDown, Active, Stopped
  <2>2. CASE r # q
    BY <1>2, <1>5, <2>2, Started
  <2> QED BY <2>1, <2>2
<1>6. CASE /\ ~ Step(q)
           /\ \/ \E r \in Runs : Abort(r)
              \/ Clear \/ Tick \/ (\E c \in Candidates : EditSource(c))
              \/ UNCHANGED vars
  BY <1>2, <1>6, OtherSteps
<1> QED BY <1>3, <1>4, <1>5, <1>6 DEF Next

(* Triage ends: an active run has only so much left to do, each of its own  *)
(* steps does some of it, whatever backends fail and whatever other runs do *)
(* to the cache adds nothing, and a finished run's report stays as it is    *)
(* (pipeline.py:78-79, 95-116).  With the fairness of Spec this is why      *)
(* EveryRunStops.                                                           *)
THEOREM RunsCountDown ==
  Spec => /\ [](\A r \in Runs : ToDo(r) \in Nat /\ (ToDo(r) = 0 <=> ~ Active(r)))
          /\ [][\A r \in Runs : CountsDown(r)]_vars
<1>1. Inv => \A r \in Runs : ToDo(r) \in Nat /\ (ToDo(r) = 0 <=> ~ Active(r))
  BY ToDoType DEF Measured
<1>2. Inv /\ Inv' /\ [Next]_vars => [\A r \in Runs : CountsDown(r)]_vars
  BY NextCounts
<1> QED BY <1>1, <1>2, InvInit, InvNext, PTL DEF Spec
=============================================================================
