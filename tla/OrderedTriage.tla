---------------------------- MODULE OrderedTriage ----------------------------
(***************************************************************************)
(* What TriagePipeline.triage promises to its callers, with no mention of  *)
(* backends, fallbacks or caches: a run answers its candidates one by one, *)
(* in the order it was given them, none twice and none skipped; it ends    *)
(* with all of them answered, or is cut short.                             *)
(***************************************************************************)
EXTENDS Naturals, Sequences

CONSTANTS Runs, NumCandidates

VARIABLES
  status,    \* per run: idle, running, done or stopped
  answered   \* per run: the candidates answered so far, in order

vars == <<status, answered>>

Init ==
  /\ status = [r \in Runs |-> "idle"]
  /\ answered = [r \in Runs |-> << >>]

Begin(r) ==
  /\ status[r] = "idle"
  /\ status' = [status EXCEPT ![r] = "running"]
  /\ UNCHANGED answered

AnswerNext(r) ==
  LET c == Len(answered[r]) + 1 IN
  /\ status[r] = "running"
  /\ answered' = [answered EXCEPT ![r] = Append(@, c)]
  /\ status' = [status EXCEPT ![r] = IF c = NumCandidates THEN "done" ELSE @]

CutShort(r) ==
  /\ status[r] = "running"
  /\ status' = [status EXCEPT ![r] = "stopped"]
  /\ UNCHANGED answered

Next == \E r \in Runs : Begin(r) \/ AnswerNext(r) \/ CutShort(r)

\* No promise is made of when: a backend may keep its caller waiting.
Spec == Init /\ [][Next]_vars
=============================================================================
