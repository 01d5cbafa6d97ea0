----------------------------- MODULE MCAnalyses -----------------------------
(* The pure analyses of a candidate and of two trees, each for all inputs   *)
(* within bounds.  One of them has an input at a time, the others an empty  *)
(* one.                                                                     *)
EXTENDS CallerLock, VersionTracker, DiffMode, Score, DetectorWindow, Taint, TLC

CONSTANTS f1, f2, f3, k1, k2, h1, h2

\* Some versions of one, two, three and four parts.
MCVersions ==
  [1 .. 2 -> {0, 1}]
    \union {<<1>>, <<1, Junk>>, <<1, 1, 1>>, <<1, 1, 2>>, <<1, 1, 1, 2>>, <<2, 0>>}

NoEntry == [low |-> <<0, 0>>, high |-> <<0, 0>>, open |-> FALSE, fixed |-> {}]

NoResult == [verdict |-> "likely_safe", confidence |-> 0, signals |-> {}]

\* A branch, comments with one token or none, code with any.
MCWindowLines ==
  {Branch} \union [kind : {"code"}, has : SUBSET Tokens]
    \union {[kind |-> "comment", has |-> {t}] : t \in Tokens}

MCConfirmSpan == [before |-> 1, after |-> 1]
MCRequireSpan == [before |-> 2, after |-> 1]
MCGuardSpan   == [before |-> 1, after |-> 2]

TaintLine(is, of, var, opens, closes, lock) ==
  [is |-> is, of |-> of, var |-> var, opens |-> opens, closes |-> closes, lock |-> lock]

\* Headers with the brace behind them, below them or a body of one line; a
\* comment, a call; "{", "}", "} else {" and a lock.
MCTaintLines ==
  UNION {{TaintLine("header", h, FALSE, 0, 0, FALSE), TaintLine("header", h, h = h1, 1, 0, FALSE),
          TaintLine("header", h, FALSE, 1, 1, TRUE), TaintLine("mention", h, TRUE, 0, 0, FALSE),
          TaintLine("call", h, TRUE, 0, 0, FALSE)} : h \in Helpers}
    \union {TaintLine("plain", NoHelper, FALSE, 1, 0, FALSE),
            TaintLine("plain", NoHelper, FALSE, 0, 1, FALSE),
            TaintLine("plain", NoHelper, FALSE, 1, 1, FALSE),
            TaintLine("plain", NoHelper, FALSE, 0, 0, TRUE)}

\* All files up to one line less than the bound, and of those of full length the
\* ones that start with a header, as another first line is outside of every
\* function, and end with a call, as nothing behind the last call matters.
MCFileInit ==
  /\ FileInit
  /\ Len(file) = MaxLines =>
       file[1] = [kind |-> "def", of |-> f1] /\ file[MaxLines].kind = "call"

\* Which of the components have their empty input.
NoFile    == file = << >>
NoVersion == entry = NoEntry /\ kernel = <<0, 0>>
NoTrees   == old = << >> /\ new = << >>
NoScore   == result = NoResult
NoCode    == code = << >> /\ needs = "nothing"
NoSource  == source = << >> /\ flagged = 1

Init ==
  \/ VersionInit /\ NoFile /\ NoTrees /\ NoScore /\ NoCode /\ NoSource
  \/ ScoreInit /\ NoFile /\ NoVersion /\ NoTrees /\ NoCode /\ NoSource
  \/ DiffInit /\ NoFile /\ NoVersion /\ NoScore /\ NoCode /\ NoSource
  \/ CodeInit /\ NoFile /\ NoVersion /\ NoTrees /\ NoScore /\ NoSource
  \/ TaintInit /\ NoFile /\ NoVersion /\ NoTrees /\ NoScore /\ NoCode
  \/ MCFileInit /\ NoVersion /\ NoTrees /\ NoScore /\ NoCode /\ NoSource

inputs == <<file, entry, kernel, old, new, result, code, needs, source, flagged>>

Next ==
  \/ /\ NoFile /\ NoTrees /\ NoScore /\ NoCode /\ NoSource
     /\ VersionNext
     /\ UNCHANGED <<file, old, new, result, code, needs, source, flagged>>
  \/ /\ Swap
     /\ UNCHANGED <<file, entry, kernel, result, code, needs, source, flagged>>
  \/ /\ ~NoScore
     /\ MarkMissing
     /\ UNCHANGED <<file, entry, kernel, old, new, code, needs, source, flagged>>

Spec == Init /\ [][Next]_inputs

NameSymmetry == Permutations({f1, f2, f3})
=============================================================================
