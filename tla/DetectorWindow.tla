--------------------------- MODULE DetectorWindow ---------------------------
(***************************************************************************)
(* What the table-driven detectors of src/scanner/scanner.py see of a      *)
(* source file: a line that triggers, the context the pattern needs and a  *)
(* mitigation near it.  Windows end at a preprocessor branch, so that the  *)
(* two variants of a fixture or of a backport are judged apart.            *)
(*                                                                         *)
(* A line is what the expressions of one detector find in it: a branch     *)
(* directive, or code or a comment with some of Tokens.                    *)
(* A definition named Bug_X is X with a mistake that code could contain.   *)
(***************************************************************************)
EXTENDS Integers, Sequences, FiniteSets

CONSTANTS
  WindowLines,    \* the lines in use, among AllLines
  WindowLength,   \* bound on the lines of the file
  ConfirmSpan,    \* lines back and on of the confirm window (4 and 5)
  RequireSpan,    \* of require_window (15 and 14)
  GuardSpan       \* of the mitigation window (10 and 10)

Tokens == {"trigger", "context", "guard"}

Branch == [kind |-> "branch", has |-> {}]

AllLines == [kind : {"code", "comment"}, has : SUBSET Tokens] \union {Branch}

Spans == [before : Nat, after : Nat]

ASSUME WindowLinesAssumption == WindowLines \subseteq AllLines /\ WindowLength \in Nat
ASSUME SpansAssumption == {ConfirmSpan, RequireSpan, GuardSpan} \subseteq Spans

VARIABLES
  code,      \* the lines of the file
  needs      \* the context the detector asks for

\* A detector has no expression for its context, or one it looks for in the
\* clipped window ("confirm") or in the plain one ("require_window").
Needs == {"nothing", "confirm", "require"}

CodeInit ==
  /\ \E n \in 0 .. WindowLength : code \in [1 .. n -> WindowLines]
  /\ needs \in Needs

-----------------------------------------------------------------------------

IsBranch(i) == code[i].kind = "branch"

\* Comment lines are skipped as triggers and stripped from every window.
Says(i, token) == code[i].kind = "code" /\ token \in code[i].has

Near(i, span) == {j \in DOMAIN code : i - span.before <= j /\ j <= i + span.after}

Bug_ClipWindow(i, span) ==
  {j \in Near(i, span) : \A k \in j .. i - 1 : ~IsBranch(k)}

\* _clip_window: from the centre on, up to a branch directive on either side.
ClipWindow(i, span) ==
  {j \in Near(i, span) :
     \A k \in (j .. i - 1) \union (i + 1 .. j) : ~IsBranch(k)}

InContext(i) ==
  CASE needs = "nothing" -> TRUE
    [] needs = "confirm" -> \E j \in ClipWindow(i, ConfirmSpan) : Says(j, "context")
    [] needs = "require" -> \E j \in Near(i, RequireSpan) : Says(j, "context")

\* _scan_detectors: the lines reported, each with its mitigation_present.
Reported == {i \in DOMAIN code : Says(i, "trigger") /\ InContext(i)}

Mitigated(i) == \E j \in ClipWindow(i, GuardSpan) : Says(j, "guard")

-----------------------------------------------------------------------------
(* Properties.                                                             *)

\* The part of the file, between branch directives, that a line is in.
Part(i) == Cardinality({k \in 1 .. i : IsBranch(k)})

\* The lines that may speak for line i, by their distance and part.
Speak(i, span, token) ==
  \E j \in DOMAIN code :
    /\ code[j].kind = "code" /\ token \in code[j].has
    /\ Part(j) = Part(i)
    /\ IF j < i THEN i - j <= span.before ELSE j - i <= span.after

(* A reported line is judged by its own variant of the code: it counts as   *)
(* mitigated just if the mitigation is near, in code and not in prose, with *)
(* no directive between them, and a pattern to be confirmed is confirmed    *)
(* there too; nothing on the other side of an #else exonerates it or makes  *)
(* it a finding (scanner.py:61-63, 168-193, 602-614).                       *)
JudgedByOwnBranch ==
  \A i \in DOMAIN code :
    Says(i, "trigger") =>
      /\ Mitigated(i) <=> Speak(i, GuardSpan, "guard")
      /\ needs = "confirm" => (i \in Reported <=> Speak(i, ConfirmSpan, "context"))

=============================================================================
