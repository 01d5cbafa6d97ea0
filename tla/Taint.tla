------------------------------- MODULE Taint -------------------------------
(***************************************************************************)
(* The one hop of src/scanner/taint.py: is the flagged variable passed on, *)
(* soon after the candidate's line, to a helper of the same file that      *)
(* takes no lock?                                                          *)
(*                                                                         *)
(* A line is what the regular expressions see in it: the header of a       *)
(* helper, a comment that names one and so looks like a header to          *)
(* _callee_has_lock, a call, or none of these; whether the variable stands *)
(* behind the name; at most one brace of each kind, and maybe a lock.      *)
(* A definition named Bug_X is X with a mistake that code could contain.   *)
(***************************************************************************)
EXTENDS Integers, FiniteSets, FiniteSetsExt

CONSTANTS
  Helpers,       \* functions
  TaintLines,    \* the lines in use, among SourceLines
  TaintLength,   \* bound on the lines of the file
  Hop,           \* lines a call is looked for in (10)
  BodyCap        \* lines of a body that are read (200)

NoHelper == "no helper"

SourceLines ==
  [is : {"header", "mention", "call"}, of : Helpers, var : BOOLEAN,
   opens : 0 .. 1, closes : 0 .. 1, lock : BOOLEAN]
    \union [is : {"plain"}, of : {NoHelper}, var : BOOLEAN,
            opens : 0 .. 1, closes : 0 .. 1, lock : BOOLEAN]

ASSUME TaintLinesAssumption == TaintLines \subseteq SourceLines /\ NoHelper \notin Helpers
ASSUME CapsAssumption == {Hop, BodyCap} \subseteq Nat \ {0} /\ TaintLength \in Nat

VARIABLES
  source,    \* the lines of the file
  flagged    \* the candidate's line

-----------------------------------------------------------------------------
(* Braces.                                                                 *)

BraceDepth(s, i, j) ==
  Cardinality({k \in i .. j : s[k].opens = 1})
    - Cardinality({k \in i .. j : s[k].closes = 1})

Bug_Closed(i, j) == BraceDepth(source, i, j) <= 0

\* The body that starts at line i ends with line j or before.
Closed(i, j) ==
  /\ \E k \in i .. j : source[k].opens = 1
  /\ BraceDepth(source, i, j) <= 0

\* The lines _callee_has_lock reads from a header on.
Body(i) ==
  {j \in DOMAIN source :
     /\ i <= j /\ j < i + BodyCap
     /\ \A k \in i .. j - 1 : ~Closed(i, k)}

-----------------------------------------------------------------------------
(* The hop.                                                                *)

\* _local_defs: comments are skipped here.
LocalDefs == {source[i].of : i \in {i \in DOMAIN source : source[i].is = "header"}}

\* The first line that looks like the definition of h, comment or not.
DefinitionOf(h) ==
  Min({i \in DOMAIN source : source[i].is \in {"header", "mention"} /\ source[i].of = h})

CalleeHasLock(h) == \E j \in Body(DefinitionOf(h)) : source[j].lock

\* What looks like a call that passes the variable to a helper of the file; a
\* header with a parameter of that name does, too.
HopLines ==
  {i \in DOMAIN source :
     /\ flagged <= i /\ i < flagged + Hop
     /\ source[i].is \in {"header", "call"} /\ source[i].var
     /\ source[i].of \in LocalDefs}

\* taint_callee, if any.
Callees == {source[i].of : i \in {i \in HopLines : \A k \in HopLines : i <= k}}

\* taint_propagated
Propagated == \E h \in Callees : ~CalleeHasLock(h)

-----------------------------------------------------------------------------
(* Files as a compiler takes them.                                         *)

\* Helpers are defined once and not inside each other, each with its braces;
\* calls and locks are inside of them, and comments hold no braces and no lock.
WellFormed(s) ==
  LET depth(j) == BraceDepth(s, 1, j) IN
  /\ s[1].is \in {"header", "mention"}
  /\ depth(Cardinality(DOMAIN s)) = 0
  /\ \A j \in DOMAIN s : depth(j) >= 0
  /\ \A j \in DOMAIN s :
       s[j].is = "header" =>
         /\ depth(j - 1) = 0
         /\ s[j].opens = 1 \/ (j + 1 \in DOMAIN s /\ s[j + 1].opens = 1
                                 /\ s[j + 1].is = "plain" /\ s[j].closes = 0)
         /\ \A k \in DOMAIN s : s[k].is = "header" /\ s[k].of = s[j].of => k = j
  /\ \A j \in DOMAIN s :
       /\ s[j].is = "mention" => s[j].opens = 0 /\ s[j].closes = 0 /\ ~s[j].lock
       /\ s[j].is = "call" \/ (s[j].is = "plain" /\ s[j].closes = 1) => depth(j - 1) > 0
       /\ s[j].lock => depth(j) > 0 \/ s[j].opens = 1
       /\ s[j].is = "plain" /\ s[j].opens = 1 =>
            depth(j - 1) > 0 \/ (j > 1 /\ s[j - 1].is = "header" /\ s[j - 1].opens = 0)

TaintInit ==
  /\ \E n \in 1 .. TaintLength : source \in [1 .. n -> TaintLines]
  /\ WellFormed(source)
  /\ flagged \in DOMAIN source

-----------------------------------------------------------------------------
(* Properties.                                                             *)

\* No helper is named by a comment above its definition.
CommentsFollow ==
  \A i, j \in DOMAIN source :
    source[i].is = "mention" /\ source[j].is = "header" /\ source[i].of = source[j].of
      => j < i

\* No parameter of a function defined within the hop has the variable's name.
OnlyCalls == \A i \in HopLines : source[i].is = "call"

\* The helper whose header is the nearest one above a line.
OwnerOf(j) ==
  LET headers == {k \in 1 .. j : source[k].is = "header"}
  IN  IF headers = {} THEN NoHelper ELSE source[Max(headers)].of

\* No lock is so deep in a helper that the lines read end before it.
LocksInReach ==
  \A i, j \in DOMAIN source :
    source[i].is = "header" /\ source[j].lock /\ OwnerOf(j) = source[i].of
      => j < i + BodyCap

(* The risk is raised just if the first helper the variable is passed to,   *)
(* within the hop, has no lock anywhere in its body, wherever its braces    *)
(* are: behind the header or on the next line, nested, or "} else {"; and   *)
(* no lock of another function counts (taint.py:72-128).  A lock further    *)
(* down than the lines that are read is out of reach (taint.py:83).         *)
TaintMatchesBody ==
  CommentsFollow /\ OnlyCalls /\ LocksInReach =>
    (Propagated <=>
       \E i \in HopLines :
         /\ \A k \in HopLines : i <= k
         /\ \A j \in DOMAIN source : source[j].lock => OwnerOf(j) # source[i].of)

=============================================================================
