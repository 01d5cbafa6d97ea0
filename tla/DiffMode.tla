------------------------------ MODULE DiffMode ------------------------------
(***************************************************************************)
(* src/scanner/diff_mode.py: the findings of two trees compared.  Each     *)
(* tree is what Scanner.scan returns for it, in its order; findings of one *)
(* file with the same shared field have the same key, and the last of them *)
(* stands for all.                                                         *)
(* A definition named Bug_X is X with a mistake that code could contain.   *)
(***************************************************************************)
EXTENDS Naturals, Sequences, FiniteSetsExt

CONSTANTS
  Keys,          \* pairs of a file and a shared field (which may be None)
  MaxFindings    \* bound on the candidates of a tree

ASSUME FindingsAssumption == MaxFindings \in Nat

VARIABLES old, new

\* A candidate, as far as the comparison looks at it.
Findings == [key : Keys, mitigation : {"none", "absent", "present"}]

Trees == UNION {[1 .. n -> Findings] : n \in 0 .. MaxFindings}

-----------------------------------------------------------------------------

Bug_IsLive(c) == c.mitigation = "absent"
IsLive(c) == c.mitigation # "present"

LiveOf(tree, key) == {i \in DOMAIN tree : tree[i].key = key /\ IsLive(tree[i])}

\* _findings: a dict from keys to the position of the candidate it keeps.
FindingsOf(tree) ==
  [key \in {tree[i].key : i \in {i \in DOMAIN tree : IsLive(tree[i])}} |->
     Max(LiveOf(tree, key))]

\* compare: the entries by their key; a score and a line come with "at".
Compare(o, n) ==
  LET oldF == FindingsOf(o)
      newF == FindingsOf(n)
  IN  [key \in DOMAIN oldF \union DOMAIN newF |->
         IF key \in DOMAIN newF
           THEN [status |-> IF key \in DOMAIN oldF THEN "PERSISTENT" ELSE "NEW",
                 at |-> newF[key]]
           ELSE [status |-> "RESOLVED", at |-> oldF[key]]]

\* The command is given the two trees the other way round.
Swap ==
  /\ old' = new
  /\ new' = old

DiffInit == old \in Trees /\ new \in Trees

DiffSpec == DiffInit /\ [][Swap]_<<old, new>>

-----------------------------------------------------------------------------
(* Properties.                                                             *)

HasLive(tree, key) ==
  \E i \in DOMAIN tree : tree[i].key = key /\ tree[i].mitigation # "present"

(* Each file and field with a live finding has one entry: RESOLVED says     *)
(* that no live finding of it is left in the new tree, NEW that the old one *)
(* had none, although candidates without a verdict and exonerated ones      *)
(* share keys with live ones; and the entry's line and score are those of a *)
(* live finding of the newer tree that has one (diff_mode.py:34-64).        *)
DiffClassifies ==
  LET diff == Compare(old, new) IN
  /\ DOMAIN diff = {key \in Keys : HasLive(old, key) \/ HasLive(new, key)}
  /\ \A key \in DOMAIN diff :
       LET e == diff[key]
           tree == IF e.status = "RESOLVED" THEN old ELSE new
       IN  /\ e.status = "NEW" <=> ~HasLive(old, key)
           /\ e.status = "RESOLVED" <=> ~HasLive(new, key)
           /\ tree[e.at].key = key /\ tree[e.at].mitigation # "present"

=============================================================================
