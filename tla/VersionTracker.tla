--------------------------- MODULE VersionTracker ---------------------------
(***************************************************************************)
(* src/scanner/version_tracker.py: is a kernel affected by a candidate?    *)
(* A version is the sequence of its dotted parts; a part that is no number *)
(* ("8-rc1") is Junk.  The database entry of the candidate is annotated    *)
(* with the scan (annotate) and compared with the user's kernel when the   *)
(* report is rendered (reporter.py:195).                                   *)
(* A definition named Bug_X is X with a mistake that code could contain.   *)
(***************************************************************************)
EXTENDS Naturals, Sequences

CONSTANTS
  Versions,   \* versions that users and entries name
  Junk,       \* a part of a version that is no number
  Base        \* more than any number in a version

ASSUME VersionsAssumption == \A v \in Versions : v \in Seq(0 .. Base - 1 \union {Junk})
ASSUME BaseAssumption == Base \in Nat \ {0} /\ Junk \notin Nat

VARIABLES
  entry,    \* affected_versions and fixed_in of the candidate
  kernel    \* the kernel version of the report

\* "low", "high" with its "+", and fixed_in, which may be None.
Entries ==
  [low : Versions, high : Versions, open : BOOLEAN,
   fixed : {{}} \union {{v} : v \in Versions}]

-----------------------------------------------------------------------------

\* _ver: three numbers; what is missing or no number counts as 0.
Ver(v) == [i \in 1 .. 3 |-> IF i \in DOMAIN v /\ v[i] # Junk THEN v[i] ELSE 0]

\* Python compares the triples from the left.
Bug_AtLeast(a, b) == \A i \in 1 .. 3 : a[i] >= b[i]
AtLeast(a, b) ==
  \/ a[1] > b[1]
  \/ a[1] = b[1] /\ a[2] > b[2]
  \/ a[1] = b[1] /\ a[2] = b[2] /\ a[3] >= b[3]

\* is_affected
IsAffected(v, e) ==
  AtLeast(Ver(v), Ver(e.low)) /\ (e.open \/ AtLeast(Ver(e.high), Ver(v)))

KernelIsAffected(v, e) ==
  IsAffected(v, e) /\ \A f \in e.fixed : ~AtLeast(Ver(v), Ver(f))

VersionInit == entry \in Entries /\ kernel \in Versions

\* The annotated candidate is rendered for the kernel of another report.
RenderFor(v) ==
  /\ kernel' = v
  /\ UNCHANGED entry

VersionNext == \E v \in Versions : RenderFor(v)

VersionSpec == VersionInit /\ [][VersionNext]_<<entry, kernel>>

-----------------------------------------------------------------------------
(* Properties.                                                             *)

\* A version as one number.
Rank(v) == (Ver(v)[1] * Base + Ver(v)[2]) * Base + Ver(v)[3]

(* Versions compare as numbers do, part by part and not as text or all      *)
(* parts at once: affected is what lies from the low to the high bound (or  *)
(* from the low one on) and before the fix (version_tracker.py:59-89).      *)
AffectedIsRange ==
  KernelIsAffected(kernel, entry) <=>
    /\ Rank(entry.low) <= Rank(kernel)
    /\ entry.open \/ Rank(kernel) <= Rank(entry.high)
    /\ \A f \in entry.fixed : Rank(kernel) < Rank(f)

=============================================================================
