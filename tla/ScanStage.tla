------------------------------ MODULE ScanStage ------------------------------
(***************************************************************************)
(* One Scanner.scan(): the external engines if asked for, the built-in     *)
(* detectors if those found nothing, then the merge of candidates that     *)
(* describe one source line (_dedupe) and the mitigation check of the rows *)
(* that arrived without one (_enrich_all).  The merge handles one          *)
(* candidate after the other and each result depends on which row was the  *)
(* richer one so far, so each iteration is a step.                         *)
(*                                                                         *)
(* Sites stand for (file, line) pairs.  The other annotations of a row are *)
(* functions of its source window alone and are left out.                  *)
(* A definition named Bug_X is X with a mistake that code could contain.   *)
(***************************************************************************)
EXTENDS Naturals, Sequences, FiniteSets

CONSTANTS
  Sites,         \* (file, line) pairs with something to report
  EngineSites,   \* those of them that an external engine may report
  Files,         \* source files of the tree
  FileOf,        \* the file of a site
  CocciRules,    \* rules/coccinelle/*.cocci, in sorted order
  SemgrepRules,  \* check ids of rules/semgrep
  Visits,        \* <<site, rule>> pairs in the order _regex_scan tries them
  CVEs,          \* CVE ids of built-in detectors
  CveOf,         \* the CVE id of a rule, or NoCve
  NoCve,
  Recognised,    \* rules for which _mitigation_re_for_rule has an answer
  MaxHits        \* bound on the matches of one external engine run

ElementsOf(list) == {list[i] : i \in 1 .. Len(list)}

BuiltinRules == {Visits[i][2] : i \in 1 .. Len(Visits)}

Rules == ElementsOf(CocciRules) \union SemgrepRules \union BuiltinRules

ASSUME NoCveAssumption == NoCve \notin CVEs
ASSUME CveOfAssumption == CveOf \in [Rules -> CVEs \union {NoCve}]
ASSUME ListsAssumption ==
  CocciRules \in Seq(Rules) /\ Visits \in Seq(Sites \X Rules)
ASSUME SitesAssumption == EngineSites \subseteq Sites
ASSUME FilesAssumption == FileOf \in [Sites -> Files]
ASSUME HitsAssumption == MaxHits \in Nat

VARIABLES
  external,   \* --external-tools
  fallback,   \* use_regex_fallback
  guarded,    \* per site and rule: is the rule's own mitigation near it?
  phase,      \* what scan() is doing
  pos,        \* position in the list of the phase
  found,      \* candidates, in the order the engines reported them
  rows,       \* per site: seen[(file, line)]
  enriched,   \* sites _enrich_all has handled
  warnings,   \* engine runs that left a warning
  unreadable, \* history: files the built-in scan failed to read
  tried       \* history: positions of the visits that a detector has made

source == <<external, fallback, guarded>>
history == <<unreadable, tried>>
vars == <<external, fallback, guarded, phase, pos, found, rows, enriched,
          warnings, unreadable, tried>>

-----------------------------------------------------------------------------
(* Candidates and rows.                                                    *)

Mitigations == {"unset", "yes", "no"}   \* mitigation_present: None, True, False

Candidates == [site : Sites, rule : Rules, mitigated : Mitigations,
               field : BOOLEAN, snippet : BOOLEAN, cve : CVEs \union {NoCve}]

Rows == [site : Sites, rule : Rules, mitigated : Mitigations,
         field : BOOLEAN, snippet : BOOLEAN, cve : CVEs \union {NoCve},
         alsoRules : SUBSET Rules, alsoCves : SUBSET CVEs]

NoRow == [none |-> TRUE]

\* A candidate as a row into which nothing was merged yet.
AsRow(c) ==
  [site |-> c.site, rule |-> c.rule, mitigated |-> c.mitigated,
   field |-> c.field, snippet |-> c.snippet, cve |-> c.cve,
   alsoRules |-> {}, alsoCves |-> {}]

CocciCandidate(s, rule, field) ==
  [site |-> s, rule |-> rule, mitigated |-> "unset", field |-> field,
   snippet |-> FALSE, cve |-> NoCve]

\* _shared_field looks for the field in the snippet.
SemgrepCandidate(s, rule, field, snippet) ==
  [site |-> s, rule |-> rule, mitigated |-> "unset", field |-> field /\ snippet,
   snippet |-> snippet, cve |-> NoCve]

Verdict(s, rule) == IF guarded[s][rule] THEN "yes" ELSE "no"

BuiltinCandidate(s, rule) ==
  [site |-> s, rule |-> rule, mitigated |-> Verdict(s, rule), field |-> TRUE,
   snippet |-> TRUE, cve |-> CveOf[rule]]

\* _rank, a tuple of four truth values compared lexicographically.
Bit(b, weight) == IF b THEN weight ELSE 0

Rank(c) == Bit(c.mitigated # "unset", 8) + Bit(c.field, 4)
             + Bit(c.snippet, 2) + Bit(c.cve # NoCve, 1)

Bug_Collapse(keep, drop) ==
  [keep EXCEPT
     !.alsoRules = @ \union ({drop.rule} \ {keep.rule}),
     !.cve = IF @ = NoCve THEN drop.cve ELSE @,
     !.alsoCves = @ \union (({drop.cve} \union drop.alsoCves)
                              \ {NoCve, IF keep.cve = NoCve THEN drop.cve
                                        ELSE keep.cve})]

Bug_CollapseOwn(keep, drop) ==
  [keep EXCEPT
     !.alsoRules = @ \union {drop.rule} \union drop.alsoRules,
     !.cve = IF @ = NoCve THEN drop.cve ELSE @,
     !.alsoCves = @ \union {drop.cve} \union drop.alsoCves]

Bug_CollapseVerdict(keep, drop) ==
  [keep EXCEPT
     !.mitigated = IF drop.mitigated = "yes" THEN "yes" ELSE @,
     !.alsoRules = @ \union (({drop.rule} \union drop.alsoRules) \ {keep.rule})]

\* The row kept takes over the ids of the one dropped, but for its own.
Collapse(keep, drop) ==
  LET cve == IF keep.cve = NoCve THEN drop.cve ELSE keep.cve IN
  [keep EXCEPT
     !.alsoRules = @ \union (({drop.rule} \union drop.alsoRules) \ {keep.rule}),
     !.cve = cve,
     !.alsoCves = @ \union (({drop.cve} \union drop.alsoCves) \ {NoCve, cve})]

Bug_Richer(c, row) == Rank(c) < Rank(row)

Richer(c, row) == Rank(c) > Rank(row)

\* One iteration of _dedupe.
Merged(c, row) ==
  IF row = NoRow THEN c
  ELSE IF Richer(c, row) THEN Collapse(c, row) ELSE Collapse(row, c)

-----------------------------------------------------------------------------
(* The engines.                                                            *)

\* Up to MaxHits reports of one engine run.
Batches(reports) == UNION {[1 .. n -> reports] : n \in 0 .. MaxHits}

AfterCocci(k) == IF k = Len(CocciRules) THEN "semgrep" ELSE "coccinelle"

Bug_AfterExternal(candidates) ==
  IF candidates = << >> /\ fallback /\ ~ external THEN "builtin" ELSE "merge"

\* "if not candidates and self.use_regex_fallback"
AfterExternal(candidates) ==
  IF candidates = << >> /\ fallback /\ Visits # << >> THEN "builtin" ELSE "merge"

\* spatch is not installed: all its rules are skipped with one warning.
NoSpatch ==
  /\ phase = "coccinelle" /\ pos = 1
  /\ phase' = "semgrep"
  /\ warnings' = warnings \union ElementsOf(CocciRules)
  /\ UNCHANGED <<source, pos, found, rows, enriched, history>>

NextRule ==
  /\ phase' = AfterCocci(pos)
  /\ pos' = IF pos = Len(CocciRules) THEN 1 ELSE pos + 1

\* One .cocci file is run and its report lines are parsed.
CocciReports ==
  /\ phase = "coccinelle"
  /\ \E batch \in Batches(EngineSites \X BOOLEAN) :
       found' = found \o [i \in DOMAIN batch |->
                   CocciCandidate(batch[i][1], CocciRules[pos], batch[i][2])]
  /\ NextRule
  /\ UNCHANGED <<source, rows, enriched, warnings, history>>

\* It times out, cannot be started, or exits non-zero: a warning, no candidates.
CocciFails ==
  /\ phase = "coccinelle"
  /\ NextRule
  /\ warnings' = warnings \union {CocciRules[pos]}
  /\ UNCHANGED <<source, found, rows, enriched, history>>

\* Semgrep's JSON is parsed.
SemgrepReports ==
  /\ phase = "semgrep"
  /\ \E batch \in Batches(EngineSites \X SemgrepRules \X BOOLEAN \X BOOLEAN) :
       LET hits == [i \in DOMAIN batch |->
              SemgrepCandidate(batch[i][1], batch[i][2], batch[i][3], batch[i][4])]
       IN  /\ found' = found \o hits
           /\ phase' = AfterExternal(found \o hits)
  /\ UNCHANGED <<source, pos, rows, enriched, warnings, history>>

\* Semgrep is not installed, times out or prints no JSON.
SemgrepFails ==
  /\ phase = "semgrep"
  /\ phase' = AfterExternal(found)
  /\ warnings' = warnings \union {"semgrep"}
  /\ UNCHANGED <<source, pos, found, rows, enriched, history>>

NextVisit ==
  /\ phase' = IF pos = Len(Visits) THEN "merge" ELSE "builtin"
  /\ pos' = IF pos = Len(Visits) THEN 1 ELSE pos + 1

FileAt(i) == FileOf[Visits[i][1]]

\* The built-in detectors try their next site: the two legacy patterns, then
\* the table.  A detector that fires looks for its own mitigation right away.
Detect ==
  /\ phase = "builtin"
  /\ FileAt(pos) \notin unreadable
  /\ found' \in {found, Append(found, BuiltinCandidate(Visits[pos][1], Visits[pos][2]))}
  /\ tried' = tried \union {pos}
  /\ NextVisit
  /\ UNCHANGED <<source, unreadable, rows, enriched, warnings>>

HasBeenRead(file) == \E j \in tried : FileAt(j) = file

Bug_PassOver ==
  /\ phase = "builtin"
  /\ ~ HasBeenRead(FileAt(pos))
  /\ unreadable' = unreadable \union {FileAt(pos)}
  /\ phase' = "merge"
  /\ pos' = 1
  /\ UNCHANGED <<source, found, rows, enriched, warnings, tried>>

\* "except OSError: continue": a file is read once, and if that fails all its
\* lines are passed over and nothing is said of it.
PassOver ==
  /\ phase = "builtin"
  /\ ~ HasBeenRead(FileAt(pos))
  /\ unreadable' = unreadable \union {FileAt(pos)}
  /\ NextVisit
  /\ UNCHANGED <<source, found, rows, enriched, warnings, tried>>

-----------------------------------------------------------------------------
(* _dedupe and _enrich_all.                                                *)

Merge ==
  LET c == found[pos] IN
  /\ phase = "merge"
  /\ pos <= Len(found)
  /\ rows' = [rows EXCEPT ![c.site] = Merged(AsRow(c), @)]
  /\ pos' = pos + 1
  /\ UNCHANGED <<source, phase, found, enriched, warnings, history>>

AllMerged ==
  /\ phase = "merge"
  /\ pos > Len(found)
  /\ phase' = "enrich"
  /\ UNCHANGED <<source, pos, found, rows, enriched, warnings, history>>

Pending == {s \in Sites : rows[s] # NoRow} \ enriched

\* A row that has a verdict keeps it; a rule nobody recognises gets none, nor
\* does a file that cannot be read any more.
Enrich(s) ==
  /\ phase = "enrich"
  /\ s \in Pending
  /\ \E readable \in BOOLEAN :
       rows' = [rows EXCEPT ![s].mitigated =
                  IF @ = "unset" /\ readable /\ rows[s].rule \in Recognised
                    THEN Verdict(s, rows[s].rule) ELSE @]
  /\ enriched' = enriched \union {s}
  /\ UNCHANGED <<source, phase, pos, found, warnings, history>>

Finish ==
  /\ phase = "enrich"
  /\ Pending = {}
  /\ phase' = "done"
  /\ UNCHANGED <<source, pos, found, rows, enriched, warnings, history>>

\* Rule r may be reported at site s, and a mitigation is known of it.
MayGuard(s, r) ==
  \/ s \in EngineSites /\ r \in Recognised
  \/ \E i \in 1 .. Len(Visits) : Visits[i] = <<s, r>>

Init ==
  /\ external \in BOOLEAN
  /\ fallback \in BOOLEAN
  /\ guarded \in [Sites -> [Rules -> BOOLEAN]]
  /\ \A s \in Sites : \A r \in Rules : guarded[s][r] => MayGuard(s, r)
  /\ phase = IF external /\ CocciRules # << >> THEN "coccinelle"
             ELSE IF external THEN "semgrep"
             ELSE AfterExternal(<< >>)
  /\ pos = 1
  /\ found = << >>
  /\ rows = [s \in Sites |-> NoRow]
  /\ enriched = {}
  /\ warnings = {}
  /\ unreadable = {}
  /\ tried = {}

Next ==
  \/ NoSpatch
  \/ CocciReports
  \/ CocciFails
  \/ SemgrepReports
  \/ SemgrepFails
  \/ Detect
  \/ PassOver
  \/ Merge
  \/ AllMerged
  \/ \E s \in Sites : Enrich(s)
  \/ Finish

Spec == Init /\ [][Next]_vars

-----------------------------------------------------------------------------
(* Properties.                                                             *)

\* Every variable keeps its shape, and sites only hold rows of their own.
TypeOK ==
  /\ external \in BOOLEAN /\ fallback \in BOOLEAN
  /\ guarded \in [Sites -> [Rules -> BOOLEAN]]
  /\ phase \in {"coccinelle", "semgrep", "builtin", "merge", "enrich", "done"}
  /\ pos \in Nat \ {0}
  /\ found \in Seq(Candidates)
  /\ rows \in [Sites -> Rows \union {NoRow}]
  /\ \A s \in Sites : rows[s] # NoRow => rows[s].site = s
  /\ enriched \subseteq Sites
  /\ warnings \subseteq Rules \union {"semgrep"}
  /\ unreadable \subseteq Files
  /\ tried \subseteq 1 .. Len(Visits)

\* The candidates of a site that the merge has seen so far.
Seen(s) ==
  {found[i] : i \in {j \in 1 .. Len(found) : j < pos /\ found[j].site = s}}

\* Whatever the order in which engines report one line, and however often the
\* row that is kept changes, no rule and no CVE that was seen is lost and none
\* is made up: "SARIF, CSV and code-scanning views [...] would otherwise never
\* learn the second rule fired" (scanner.py:742-763).
IdsCarried ==
  \A s \in Sites : rows[s] # NoRow =>
    /\ {rows[s].rule} \union rows[s].alsoRules = {c.rule : c \in Seen(s)}
    /\ ({rows[s].cve} \union rows[s].alsoCves) \ {NoCve}
         = {c.cve : c \in Seen(s)} \ {NoCve}

\* A row never lists its own rule or CVE among the others, also when the rule
\* had been dropped before and is the kept one now (scanner.py:748-762).
NotItsOwnOther ==
  \A s \in Sites : rows[s] # NoRow =>
    /\ rows[s].rule \notin rows[s].alsoRules
    /\ rows[s].cve \notin rows[s].alsoCves
    /\ rows[s].cve = NoCve => rows[s].alsoCves = {}

\* "richest wins": no merged candidate outranks the row of its site, and the
\* row's evidence is that of one candidate, not pieced together of several
\* (scanner.py:717-741).
RichestKept ==
  \A s \in Sites : rows[s] # NoRow =>
    /\ \A c \in Seen(s) : Rank(c) <= Rank(rows[s])
    /\ \E c \in Seen(s) :
         /\ c.rule = rows[s].rule /\ c.field = rows[s].field
         /\ c.snippet = rows[s].snippet
         /\ c.mitigated \in {rows[s].mitigated, "unset"}

\* A row is exonerated by the mitigation of its own rule only, never by one
\* that was found for another rule of the same line (CHANGELOG.md:385-397).
OwnMitigationExonerates ==
  \A s \in Sites : rows[s] # NoRow /\ rows[s].mitigated = "yes" =>
    guarded[s][rows[s].rule]

\* Neither missing and failing tools nor a file that cannot be read keep the
\* built-in detectors from the rest of the tree: a scan that found nothing has
\* tried each of them on every file it could read, and on no other, unless the
\* caller switched them off (scanner.py:372-377, 513-522).  It says nothing of
\* the files that could not be read, and nor does the scan.
EmptyMeansTried ==
  phase = "done" /\ found = << >> /\ fallback =>
    tried = {i \in 1 .. Len(Visits) : FileAt(i) \notin unreadable}

-----------------------------------------------------------------------------
(* A claim of the documentation the code does not keep.                    *)

\* "on a real kernel tree two different rules can legitimately land on one line,
\* and the lower-ranked row simply vanished. [...] a collapse is visible instead
\* of lossy" (CHANGELOG.md:398-403): a finding that is not mitigated does not
\* vanish into a row that is exonerated.
LiveFindingSurvives ==
  phase = "done" => \A i \in 1 .. Len(found) :
    found[i].mitigated = "no" => rows[found[i].site].mitigated # "yes"
=============================================================================
