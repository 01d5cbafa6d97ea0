--------------------------- MODULE ScanStageProofs ---------------------------
(***************************************************************************)
(* What ScanStage promises for any engines, rules, sites and CVEs, and for *)
(* candidates reported in any number and any order.                        *)
(***************************************************************************)
EXTENDS ScanStage, SequenceTheorems, TLAPS

-----------------------------------------------------------------------------
(* One iteration of _dedupe, apart from the scan it belongs to.            *)

\* What a row must be for the candidates merged into it.
Ids(row, merged) ==
  /\ {row.rule} \union row.alsoRules = {c.rule : c \in merged}
  /\ ({row.cve} \union row.alsoCves) \ {NoCve}
       = {c.cve : c \in merged} \ {NoCve}

Own(row) ==
  /\ row.rule \notin row.alsoRules
  /\ row.cve \notin row.alsoCves
  /\ row.cve = NoCve => row.alsoCves = {}

Rich(row, merged) ==
  /\ \A c \in merged : Rank(c) <= Rank(row)
  /\ \E c \in merged :
       /\ c.rule = row.rule /\ c.field = row.field /\ c.snippet = row.snippet
       /\ c.mitigated \in {row.mitigated, "unset"}

\* The ids of a candidate are in range, and as a row it is made of itself.
LEMMA FirstRow ==
  ASSUME NEW c \in Candidates
  PROVE  /\ AsRow(c) \in Rows
         /\ Ids(AsRow(c), {c}) /\ Own(AsRow(c)) /\ Rich(AsRow(c), {c})
         /\ Rank(AsRow(c)) = Rank(c) /\ Rank(c) \in Nat
<1>1. AsRow(c) \in Rows  BY DEF Candidates, Rows, AsRow
<1>2. Ids(AsRow(c), {c})  BY DEF Ids, AsRow
<1>3. Own(AsRow(c))  BY DEF Own, AsRow
<1>4. Rank(AsRow(c)) = Rank(c)  BY DEF Rank, AsRow
<1>5. Rank(c) \in Nat  BY DEF Rank, Bit
<1>6. \E d \in {c} : /\ d.rule = AsRow(c).rule /\ d.field = AsRow(c).field
                     /\ d.snippet = AsRow(c).snippet
                     /\ d.mitigated \in {AsRow(c).mitigated, "unset"}
  BY DEF AsRow
<1>7. Rich(AsRow(c), {c})  BY <1>4, <1>5, <1>6 DEF Rich
<1> QED  BY <1>1, <1>2, <1>3, <1>4, <1>5, <1>7

\* What Collapse changes of the row that is kept, and what it does not.
LEMMA CollapseFields ==
  ASSUME NEW keep \in Rows, NEW drop \in Rows
  PROVE  /\ Collapse(keep, drop) \in Rows
         /\ Collapse(keep, drop).site = keep.site
         /\ Collapse(keep, drop).rule = keep.rule
         /\ Collapse(keep, drop).mitigated = keep.mitigated
         /\ Collapse(keep, drop).field = keep.field
         /\ Collapse(keep, drop).snippet = keep.snippet
         /\ Collapse(keep, drop).cve
              = IF keep.cve = NoCve THEN drop.cve ELSE keep.cve
         /\ Collapse(keep, drop).alsoRules
              = keep.alsoRules
                  \union (({drop.rule} \union drop.alsoRules) \ {keep.rule})
         /\ Collapse(keep, drop).alsoCves
              = keep.alsoCves \union
                  (({drop.cve} \union drop.alsoCves)
                     \ {NoCve, IF keep.cve = NoCve THEN drop.cve ELSE keep.cve})
BY DEF Collapse, Rows

\* Collapsing two rows, the kept one no poorer, gives a row for both.
LEMMA CollapseRow ==
  ASSUME NEW keep \in Rows, NEW drop \in Rows, NEW A, NEW B,
         A \subseteq Candidates, B \subseteq Candidates,
         Ids(keep, A), Own(keep), Rich(keep, A),
         Ids(drop, B), Own(drop), Rich(drop, B),
         Rank(drop) <= Rank(keep)
  PROVE  /\ Ids(Collapse(keep, drop), A \union B)
         /\ Own(Collapse(keep, drop))
         /\ Rich(Collapse(keep, drop), A \union B)
<1> DEFINE row == Collapse(keep, drop)
<1>1. {row.rule} \union row.alsoRules = {c.rule : c \in A \union B}
  <2>1. {row.rule} \union row.alsoRules
          = {keep.rule} \union keep.alsoRules \union {drop.rule} \union drop.alsoRules
    BY CollapseFields
  <2> QED  BY <2>1 DEF Ids
<1>2. ({row.cve} \union row.alsoCves) \ {NoCve}
        = {c.cve : c \in A \union B} \ {NoCve}
  <2>1. ({row.cve} \union row.alsoCves) \ {NoCve}
          = (({keep.cve} \union keep.alsoCves) \ {NoCve})
              \union (({drop.cve} \union drop.alsoCves) \ {NoCve})
    BY CollapseFields
  <2> QED  BY <2>1 DEF Ids
<1>3. Own(row)
  <2>1. row.rule \notin row.alsoRules  BY CollapseFields DEF Own
  <2>2. row.cve \notin row.alsoCves  BY CollapseFields DEF Own
  <2>3. row.cve = NoCve => row.alsoCves = {}
    BY CollapseFields, NoCveAssumption DEF Own, Rows
  <2> QED  BY <2>1, <2>2, <2>3 DEF Own
<1>4. Rank(keep) <= Rank(row) /\ Rank(row) \in Nat /\ Rank(keep) \in Nat
      /\ Rank(drop) \in Nat
  BY CollapseFields DEF Rank, Bit
<1>5. \A c \in A \union B : Rank(c) <= Rank(row)
  <2>1. \A c \in A \union B : Rank(c) \in Nat  BY DEF Rank, Bit
  <2> QED  BY <1>4, <2>1 DEF Rich
<1>6. \E c \in A \union B :
        /\ c.rule = row.rule /\ c.field = row.field /\ c.snippet = row.snippet
        /\ c.mitigated \in {row.mitigated, "unset"}
  BY CollapseFields DEF Rich
<1> QED  BY <1>1, <1>2, <1>3, <1>5, <1>6 DEF Ids, Rich

-----------------------------------------------------------------------------
(* Types.                                                                  *)

\* A list's elements are what ElementsOf says they are.
LEMMA Listed ==
  ASSUME NEW S, NEW list \in Seq(S), NEW i \in 1 .. Len(list)
  PROVE  list[i] \in S /\ list[i] \in ElementsOf(list)
BY ElementOfSeq DEF ElementsOf

\* What each engine reports are candidates.
LEMMA Reported ==
  ASSUME NEW s \in Sites, NEW r \in Rules, NEW field \in BOOLEAN,
         NEW snippet \in BOOLEAN, TypeOK
  PROVE  /\ CocciCandidate(s, r, field) \in Candidates
         /\ SemgrepCandidate(s, r, field, snippet) \in Candidates
         /\ BuiltinCandidate(s, r) \in Candidates
<1>1. CocciCandidate(s, r, field) \in Candidates
  BY DEF CocciCandidate, Candidates, Mitigations
<1>2. SemgrepCandidate(s, r, field, snippet) \in Candidates
  BY DEF SemgrepCandidate, Candidates, Mitigations
<1>3. CveOf[r] \in CVEs \union {NoCve}  BY CveOfAssumption
<1>4. Verdict(s, r) \in Mitigations  BY DEF Verdict, Mitigations
<1>5. BuiltinCandidate(s, r) \in Candidates
  BY <1>3, <1>4 DEF BuiltinCandidate, Candidates
<1> QED  BY <1>1, <1>2, <1>5

\* The row the merge leaves at a site is one of that site.
LEMMA MergedType ==
  ASSUME NEW s \in Sites, NEW c \in Candidates, c.site = s,
         NEW row \in Rows \union {NoRow}, row # NoRow => row.site = s
  PROVE  /\ Merged(AsRow(c), row) \in Rows
         /\ Merged(AsRow(c), row).site = s
<1>1. AsRow(c) \in Rows /\ AsRow(c).site = s  BY FirstRow DEF AsRow
<1>2. CASE row = NoRow  BY <1>1, <1>2 DEF Merged
<1>3. CASE row # NoRow  BY <1>1, <1>3, CollapseFields DEF Merged
<1> QED  BY <1>2, <1>3

\* No row is the absence of one.
LEMMA RowsAreRows == NoRow \notin Rows
<1>1. ASSUME NoRow \in Rows PROVE FALSE
  <2>1. DOMAIN NoRow = {"none"}  BY DEF NoRow
  <2>2. "site" \in DOMAIN NoRow  BY <1>1 DEF Rows
  <2> QED  BY <2>1, <2>2
<1> QED  BY <1>1

\* The two external engines append a list of candidates, or nothing.
LEMMA CocciAppends ==
  ASSUME TypeOK, phase = "coccinelle", pos \in 1 .. Len(CocciRules), CocciReports
  PROVE  found' \in Seq(Candidates) /\ \E hits \in Seq(Candidates) :
           /\ found' = found \o hits
           /\ \A i \in 1 .. Len(hits) : hits[i].mitigated = "unset"
<1>1. PICK batch \in Batches(EngineSites \X BOOLEAN) :
        found' = found \o [i \in DOMAIN batch |->
                   CocciCandidate(batch[i][1], CocciRules[pos], batch[i][2])]
  BY DEF CocciReports
<1>2. PICK n \in 0 .. MaxHits : batch \in [1 .. n -> EngineSites \X BOOLEAN]
  BY DEF Batches
<1> DEFINE hits == [i \in DOMAIN batch |->
                   CocciCandidate(batch[i][1], CocciRules[pos], batch[i][2])]
<1>3. CocciRules[pos] \in Rules  BY Listed, ListsAssumption
<1>4. n \in Nat /\ DOMAIN batch = 1 .. n  BY <1>2, HitsAssumption
<1>5. \A i \in 1 .. n :
        CocciCandidate(batch[i][1], CocciRules[pos], batch[i][2]) \in Candidates
  BY <1>2, <1>3, SitesAssumption, Reported
<1>6. hits \in Seq(Candidates) /\ Len(hits) = n  BY <1>4, <1>5, IsASeq
<1>7. \A i \in 1 .. Len(hits) : hits[i].mitigated = "unset"
  BY <1>4, <1>6 DEF CocciCandidate
<1>8. found' \in Seq(Candidates)  BY <1>1, <1>6, ConcatProperties DEF TypeOK
<1> QED  BY <1>1, <1>6, <1>7, <1>8

\* The same of Semgrep.
LEMMA SemgrepAppends ==
  ASSUME TypeOK, SemgrepReports
  PROVE  found' \in Seq(Candidates) /\ \E hits \in Seq(Candidates) :
           /\ found' = found \o hits
           /\ \A i \in 1 .. Len(hits) : hits[i].mitigated = "unset"
<1>1. PICK batch \in Batches(EngineSites \X SemgrepRules \X BOOLEAN \X BOOLEAN) :
        found' = found \o [i \in DOMAIN batch |->
              SemgrepCandidate(batch[i][1], batch[i][2], batch[i][3], batch[i][4])]
  BY DEF SemgrepReports
<1>2. PICK n \in 0 .. MaxHits :
        batch \in [1 .. n -> EngineSites \X SemgrepRules \X BOOLEAN \X BOOLEAN]
  BY DEF Batches
<1> DEFINE hits == [i \in DOMAIN batch |->
              SemgrepCandidate(batch[i][1], batch[i][2], batch[i][3], batch[i][4])]
<1>3. SemgrepRules \subseteq Rules  BY DEF Rules
<1>4. n \in Nat /\ DOMAIN batch = 1 .. n  BY <1>2, HitsAssumption
<1>5. \A i \in 1 .. n :
        SemgrepCandidate(batch[i][1], batch[i][2], batch[i][3], batch[i][4])
          \in Candidates
  BY <1>2, <1>3, SitesAssumption, Reported
<1>6. hits \in Seq(Candidates) /\ Len(hits) = n  BY <1>4, <1>5, IsASeq
<1>7. \A i \in 1 .. Len(hits) : hits[i].mitigated = "unset"
  BY <1>4, <1>6 DEF SemgrepCandidate
<1>8. found' \in Seq(Candidates)  BY <1>1, <1>6, ConcatProperties DEF TypeOK
<1> QED  BY <1>1, <1>6, <1>7, <1>8

\* A built-in detector appends its own candidate, or nothing.
LEMMA DetectAppends ==
  ASSUME TypeOK, pos \in 1 .. Len(Visits), Detect
  PROVE  /\ found' \in Seq(Candidates)
         /\ \A i \in 1 .. Len(found') :
              \/ i \in 1 .. Len(found) /\ found'[i] = found[i]
              \/ found'[i].mitigated = Verdict(found'[i].site, found'[i].rule)
<1> DEFINE c == BuiltinCandidate(Visits[pos][1], Visits[pos][2])
<1>1. Visits[pos] \in Sites \X Rules  BY Listed, ListsAssumption
<1>2. c \in Candidates  BY <1>1, Reported
<1>3. c.mitigated = Verdict(c.site, c.rule)  BY DEF BuiltinCandidate
<1>4. found' = found \/ found' = Append(found, c)  BY DEF Detect
<1> HIDE DEF c
<1>5. CASE found' = found  BY <1>5 DEF TypeOK
<1>6. CASE found' = Append(found, c)
  <2>1. /\ found' \in Seq(Candidates)
        /\ Len(found') = Len(found) + 1
        /\ \A i \in 1 .. Len(found) : found'[i] = found[i]
        /\ found'[Len(found) + 1] = c
    BY <1>2, <1>6, AppendProperties DEF TypeOK
  <2>2. Len(found) \in Nat  BY DEF TypeOK
  <2> QED  BY <1>3, <2>1, <2>2
<1> QED  BY <1>4, <1>5, <1>6

-----------------------------------------------------------------------------
(* Where scan() stands.                                                    *)

\* The visits before position n that the detectors could make.
Visited(n) == {i \in 1 .. n - 1 : FileAt(i) \notin unreadable}

\* Positions stay inside the list of the phase; the detectors have made the
\* visits before theirs but for the files that could not be read, and all of
\* them when nothing was found; nothing is merged before the engines are done.
PhaseInv ==
  /\ phase = "coccinelle" => pos \in 1 .. Len(CocciRules)
  /\ phase = "semgrep" => pos = 1
  /\ phase = "builtin" => pos \in 1 .. Len(Visits) /\ tried = Visited(pos)
  /\ phase \in {"coccinelle", "semgrep"} => tried = {} /\ unreadable = {}
  /\ phase \in {"coccinelle", "semgrep", "builtin"} =>
       \A s \in Sites : rows[s] = NoRow
  /\ phase \in {"merge", "enrich", "done"} /\ found = << >> /\ fallback =>
       tried = Visited(Len(Visits) + 1)

\* Detectors that have come to position n have come to the next one, whether
\* its file could be read or, at its first line, not.
LEMMA VisitedNext ==
  ASSUME NEW n \in 1 .. Len(Visits), tried = Visited(n),
         \/ /\ FileAt(n) \notin unreadable
            /\ tried' = tried \union {n} /\ unreadable' = unreadable
         \/ /\ ~ HasBeenRead(FileAt(n))
            /\ tried' = tried /\ unreadable' = unreadable \union {FileAt(n)}
  PROVE  tried' = Visited(n + 1)'
<1>1. n \in Nat /\ n + 1 - 1 = n /\ 1 .. n = (1 .. n - 1) \union {n}
  <2>1. Len(Visits) \in Nat  BY ListsAssumption
  <2> QED  BY <2>1
<1>2. Visited(n + 1)' = {i \in 1 .. n : FileAt(i) \notin unreadable'}
  BY <1>1 DEF Visited, FileAt
<1>3. CASE FileAt(n) \notin unreadable /\ tried' = tried \union {n}
           /\ unreadable' = unreadable
  BY <1>1, <1>2, <1>3 DEF Visited
<1>4. CASE ~ HasBeenRead(FileAt(n)) /\ tried' = tried
           /\ unreadable' = unreadable \union {FileAt(n)}
  <2>1. \A i \in tried : FileAt(i) # FileAt(n)  BY <1>4 DEF HasBeenRead
  <2> QED  BY <1>1, <1>2, <1>4, <2>1 DEF Visited
<1> QED  BY <1>3, <1>4

\* A scan starts in a position its first phase allows.
LEMMA FirstPosition == Init => TypeOK /\ PhaseInv
<1> SUFFICES ASSUME Init PROVE TypeOK /\ PhaseInv  OBVIOUS
<1>1. Len(Visits) \in Nat /\ Len(CocciRules) \in Nat
      /\ (Visits = << >> <=> Len(Visits) = 0)
      /\ (CocciRules = << >> <=> Len(CocciRules) = 0)
  BY ListsAssumption, EmptySeq
<1>2. TypeOK
  BY EmptySeq DEF Init, TypeOK, AfterExternal
<1>3. PhaseInv
  BY <1>1 DEF Init, PhaseInv, Visited, AfterExternal
<1> QED  BY <1>2, <1>3

\* Every step keeps the shape of all variables and the position in its list.
LEMMA PhaseNext == TypeOK /\ PhaseInv /\ [Next]_vars => TypeOK' /\ PhaseInv'
<1> SUFFICES ASSUME TypeOK, PhaseInv, [Next]_vars PROVE TypeOK' /\ PhaseInv'
  OBVIOUS
<1> DEFINE LV == Len(Visits)
           LC == Len(CocciRules)
<1>0. /\ LV \in Nat /\ LC \in Nat
      /\ (Visits = << >> <=> LV = 0)
  BY ListsAssumption, EmptySeq
<1>1. CASE NoSpatch
  <2>1. warnings' \subseteq Rules \union {"semgrep"}
    BY <1>1 DEF NoSpatch, TypeOK, Rules
  <2>2. TypeOK'  BY <1>1, <2>1 DEF NoSpatch, TypeOK, source, history
  <2>3. PhaseInv'  BY <1>1 DEF NoSpatch, PhaseInv, Visited, FileAt, source, history
  <2> QED  BY <2>2, <2>3
<1>2. CASE CocciReports
  <2>0. phase = "coccinelle" /\ pos \in 1 .. LC  BY <1>2 DEF CocciReports, PhaseInv
  <2>1. found' \in Seq(Candidates)  BY <1>2, <2>0, CocciAppends
  <2>2. /\ phase' = IF pos = LC THEN "semgrep" ELSE "coccinelle"
        /\ pos' = IF pos = LC THEN 1 ELSE pos + 1
    BY <1>2 DEF CocciReports, NextRule, AfterCocci
  <2>3. UNCHANGED <<source, rows, enriched, warnings, history>>
    BY <1>2 DEF CocciReports
  <2> HIDE DEF LC, LV
  <2>4. TypeOK'  BY <1>0, <2>0, <2>1, <2>2, <2>3 DEF TypeOK, source, history
  <2>5. PhaseInv'
    BY <1>0, <2>0, <2>2, <2>3 DEF PhaseInv, Visited, FileAt, source, history, LC
  <2> QED  BY <2>4, <2>5
<1>3. CASE CocciFails
  <2>0. phase = "coccinelle" /\ pos \in 1 .. LC  BY <1>3 DEF CocciFails, PhaseInv
  <2>1. warnings' \subseteq Rules \union {"semgrep"}
    BY <1>3, <2>0, Listed, ListsAssumption DEF CocciFails, TypeOK
  <2>2. /\ phase' = IF pos = LC THEN "semgrep" ELSE "coccinelle"
        /\ pos' = IF pos = LC THEN 1 ELSE pos + 1
    BY <1>3 DEF CocciFails, NextRule, AfterCocci
  <2>3. UNCHANGED <<source, found, rows, enriched, history>>
    BY <1>3 DEF CocciFails
  <2> HIDE DEF LC, LV
  <2>4. TypeOK'  BY <1>0, <2>0, <2>1, <2>2, <2>3 DEF TypeOK, source, history
  <2>5. PhaseInv'
    BY <1>0, <2>0, <2>2, <2>3 DEF PhaseInv, Visited, FileAt, source, history, LC
  <2> QED  BY <2>4, <2>5
<1>4. CASE SemgrepReports
  <2>1. found' \in Seq(Candidates)  BY <1>4, SemgrepAppends
  <2>2. /\ phase = "semgrep"
        /\ phase' = AfterExternal(found')
        /\ UNCHANGED <<source, pos, rows, enriched, warnings, history>>
    BY <1>4 DEF SemgrepReports
  <2>3. TypeOK'  BY <2>1, <2>2 DEF TypeOK, source, history, AfterExternal
  <2>4. PhaseInv'  BY <1>0, <2>2 DEF PhaseInv, Visited, FileAt, source, history, AfterExternal
  <2> QED  BY <2>3, <2>4
<1>5. CASE SemgrepFails
  <2>2. /\ phase = "semgrep"
        /\ phase' = AfterExternal(found)
        /\ warnings' = warnings \union {"semgrep"}
        /\ UNCHANGED <<source, pos, found, rows, enriched, history>>
    BY <1>5 DEF SemgrepFails
  <2>3. TypeOK'  BY <2>2 DEF TypeOK, source, history, AfterExternal
  <2>4. PhaseInv'  BY <1>0, <2>2 DEF PhaseInv, Visited, FileAt, source, history, AfterExternal
  <2> QED  BY <2>3, <2>4
<1>6. CASE Detect
  <2>0. phase = "builtin" /\ pos \in 1 .. LV /\ tried = Visited(pos)
    BY <1>6 DEF Detect, PhaseInv
  <2>1. found' \in Seq(Candidates)  BY <1>6, <2>0, DetectAppends
  <2>2. /\ phase' = IF pos = LV THEN "merge" ELSE "builtin"
        /\ pos' = IF pos = LV THEN 1 ELSE pos + 1
        /\ tried' = tried \union {pos}
        /\ UNCHANGED <<source, unreadable, rows, enriched, warnings>>
    BY <1>6 DEF Detect, NextVisit
  <2>8. PICK n \in 1 .. LV : n = pos  BY <2>0
  <2>3. tried' = Visited(n + 1)'
    BY <1>6, <2>0, <2>2, <2>8, VisitedNext DEF Detect
  <2>4. phase' = "builtin" => pos' = pos + 1 /\ pos' \in 1 .. LV
    BY <1>0, <2>0, <2>2
  <2>5. tried' \subseteq 1 .. LV  BY <1>0, <2>0, <2>2 DEF TypeOK
  <2> HIDE DEF LC, LV
  <2>6. TypeOK'  BY <1>0, <2>0, <2>1, <2>2, <2>5 DEF TypeOK, source, LV
  <2>7. PhaseInv'  BY <1>0, <2>0, <2>2, <2>3, <2>4, <2>8 DEF PhaseInv, source, LV
  <2> QED  BY <2>6, <2>7
<1>12. CASE PassOver
  <2>0. phase = "builtin" /\ pos \in 1 .. LV /\ tried = Visited(pos)
    BY <1>12 DEF PassOver, PhaseInv
  <2>1. FileAt(pos) \in Files
    BY <2>0, Listed, ListsAssumption, FilesAssumption DEF FileAt
  <2>2. /\ phase' = IF pos = LV THEN "merge" ELSE "builtin"
        /\ pos' = IF pos = LV THEN 1 ELSE pos + 1
        /\ unreadable' = unreadable \union {FileAt(pos)}
        /\ UNCHANGED <<source, found, rows, enriched, warnings, tried>>
    BY <1>12 DEF PassOver, NextVisit
  <2>8. PICK n \in 1 .. LV : n = pos  BY <2>0
  <2>3. tried' = Visited(n + 1)'
    BY <1>12, <2>0, <2>2, <2>8, VisitedNext DEF PassOver
  <2>4. phase' = "builtin" => pos' = pos + 1 /\ pos' \in 1 .. LV
    BY <1>0, <2>0, <2>2
  <2> HIDE DEF LC, LV
  <2>6. TypeOK'  BY <1>0, <2>0, <2>1, <2>2 DEF TypeOK, source
  <2>7. PhaseInv'  BY <1>0, <2>0, <2>2, <2>3, <2>4, <2>8 DEF PhaseInv, source, LV
  <2> QED  BY <2>6, <2>7
<1>7. CASE Merge
  <2> DEFINE c == found[pos]
  <2>0. phase = "merge" /\ pos \in 1 .. Len(found)
    BY <1>7 DEF Merge, TypeOK
  <2>a. c \in Candidates  BY <2>0, ElementOfSeq DEF TypeOK
  <2>1. c \in Candidates /\ c.site \in Sites
    BY <2>a DEF Candidates
  <2>2. /\ rows' = [rows EXCEPT ![c.site] = Merged(AsRow(c), rows[c.site])]
        /\ pos' = pos + 1
        /\ UNCHANGED <<source, phase, found, enriched, warnings, history>>
    BY <1>7 DEF Merge
  <2> HIDE DEF c
  <2>3. /\ Merged(AsRow(c), rows[c.site]) \in Rows
        /\ Merged(AsRow(c), rows[c.site]).site = c.site
    BY <2>1, MergedType DEF TypeOK
  <2>4. /\ rows' \in [Sites -> Rows \union {NoRow}]
        /\ \A s \in Sites : rows'[s] # NoRow => rows'[s].site = s
    BY <2>1, <2>2, <2>3 DEF TypeOK
  <2>5. TypeOK'  BY <2>2, <2>4 DEF TypeOK, source, history
  <2>6. PhaseInv'  BY <2>0, <2>2 DEF PhaseInv, Visited, FileAt, source, history
  <2> QED  BY <2>5, <2>6
<1>8. CASE AllMerged
  BY <1>8 DEF AllMerged, TypeOK, PhaseInv, Visited, FileAt, source, history
<1>9. ASSUME NEW s \in Sites, Enrich(s) PROVE TypeOK' /\ PhaseInv'
  <2>1. PICK v \in Mitigations : rows' = [rows EXCEPT ![s].mitigated = v]
    <3>1. rows[s] \in Rows  BY <1>9 DEF Enrich, Pending, TypeOK
    <3>2. rows[s].mitigated \in Mitigations  BY <3>1 DEF Rows
    <3>3. Verdict(s, rows[s].rule) \in Mitigations  BY DEF Verdict, Mitigations
    <3> QED  BY <1>9, <3>2, <3>3 DEF Enrich
  <2>2. rows[s] \in Rows  BY <1>9 DEF Enrich, Pending, TypeOK
  <2>3. [rows[s] EXCEPT !.mitigated = v] \in Rows
        /\ [rows[s] EXCEPT !.mitigated = v].site = rows[s].site
    BY <2>2 DEF Rows
  <2>4. rows[s] # NoRow  BY <1>9 DEF Enrich, Pending
  <2>5. /\ rows' \in [Sites -> Rows \union {NoRow}]
        /\ \A t \in Sites : rows'[t] # NoRow => rows'[t].site = t
    BY <2>1, <2>3, <2>4 DEF TypeOK
  <2>6. /\ phase = "enrich"
        /\ enriched' = enriched \union {s}
        /\ UNCHANGED <<source, phase, pos, found, warnings, history>>
    BY <1>9 DEF Enrich
  <2>7. TypeOK'  BY <2>5, <2>6 DEF TypeOK, source, history
  <2>8. PhaseInv'  BY <2>6 DEF PhaseInv, Visited, FileAt, source, history
  <2> QED  BY <2>7, <2>8
<1>10. CASE Finish
  BY <1>10 DEF Finish, TypeOK, PhaseInv, Visited, FileAt, source, history
<1>11. CASE UNCHANGED vars
  BY <1>11 DEF vars, TypeOK, PhaseInv, Visited, FileAt, source, history
<1> QED
  BY <1>1, <1>2, <1>3, <1>4, <1>5, <1>6, <1>7, <1>8, <1>9, <1>10, <1>11, <1>12
     DEF Next

\* Every variable of a scan keeps its shape.
THEOREM TypeCorrect == Spec => []TypeOK
BY FirstPosition, PhaseNext, PTL DEF Spec

\* A scan that found nothing has tried every built-in detector on every file
\* that it could read.
THEOREM CleanCorrect == Spec => []EmptyMeansTried
<1>0. Len(Visits) + 1 - 1 = Len(Visits)  BY ListsAssumption
<1>1. PhaseInv => EmptyMeansTried
  BY <1>0 DEF PhaseInv, Visited, EmptyMeansTried
<1> QED  BY <1>1, FirstPosition, PhaseNext, PTL DEF Spec

-----------------------------------------------------------------------------
(* The merge.                                                              *)

\* A candidate that says its rule's mitigation is there is right.
Honest ==
  \A i \in 1 .. Len(found) :
    found[i].mitigated = "yes" => guarded[found[i].site][found[i].rule]

\* A site's row speaks for what was merged there; while the merge lasts, a site
\* without a row has had no candidate.
RowInv(s) ==
  /\ rows[s] = NoRow /\ phase = "merge" => Seen(s) = {}
  /\ rows[s] # NoRow =>
       /\ Ids(rows[s], Seen(s)) /\ Own(rows[s]) /\ Rich(rows[s], Seen(s))
       /\ rows[s].mitigated = "yes" => guarded[s][rows[s].rule]

MergeInv == Honest /\ \A s \in Sites : RowInv(s)

\* What neither merges nor touches a row, and starts no merge, keeps it.
LEMMA MergeKept ==
  ASSUME MergeInv, UNCHANGED <<found, pos, rows, guarded>>,
         phase' = "merge" => phase = "merge"
  PROVE  MergeInv'
<1>1. Honest'  BY DEF MergeInv, Honest
<1>2. ASSUME NEW s \in Sites PROVE RowInv(s)'
  <2>1. Seen(s)' = Seen(s)  BY DEF Seen
  <2>2. RowInv(s)  BY DEF MergeInv
  <2> QED  BY <2>1, <2>2 DEF RowInv
<1> QED  BY <1>1, <1>2 DEF MergeInv

\* Only candidates are seen, and none before the merge has begun.
LEMMA SeenType ==
  ASSUME TypeOK, NEW s \in Sites
  PROVE  Seen(s) \subseteq Candidates /\ (pos = 1 => Seen(s) = {})
<1>1. \A i \in 1 .. Len(found) : found[i] \in Candidates
  BY ElementOfSeq DEF TypeOK
<1> QED  BY <1>1 DEF Seen

\* A step of the merge shows its site one more candidate, and no other site.
LEMMA SeenGrows ==
  ASSUME TypeOK, Merge, NEW s \in Sites
  PROVE  Seen(s)' = Seen(s) \union {c \in {found[pos]} : c.site = s}
<1>1. pos \in 1 .. Len(found) /\ pos' = pos + 1 /\ found' = found
  BY DEF Merge, TypeOK
<1>2. \A j \in 1 .. Len(found) : j < pos + 1 <=> j < pos \/ j = pos
  BY <1>1
<1> QED  BY <1>1, <1>2 DEF Seen

\* The engines' last step, or the choice to run none, starts at position one.
LEMMA MergeInit == Init => MergeInv
<1> SUFFICES ASSUME Init PROVE MergeInv  OBVIOUS
<1>1. Honest  BY EmptySeq DEF Init, Honest
<1>2. \A s \in Sites : Seen(s) = {}  BY FirstPosition, SeenType DEF Init
<1>3. \A s \in Sites : rows[s] = NoRow  BY DEF Init
<1> QED  BY <1>1, <1>2, <1>3 DEF MergeInv, RowInv

\* While an engine runs there is no row, and the merge starts from its head.
LEMMA EnginesKeep ==
  ASSUME TypeOK, PhaseInv, Honest',
         phase \in {"coccinelle", "semgrep", "builtin"},
         rows' = rows, phase' = "merge" => pos' = 1
  PROVE  MergeInv'
<1>1. \A s \in Sites : rows'[s] = NoRow  BY DEF PhaseInv
<1>2. \A s \in Sites : phase' = "merge" => Seen(s)' = {}
  BY DEF Seen
<1> QED  BY <1>1, <1>2 DEF MergeInv, RowInv

\* Reports without a verdict leave every verdict honest.
LEMMA HonestReports ==
  ASSUME TypeOK, Honest, UNCHANGED guarded, NEW hits \in Seq(Candidates),
         found' = found \o hits,
         \A i \in 1 .. Len(hits) : hits[i].mitigated = "unset"
  PROVE  Honest'
<1>1. found \in Seq(Candidates)  BY DEF TypeOK
<1>2. \A i \in 1 .. Len(found') :
        \/ i \in 1 .. Len(found) /\ found'[i] = found[i]
        \/ found'[i].mitigated = "unset"
  BY <1>1, ConcatProperties
<1> QED  BY <1>2 DEF Honest

\* The row that _dedupe leaves at the site of one more candidate.
LEMMA MergedRow ==
  ASSUME TypeOK, MergeInv, NEW c \in Candidates, c.site \in Sites,
         c.mitigated = "yes" => guarded[c.site][c.rule], phase = "merge",
         NEW row, row = Merged(AsRow(c), rows[c.site])
  PROVE  /\ Ids(row, Seen(c.site) \union {c}) /\ Own(row)
         /\ Rich(row, Seen(c.site) \union {c})
         /\ row.mitigated = "yes" => guarded[c.site][row.rule]
<1> DEFINE old == rows[c.site]
           new == AsRow(c)
           S == Seen(c.site)
<1>1. S \subseteq Candidates  BY SeenType
<1>2. /\ new \in Rows /\ Ids(new, {c}) /\ Own(new) /\ Rich(new, {c})
      /\ new.mitigated = "yes" => guarded[c.site][new.rule]
  <2>1. new.mitigated = c.mitigated /\ new.rule = c.rule  BY DEF AsRow
  <2> QED  BY <2>1, FirstRow
<1>3. CASE old = NoRow
  <2>1. S = {} /\ row = new  BY <1>3 DEF MergeInv, RowInv, Merged
  <2> QED  BY <1>2, <2>1
<1>4. CASE old # NoRow
  <2>1. /\ old \in Rows /\ Ids(old, S) /\ Own(old) /\ Rich(old, S)
        /\ old.mitigated = "yes" => guarded[c.site][old.rule]
    BY <1>4 DEF MergeInv, RowInv, TypeOK
  <2>2. Rank(new) \in Nat /\ Rank(old) \in Nat  BY DEF Rank, Bit
  <2>3. S \union {c} = {c} \union S /\ {c} \subseteq Candidates  OBVIOUS
  <2> HIDE DEF new, old, S
  <2>4. CASE Richer(new, old)
    <3>1. Rank(old) <= Rank(new)  BY <2>2, <2>4 DEF Richer
    <3>2. row = Collapse(new, old)  BY <1>4, <2>4 DEF Merged, new, old
    <3>3. /\ Ids(row, {c} \union S) /\ Own(row) /\ Rich(row, {c} \union S)
      BY <1>1, <1>2, <2>1, <2>3, <3>1, <3>2, CollapseRow
    <3>4. row.mitigated = new.mitigated /\ row.rule = new.rule
      BY <1>2, <2>1, <3>2, CollapseFields
    <3> QED  BY <1>2, <2>3, <3>3, <3>4 DEF S
  <2>5. CASE ~ Richer(new, old)
    <3>1. Rank(new) <= Rank(old)  BY <2>2, <2>5 DEF Richer
    <3>2. row = Collapse(old, new)  BY <1>4, <2>5 DEF Merged, new, old
    <3>3. /\ Ids(row, S \union {c}) /\ Own(row) /\ Rich(row, S \union {c})
      BY <1>1, <1>2, <2>1, <2>3, <3>1, <3>2, CollapseRow
    <3>4. row.mitigated = old.mitigated /\ row.rule = old.rule
      BY <1>2, <2>1, <3>2, CollapseFields
    <3> QED  BY <2>1, <3>3, <3>4 DEF S
  <2> QED  BY <2>4, <2>5
<1> QED  BY <1>3, <1>4

\* A verdict that arrives late raises the row's rank and changes no id.
LEMMA EnrichedRow ==
  ASSUME NEW row \in Rows, NEW new \in Rows, NEW v, NEW merged,
         merged \subseteq Candidates,
         new = [row EXCEPT !.mitigated = v],
         v # row.mitigated => row.mitigated = "unset",
         Ids(row, merged), Own(row), Rich(row, merged)
  PROVE  Ids(new, merged) /\ Own(new) /\ Rich(new, merged)
<1>1. /\ new.rule = row.rule /\ new.alsoRules = row.alsoRules
      /\ new.cve = row.cve /\ new.alsoCves = row.alsoCves
      /\ new.field = row.field /\ new.snippet = row.snippet
      /\ new.mitigated = v
  BY DEF Rows
<1>2. Ids(new, merged) /\ Own(new)  BY <1>1 DEF Ids, Own
<1>3. Rank(row) <= Rank(new) /\ Rank(row) \in Nat /\ Rank(new) \in Nat
  BY <1>1 DEF Rank, Bit
<1>4. \A c \in merged : Rank(c) \in Nat  BY DEF Rank, Bit
<1>5. \A c \in merged : Rank(c) <= Rank(new)  BY <1>3, <1>4 DEF Rich
<1>6. PICK c \in merged : /\ c.rule = row.rule /\ c.field = row.field
                          /\ c.snippet = row.snippet
                          /\ c.mitigated \in {row.mitigated, "unset"}
  BY DEF Rich
<1>7. c.mitigated \in {new.mitigated, "unset"}  BY <1>1, <1>6
<1> QED  BY <1>1, <1>2, <1>5, <1>6, <1>7 DEF Rich

\* Every step keeps what the rows say of the candidates merged so far.
LEMMA MergeNext ==
  TypeOK /\ TypeOK' /\ PhaseInv /\ MergeInv /\ [Next]_vars => MergeInv'
<1> SUFFICES ASSUME TypeOK, TypeOK', PhaseInv, MergeInv, [Next]_vars
             PROVE MergeInv'
  OBVIOUS
<1>0. Honest /\ \A s \in Sites : RowInv(s)  BY DEF MergeInv
<1>1. CASE NoSpatch
  <2>1. Honest'  BY <1>0, <1>1 DEF NoSpatch, Honest, source
  <2> QED  BY <1>1, <2>1, EnginesKeep DEF NoSpatch
<1>2. CASE CocciReports
  <2>1. phase = "coccinelle" /\ pos \in 1 .. Len(CocciRules)
    BY <1>2 DEF CocciReports, PhaseInv
  <2>2. Honest'
    BY <1>0, <1>2, <2>1, CocciAppends, HonestReports DEF CocciReports, source
  <2>3. phase' # "merge"  BY <1>2 DEF CocciReports, NextRule, AfterCocci
  <2> QED  BY <1>2, <2>1, <2>2, <2>3, EnginesKeep DEF CocciReports
<1>3. CASE CocciFails
  <2>1. Honest'  BY <1>0, <1>3 DEF CocciFails, Honest, source
  <2>2. phase' # "merge"  BY <1>3 DEF CocciFails, NextRule, AfterCocci
  <2> QED  BY <1>3, <2>1, <2>2, EnginesKeep DEF CocciFails
<1>4. CASE SemgrepReports
  <2>1. Honest'
    BY <1>0, <1>4, SemgrepAppends, HonestReports DEF SemgrepReports, source
  <2> QED  BY <1>4, <2>1, EnginesKeep DEF SemgrepReports, PhaseInv
<1>5. CASE SemgrepFails
  <2>1. Honest'  BY <1>0, <1>5 DEF SemgrepFails, Honest, source
  <2> QED  BY <1>5, <2>1, EnginesKeep DEF SemgrepFails, PhaseInv
<1>6. CASE Detect
  <2>1. phase = "builtin" /\ pos \in 1 .. Len(Visits)
    BY <1>6 DEF Detect, PhaseInv
  <2>2. \A i \in 1 .. Len(found') :
          \/ i \in 1 .. Len(found) /\ found'[i] = found[i]
          \/ found'[i].mitigated = Verdict(found'[i].site, found'[i].rule)
    BY <1>6, <2>1, DetectAppends
  <2>3. guarded' = guarded  BY <1>6 DEF Detect, source
  <2>4. Honest'  BY <1>0, <2>2, <2>3 DEF Honest, Verdict
  <2>5. phase' = "merge" => pos' = 1  BY <1>6 DEF Detect, NextVisit
  <2> QED  BY <1>6, <2>1, <2>4, <2>5, EnginesKeep DEF Detect
<1>12. CASE PassOver
  <2>1. phase = "builtin" /\ (phase' = "merge" => pos' = 1)
    BY <1>12 DEF PassOver, NextVisit
  <2>2. Honest'  BY <1>0, <1>12 DEF PassOver, Honest, source
  <2> QED  BY <1>12, <2>1, <2>2, EnginesKeep DEF PassOver
<1>7. CASE Merge
  <2> DEFINE c == found[pos]
  <2>1. phase = "merge" /\ pos \in 1 .. Len(found)
    BY <1>7 DEF Merge, TypeOK
  <2>2. c \in Candidates  BY <2>1, ElementOfSeq DEF TypeOK
  <2>3. c.site \in Sites  BY <2>2 DEF Candidates
  <2>4. c.mitigated = "yes" => guarded[c.site][c.rule]
    BY <1>0, <2>1 DEF Honest
  <2>5. \A s \in Sites : Seen(s)' = Seen(s) \union {d \in {c} : d.site = s}
    BY <1>7, SeenGrows
  <2>6. /\ rows' = [rows EXCEPT ![c.site] = Merged(AsRow(c), rows[c.site])]
        /\ UNCHANGED <<guarded, phase, found>>
    BY <1>7 DEF Merge, source
  <2> HIDE DEF c
  <2>7. Honest'  BY <1>0, <2>6 DEF Honest
  <2>8. ASSUME NEW s \in Sites, s = c.site PROVE RowInv(s)'
    <3>1. rows'[s] = Merged(AsRow(c), rows[c.site])
      BY <2>3, <2>6, <2>8 DEF TypeOK
    <3>2. /\ Ids(rows'[s], Seen(s) \union {c}) /\ Own(rows'[s])
          /\ Rich(rows'[s], Seen(s) \union {c})
          /\ rows'[s].mitigated = "yes" => guarded[s][rows'[s].rule]
      BY <2>1, <2>2, <2>3, <2>4, <2>8, <3>1, MergedRow
    <3>3. Seen(s)' = Seen(s) \union {c}  BY <2>5, <2>8
    <3>4. rows'[s] # NoRow
      <4>1. rows[s] \in Rows \union {NoRow} /\ (rows[s] # NoRow => rows[s].site = s)
        BY DEF TypeOK
      <4>2. rows'[s] \in Rows  BY <2>2, <2>8, <3>1, <4>1, MergedType
      <4> QED  BY <4>2, RowsAreRows
    <3> QED  BY <2>6, <3>2, <3>3, <3>4 DEF RowInv
  <2>9. ASSUME NEW s \in Sites, s # c.site PROVE RowInv(s)'
    <3>1. rows'[s] = rows[s]  BY <2>6, <2>9 DEF TypeOK
    <3>2. Seen(s)' = Seen(s)  BY <2>5, <2>9
    <3> QED  BY <1>0, <2>6, <3>1, <3>2 DEF RowInv
  <2> QED  BY <2>7, <2>8, <2>9 DEF MergeInv
<1>8. CASE AllMerged
  BY <1>0, <1>8, MergeKept DEF AllMerged, source
<1>9. ASSUME NEW s \in Sites, Enrich(s) PROVE MergeInv'
  <2>1. /\ phase' = "enrich" /\ UNCHANGED <<guarded, pos, found>>
        /\ rows[s] # NoRow /\ rows[s] \in Rows
    BY <1>9 DEF Enrich, Pending, source, TypeOK
  <2>2. PICK v : /\ rows' = [rows EXCEPT ![s].mitigated = v]
                 /\ v = rows[s].mitigated \/ /\ rows[s].mitigated = "unset"
                                             /\ v = Verdict(s, rows[s].rule)
    BY <1>9 DEF Enrich
  <2>3. \A t \in Sites : Seen(t)' = Seen(t)  BY <2>1 DEF Seen
  <2>4. Honest'  BY <1>0, <2>1 DEF Honest
  <2>5. rows'[s] = [rows[s] EXCEPT !.mitigated = v]  BY <2>2 DEF TypeOK
  <2>6. rows'[s] \in Rows
    BY <2>1, <2>2, <2>5 DEF Rows, Verdict, Mitigations
  <2>7. Ids(rows'[s], Seen(s)) /\ Own(rows'[s]) /\ Rich(rows'[s], Seen(s))
    <3>1. Ids(rows[s], Seen(s)) /\ Own(rows[s]) /\ Rich(rows[s], Seen(s))
      BY <1>0, <2>1 DEF RowInv
    <3>2. Seen(s) \subseteq Candidates  BY SeenType
    <3> QED  BY <2>1, <2>2, <2>5, <2>6, <3>1, <3>2, EnrichedRow
  <2>8. rows'[s].mitigated = "yes" => guarded[s][rows'[s].rule]
    <3>1. rows'[s].mitigated = v /\ rows'[s].rule = rows[s].rule
      BY <2>1, <2>5 DEF Rows
    <3> QED  BY <1>0, <2>1, <2>2, <3>1 DEF RowInv, Verdict
  <2>9. \A t \in Sites : t # s => rows'[t] = rows[t]  BY <2>2 DEF TypeOK
  <2>10. \A t \in Sites : RowInv(t)'
    BY <1>0, <2>1, <2>3, <2>7, <2>8, <2>9 DEF RowInv
  <2> QED  BY <2>4, <2>10 DEF MergeInv
<1>10. CASE Finish
  BY <1>0, <1>10, MergeKept DEF Finish, source
<1>11. CASE UNCHANGED vars
  BY <1>0, <1>11, MergeKept DEF vars, source
<1> QED
  BY <1>1, <1>2, <1>3, <1>4, <1>5, <1>6, <1>7, <1>8, <1>9, <1>10, <1>11, <1>12
     DEF Next

\* The rows speak for what was merged, throughout.
LEMMA RowsCorrect == Spec => [](TypeOK /\ PhaseInv /\ MergeInv)
BY FirstPosition, MergeInit, PhaseNext, MergeNext, PTL DEF Spec

\* No rule and no CVE of a merged line is lost or made up.
THEOREM IdsCorrect == Spec => []IdsCarried
<1>1. MergeInv => IdsCarried  BY DEF MergeInv, RowInv, Ids, IdsCarried
<1> QED  BY <1>1, RowsCorrect, PTL

\* No row names its own rule or CVE among those it took over.
THEOREM OwnCorrect == Spec => []NotItsOwnOther
<1>1. MergeInv => NotItsOwnOther  BY DEF MergeInv, RowInv, Own, NotItsOwnOther
<1> QED  BY <1>1, RowsCorrect, PTL

\* The richest candidate of a line is the one that is shown.
THEOREM RichestCorrect == Spec => []RichestKept
<1>1. MergeInv => RichestKept  BY DEF MergeInv, RowInv, Rich, RichestKept
<1> QED  BY <1>1, RowsCorrect, PTL

\* Only the mitigation of a row's own rule exonerates it.
THEOREM MitigationCorrect == Spec => []OwnMitigationExonerates
<1>1. MergeInv => OwnMitigationExonerates
  BY DEF MergeInv, RowInv, OwnMitigationExonerates
<1> QED  BY <1>1, RowsCorrect, PTL
=============================================================================
