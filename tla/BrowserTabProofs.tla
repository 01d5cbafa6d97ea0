-------------------------- MODULE BrowserTabProofs --------------------------
(***************************************************************************)
(* The safety of a tab for any number of requests, results and rows per    *)
(* page: the log tells of its own scans, guarded panels move forward, the  *)
(* table is a page of the scan shown, and what is drawn is up to date.     *)
(***************************************************************************)
EXTENDS BrowserTab, SequenceTheorems, TLAPS

\* A guarded button waits for one request at most, which is newer than what
\* its panel shows.
Requested ==
  /\ \A q \in flight : q.kind \in Guarded => q.kind \in disabled
  /\ \A q, r \in flight : q.kind = r.kind /\ q.kind \in Guarded => q = r
  /\ \A q \in flight : q.kind \in Guarded \ {"update"} => q.id > Shown(q.kind)

\* The scan in flight has the empty entry on top of the log.
TopOfLog ==
  /\ \A i \in 1 .. Len(SCAN_LOG) : SCAN_LOG[i].scan \in 1 .. sent
  /\ \A q \in flight : q.kind = "scan" =>
       /\ SCAN_LOG # << >>
       /\ SCAN_LOG[1].scan = q.id /\ SCAN_LOG[1].lines = << >>

\* The pager drew the page it is on.
Paged ==
  /\ LAST.id \in 0 .. sent
  /\ LAST.id = 0 => LAST.rows = 0
  /\ PAGE \in 1 .. Pages(LAST.rows, PER)
  /\ table = TableOf(LAST, PAGE, PER)

IInv ==
  /\ TypeOK
  /\ Requested
  /\ TopOfLog
  /\ LogOfOwnScan
  /\ Paged
  /\ DrawnAsShown

USE KindsAssumption, SizesAssumption, PerAssumption, LogAssumption,
    RequestsAssumption

-----------------------------------------------------------------------------
(* The pager.                                                              *)

\* Division rounds down.
LEMMA DivRoundsDown ==
  ASSUME NEW n \in Nat, NEW d \in Nat \ {0}
  PROVE  /\ n \div d \in Nat
         /\ (n \div d) * d <= n
         /\ n < (n \div d) * d + d
BY SMT

LEMMA TimesMonotone ==
  ASSUME NEW a \in Nat, NEW b \in Nat, NEW d \in Nat, a <= b
  PROVE  a * d \in Nat /\ b * d \in Nat /\ a * d <= b * d
BY SMT

\* The pages are those of the rows, the last one rounded up; one if empty.
LEMMA PagesRoundUp ==
  ASSUME NEW rows \in Nat, NEW per \in Nat \ {0}
  PROVE  LET pages == Pages(rows, per) IN
         /\ pages \in Nat \ {0}
         /\ rows <= pages * per
         /\ rows > 0 => (pages - 1) * per < rows
         /\ rows = 0 => pages = 1
<1>1. CASE rows = 0
  BY <1>1 DEF Pages
<1>2. CASE rows > 0
  <2> DEFINE n == rows + per - 1
             q == n \div per
  <2>1. n \in Nat /\ Pages(rows, per) = q
    BY <1>2 DEF Pages
  <2>2. q \in Nat /\ q * per <= n /\ n < q * per + per /\ q * per \in Nat
    BY <2>1, DivRoundsDown, SMT
  <2>3. (q - 1) * per = q * per - per
    BY <2>2, SMT
  <2>4. q # 0
    <3>1. SUFFICES ASSUME q = 0 PROVE FALSE
      OBVIOUS
    <3>2. q * per = 0
      BY <3>1, SMT
    <3> HIDE DEF q
    <3> QED BY <1>2, <2>2, <3>2 DEF n
  <2> HIDE DEF q
  <2>5. rows <= q * per /\ q * per - per < rows
    BY <1>2, <2>2 DEF n
  <2> QED BY <1>2, <2>1, <2>2, <2>3, <2>4, <2>5
<1> QED BY <1>1, <1>2

\* A table drawn for a page within range is a page of the rows.
LEMMA TableIsAPage ==
  ASSUME NEW report \in Reports, NEW per \in Nat \ {0},
         NEW page \in 1 .. Pages(report.rows, per)
  PROVE  LET t == TableOf(report, page, per) IN
         /\ t \in [of : Ids, first : Nat, last : Nat, prev : BOOLEAN, next : BOOLEAN]
         /\ t.of = report.id
         /\ (t.first - 1) % per = 0
         /\ t.last <= report.rows
         /\ report.rows > 0 => t.first <= t.last
         /\ t.last - t.first + 1 = per \/ t.last = report.rows
         /\ t.prev <=> t.first > 1
         /\ t.next <=> t.last < report.rows
<1> DEFINE rows == report.rows
           pages == Pages(rows, per)
           start == (page - 1) * per
           t == TableOf(report, page, per)
<1>1. rows \in Nat /\ report.id \in Ids
  BY DEF Reports
<1>2. /\ pages \in Nat \ {0}
      /\ rows <= pages * per
      /\ rows > 0 => (pages - 1) * per < rows
      /\ rows = 0 => pages = 1
  BY <1>1, PagesRoundUp
<1>3. page \in Nat /\ page >= 1 /\ page <= pages /\ page - 1 \in Nat
  BY <1>2
<1>4. start \in Nat /\ start % per = 0 /\ (start = 0 <=> page = 1)
  BY <1>3, SMT
<1>5. page * per = start + per /\ page * per \in Nat /\ pages * per \in Nat
  BY <1>2, <1>3, SMT
<1>6. page = pages \/ page + 1 <= pages
  BY <1>2, <1>3
<1>7. rows > 0 => start < rows
  <2>1. ASSUME rows > 0 PROVE start <= (pages - 1) * per
    <3>1. page - 1 <= pages - 1 /\ pages - 1 \in Nat
      BY <1>2, <1>3
    <3> QED BY <1>3, <3>1, TimesMonotone
  <2>2. (pages - 1) * per \in Nat
    BY <1>2, SMT
  <2> HIDE DEF start, pages, rows
  <2> QED BY <1>1, <1>2, <1>4, <2>1, <2>2
<1>8. page = pages => start + per >= rows
  BY <1>2, <1>5
<1>9. page # pages => start + per < rows
  <2>1. SUFFICES ASSUME page # pages PROVE start + per < rows
    OBVIOUS
  <2>2. page + 1 <= pages /\ rows > 0
    BY <1>1, <1>2, <1>3, <1>6, <2>1
  <2>3. page <= pages - 1 /\ pages - 1 \in Nat
    BY <1>2, <1>3, <2>2
  <2>4. page * per <= (pages - 1) * per /\ (pages - 1) * per \in Nat
    BY <1>3, <2>3, TimesMonotone
  <2> HIDE DEF start, pages, rows
  <2> QED BY <1>1, <1>2, <1>4, <1>5, <2>2, <2>4
<1>10. /\ t.of = report.id /\ t.first = start + 1
       /\ t.last = IF start + per <= rows THEN start + per ELSE rows
       /\ t.prev = (page > 1) /\ t.next = (page < pages)
  BY DEF TableOf, Lesser
<1>11. t = [of |-> report.id, first |-> start + 1,
            last |-> IF start + per <= rows THEN start + per ELSE rows,
            prev |-> page > 1, next |-> page < pages]
  BY DEF TableOf, Lesser
<1> HIDE DEF start, pages, rows, t
<1>12. t \in [of : Ids, first : Nat, last : Nat, prev : BOOLEAN, next : BOOLEAN]
  BY <1>1, <1>4, <1>11
<1>13. /\ (t.first - 1) % per = 0 /\ t.last <= rows
       /\ rows > 0 => t.first <= t.last
       /\ t.last - t.first + 1 = per \/ t.last = rows
  BY <1>1, <1>4, <1>7, <1>10
<1>14. (t.prev <=> t.first > 1) /\ (t.next <=> t.last < rows)
  <2>1. page > 1 <=> t.first > 1
    BY <1>3, <1>4, <1>10
  <2>2. page < pages <=> t.last < rows
    BY <1>1, <1>2, <1>3, <1>4, <1>8, <1>9, <1>10
  <2> QED BY <1>10, <2>1, <2>2, Zenon
<1> QED BY <1>10, <1>12, <1>13, <1>14 DEF rows, t

-----------------------------------------------------------------------------
(* The session log.                                                        *)

\* A new entry on top of what the cap leaves of the others.
LEMMA NewEntry ==
  ASSUME TypeOK, NEW id \in Ids
  PROVE  LET new == StartLogEntry(id) IN
         /\ new \in Seq(Entries)
         /\ Len(new) \in 1 .. LogCap
         /\ new[1] = [scan |-> id, lines |-> << >>]
         /\ \A i \in 2 .. Len(new) :
              i - 1 \in 1 .. Len(SCAN_LOG) /\ new[i] = SCAN_LOG[i - 1]
<1> DEFINE new == StartLogEntry(id)
           n == Lesser(Len(SCAN_LOG) + 1, LogCap)
           top == [scan |-> id, lines |-> << >>]
<1>1. SCAN_LOG \in Seq(Entries) /\ Len(SCAN_LOG) \in Nat
  BY DEF TypeOK
<1>2. n \in Nat /\ n >= 1 /\ n <= LogCap /\ n <= Len(SCAN_LOG) + 1
  BY <1>1 DEF Lesser
<1>3. top \in Entries
  BY DEF Entries
<1>4. \A i \in 1 .. n : i # 1 => i - 1 \in 1 .. Len(SCAN_LOG)
  BY <1>1, <1>2
<1>5. \A i \in 1 .. n : (IF i = 1 THEN top ELSE SCAN_LOG[i - 1]) \in Entries
  BY <1>1, <1>3, <1>4
<1>6. new = [i \in 1 .. n |-> IF i = 1 THEN top ELSE SCAN_LOG[i - 1]]
  BY DEF StartLogEntry
<1> HIDE DEF new, n, top
<1>7. new \in Seq(Entries) /\ Len(new) = n
  BY <1>2, <1>5, <1>6
<1>8. new[1] = top /\ \A i \in 2 .. n : new[i] = SCAN_LOG[i - 1]
  BY <1>2, <1>6
<1> QED BY <1>2, <1>4, <1>7, <1>8 DEF new, top

\* Lines go to the entry on top and to no other.
LEMMA LinesOnTop ==
  ASSUME TypeOK, SCAN_LOG # << >>, SCAN_LOG[1].lines = << >>,
         NEW lines \in Seq([of : Ids, text : {"backend", "result", "error"}])
  PROVE  LET new == LogLines(lines) IN
         /\ new \in Seq(Entries)
         /\ Len(new) = Len(SCAN_LOG) /\ 1 \in 1 .. Len(SCAN_LOG)
         /\ new[1].scan = SCAN_LOG[1].scan /\ new[1].lines = lines
         /\ \A i \in 2 .. Len(new) : new[i] = SCAN_LOG[i]
<1> DEFINE new == LogLines(lines)
           top == [SCAN_LOG[1] EXCEPT !.lines = lines]
<1>1. SCAN_LOG \in Seq(Entries) /\ Len(SCAN_LOG) \in Nat
  BY DEF TypeOK
<1>2. Len(SCAN_LOG) >= 1 /\ SCAN_LOG[1] \in Entries
  BY <1>1
<1>3. << >> \o lines = lines
  BY ConcatEmptySeq
<1>4. new = [SCAN_LOG EXCEPT ![1] = top]
  BY <1>3 DEF LogLines
<1>5. top \in Entries /\ top.scan = SCAN_LOG[1].scan /\ top.lines = lines
  BY <1>2 DEF Entries
<1> HIDE DEF new, top
<1>6. /\ new \in Seq(Entries) /\ Len(new) = Len(SCAN_LOG) /\ new[1] = top
      /\ \A i \in 2 .. Len(SCAN_LOG) : new[i] = SCAN_LOG[i]
  BY <1>1, <1>2, <1>4, <1>5
<1> QED BY <1>1, <1>2, <1>5, <1>6 DEF new

\* A step that leaves the log, the scan shown and the scans in flight alone.
LEMMA LogKept ==
  ASSUME IInv, UNCHANGED <<SCAN_LOG, LAST>>, sent' \in Nat, sent <= sent',
         \A q : q.kind = "scan" => (q \in flight' <=> q \in flight)
  PROVE  TopOfLog' /\ LogOfOwnScan'
<1>1. \A id : [kind |-> "scan", id |-> id] \in flight'
                <=> [kind |-> "scan", id |-> id] \in flight
  OBVIOUS
<1>2. 1 .. sent \subseteq 1 .. sent'
  BY DEF IInv, TypeOK
<1>3. TopOfLog'
  BY <1>2 DEF IInv, TopOfLog
<1>4. LogOfOwnScan'
  BY <1>1 DEF IInv, LogOfOwnScan, OwnLines, HasLine
<1> QED BY <1>3, <1>4

-----------------------------------------------------------------------------
(* The invariant.                                                          *)

LEMMA InvInit == Init => IInv
<1> SUFFICES ASSUME Init PROVE IInv
  OBVIOUS
<1> USE DEF Init, NoReport, NoDrawing
<1>1. flight \subseteq [kind : Kinds, id : 1 .. sent] /\ \A q \in flight : q.kind = "db"
  OBVIOUS
<1>2. NoReport \in Reports /\ Pages(LAST.rows, PER) = 1 /\ FirstPer \in Nat \ {0}
  BY DEF Reports, Ids, Pages
<1>3. TableOf(NoReport, 1, FirstPer) \in
        [of : Ids, first : Nat, last : Nat, prev : BOOLEAN, next : BOOLEAN]
  BY <1>2, TableIsAPage DEF Pages
<1>4. TypeOK
  BY <1>1, <1>2, <1>3
     DEF TypeOK, Panels, Reports, Drawings, Ids, NoCard
<1>5. Requested
  BY <1>1 DEF Requested, Guarded
<1>6. TopOfLog /\ LogOfOwnScan
  BY <1>1 DEF TopOfLog, LogOfOwnScan
<1>7. Paged
  BY <1>2 DEF Paged
<1>8. DrawnAsShown
  BY DEF DrawnAsShown
<1> QED BY <1>4, <1>5, <1>6, <1>7, <1>8 DEF IInv

\* The panels keep what they show as long as the requests do.
LEMMA RequestsKept ==
  ASSUME IInv, UNCHANGED <<flight, disabled, panel, LAST>>
  PROVE  Requested'
BY DEF IInv, Requested, Shown

LEMMA InvAsk ==
  ASSUME IInv, NEW kind \in Kinds, Ask(kind)
  PROVE  IInv'
<1> DEFINE id == sent + 1
           q == [kind |-> kind, id |-> id]
<1>1. /\ sent \in Nat /\ id \in 1 .. MaxRequests /\ id \in Ids
      /\ sent' = id /\ flight' = flight \union {q}
      /\ disabled' = disabled \union (Guarded \intersect {kind})
      /\ UNCHANGED <<panel, LAST, pager, drawing, cards>>
  BY DEF IInv, TypeOK, Ask, Ids
<1>2. flight' \subseteq [kind : Kinds, id : 1 .. sent']
  BY <1>1 DEF IInv, TypeOK
<1>3. SCAN_LOG' \in Seq(Entries)
  BY <1>1, NewEntry DEF IInv, Ask, TypeOK
<1>4. panel \in [Panels -> 0 .. sent] /\ 0 .. sent \subseteq 0 .. sent'
  BY <1>1 DEF IInv, TypeOK
<1>5. TypeOK'
  BY <1>1, <1>2, <1>3, <1>4 DEF IInv, TypeOK, pager, drawing, cards
<1>6. Requested'
  <2>1. \A r \in flight' : r.kind \in Guarded => r.kind \in disabled'
    BY <1>1 DEF IInv, Requested
  <2>2. kind \in Guarded => \A r \in flight : r.kind # kind
    BY DEF IInv, Requested, Ask
  <2>3. \A r1, r2 \in flight' : r1.kind = r2.kind /\ r1.kind \in Guarded => r1 = r2
    BY <1>1, <2>2 DEF IInv, Requested
  <2>4. ASSUME kind \in Guarded \ {"update"} PROVE id > Shown(kind)
    <3>1. Shown(kind) \in 0 .. sent
      BY <1>4, <2>4 DEF IInv, Paged, Shown, Panels
    <3> QED BY <1>1, <3>1
  <2>5. \A k : Shown(k)' = Shown(k)
    BY <1>1 DEF Shown
  <2>6. \A r \in flight' : r.kind \in Guarded \ {"update"} => r.id > Shown(r.kind)'
    BY <1>1, <2>4, <2>5 DEF IInv, Requested
  <2> QED BY <2>1, <2>3, <2>6 DEF Requested
<1>7. TopOfLog' /\ LogOfOwnScan'
  <2>1. CASE kind # "scan"
    <3>1. SCAN_LOG' = SCAN_LOG /\ \A r : r.kind = "scan" => (r \in flight' <=> r \in flight)
      BY <1>1, <2>1 DEF Ask
    <3> QED BY <1>1, <3>1, LogKept
  <2>2. CASE kind = "scan"
    <3>1. /\ Len(SCAN_LOG') \in 1 .. LogCap
          /\ SCAN_LOG'[1] = [scan |-> id, lines |-> << >>]
          /\ \A i \in 2 .. Len(SCAN_LOG') :
               i - 1 \in 1 .. Len(SCAN_LOG) /\ SCAN_LOG'[i] = SCAN_LOG[i - 1]
      BY <1>1, <2>2, NewEntry DEF IInv, Ask
    <3>2. \A i \in 1 .. Len(SCAN_LOG) : SCAN_LOG[i].scan \in 1 .. sent
      BY DEF IInv, TopOfLog
    <3>3. \A i \in 1 .. Len(SCAN_LOG') : i = 1 \/ i \in 2 .. Len(SCAN_LOG')
      BY <3>1
    <3>4. ASSUME NEW i \in 1 .. Len(SCAN_LOG') PROVE SCAN_LOG'[i].scan \in 1 .. sent'
      <4>1. CASE i = 1
        <5>1. SCAN_LOG'[i].scan = id
          BY <3>1, <4>1
        <5> QED BY <1>1, <5>1
      <4>2. CASE i \in 2 .. Len(SCAN_LOG')
        <5>1. i - 1 \in 1 .. Len(SCAN_LOG) /\ SCAN_LOG'[i].scan = SCAN_LOG[i - 1].scan
          BY <3>1, <4>2
        <5>2. SCAN_LOG'[i].scan \in 1 .. sent
          BY <3>2, <5>1
        <5> QED BY <1>1, <5>2
      <4> QED BY <3>3, <4>1, <4>2
    <3>5. \A r \in flight : r.kind # "scan"
      BY <2>2 DEF IInv, Requested, Ask, Guarded
    <3>6. TopOfLog'
      BY <1>1, <3>1, <3>4, <3>5 DEF TopOfLog
    <3>7. \A i, j \in 1 .. Len(SCAN_LOG') :
            i < j => SCAN_LOG'[i].scan > SCAN_LOG'[j].scan
      <4>0. /\ Len(SCAN_LOG) \in Nat
            /\ \A i, j \in 1 .. Len(SCAN_LOG) :
                 i < j => SCAN_LOG[i].scan > SCAN_LOG[j].scan
        BY DEF IInv, TypeOK, LogOfOwnScan
      <4>1. SUFFICES ASSUME NEW i \in 1 .. Len(SCAN_LOG'),
                            NEW j \in 1 .. Len(SCAN_LOG'), i < j
                     PROVE  SCAN_LOG'[i].scan > SCAN_LOG'[j].scan
        OBVIOUS
      <4>2. j \in 2 .. Len(SCAN_LOG')
        BY <3>3, <4>1
      <4>3. CASE i = 1
        BY <1>1, <3>1, <3>2, <4>2, <4>3
      <4>4. CASE i \in 2 .. Len(SCAN_LOG')
        <5>1. /\ i - 1 \in 1 .. Len(SCAN_LOG) /\ j - 1 \in 1 .. Len(SCAN_LOG)
              /\ SCAN_LOG'[i] = SCAN_LOG[i - 1] /\ SCAN_LOG'[j] = SCAN_LOG[j - 1]
          BY <3>1, <4>2, <4>4
        <5>2. i - 1 < j - 1
          BY <3>1, <4>1
        <5> QED BY <4>0, <5>1, <5>2
      <4> QED BY <3>3, <4>3, <4>4
    <3>8. /\ LAST.id \in 0 .. sent /\ LAST' = LAST /\ q \in flight'
          /\ flight \subseteq flight'
      BY <1>1 DEF IInv, Paged
    <3>9. \A i \in 1 .. Len(SCAN_LOG') : OwnLines(SCAN_LOG[i])'
      <4>1. SUFFICES ASSUME NEW i \in 1 .. Len(SCAN_LOG')
                     PROVE  OwnLines(SCAN_LOG[i])'
        OBVIOUS
      <4>2. CASE i = 1
        BY <1>1, <2>2, <3>1, <3>8, <4>2 DEF OwnLines, HasLine
      <4>3. CASE i \in 2 .. Len(SCAN_LOG')
        <5>1. OwnLines(SCAN_LOG[i - 1]) /\ SCAN_LOG'[i] = SCAN_LOG[i - 1]
          BY <3>1, <4>3 DEF IInv, LogOfOwnScan
        <5> QED BY <3>8, <5>1 DEF OwnLines, HasLine
      <4> QED BY <3>3, <4>2, <4>3
    <3>10. Len(SCAN_LOG') <= LogCap
      BY <3>1
    <3>11. LogOfOwnScan'
      BY <3>7, <3>9, <3>10 DEF LogOfOwnScan
    <3> QED BY <3>6, <3>11
  <2> QED BY <2>1, <2>2
<1>8. Paged'
  BY <1>1 DEF IInv, Paged, pager
<1>9. DrawnAsShown'
  BY <1>1 DEF IInv, DrawnAsShown, drawing, cards
<1> QED BY <1>5, <1>6, <1>7, <1>8, <1>9 DEF IInv

\* A table drawn again is a page within range.
LEMMA Rendered ==
  ASSUME NEW report \in Reports, NEW page \in Nat \ {0}, NEW per \in PerChoices,
         RenderTable(report, page, per), LAST' = report, report.id \in 0 .. sent',
         report.id = 0 => report.rows = 0
  PROVE  /\ Paged'
         /\ PAGE' \in Nat \ {0} /\ PER' \in PerChoices
         /\ table' \in
              [of : Ids, first : Nat, last : Nat, prev : BOOLEAN, next : BOOLEAN]
<1> DEFINE pages == Pages(report.rows, per)
           p == Lesser(page, pages)
<1>1. report.rows \in Nat /\ per \in Nat \ {0}
  BY DEF Reports
<1>2. pages \in Nat \ {0}
  BY <1>1, PagesRoundUp
<1> HIDE DEF pages
<1>3. p \in 1 .. pages /\ p \in Nat \ {0}
  BY <1>2 DEF Lesser
<1>4. PAGE' = p /\ PER' = per /\ table' = TableOf(report, p, per)
  BY DEF RenderTable, pages
<1> HIDE DEF p
<1>5. TableOf(report, p, per) \in
        [of : Ids, first : Nat, last : Nat, prev : BOOLEAN, next : BOOLEAN]
  BY <1>1, <1>3, TableIsAPage DEF pages
<1> QED BY <1>3, <1>4, <1>5 DEF Paged, pages

\* The end of a request that leaves the other guarded panels alone.
LEMMA RequestEnded ==
  ASSUME IInv, NEW q \in flight, Finish(q),
         \A k \in Guarded \ {"update", q.kind} : Shown(k)' = Shown(k)
  PROVE  /\ Requested'
         /\ sent' = sent
         /\ flight' \subseteq [kind : Kinds, id : 1 .. sent'] /\ flight' = flight \ {q}
         /\ disabled' \subseteq Guarded
<1>1. sent' = sent /\ flight' = flight \ {q} /\ disabled' = disabled \ {q.kind}
  BY DEF Finish
<1>2. \A r \in flight' : r.kind \in Guarded => r.kind # q.kind
  BY <1>1 DEF IInv, Requested
<1>3. Requested'
  BY <1>1, <1>2 DEF IInv, Requested
<1> QED BY <1>1, <1>3 DEF IInv, TypeOK

LEMMA InvScanAnswered ==
  ASSUME IInv, NEW q \in flight, NEW rows \in Sizes, ScanAnswered(q, rows)
  PROVE  IInv'
<1> DEFINE report == [id |-> q.id, rows |-> rows]
           lines == <<Line(q.id, "backend"), Line(q.id, "result")>>
<1>1. /\ q.kind = "scan" /\ Finish(q) /\ LAST' = report
      /\ SCAN_LOG' = LogLines(lines)
      /\ chart' = ChartOf(report, THEME) /\ RenderTable(report, 1, PER)
      /\ open' = {} /\ graphs' = [i \in 0 .. rows - 1 |-> NoDrawing]
      /\ UNCHANGED <<panel, THEME, OPEN_IDX>>
  BY DEF ScanAnswered
<1>2. q \in [kind : Kinds, id : 1 .. sent] /\ sent \in 1 .. MaxRequests /\ rows \in Nat
  BY DEF IInv, TypeOK
<1>3. q.id \in 1 .. sent /\ q.id \in Ids /\ report \in Reports
      /\ q = [kind |-> "scan", id |-> q.id] /\ q.kind \in Guarded \ {"update"}
  BY <1>1, <1>2 DEF Ids, Reports, Guarded
<1>4. /\ Requested' /\ sent' = sent
      /\ flight' \subseteq [kind : Kinds, id : 1 .. sent'] /\ flight' = flight \ {q}
      /\ disabled' \subseteq Guarded
  <2>1. \A k \in Guarded \ {"update", q.kind} : Shown(k)' = Shown(k)
    BY <1>1 DEF Shown
  <2> QED BY <1>1, <2>1, RequestEnded
<1>5. q.id > LAST.id
  BY <1>1, <1>3 DEF IInv, Requested, Shown
<1>6. /\ SCAN_LOG # << >> /\ SCAN_LOG[1].scan = q.id /\ SCAN_LOG[1].lines = << >>
  BY <1>1 DEF IInv, TopOfLog
<1>7. lines \in Seq([of : Ids, text : {"backend", "result", "error"}])
  BY <1>3 DEF Line
<1>8. /\ SCAN_LOG' \in Seq(Entries)
      /\ Len(SCAN_LOG') = Len(SCAN_LOG) /\ 1 \in 1 .. Len(SCAN_LOG)
      /\ SCAN_LOG'[1].scan = q.id /\ SCAN_LOG'[1].lines = lines
      /\ \A i \in 2 .. Len(SCAN_LOG') : SCAN_LOG'[i] = SCAN_LOG[i]
  BY <1>1, <1>6, <1>7, LinesOnTop DEF IInv
<1>9. \A i \in 1 .. Len(SCAN_LOG') : i = 1 \/ i \in 2 .. Len(SCAN_LOG')
  BY <1>8
<1>10. \A i \in 1 .. Len(SCAN_LOG') : SCAN_LOG'[i].scan = SCAN_LOG[i].scan
  BY <1>6, <1>8, <1>9
<1>11. TopOfLog'
  <2>1. \A r \in flight' : r.kind # "scan"
    BY <1>1, <1>3, <1>4 DEF IInv, Requested
  <2> QED BY <1>4, <1>8, <1>10, <2>1 DEF IInv, TopOfLog
<1>12. \A i \in 1 .. Len(SCAN_LOG') : OwnLines(SCAN_LOG[i])'
  <2>1. OwnLines(SCAN_LOG[1])'
    <3>1. /\ Len(lines) = 2 /\ lines[1].of = q.id
          /\ lines[2].of = q.id /\ lines[2].text = "result"
      BY DEF Line
    <3>2. SCAN_LOG'[1].lines # << >>
      BY <1>8, <3>1
    <3>3. LAST'.id = q.id
      BY <1>1
    <3> HIDE DEF lines
    <3>4. \A k \in 1 .. Len(lines) : lines[k].of = q.id
      <4>1. \A k \in 1 .. 2 : k = 1 \/ k = 2
        OBVIOUS
      <4> QED BY <3>1, <4>1
    <3>5. HasLine(SCAN_LOG[1], "result")'
      <4>1. 2 \in 1 .. Len(lines)
        BY <3>1
      <4> QED BY <1>8, <3>1, <4>1 DEF HasLine
    <3>6. ~ (SCAN_LOG'[1].scan > LAST'.id)
      BY <1>2, <1>8, <3>3
    <3> QED BY <1>8, <3>2, <3>3, <3>4, <3>5, <3>6 DEF OwnLines
  <2>2. ASSUME NEW i \in 2 .. Len(SCAN_LOG') PROVE OwnLines(SCAN_LOG[i])'
    <3>1. SCAN_LOG'[i] = SCAN_LOG[i] /\ OwnLines(SCAN_LOG[i])
      BY <1>8 DEF IInv, LogOfOwnScan
    <3>2. SCAN_LOG[1].scan > SCAN_LOG[i].scan
      <4>1. i \in 1 .. Len(SCAN_LOG) /\ 1 < i
        BY <1>8
      <4> QED BY <1>8, <4>1 DEF IInv, LogOfOwnScan
    <3>3. SCAN_LOG[i].scan \in 1 .. sent /\ q.id > SCAN_LOG[i].scan
      BY <1>6, <1>8, <3>2 DEF IInv, TopOfLog
    <3>4. [kind |-> "scan", id |-> SCAN_LOG[i].scan] # q
      BY <1>2, <3>3
    <3>5. LAST'.id = q.id /\ ~ (SCAN_LOG[i].scan > q.id) /\ SCAN_LOG[i].scan # q.id
      BY <1>1, <1>2, <3>3
    <3> QED BY <1>4, <3>1, <3>4, <3>5 DEF OwnLines
  <2> QED BY <1>9, <2>1, <2>2
<1>13. LogOfOwnScan'
  BY <1>8, <1>10, <1>12 DEF IInv, LogOfOwnScan
<1>14. /\ Paged'
       /\ PAGE' \in Nat \ {0} /\ PER' \in PerChoices
       /\ table' \in
            [of : Ids, first : Nat, last : Nat, prev : BOOLEAN, next : BOOLEAN]
  <2>1. PER \in PerChoices /\ report.id \in 0 .. sent' /\ report.id # 0
    BY <1>2, <1>4 DEF IInv, TypeOK
  <2>2. RenderTable(report, 1, PER) /\ LAST' = report /\ report \in Reports
    BY <1>1, <1>3
  <2>3. 1 \in Nat \ {0}
    OBVIOUS
  <2> HIDE DEF report
  <2> QED BY <2>1, <2>2, <2>3, Rendered
<1>15. chart' \in Drawings /\ (rows > 0 => chart' = Drawn(report, THEME))
  <2>1. THEME \in {"light", "dark"} /\ 0 \in Ids /\ chart' = ChartOf(report, THEME)
    BY <1>1, <1>2 DEF IInv, TypeOK, Ids
  <2>2. Drawn(report, THEME) \in Drawings /\ NoDrawing \in Drawings
    BY <1>3, <2>1 DEF Drawn, NoDrawing, Drawings
  <2> QED BY <1>2, <2>1, <2>2 DEF ChartOf
<1>16. TypeOK'
  <2>1. graphs' \in [0 .. LAST'.rows - 1 -> Drawings] /\ open' \subseteq 0 .. LAST'.rows - 1
    BY <1>1 DEF NoDrawing, Drawings, Ids
  <2> QED BY <1>1, <1>3, <1>4, <1>8, <1>14, <1>15, <2>1 DEF IInv, TypeOK
<1>17. DrawnAsShown'
  BY <1>1, <1>15 DEF DrawnAsShown, Drawn
<1> QED BY <1>4, <1>11, <1>13, <1>14, <1>16, <1>17 DEF IInv

LEMMA InvScanFailed ==
  ASSUME IInv, NEW q \in flight, ScanFailed(q)
  PROVE  IInv'
<1> DEFINE lines == <<Line(q.id, "error")>>
<1>1. /\ q.kind = "scan" /\ Finish(q) /\ SCAN_LOG' = LogLines(lines)
      /\ UNCHANGED <<panel, LAST, pager, drawing, cards>>
  BY DEF ScanFailed
<1>2. q \in [kind : Kinds, id : 1 .. sent] /\ sent \in 1 .. MaxRequests
  BY DEF IInv, TypeOK
<1>3. q.id \in 1 .. sent /\ q.id \in Ids /\ q = [kind |-> "scan", id |-> q.id]
      /\ q.kind \in Guarded \ {"update"}
  BY <1>1, <1>2 DEF Ids, Guarded
<1>4. /\ Requested' /\ sent' = sent
      /\ flight' \subseteq [kind : Kinds, id : 1 .. sent'] /\ flight' = flight \ {q}
      /\ disabled' \subseteq Guarded
  <2>1. \A k \in Guarded \ {"update", q.kind} : Shown(k)' = Shown(k)
    BY <1>1 DEF Shown
  <2> QED BY <1>1, <2>1, RequestEnded
<1>5. q.id > LAST.id
  BY <1>1, <1>3 DEF IInv, Requested, Shown
<1>6. /\ SCAN_LOG # << >> /\ SCAN_LOG[1].scan = q.id /\ SCAN_LOG[1].lines = << >>
  BY <1>1 DEF IInv, TopOfLog
<1>7. lines \in Seq([of : Ids, text : {"backend", "result", "error"}])
  BY <1>3 DEF Line
<1>8. /\ SCAN_LOG' \in Seq(Entries)
      /\ Len(SCAN_LOG') = Len(SCAN_LOG) /\ 1 \in 1 .. Len(SCAN_LOG)
      /\ SCAN_LOG'[1].scan = q.id /\ SCAN_LOG'[1].lines = lines
      /\ \A i \in 2 .. Len(SCAN_LOG') : SCAN_LOG'[i] = SCAN_LOG[i]
  BY <1>1, <1>6, <1>7, LinesOnTop DEF IInv
<1>9. \A i \in 1 .. Len(SCAN_LOG') : i = 1 \/ i \in 2 .. Len(SCAN_LOG')
  BY <1>8
<1>10. \A i \in 1 .. Len(SCAN_LOG') : SCAN_LOG'[i].scan = SCAN_LOG[i].scan
  BY <1>6, <1>8, <1>9
<1>11. TopOfLog'
  <2>1. \A r \in flight' : r.kind # "scan"
    BY <1>1, <1>3, <1>4 DEF IInv, Requested
  <2> QED BY <1>4, <1>8, <1>10, <2>1 DEF IInv, TopOfLog
<1>12. \A i \in 1 .. Len(SCAN_LOG') : OwnLines(SCAN_LOG[i])'
  <2>1. OwnLines(SCAN_LOG[1])'
    <3>1. Len(lines) = 1 /\ lines[1].of = q.id /\ lines[1].text = "error"
      BY DEF Line
    <3>2. SCAN_LOG'[1].lines # << >>
      BY <1>8, <3>1
    <3> HIDE DEF lines
    <3>3. \A k \in 1 .. Len(lines) : lines[k].of = q.id /\ lines[k].text = "error"
      <4>1. \A k \in 1 .. 1 : k = 1
        OBVIOUS
      <4> QED BY <3>1, <4>1
    <3>4. ~ HasLine(SCAN_LOG[1], "result")'
      BY <1>8, <3>3 DEF HasLine
    <3>5. LAST'.id # SCAN_LOG'[1].scan
      BY <1>1, <1>2, <1>5, <1>8 DEF IInv, Paged
    <3> QED BY <1>8, <3>2, <3>3, <3>4, <3>5 DEF OwnLines
  <2>2. ASSUME NEW i \in 2 .. Len(SCAN_LOG') PROVE OwnLines(SCAN_LOG[i])'
    <3>1. SCAN_LOG'[i] = SCAN_LOG[i] /\ OwnLines(SCAN_LOG[i])
      BY <1>8 DEF IInv, LogOfOwnScan
    <3>2. SCAN_LOG[1].scan > SCAN_LOG[i].scan
      <4>1. i \in 1 .. Len(SCAN_LOG) /\ 1 < i
        BY <1>8
      <4> QED BY <1>8, <4>1 DEF IInv, LogOfOwnScan
    <3>3. [kind |-> "scan", id |-> SCAN_LOG[i].scan] # q
      BY <1>2, <1>6, <1>8, <3>2 DEF IInv, TopOfLog
    <3> QED BY <1>1, <1>4, <3>1, <3>3 DEF OwnLines, HasLine
  <2> QED BY <1>9, <2>1, <2>2
<1>13. LogOfOwnScan'
  BY <1>8, <1>10, <1>12 DEF IInv, LogOfOwnScan
<1>14. TypeOK'
  BY <1>1, <1>4, <1>8 DEF IInv, TypeOK, pager, drawing, cards
<1>15. Paged' /\ DrawnAsShown'
  BY <1>1, <1>4 DEF IInv, Paged, DrawnAsShown, pager, drawing, cards
<1> QED BY <1>4, <1>11, <1>13, <1>14, <1>15 DEF IInv

\* Answers of the other requests, written or dropped.
LEMMA InvPanel ==
  ASSUME IInv, NEW q \in flight, PanelWritten(q) \/ AnswerDropped(q)
  PROVE  IInv'
<1>1. /\ q.kind # "scan" /\ Finish(q)
      /\ UNCHANGED <<SCAN_LOG, LAST, pager, drawing, cards>>
      /\ \/ panel' = [panel EXCEPT ![PanelOf(q.kind)] = q.id]
         \/ panel' = panel
  BY DEF PanelWritten, AnswerDropped
<1>2. q \in [kind : Kinds, id : 1 .. sent] /\ sent \in 1 .. MaxRequests
      /\ panel \in [Panels -> 0 .. sent] /\ PanelOf(q.kind) \in Panels
  BY DEF IInv, TypeOK, Panels
<1>3. \A k \in Guarded \ {"update", q.kind} : Shown(k)' = Shown(k)
  <2>1. SUFFICES ASSUME NEW k \in Guarded \ {"update", q.kind}
                 PROVE  Shown(k)' = Shown(k)
    OBVIOUS
  <2>2. k \in {"scan", "diff", "live"} /\ k # q.kind
    BY <2>1 DEF Guarded
  <2>3. PanelOf(k) # PanelOf(q.kind)
    BY <1>2, <2>2 DEF PanelOf, AllKinds
  <2>4. PanelOf(k) \in Panels
    BY <2>1 DEF Panels, Guarded
  <2>5. panel'[PanelOf(k)] = panel[PanelOf(k)] /\ LAST' = LAST
    BY <1>1, <1>2, <2>3, <2>4
  <2> QED BY <2>5 DEF Shown
<1>4. /\ Requested' /\ sent' = sent
      /\ flight' \subseteq [kind : Kinds, id : 1 .. sent'] /\ flight' = flight \ {q}
      /\ disabled' \subseteq Guarded
  BY <1>1, <1>3, RequestEnded
<1>5. TopOfLog' /\ LogOfOwnScan'
  BY <1>1, <1>2, <1>4, LogKept
<1>6. panel' \in [Panels -> 0 .. sent']
  BY <1>1, <1>2, <1>4
<1>7. TypeOK'
  BY <1>1, <1>4, <1>6 DEF IInv, TypeOK, pager, drawing, cards
<1>8. Paged' /\ DrawnAsShown'
  BY <1>1, <1>4 DEF IInv, Paged, DrawnAsShown, pager, drawing, cards
<1> QED BY <1>4, <1>5, <1>7, <1>8 DEF IInv

\* A step of the theme, the pager or the cards keeps requests and log.
LEMMA ViewOnly ==
  ASSUME IInv, UNCHANGED <<requests, panel, SCAN_LOG, LAST>>
  PROVE  Requested' /\ TopOfLog' /\ LogOfOwnScan'
<1>1. UNCHANGED <<sent, flight, disabled>> /\ sent \in Nat
  BY DEF requests, IInv, TypeOK
<1> QED BY <1>1, RequestsKept, LogKept

\* A graph drawn again is of the scan shown.
LEMMA GraphRedrawn ==
  ASSUME IInv, NEW theme \in {"light", "dark"}
  PROVE  LET new == DrawGraphIfOpen(LAST, theme) IN
         /\ new \in [0 .. LAST.rows - 1 -> Drawings]
         /\ \A i \in open : new[i] = Drawn(LAST, theme)
<1>1. LAST \in Reports /\ graphs \in [0 .. LAST.rows - 1 -> Drawings]
  BY DEF IInv, TypeOK
<1>2. Drawn(LAST, theme) \in Drawings
  BY <1>1 DEF Drawn, Drawings, Reports
<1>3. \A i \in open : i = OPEN_IDX /\ i \in 0 .. LAST.rows - 1
  BY DEF IInv, TypeOK, DrawnAsShown
<1>4. \A i \in open : OPEN_IDX >= 0 /\ OPEN_IDX \in DOMAIN graphs
  BY <1>1, <1>3
<1> QED BY <1>1, <1>2, <1>3, <1>4 DEF DrawGraphIfOpen

LEMMA InvToggleTheme ==
  ASSUME IInv, ToggleTheme
  PROVE  IInv'
<1> DEFINE theme == Other(THEME)
<1>1. /\ THEME' = theme /\ theme \in {"light", "dark"}
      /\ UNCHANGED <<requests, panel, SCAN_LOG, LAST, pager, cards>>
  BY DEF ToggleTheme, Other
<1>2. Requested' /\ TopOfLog' /\ LogOfOwnScan'
  BY <1>1, ViewOnly
<1>3. LAST \in Reports /\ (LAST.id = 0 => LAST.rows = 0)
  BY DEF IInv, TypeOK, Paged
<1>4. CASE LAST.id # 0
  <2>1. chart' = ChartOf(LAST, theme) /\ graphs' = DrawGraphIfOpen(LAST, theme)
    BY <1>4 DEF ToggleTheme
  <2> HIDE DEF theme
  <2>2. /\ graphs' \in [0 .. LAST.rows - 1 -> Drawings]
        /\ \A i \in open : graphs'[i] = Drawn(LAST, theme)
    BY <1>1, <2>1, GraphRedrawn
  <2>3. chart' \in Drawings /\ (LAST.rows > 0 => chart' = Drawn(LAST, theme))
    BY <1>1, <1>3, <2>1 DEF ChartOf, Drawn, NoDrawing, Drawings, Reports, Ids
  <2>4. TypeOK'
    BY <1>1, <2>2, <2>3 DEF IInv, TypeOK, requests, pager, cards
  <2>5. DrawnAsShown'
    BY <1>1, <2>2, <2>3 DEF IInv, DrawnAsShown, cards, Drawn
  <2> QED BY <1>1, <1>2, <2>4, <2>5 DEF IInv, Paged, requests, pager
<1>5. CASE LAST.id = 0
  <2>1. UNCHANGED <<chart, graphs>> /\ LAST.rows = 0
    BY <1>3, <1>5 DEF ToggleTheme
  <2>2. open = {}
    BY <2>1 DEF IInv, TypeOK
  <2>3. TypeOK'
    BY <1>1, <2>1 DEF IInv, TypeOK, requests, pager, cards
  <2>4. DrawnAsShown'
    BY <1>1, <2>1, <2>2 DEF DrawnAsShown, cards
  <2> QED BY <1>1, <1>2, <2>3, <2>4 DEF IInv, Paged, requests, pager
<1> QED BY <1>4, <1>5

LEMMA InvPager ==
  ASSUME IInv, PrevPage \/ NextPage \/ \E per \in PerChoices : ChoosePer(per)
  PROVE  IInv'
<1>1. LAST \in Reports /\ LAST.id \in 0 .. sent /\ (LAST.id = 0 => LAST.rows = 0)
      /\ PER \in PerChoices /\ PAGE \in Nat \ {0}
  BY DEF IInv, TypeOK, Paged
<1>2. /\ UNCHANGED <<requests, panel, SCAN_LOG, LAST, drawing, cards>>
      /\ \E page \in Nat \ {0}, per \in PerChoices : RenderTable(LAST, page, per)
  <2>1. CASE PrevPage
    <3>1. PAGE - 1 \in Nat \ {0}
      <4>1. table.prev /\ table = TableOf(LAST, PAGE, PER)
        BY <2>1 DEF IInv, Paged, PrevPage
      <4>2. TableOf(LAST, PAGE, PER).prev = (PAGE > 1)
        BY DEF TableOf
      <4>3. PAGE > 1
        BY <4>1, <4>2, Zenon
      <4> QED BY <1>1, <4>3
    <3> QED BY <1>1, <2>1, <3>1 DEF PrevPage
  <2>2. CASE NextPage
    <3>1. PAGE + 1 \in Nat \ {0}
      BY <1>1
    <3> QED BY <1>1, <2>2, <3>1 DEF NextPage
  <2>3. ASSUME NEW per \in PerChoices, ChoosePer(per)
        PROVE  <1>2!1 /\ \E page \in Nat \ {0} : RenderTable(LAST, page, per)
    <3>1. 1 \in Nat \ {0}
      OBVIOUS
    <3> QED BY <2>3, <3>1 DEF ChoosePer
  <2> QED BY <2>1, <2>2, <2>3
<1>3. PICK page \in Nat \ {0}, per \in PerChoices : RenderTable(LAST, page, per)
  BY <1>2
<1>4. /\ Paged'
      /\ PAGE' \in Nat \ {0} /\ PER' \in PerChoices
      /\ table' \in
           [of : Ids, first : Nat, last : Nat, prev : BOOLEAN, next : BOOLEAN]
  <2>1. LAST' = LAST /\ LAST.id \in 0 .. sent'
    BY <1>1, <1>2 DEF requests
  <2> QED BY <1>1, <1>3, <2>1, Rendered
<1>5. Requested' /\ TopOfLog' /\ LogOfOwnScan'
  BY <1>2, ViewOnly
<1>6. TypeOK' /\ DrawnAsShown'
  BY <1>2, <1>4 DEF IInv, TypeOK, DrawnAsShown, requests, drawing, cards
<1> QED BY <1>4, <1>5, <1>6 DEF IInv

LEMMA InvCards ==
  ASSUME IInv, ShowAnalysis \/ \E i \in DOMAIN graphs : ClickCard(i)
  PROVE  IInv'
<1>1. UNCHANGED <<requests, panel, SCAN_LOG, LAST, pager, THEME, chart>>
  BY DEF ShowAnalysis, ClickCard
<1>2. Requested' /\ TopOfLog' /\ LogOfOwnScan' /\ Paged'
  BY <1>1, ViewOnly DEF IInv, Paged, requests, pager
<1>3. LAST \in Reports /\ graphs \in [0 .. LAST.rows - 1 -> Drawings]
      /\ THEME \in {"light", "dark"}
  BY DEF IInv, TypeOK
<1>4. CASE ShowAnalysis
  <2>1. graphs' = DrawGraphIfOpen(LAST, THEME) /\ UNCHANGED cards
    BY <1>4 DEF ShowAnalysis
  <2>2. /\ graphs' \in [0 .. LAST.rows - 1 -> Drawings]
        /\ \A i \in open : graphs'[i] = Drawn(LAST, THEME)
    BY <1>3, <2>1, GraphRedrawn
  <2>3. TypeOK' /\ DrawnAsShown'
    BY <1>1, <2>1, <2>2
       DEF IInv, TypeOK, DrawnAsShown, Drawn, requests, pager, cards
  <2> QED BY <1>2, <2>3 DEF IInv
<1>5. ASSUME NEW i \in DOMAIN graphs, ClickCard(i)
      PROVE  TypeOK' /\ DrawnAsShown'
  <2>1. i \in 0 .. LAST.rows - 1 /\ LAST.rows \in Nat /\ i \in Nat
    BY <1>3 DEF Reports
  <2>2. Drawn(LAST, THEME) \in Drawings
    BY <1>3 DEF Drawn, Drawings, Reports
  <2>3. CASE i \in open
    <3>1. open' = {} /\ OPEN_IDX' = NoCard /\ UNCHANGED graphs
      BY <1>5, <2>3 DEF ClickCard
    <3> QED BY <1>1, <3>1
            DEF IInv, TypeOK, DrawnAsShown, Drawn, requests, pager
  <2>4. CASE i \notin open
    <3>1. open' = {i} /\ OPEN_IDX' = i
          /\ graphs' = [graphs EXCEPT ![i] = Drawn(LAST, THEME)]
      BY <1>5, <2>4 DEF ClickCard
    <3>2. graphs' \in [0 .. LAST.rows - 1 -> Drawings] /\ graphs'[i] = Drawn(LAST, THEME)
      BY <1>3, <2>1, <2>2, <3>1
    <3> QED BY <1>1, <2>1, <3>1, <3>2
            DEF IInv, TypeOK, DrawnAsShown, Drawn, requests, pager
  <2> QED BY <2>3, <2>4
<1> QED BY <1>2, <1>4, <1>5 DEF IInv

LEMMA InvNext == IInv /\ [Next]_vars => IInv'
<1> SUFFICES ASSUME IInv, [Next]_vars PROVE IInv'
  OBVIOUS
<1>1. CASE UNCHANGED vars
  <2>1. UNCHANGED <<requests, panel, SCAN_LOG, LAST, pager, drawing, cards>>
    BY <1>1 DEF vars
  <2>2. Requested' /\ TopOfLog' /\ LogOfOwnScan'
    BY <2>1, ViewOnly
  <2> QED BY <2>1, <2>2
          DEF IInv, TypeOK, Paged, DrawnAsShown, requests, pager, drawing, cards
<1>2. CASE \E kind \in Kinds : Ask(kind)
  BY <1>2, InvAsk
<1>3. ASSUME NEW q \in flight, End(q)
      PROVE  IInv'
  BY <1>3, InvScanAnswered, InvScanFailed, InvPanel DEF End
<1>4. CASE ToggleTheme
  BY <1>4, InvToggleTheme
<1>5. CASE PrevPage \/ NextPage \/ \E per \in PerChoices : ChoosePer(per)
  BY <1>5, InvPager
<1>6. CASE ShowAnalysis \/ \E i \in DOMAIN graphs : ClickCard(i)
  BY <1>6, InvCards
<1> QED BY <1>1, <1>2, <1>3, <1>4, <1>5, <1>6 DEF Next

LEMMA Invariance == Spec => []IInv
<1>1. Init => IInv
  BY InvInit
<1>2. IInv /\ [Next]_vars => IInv'
  BY InvNext
<1> QED BY <1>1, <1>2, PTL DEF Spec

-----------------------------------------------------------------------------
(* Theorems.                                                               *)

\* Every variable of a tab keeps its shape; cards are those of the scan shown.
THEOREM TypeCorrect == Spec => []TypeOK
<1>1. IInv => TypeOK
  BY DEF IInv
<1> QED BY <1>1, Invariance, PTL

\* Every line of the session log is under the scan it is about, although lines
\* go to whatever entry is on top.
THEOREM LogCorrect == Spec => []LogOfOwnScan
<1>1. IInv => LogOfOwnScan
  BY DEF IInv
<1> QED BY <1>1, Invariance, PTL

\* The table is a page of the scan shown and its buttons reach all the others,
\* for any number of rows and any choice of rows per page.
THEOREM TableCorrect == Spec => []TableIsPage
<1>1. ASSUME IInv PROVE TableIsPage
  <2>1. LAST \in Reports /\ PER \in Nat \ {0} /\ PAGE \in 1 .. Pages(LAST.rows, PER)
        /\ table = TableOf(LAST, PAGE, PER)
    BY <1>1 DEF IInv, TypeOK, Paged
  <2> QED BY <2>1, TableIsAPage DEF TableIsPage
<1> QED BY <1>1, Invariance, PTL

\* What can be seen of chart and graphs is of the scan shown and in the theme
\* of the page, whatever was open before a scan.
THEOREM DrawingCorrect == Spec => []DrawnAsShown
<1>1. IInv => DrawnAsShown
  BY DEF IInv
<1> QED BY <1>1, Invariance, PTL

-----------------------------------------------------------------------------
(* One question at a time, and no answer comes late.                       *)

Asking == Guarded \ {"update"}

Waiting == [kind \in Asking |-> Pending(kind)]

Showing == [kind \in Asking |-> Shown(kind)]

LEMMA PanelInit == Init => AskedOnce!Init
<1> SUFFICES ASSUME Init, NEW kind \in Asking
             PROVE  Pending(kind) = {} /\ Shown(kind) = 0
  BY DEF AskedOnce!Init, Asking
<1>1. \A q \in flight : q.kind = "db"
  BY DEF Init
<1>2. kind # "db" /\ PanelOf(kind) \in Panels
  BY DEF Asking, Guarded, Panels
<1> QED BY <1>1, <1>2 DEF Init, Pending, Shown, NoReport

\* A click of another button, or anything but a request, changes neither.
LEMMA PanelAsk ==
  ASSUME IInv, NEW kind \in Kinds, Ask(kind)
  PROVE  AskedOnce!Next \/ UNCHANGED <<Waiting, Showing>>
<1> DEFINE q == [kind |-> kind, id |-> sent + 1]
<1>1. flight' = flight \union {q} /\ UNCHANGED <<panel, LAST>> /\ sent \in Nat
      /\ kind \notin disabled
  BY DEF Ask, IInv, TypeOK
<1>2. Showing' = Showing
  BY <1>1 DEF Showing, Shown
<1>3. \A k \in Asking : k # kind => Pending(k)' = Pending(k)
  BY <1>1 DEF Pending
<1>4. CASE kind \notin Asking
  <2>1. Waiting' = Waiting
    BY <1>3, <1>4 DEF Waiting
  <2> QED BY <1>2, <2>1
<1>5. CASE kind \in Asking
  <2>1. \A r \in flight : r.kind # kind
    BY <1>1, <1>5 DEF IInv, Requested, Asking
  <2>2. Pending(kind) = {} /\ Pending(kind)' = {sent + 1}
    <3>1. {r \in flight : r.kind = kind} = {} /\ {r \in flight' : r.kind = kind} = {q}
      BY <1>1, <2>1
    <3>2. {r.id : r \in {q}} = {sent + 1}
      OBVIOUS
    <3> HIDE DEF q
    <3> QED BY <3>1, <3>2 DEF Pending
  <2>3. Waiting' = [Waiting EXCEPT ![kind] = {sent + 1}] /\ Waiting'[kind] = {sent + 1}
    BY <1>3, <1>5, <2>2 DEF Waiting
  <2>4. sent + 1 > Showing[kind] /\ sent + 1 \in Nat
    <3>1. Shown(kind) \in 0 .. sent
      BY <1>5 DEF IInv, TypeOK, Paged, Shown, Asking, Guarded, Panels
    <3> QED BY <1>1, <1>5, <3>1 DEF Showing
  <2>5. Waiting[kind] = {}
    BY <1>5, <2>2 DEF Waiting
  <2>6. AskedOnce!Ask(kind)
    <3>1. /\ Waiting[kind] = {}
          /\ \E question \in Waiting'[kind] :
               /\ question \in Nat /\ question > Showing[kind]
               /\ Waiting' = [Waiting EXCEPT ![kind] = {question}]
          /\ Showing' = Showing
      BY <1>2, <2>3, <2>4, <2>5
    <3> QED BY <3>1 DEF AskedOnce!Ask, Waiting, Showing, Asking
  <2> QED BY <1>5, <2>6 DEF AskedOnce!Next, Asking
<1> QED BY <1>4, <1>5

\* A request that ends leaves the other buttons' questions waiting.
LEMMA QuestionEnds ==
  ASSUME IInv, NEW q \in flight, Finish(q)
  PROVE  /\ \A k \in Asking : k # q.kind => Pending(k)' = Pending(k)
         /\ q.kind \in Asking => Pending(q.kind) = {q.id} /\ Pending(q.kind)' = {}
<1>1. flight' = flight \ {q}
  BY DEF Finish
<1>2. \A k : k # q.kind => Pending(k)' = Pending(k)
  BY <1>1 DEF Pending
<1>3. ASSUME q.kind \in Asking
      PROVE  Pending(q.kind) = {q.id} /\ Pending(q.kind)' = {}
  <2>1. \A r \in flight : r.kind = q.kind => r = q
    BY <1>3 DEF IInv, Requested, Asking
  <2> QED BY <1>1, <2>1 DEF Pending
<1> QED BY <1>2, <1>3

LEMMA PanelEnd ==
  ASSUME IInv, NEW q \in flight, End(q)
  PROVE  AskedOnce!Next \/ UNCHANGED <<Waiting, Showing>>
<1>1. Finish(q)
  BY DEF End, ScanAnswered, ScanFailed, PanelWritten, AnswerDropped
<1>2. \A k \in Asking : k # q.kind => Shown(k)' = Shown(k)
  <2>1. SUFFICES ASSUME NEW k \in Asking, k # q.kind
                 PROVE  Shown(k)' = Shown(k)
    OBVIOUS
  <2>2. k \in {"scan", "diff", "live"} /\ PanelOf(k) \in Panels
    BY DEF Asking, Guarded, Panels
  <2>3. panel \in [Panels -> 0 .. sent] /\ q.kind \in Kinds
    BY DEF IInv, TypeOK
  <2>4. CASE q.kind = "scan"
    <3>1. panel' = panel /\ k # "scan"
      BY <2>1, <2>4
         DEF End, ScanAnswered, ScanFailed, PanelWritten, AnswerDropped
    <3> QED BY <3>1 DEF Shown
  <2>5. CASE q.kind # "scan"
    <3>1. LAST' = LAST
          /\ (panel' = panel \/ panel' = [panel EXCEPT ![PanelOf(q.kind)] = q.id])
      BY <2>5 DEF End, ScanAnswered, ScanFailed, PanelWritten, AnswerDropped
    <3>2. PanelOf(k) # PanelOf(q.kind)
      BY <2>1, <2>2, <2>3 DEF PanelOf, AllKinds
    <3>3. panel'[PanelOf(k)] = panel[PanelOf(k)]
      BY <2>2, <2>3, <3>1, <3>2
    <3> QED BY <3>1, <3>3 DEF Shown
  <2> QED BY <2>4, <2>5
<1>3. q.kind \in Asking => Shown(q.kind)' = q.id \/ Shown(q.kind)' = Shown(q.kind)
  <2>1. SUFFICES ASSUME q.kind \in Asking
                 PROVE  Shown(q.kind)' = q.id \/ Shown(q.kind)' = Shown(q.kind)
    OBVIOUS
  <2>2. PanelOf(q.kind) \in Panels /\ panel \in [Panels -> 0 .. sent]
    BY <2>1 DEF Asking, Guarded, Panels, IInv, TypeOK
  <2>3. CASE q.kind = "scan"
    <3>1. LAST'.id = q.id \/ LAST' = LAST
      <4>1. ASSUME NEW rows \in Sizes, ScanAnswered(q, rows)
            PROVE  LAST'.id = q.id
        <5>1. LAST' = [id |-> q.id, rows |-> rows]
          BY <4>1 DEF ScanAnswered
        <5> QED BY <5>1
      <4>2. ASSUME ScanFailed(q) \/ PanelWritten(q) \/ AnswerDropped(q)
            PROVE  LAST' = LAST
        BY <4>2 DEF ScanFailed, PanelWritten, AnswerDropped
      <4> QED BY <4>1, <4>2 DEF End
    <3> QED BY <2>3, <3>1 DEF Shown
  <2>4. CASE q.kind # "scan"
    <3>1. panel' = panel \/ panel' = [panel EXCEPT ![PanelOf(q.kind)] = q.id]
      BY <2>4 DEF End, ScanAnswered, ScanFailed, PanelWritten, AnswerDropped
    <3>2. panel'[PanelOf(q.kind)] = q.id
            \/ panel'[PanelOf(q.kind)] = panel[PanelOf(q.kind)]
      BY <2>2, <3>1
    <3> QED BY <2>4, <3>2 DEF Shown
  <2> QED BY <2>3, <2>4
<1>4. CASE q.kind \notin Asking
  <2>1. Waiting' = Waiting /\ Showing' = Showing
    BY <1>1, <1>2, <1>4, QuestionEnds DEF Waiting, Showing
  <2> QED BY <2>1
<1>5. CASE q.kind \in Asking
  <2>1. Pending(q.kind) = {q.id} /\ Pending(q.kind)' = {}
        /\ \A k \in Asking : k # q.kind => Pending(k)' = Pending(k)
    BY <1>1, <1>5, QuestionEnds
  <2>2. Waiting' = [Waiting EXCEPT ![q.kind] = {}] /\ Waiting[q.kind] = {q.id}
    BY <1>5, <2>1 DEF Waiting
  <2>3. CASE Shown(q.kind)' = q.id
    <3>1. Showing' = [Showing EXCEPT ![q.kind] = q.id]
      BY <1>2, <1>5, <2>3 DEF Showing
    <3>2. /\ \E question \in Waiting[q.kind] :
               Showing' = [Showing EXCEPT ![q.kind] = question]
          /\ Waiting' = [Waiting EXCEPT ![q.kind] = {}]
      BY <2>2, <3>1
    <3>3. AskedOnce!Answer(q.kind)
      BY <3>2 DEF AskedOnce!Answer, Waiting, Showing, Asking
    <3> QED BY <1>5, <3>3 DEF AskedOnce!Next, Asking
  <2>4. CASE Shown(q.kind)' = Shown(q.kind)
    <3>1. Showing' = Showing
      BY <1>2, <2>4 DEF Showing
    <3>2. /\ Waiting[q.kind] # {}
          /\ Waiting' = [Waiting EXCEPT ![q.kind] = {}]
          /\ Showing' = Showing
      BY <2>2, <3>1
    <3>3. AskedOnce!GiveUp(q.kind)
      BY <3>2 DEF AskedOnce!GiveUp, Waiting, Showing, Asking
    <3> QED BY <1>5, <3>3 DEF AskedOnce!Next, Asking
  <2> QED BY <1>3, <1>5, <2>3, <2>4
<1> QED BY <1>4, <1>5

LEMMA PanelStep == IInv /\ [Next]_vars => [AskedOnce!Next]_(AskedOnce!vars)
<1> SUFFICES ASSUME IInv, [Next]_vars
             PROVE  AskedOnce!Next \/ UNCHANGED <<Waiting, Showing>>
  BY DEF AskedOnce!vars, Waiting, Showing, Asking
<1>1. CASE UNCHANGED <<flight, panel, LAST>>
  BY <1>1 DEF Waiting, Showing, Pending, Shown
<1>2. CASE \E kind \in Kinds : Ask(kind)
  BY <1>2, PanelAsk
<1>3. ASSUME NEW q \in flight, End(q)
      PROVE  AskedOnce!Next \/ UNCHANGED <<Waiting, Showing>>
  BY <1>3, PanelEnd
<1>4. CASE \/ ToggleTheme \/ PrevPage \/ NextPage \/ ShowAnalysis
           \/ \E per \in PerChoices : ChoosePer(per)
           \/ \E i \in DOMAIN graphs : ClickCard(i)
  BY <1>1, <1>4 DEF ToggleTheme, PrevPage, NextPage, ShowAnalysis, ChoosePer,
                    ClickCard, requests
<1>5. CASE UNCHANGED vars
  BY <1>1, <1>5 DEF vars, requests
<1> QED BY <1>2, <1>3, <1>4, <1>5 DEF Next

\* The scan page, the diff and the live-scan panel implement a panel that moves
\* from one answered question to a newer one.
THEOREM PanelsCorrect == Spec => AnswersInOrder
<1>1. Init => AskedOnce!Init
  BY PanelInit
<1>2. IInv /\ [Next]_vars => [AskedOnce!Next]_(AskedOnce!vars)
  BY PanelStep
<1> QED BY <1>1, <1>2, Invariance, PTL DEF Spec, AnswersInOrder, AskedOnce!Spec

-----------------------------------------------------------------------------
(* Why every button comes back.                                            *)

\* A disabled button waits for a request.
Awaited == \A kind \in disabled : \E q \in flight : q.kind = kind

\* The end of the request a button waits for enables it, and until then the
\* request it waits for stays the same.
Returns(kind) ==
  /\ EndOf(kind) => kind \notin disabled'
  /\ kind \in disabled /\ kind \in disabled' => Pending(kind)' = Pending(kind)

LEMMA EndFinishes ==
  ASSUME NEW q \in flight, End(q)
  PROVE  Finish(q)
BY DEF End, ScanAnswered, ScanFailed, PanelWritten, AnswerDropped

LEMMA NotRequests ==
  ASSUME \/ ToggleTheme \/ PrevPage \/ NextPage \/ ShowAnalysis \/ UNCHANGED vars
         \/ \E per \in PerChoices : ChoosePer(per)
         \/ \E i \in DOMAIN graphs : ClickCard(i)
  PROVE  UNCHANGED <<flight, disabled>>
BY DEF ToggleTheme, PrevPage, NextPage, ShowAnalysis, ChoosePer, ClickCard, vars,
       requests

LEMMA AwaitedNext == IInv /\ Awaited /\ [Next]_vars => Awaited'
<1> SUFFICES ASSUME IInv, Awaited, [Next]_vars, NEW kind \in disabled'
             PROVE  \E q \in flight' : q.kind = kind
  BY DEF Awaited
<1>1. ASSUME NEW k \in Kinds, Ask(k) PROVE \E q \in flight' : q.kind = kind
  <2>1. CASE kind = k
    <3> DEFINE asked == [kind |-> k, id |-> sent + 1]
    <3>1. asked \in flight'
      BY <1>1 DEF Ask
    <3> QED BY <2>1, <3>1
  <2>2. CASE kind # k
    <3>1. kind \in disabled
      BY <1>1, <2>2 DEF Ask
    <3>2. PICK q \in flight : q.kind = kind
      BY <3>1 DEF Awaited
    <3> QED BY <1>1, <3>2 DEF Ask
  <2> QED BY <2>1, <2>2
<1>2. ASSUME NEW q \in flight, End(q) PROVE \E r \in flight' : r.kind = kind
  BY <1>2, EndFinishes DEF Finish, Awaited
<1>3. CASE UNCHANGED <<flight, disabled>>
  BY <1>3 DEF Awaited
<1> QED BY <1>1, <1>2, <1>3, NotRequests DEF Next

LEMMA NextReturns ==
  ASSUME IInv, [Next]_vars, NEW kind \in Guarded
  PROVE  Returns(kind)
<1>1. EndOf(kind) => kind \notin disabled'
  BY EndFinishes DEF EndOf, Finish
<1>2. ASSUME kind \in disabled, kind \in disabled'
      PROVE  Pending(kind)' = Pending(kind)
  <2>1. ASSUME NEW k \in Kinds, Ask(k) PROVE Pending(kind)' = Pending(kind)
    BY <1>2, <2>1 DEF Ask, Pending
  <2>2. ASSUME NEW q \in flight, End(q) PROVE Pending(kind)' = Pending(kind)
    <3>1. q.kind # kind /\ flight' = flight \ {q}
      BY <1>2, <2>2, EndFinishes DEF Finish
    <3> QED BY <3>1 DEF Pending
  <2>3. CASE UNCHANGED <<flight, disabled>>
    BY <2>3 DEF Pending
  <2> QED BY <2>1, <2>2, <2>3, NotRequests DEF Next
<1> QED BY <1>1, <1>2 DEF Returns

\* A disabled button waits for exactly one request, the same one until it comes
\* back, and comes back with its end, be it an answer, an error or no answer
\* (app.js:106-118).  With the fairness of Spec this is why EveryButtonReturns.
THEOREM ButtonsWaitForOne ==
  Spec => /\ [](\A kind \in Guarded :
                  /\ kind \in disabled <=> \E q \in flight : q.kind = kind
                  /\ \A i, j \in Pending(kind) : i = j)
          /\ [][\A kind \in Guarded : Returns(kind)]_vars
<1>1. Init => Awaited
  BY DEF Init, Awaited
<1>2. IInv /\ Awaited /\ [Next]_vars => Awaited'
  BY AwaitedNext
<1>3. IInv /\ Awaited => \A kind \in Guarded :
        /\ kind \in disabled <=> \E q \in flight : q.kind = kind
        /\ \A i, j \in Pending(kind) : i = j
  BY DEF IInv, Requested, Awaited, Pending
<1>4. IInv /\ [Next]_vars => [\A kind \in Guarded : Returns(kind)]_vars
  BY NextReturns
<1> QED BY <1>1, <1>2, <1>3, <1>4, Invariance, PTL DEF Spec

=============================================================================
