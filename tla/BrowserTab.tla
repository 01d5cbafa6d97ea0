----------------------------- MODULE BrowserTab -----------------------------
(***************************************************************************)
(* One open tab of web/static/app.js.  A handler runs up to its first      *)
(* await when its button is clicked and from there to its end when the     *)
(* answer is in: two steps, with any other handler in between.  Requests   *)
(* are numbered as they are sent and answered in any order; an answer is   *)
(* refused, cut off by a restart of the server, or good.  The scan, diff,  *)
(* live-scan and update buttons are disabled while they wait; the patch    *)
(* and cache pages and the clear button are not.                           *)
(*                                                                         *)
(* What the tab shows is kept as what it was drawn from: the number of the *)
(* request whose answer it is, and the theme it was drawn in.              *)
(* A definition named Bug_X is X with a mistake that code could contain.   *)
(***************************************************************************)
EXTENDS Integers, Sequences

CONSTANTS
  Kinds,       \* kinds of request in use, among AllKinds
  Sizes,       \* numbers of results a scan may return
  PerChoices,  \* rows per page the pager offers (10, 25, 50)
  FirstPer,    \* rows per page at first (10)
  LogCap,      \* entries the session log keeps (LOG_CAP, 5)
  MaxRequests  \* bound on the requests ever sent

AllKinds == {"scan", "diff", "live", "update", "db", "patch", "cache", "clear"}

ASSUME KindsAssumption == Kinds \subseteq AllKinds
ASSUME SizesAssumption == Sizes \subseteq Nat
ASSUME PerAssumption == PerChoices \subseteq Nat \ {0} /\ FirstPer \in PerChoices
ASSUME LogAssumption == LogCap \in Nat \ {0}
ASSUME RequestsAssumption == MaxRequests \in Nat \ {0}

VARIABLES
  sent,      \* number of requests sent
  flight,    \* requests not answered yet
  disabled,  \* buttons that wait for their answer
  panel,     \* per panel: the request whose answer it shows
  SCAN_LOG,  \* the session log, newest entry first
  LAST,      \* the scan the Scan page shows
  PAGE, PER, \* the pager
  table,     \* the rows and buttons the pager drew last
  THEME,
  chart,     \* the bar chart
  open,      \* analysis cards that are open (0-based)
  graphs,    \* per analysis card: the call graph drawn in it
  OPEN_IDX   \* the card the graph is redrawn in, or NoCard

requests == <<sent, flight, disabled>>
pager    == <<PAGE, PER, table>>
drawing  == <<THEME, chart, graphs>>
cards    == <<open, OPEN_IDX>>
vars == <<requests, panel, SCAN_LOG, LAST, pager, drawing, cards>>

-----------------------------------------------------------------------------
(* Data.                                                                   *)

\* The buttons that go through setBusy.
Guarded == Kinds \intersect {"scan", "diff", "live", "update"}

\* Where an answer is written; a scan's goes to the log and the Scan page.
PanelOf(kind) ==
  CASE kind = "update" -> "db"
    [] kind = "clear"  -> "cache"
    [] OTHER           -> kind

Panels == {PanelOf(kind) : kind \in Kinds}

NoReport == [id |-> 0, rows |-> 0]

NoDrawing == [of |-> 0, theme |-> "light"]

NoCard == -1

\* A drawing of the scan that is shown, in the theme of the moment.
Drawn(report, theme) == [of |-> report.id, theme |-> theme]

Lesser(a, b) == IF a <= b THEN a ELSE b

Bug_Pages(rows, per) == (rows + per) \div per

\* Math.max(1, Math.ceil(total / PER))
Pages(rows, per) == IF rows = 0 THEN 1 ELSE (rows + per - 1) \div per

\* What renderTable draws for a page: the rows shown and the pager's buttons.
TableOf(report, page, per) ==
  LET start == (page - 1) * per IN
  [of |-> report.id, first |-> start + 1,
   last |-> Lesser(start + per, report.rows),
   prev |-> page > 1, next |-> page < Pages(report.rows, per)]

\* renderTable: the page is moved back into range, then drawn.
RenderTable(report, page, per) ==
  LET shownPage == Lesser(page, Pages(report.rows, per)) IN
  /\ PAGE' = shownPage
  /\ PER' = per
  /\ table' = TableOf(report, shownPage, per)

\* renderChart: no subsystem, no chart.
ChartOf(report, theme) ==
  IF report.rows = 0 THEN NoDrawing ELSE Drawn(report, theme)

\* drawGraphIfOpen: nothing without an index, or if no card has it.
DrawGraphIfOpen(report, theme) ==
  IF OPEN_IDX >= 0 /\ OPEN_IDX \in DOMAIN graphs
  THEN [graphs EXCEPT ![OPEN_IDX] = Drawn(report, theme)]
  ELSE graphs

-----------------------------------------------------------------------------
(* The session log.                                                        *)

\* A line names the request whose answer wrote it.
Line(id, text) == [of |-> id, text |-> text]

Bug_StartLogEntry(id) ==
  [i \in 1 .. Lesser(Len(SCAN_LOG) + 1, LogCap) |->
     IF i <= Len(SCAN_LOG) THEN SCAN_LOG[i] ELSE [scan |-> id, lines |-> << >>]]

\* unshift an entry and drop the one past the cap.
StartLogEntry(id) ==
  [i \in 1 .. Lesser(Len(SCAN_LOG) + 1, LogCap) |->
     IF i = 1 THEN [scan |-> id, lines |-> << >>] ELSE SCAN_LOG[i - 1]]

\* Lines are always added to the newest entry.
LogLines(lines) == [SCAN_LOG EXCEPT ![1].lines = @ \o lines]

-----------------------------------------------------------------------------
(* Requests.                                                               *)

Bug_Ask(kind) ==
  /\ kind \in Kinds \ {"db"}
  /\ sent < MaxRequests
  /\ sent' = sent + 1
  /\ flight' = flight \union {[kind |-> kind, id |-> sent + 1]}
  /\ disabled' = disabled \union (Guarded \intersect {kind})
  /\ SCAN_LOG' = IF kind = "scan" THEN StartLogEntry(sent + 1) ELSE SCAN_LOG
  /\ UNCHANGED <<panel, LAST, pager, drawing, cards>>

\* A click that sends a request.  A guarded button is disabled by it; a scan
\* opens its log entry.  The sidebar's "db" request is sent at load only.
Ask(kind) ==
  /\ kind \in Kinds \ {"db"}
  /\ kind \notin disabled
  /\ sent < MaxRequests
  /\ sent' = sent + 1
  /\ flight' = flight \union {[kind |-> kind, id |-> sent + 1]}
  /\ disabled' = disabled \union (Guarded \intersect {kind})
  /\ SCAN_LOG' = IF kind = "scan" THEN StartLogEntry(sent + 1) ELSE SCAN_LOG
  /\ UNCHANGED <<panel, LAST, pager, drawing, cards>>

\* The end of a handler: "finally" enables the button.
Finish(q) ==
  /\ flight' = flight \ {q}
  /\ disabled' = disabled \ {q.kind}
  /\ UNCHANGED sent

Bug_ScanAnswered(q, rows) ==
  LET report == [id |-> q.id, rows |-> rows] IN
  /\ q.kind = "scan"
  /\ Finish(q)
  /\ LAST' = report
  /\ SCAN_LOG' = LogLines(<<Line(q.id, "backend"), Line(q.id, "result")>>)
  /\ chart' = ChartOf(report, THEME)
  /\ RenderTable(report, 1, PER)
  /\ graphs' = [i \in 0 .. rows - 1 |-> NoDrawing]
  /\ UNCHANGED <<panel, THEME, cards>>

\* A scan returns: LAST is replaced, the pager goes to its first page, and
\* renderScan draws everything anew, with every card closed and no graph.
\* OPEN_IDX and PER keep their values.
ScanAnswered(q, rows) ==
  LET report == [id |-> q.id, rows |-> rows] IN
  /\ q.kind = "scan"
  /\ Finish(q)
  /\ LAST' = report
  /\ SCAN_LOG' = LogLines(<<Line(q.id, "backend"), Line(q.id, "result")>>)
  /\ chart' = ChartOf(report, THEME)
  /\ RenderTable(report, 1, PER)
  /\ open' = {}
  /\ graphs' = [i \in 0 .. rows - 1 |-> NoDrawing]
  /\ UNCHANGED <<panel, THEME, OPEN_IDX>>

Bug_ScanFailed(q) ==
  /\ q.kind = "scan"
  /\ flight' = flight \ {q}
  /\ SCAN_LOG' = LogLines(<<Line(q.id, "error")>>)
  /\ UNCHANGED <<sent, disabled, panel, LAST, pager, drawing, cards>>

\* An error answer or no answer: one line in the log.
ScanFailed(q) ==
  /\ q.kind = "scan"
  /\ Finish(q)
  /\ SCAN_LOG' = LogLines(<<Line(q.id, "error")>>)
  /\ UNCHANGED <<panel, LAST, pager, drawing, cards>>

\* Any other answer is written over its panel, an error of a guarded button or
\* of loadDb too.
PanelWritten(q) ==
  /\ q.kind # "scan"
  /\ Finish(q)
  /\ panel' = [panel EXCEPT ![PanelOf(q.kind)] = q.id]
  /\ UNCHANGED <<SCAN_LOG, LAST, pager, drawing, cards>>

\* loadPatchGap, loadCache and the clear button catch nothing: a lost answer
\* leaves the panel as it was.
AnswerDropped(q) ==
  /\ q.kind \in {"patch", "cache", "clear"}
  /\ Finish(q)
  /\ UNCHANGED <<panel, SCAN_LOG, LAST, pager, drawing, cards>>

-----------------------------------------------------------------------------
(* The theme, the pager and the analysis cards.                            *)

Other(theme) == IF theme = "light" THEN "dark" ELSE "light"

Bug_ToggleTheme ==
  /\ THEME' = Other(THEME)
  /\ chart' = IF LAST.id # 0 THEN ChartOf(LAST, Other(THEME)) ELSE chart
  /\ UNCHANGED <<requests, panel, SCAN_LOG, LAST, pager, graphs, cards>>

\* applyTheme: the chart and the graph are drawn again in the new colours.
ToggleTheme ==
  /\ THEME' = Other(THEME)
  /\ IF LAST.id # 0
     THEN /\ chart' = ChartOf(LAST, Other(THEME))
          /\ graphs' = DrawGraphIfOpen(LAST, Other(THEME))
     ELSE UNCHANGED <<chart, graphs>>
  /\ UNCHANGED <<requests, panel, SCAN_LOG, LAST, pager, cards>>

\* The pager's buttons, as they were drawn.
PrevPage ==
  /\ table.prev
  /\ RenderTable(LAST, PAGE - 1, PER)
  /\ UNCHANGED <<requests, panel, SCAN_LOG, LAST, drawing, cards>>

NextPage ==
  /\ table.next
  /\ RenderTable(LAST, PAGE + 1, PER)
  /\ UNCHANGED <<requests, panel, SCAN_LOG, LAST, drawing, cards>>

ChoosePer(per) ==
  /\ LAST.rows # 0
  /\ RenderTable(LAST, 1, per)
  /\ UNCHANGED <<requests, panel, SCAN_LOG, LAST, drawing, cards>>

\* A click on a card's head closes every card and opens that one, unless it
\* was the open one; an opened card gets its graph drawn.
ClickCard(i) ==
  /\ i \in DOMAIN graphs
  /\ IF i \in open
     THEN /\ open' = {}
          /\ OPEN_IDX' = NoCard
          /\ UNCHANGED graphs
     ELSE /\ open' = {i}
          /\ OPEN_IDX' = i
          /\ graphs' = [graphs EXCEPT ![i] = Drawn(LAST, THEME)]
  /\ UNCHANGED <<requests, panel, SCAN_LOG, LAST, pager, THEME, chart>>

\* The analysis sub-tab is chosen.
ShowAnalysis ==
  /\ LAST.id # 0
  /\ graphs' = DrawGraphIfOpen(LAST, THEME)
  /\ UNCHANGED <<requests, panel, SCAN_LOG, LAST, pager, THEME, chart, cards>>

-----------------------------------------------------------------------------
\* At load the sidebar asks for the state of the database.
Init ==
  /\ sent = 1
  /\ flight = {[kind |-> kind, id |-> 1] : kind \in Kinds \intersect {"db"}}
  /\ disabled = {}
  /\ panel = [p \in Panels |-> 0]
  /\ SCAN_LOG = << >>
  /\ LAST = NoReport
  /\ PAGE = 1
  /\ PER = FirstPer
  /\ table = TableOf(NoReport, 1, FirstPer)
  /\ THEME = "light"
  /\ chart = NoDrawing
  /\ open = {}
  /\ graphs = [i \in {} |-> NoDrawing]
  /\ OPEN_IDX = NoCard

\* A request comes to its end, in one way or the other.
End(q) ==
  \/ \E rows \in Sizes : ScanAnswered(q, rows)
  \/ ScanFailed(q)
  \/ PanelWritten(q)
  \/ AnswerDropped(q)

Next ==
  \/ \E kind \in Kinds : Ask(kind)
  \/ \E q \in flight : End(q)
  \/ ToggleTheme
  \/ PrevPage
  \/ NextPage
  \/ \E per \in PerChoices : ChoosePer(per)
  \/ \E i \in DOMAIN graphs : ClickCard(i)
  \/ ShowAnalysis

EndOf(kind) == \E q \in flight : q.kind = kind /\ End(q)

\* A fetch is answered, or the browser learns that it is not.
Fairness == \A kind \in Guarded : WF_vars(EndOf(kind))

Spec == Init /\ [][Next]_vars /\ Fairness
-----------------------------------------------------------------------------
(* Properties.                                                             *)

Ids == 0 .. MaxRequests

Reports == [id : Ids, rows : Nat]

Drawings == [of : Ids, theme : {"light", "dark"}]

Entries ==
  [scan : Ids, lines : Seq([of : Ids, text : {"backend", "result", "error"}])]

\* Every variable keeps its shape, and cards exist for the scan shown only.
TypeOK ==
  /\ sent \in 1 .. MaxRequests
  /\ flight \subseteq [kind : Kinds, id : 1 .. sent]
  /\ disabled \subseteq Guarded
  /\ panel \in [Panels -> 0 .. sent]
  /\ SCAN_LOG \in Seq(Entries)
  /\ LAST \in Reports
  /\ PAGE \in Nat \ {0} /\ PER \in PerChoices
  /\ table \in [of : Ids, first : Nat, last : Nat, prev : BOOLEAN, next : BOOLEAN]
  /\ THEME \in {"light", "dark"}
  /\ chart \in Drawings
  /\ open \subseteq 0 .. LAST.rows - 1
  /\ graphs \in [0 .. LAST.rows - 1 -> Drawings]
  /\ OPEN_IDX \in Nat \union {NoCard}

HasLine(entry, text) ==
  \E k \in 1 .. Len(entry.lines) : entry.lines[k].text = text

\* An entry has the lines of its scan: none while that runs, a result if it is
\* the one shown, and no result if it is newer.
OwnLines(entry) ==
  /\ \A k \in 1 .. Len(entry.lines) : entry.lines[k].of = entry.scan
  /\ entry.lines = << >> => [kind |-> "scan", id |-> entry.scan] \in flight
  /\ entry.scan > LAST.id => ~ HasLine(entry, "result")
  /\ entry.scan = LAST.id => HasLine(entry, "result")

\* The log tells of one scan per entry, newest first.  Lines are added to
\* whatever entry is on top (app.js:80-84), and that is always the entry of
\* the scan that was answered; an entry without lines is the one of the scan
\* that still runs; and the scan on the page is the newest one the log calls
\* answered, if it has not dropped it.
LogOfOwnScan ==
  /\ Len(SCAN_LOG) <= LogCap
  /\ \A i, j \in 1 .. Len(SCAN_LOG) :
       i < j => SCAN_LOG[i].scan > SCAN_LOG[j].scan
  /\ \A i \in 1 .. Len(SCAN_LOG) : OwnLines(SCAN_LOG[i])

\* The table is a page of the scan shown: whole, unless it is the last one,
\* never empty while there are rows, and its buttons lead to all the others
\* and to no further one (app.js:195-213).
TableIsPage ==
  LET rows == LAST.rows IN
  /\ table.of = LAST.id
  /\ (table.first - 1) % PER = 0
  /\ table.last <= rows
  /\ rows > 0 => table.first <= table.last
  /\ table.last - table.first + 1 = PER \/ table.last = rows
  /\ table.prev <=> table.first > 1
  /\ table.next <=> table.last < rows

\* OPEN_IDX outlives the cards it was set for (app.js:241, 262): what is open
\* is at most the card it names, and a graph that can be seen, and the chart,
\* are of the scan shown, in the theme of the page.
DrawnAsShown ==
  /\ open \subseteq {OPEN_IDX}
  /\ \A i \in open : graphs[i] = Drawn(LAST, THEME)
  /\ LAST.rows > 0 => chart = Drawn(LAST, THEME)

\* What the user of a guarded button is promised.
Shown(kind) == IF kind = "scan" THEN LAST.id ELSE panel[PanelOf(kind)]

Pending(kind) == {q.id : q \in {r \in flight : r.kind = kind}}

AskedOnce == INSTANCE RequestPanel WITH
  Buttons <- Guarded \ {"update"},
  pending <- [kind \in Guarded \ {"update"} |-> Pending(kind)],
  shown   <- [kind \in Guarded \ {"update"} |-> Shown(kind)]

\* The scan page, the diff and the live-scan panel show the answer to the
\* newest question that was answered: one question at a time, and no answer
\* of an older one comes late (app.js:106-118, 386, 424).  The sidebar's panel
\* is also written by loadDb and keeps no such order.
AnswersInOrder == AskedOnce!Spec

\* Whatever becomes of its request, a button comes back (app.js:118).
EveryButtonReturns ==
  \A kind \in Guarded : (kind \in disabled) ~> (kind \notin disabled)

=============================================================================
