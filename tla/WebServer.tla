----------------------------- MODULE WebServer -----------------------------
(***************************************************************************)
(* The Flask server web/server.py and the browser tabs that use it.  The   *)
(* server keeps one module-level global, LAST_REPORT: a scan or a live     *)
(* scan of any tab assigns it, and every export, the Semgrep link and the  *)
(* patch-gap page read it, some of them several times.  Requests run on    *)
(* threads of their own, so each read and each assignment of the global is *)
(* an action.  A tab keeps LAST, the scan its Scan page shows.             *)
(*                                                                         *)
(* Reports are numbered as they are computed; 0 stands for None (null).    *)
(* A definition named Bug_X is X with a mistake that code could contain.   *)
(***************************************************************************)
EXTENDS Naturals, Sequences, FiniteSets

CONSTANTS
  Tabs,        \* browser tabs
  Posts,       \* scans in use, among AllPosts
  Gets,        \* readers of LAST_REPORT in use, among AllGets
  Sizes,       \* numbers of results a report may hold
  Flags,       \* may a report miss an upstream patch?
  MaxReports   \* bound on the reports ever computed

AllPosts == {"scan", "live"}
AllGets == {"json", "csv", "sarif", "semgrep", "patch"}

ASSUME KindsAssumption == Posts \subseteq AllPosts /\ Gets \subseteq AllGets
ASSUME BoundsAssumption ==
  Sizes \subseteq Nat /\ Flags \subseteq BOOLEAN /\ MaxReports \in Nat

VARIABLES
  reports,     \* what the reports computed so far hold
  lastReport,  \* the global LAST_REPORT
  published,   \* history: what was assigned to it since the server started
  post,        \* per tab and kind of scan: the request in flight
  get,         \* per tab: the GET request in flight
  shown,       \* per tab: app.js LAST
  download     \* per tab: the answer to its last GET request

vars == <<reports, lastReport, published, post, get, shown, download>>

-----------------------------------------------------------------------------
(* Data.                                                                   *)

\* A report: who asked for it, how many results are ranked, and is a patch
\* missing, which one of its results says.
Contents ==
  {c \in [by : Tabs, from : Posts, missing : Flags, size : Sizes] :
     c.missing => c.size > 0}

Indexes == UNION {0 .. n : n \in Sizes}

NoPost == [pc |-> "idle", report |-> 0]

NoGet == [pc |-> "idle"]

Bug_Reads(kind) ==
  CASE kind = "csv"     -> <<"check", "target", "results">>
    [] kind = "sarif"   -> <<"check", "report">>
    [] kind = "semgrep" -> <<"check", "results", "results">>
    [] OTHER            -> <<"check", "results", "target">>

\* The reads of LAST_REPORT of each endpoint, in order.
Reads(kind) ==
  CASE kind = "json"    -> <<"check", "target", "kernel_version", "results">>
    [] kind = "csv"     -> <<"check", "results">>
    [] kind = "sarif"   -> <<"check", "report">>
    [] kind = "semgrep" -> <<"check", "results">>
    [] kind = "patch"   -> <<"check", "results", "target">>

\* An answer: the reports read after the check, none if it was refused.
Reply(g, parts) ==
  [kind |-> g.kind, idx |-> g.idx, seen |-> g.seen, parts |-> parts]

NoDownload == [kind |-> "none", idx |-> 0, seen |-> 0, parts |-> << >>]

-----------------------------------------------------------------------------
(* Scans and live scans.                                                   *)

\* The tab posts; its button is disabled until the answer is in.
SendPost(t, kind) ==
  /\ post[t][kind].pc = "idle"
  /\ post' = [post EXCEPT ![t][kind].pc = "running"]
  /\ UNCHANGED <<reports, lastReport, published, get, shown, download>>

Bug_Compute(t, kind) ==
  /\ post[t][kind].pc = "running"
  /\ Len(reports) < MaxReports
  /\ \E c \in Contents :
       /\ c.by = t /\ c.from = kind
       /\ reports' = Append(reports, c)
  /\ post' = [post EXCEPT ![t][kind] =
                [pc |-> "publish", report |-> Len(reports)]]
  /\ UNCHANGED <<lastReport, published, get, shown, download>>

\* The request's thread computes its report.
Compute(t, kind) ==
  /\ post[t][kind].pc = "running"
  /\ Len(reports) < MaxReports
  /\ \E c \in Contents :
       /\ c.by = t /\ c.from = kind
       /\ reports' = Append(reports, c)
  /\ post' = [post EXCEPT ![t][kind] =
                [pc |-> "publish", report |-> Len(reports) + 1]]
  /\ UNCHANGED <<lastReport, published, get, shown, download>>

Bug_Fail(t, kind) ==
  /\ post[t][kind].pc = "running"
  /\ lastReport' = 0
  /\ post' = [post EXCEPT ![t][kind] = NoPost]
  /\ UNCHANGED <<reports, published, get, shown, download>>

\* A bad path, or an exception of the scan: an error answer, nothing assigned.
Fail(t, kind) ==
  /\ post[t][kind].pc = "running"
  /\ post' = [post EXCEPT ![t][kind] = NoPost]
  /\ UNCHANGED <<reports, lastReport, published, get, shown, download>>

Bug_Publish(t, kind) ==
  /\ post[t][kind].pc = "publish"
  /\ lastReport' = IF lastReport = 0 THEN post[t][kind].report ELSE lastReport
  /\ published' = Append(published, post[t][kind].report)
  /\ post' = [post EXCEPT ![t][kind].pc = "answer"]
  /\ UNCHANGED <<reports, get, shown, download>>

\* LAST_REPORT = report
Publish(t, kind) ==
  /\ post[t][kind].pc = "publish"
  /\ lastReport' = post[t][kind].report
  /\ published' = Append(published, post[t][kind].report)
  /\ post' = [post EXCEPT ![t][kind].pc = "answer"]
  /\ UNCHANGED <<reports, get, shown, download>>

Bug_Arrive(t, kind) ==
  /\ post[t][kind].pc = "answer"
  /\ shown' = [shown EXCEPT ![t] = IF kind = "scan" THEN lastReport ELSE @]
  /\ post' = [post EXCEPT ![t][kind] = NoPost]
  /\ UNCHANGED <<reports, lastReport, published, get, download>>

\* The answer, made of the thread's own report, reaches the tab.  Only the
\* Scan page keeps it: runLive writes its result into the page and drops it.
Arrive(t, kind) ==
  /\ post[t][kind].pc = "answer"
  /\ shown' = [shown EXCEPT ![t] =
                 IF kind = "scan" THEN post[t][kind].report ELSE @]
  /\ post' = [post EXCEPT ![t][kind] = NoPost]
  /\ UNCHANGED <<reports, lastReport, published, get, download>>

-----------------------------------------------------------------------------
(* Exports, the Semgrep link, the patch-gap page.                          *)

\* The export and Semgrep links exist once a scan is shown, one Semgrep link
\* for each of its results (0-based); the patch-gap page can always be opened.
Click(t, kind, idx) ==
  /\ get[t].pc = "idle"
  /\ kind # "patch" => shown[t] # 0
  /\ IF kind = "semgrep" THEN idx < reports[shown[t]].size ELSE idx = 0
  /\ get' = [get EXCEPT ![t] = [pc |-> "reading", kind |-> kind, idx |-> idx,
                                seen |-> shown[t], got |-> << >>]]
  /\ UNCHANGED <<reports, lastReport, published, post, shown, download>>

\* if LAST_REPORT is None: return
Refuse(t) ==
  /\ get[t].pc = "reading"
  /\ get[t].got = << >>
  /\ lastReport = 0
  /\ download' = [download EXCEPT ![t] = Reply(get[t], << >>)]
  /\ get' = [get EXCEPT ![t] = NoGet]
  /\ UNCHANGED <<reports, lastReport, published, post, shown>>

LastRead(t) == Len(get[t].got) + 1 = Len(Reads(get[t].kind))

\* Only the first read is checked for None; any later one would be used as is.
Reading(t) ==
  /\ get[t].pc = "reading"
  /\ get[t].got = << >> => lastReport # 0

Read(t) ==
  /\ Reading(t)
  /\ ~ LastRead(t)
  /\ get' = [get EXCEPT ![t].got = Append(@, lastReport)]
  /\ UNCHANGED <<reports, lastReport, published, post, shown, download>>

OutOfRange(idx, report) == report # 0 /\ idx >= reports[report].size

\* The last read completes the payload; a Semgrep index past the end of the
\* ranked list just read is refused.
ReadAndAnswer(t) ==
  LET g == get[t]
      refused == g.kind = "semgrep" /\ OutOfRange(g.idx, lastReport) IN
  /\ Reading(t)
  /\ LastRead(t)
  /\ download' = [download EXCEPT ![t] =
        Reply(g, IF refused THEN << >> ELSE Append(Tail(g.got), lastReport))]
  /\ get' = [get EXCEPT ![t] = NoGet]
  /\ UNCHANGED <<reports, lastReport, published, post, shown>>

-----------------------------------------------------------------------------
\* The server process is restarted: the global is gone, every request in
\* flight fails and its tab gives the button back; the tabs keep what they show.
Restart ==
  /\ lastReport' = 0
  /\ published' = << >>
  /\ post' = [t \in Tabs |-> [kind \in Posts |-> NoPost]]
  /\ get' = [t \in Tabs |-> NoGet]
  /\ UNCHANGED <<reports, shown, download>>

Init ==
  /\ reports = << >>
  /\ lastReport = 0
  /\ published = << >>
  /\ post = [t \in Tabs |-> [kind \in Posts |-> NoPost]]
  /\ get = [t \in Tabs |-> NoGet]
  /\ shown = [t \in Tabs |-> 0]
  /\ download = [t \in Tabs |-> NoDownload]

ServePost(t, kind) ==
  Compute(t, kind) \/ Fail(t, kind) \/ Publish(t, kind) \/ Arrive(t, kind)

ServeGet(t) == Refuse(t) \/ Read(t) \/ ReadAndAnswer(t)

Next ==
  \/ \E t \in Tabs :
       \/ \E kind \in Posts : SendPost(t, kind) \/ ServePost(t, kind)
       \/ \E kind \in Gets, idx \in Indexes : Click(t, kind, idx)
       \/ ServeGet(t)
  \/ Restart

Spec == Init /\ [][Next]_vars
-----------------------------------------------------------------------------
(* Properties.                                                             *)

Ids == 0 .. MaxReports

PostStates == [pc : {"idle", "running", "publish", "answer"}, report : Ids]

GetStates ==
  [pc : {"reading"}, kind : Gets, idx : Indexes, seen : Ids, got : Seq(Ids)]

Downloads ==
  [kind : Gets \union {"none"}, idx : Indexes, seen : Ids, parts : Seq(Ids)]

\* Every variable keeps its shape; ids are those of reports already computed.
TypeOK ==
  /\ reports \in Seq(Contents)
  /\ Len(reports) <= MaxReports
  /\ lastReport \in 0 .. Len(reports)
  /\ published \in Seq(1 .. Len(reports))
  /\ post \in [Tabs -> [Posts -> PostStates]]
  /\ get \in [Tabs -> GetStates \union {NoGet}]
  /\ shown \in [Tabs -> 0 .. Len(reports)]
  /\ download \in [Tabs -> Downloads \union {NoDownload}]

\* The answer to a scan is made of the thread's own report, not of the global
\* other requests assign: whatever the order in which threads publish, a tab
\* shows a scan it asked for itself (server.py:207-214, app.js:115).
ShownIsOwnScan ==
  \A t \in Tabs : shown[t] # 0 =>
    reports[shown[t]].by = t /\ reports[shown[t]].from = "scan"

\* Endpoints test LAST_REPORT for None once and then read it again, without a
\* lock.  That is safe: no scan that runs, fails or publishes in between makes
\* a later read return None (server.py:266-270, 306-309, 320-323, 330-337).
NoneNeverRead ==
  \A t \in Tabs :
    /\ get[t].pc = "reading" => \A i \in DOMAIN get[t].got : get[t].got[i] # 0
    /\ \A i \in DOMAIN download[t].parts : download[t].parts[i] # 0

\* The reports in a history, and: was a in it no later than b?
In(history) == {history[i] : i \in 1 .. Len(history)}

NotAfter(history, a, b) ==
  \E i, j \in 1 .. Len(history) : i <= j /\ history[i] = a /\ history[j] = b

\* A tab never goes back in time: what an export or a page reads of the last
\* report is the scan the tab was showing when it asked, or a later one, and
\* the reads of one request do not go back either (server.py:207-208, 257).
ReadsGoForward ==
  \A t \in Tabs : get[t].pc = "reading" =>
    LET g == get[t] IN
    /\ g.seen \in In(published) =>
         \A i \in 1 .. Len(g.got) : NotAfter(published, g.seen, g.got[i])
    /\ \A i, j \in 1 .. Len(g.got) :
         i <= j => NotAfter(published, g.got[i], g.got[j])

\* The endpoints that read the global once after the check.
SingleRead == {"csv", "sarif", "semgrep"}

\* The register readers of "the last report" believe in.  The JSON export and
\* the patch-gap page read it several times and promise nothing here.
Register == INSTANCE LastReportRegister WITH
  current <- lastReport,
  answer <- [t \in Tabs |->
               {download[t].parts[i] : i \in
                  IF download[t].kind \in SingleRead
                  THEN DOMAIN download[t].parts ELSE {}}]

\* Every CSV or SARIF export and every Semgrep rule is the last report as it
\* was at one instant, whatever else is read, scanned or restarted meanwhile
\* (server.py:269-271, 337, 349).
ExportsAreAtomic == Register!Spec

-----------------------------------------------------------------------------
(* Claims of the documentation the code does not keep.                     *)

\* "No missing upstream patches detected." (app.js:447) is not said to a tab
\* whose scan has missing patches.
NoFalseAllClear ==
  \A t \in Tabs :
    LET d == download[t] IN
    d.kind = "patch" /\ d.seen # 0 /\ shown[t] = d.seen
      /\ (d.parts = << >> \/ ~ reports[d.parts[1]].missing)
    => ~ reports[d.seen].missing

=============================================================================
