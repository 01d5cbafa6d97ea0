-------------------------- MODULE StreamlitSession --------------------------
(***************************************************************************)
(* The Streamlit dashboard src/ui/app.py.  Every click of a browser        *)
(* session runs the whole script again, in a thread of that session; a     *)
(* click that comes while the script runs stops it at its next Streamlit   *)
(* call and starts it afresh.  What a session keeps is st.session_state.   *)
(* All sessions of a process share the memos of cached_scan and            *)
(* cached_diff, which never expire.                                        *)
(*                                                                         *)
(* A result is told apart by its number of rows, the settings it was       *)
(* computed for, whether the backend fell back to the heuristic, and       *)
(* whether missing patches are marked in it.  How a scan and its triage    *)
(* come to it is in ScanStage and TriagePipeline, the patch-database       *)
(* button of the rail in PatchDb, the button of the Cache page in          *)
(* TriagePipeline.                                                         *)
(* A definition named Bug_X is X with a mistake that code could contain.   *)
(***************************************************************************)
EXTENDS Naturals, FiniteSets

CONSTANTS
  Sessions,     \* browser sessions of one server process
  Requests,     \* settings of the rail a session may press Run Scan with
  Paths,        \* kernel paths they name
  TreeSizes,    \* numbers of candidates a tree may hold
  RowChoices,   \* rows per page on offer besides "All"
  DefaultRows,  \* the choice that is selected at first
  MaxEdits,     \* bound on the changes of the trees
  MaxClicks     \* bound on the clicks of all sessions

Backends == {"heuristic", "llm"}

Cfgs == [path : Paths, backend : Backends, patch_gap : BOOLEAN]

ASSUME RequestsAssumption == Requests \subseteq Cfgs
ASSUME RowsAssumption ==
  /\ TreeSizes \subseteq Nat /\ RowChoices \subseteq Nat \ {0}
  /\ DefaultRows \in RowChoices
ASSUME LimitsAssumption == MaxEdits \in Nat /\ MaxClicks \in Nat

VARIABLES
  tree,       \* per path: does it exist, and how many candidates it holds
  memo,       \* results of cached_scan
  diffMemo,   \* results of cached_diff for the pair of trees of the page
  held,       \* per session: last_report, live_report and diff_entries
  page,       \* per session and table: its page number
  rowsPer,    \* per session and table: its choice of rows per page
  nav,        \* per session: the section chosen
  pending,    \* per session: the click that waits to be served, if any
  ev,         \* per session: the click the script runs for
  pc,         \* per session: where the script stands
  got,        \* per session: what cached_scan has so far
  view,       \* per session: what the browser shows
  edits, clicks

vars == <<tree, memo, diffMemo, held, page, rowsPer, nav, pending, ev, pc, got,
          view, edits, clicks>>

-----------------------------------------------------------------------------
(* Data.  Something that may be absent is a set of at most one element.    *)

Tables == {"results", "diff", "live_results"}

Navs == {"Scan", "Diff", "Live Scan", "Patch Gap", "Cache"}

TableOf(n) ==
  CASE n = "Scan" -> "results" [] n = "Diff" -> "diff" [] OTHER -> "live_results"

Gone == [exists |-> FALSE, rows |-> 0]

Trees == [exists : {TRUE}, rows : TreeSizes] \union {Gone}

\* What a ScanReport says, and what the other two tables hold.
Reports == [cfg : Cfgs, rows : TreeSizes \union {0},
            model : {"answered", "fallback"}, marked : BOOLEAN]

Lists == [rows : TreeSizes \union {0}]

All == 0   \* the "All" of the selector

Rerun == [kind |-> "rerun"]

\* Everything a user can click, most of it only where it is shown.
Clicks ==
  [kind : {"run"}, cfg : Requests] \union [kind : {"nav"}, to : Navs]
  \union [kind : {"go"}, on : {"Diff", "Live Scan"}, ready : BOOLEAN]
  \union [kind : {"prev", "next"}, table : Tables]
  \union [kind : {"rows"}, table : Tables, per : RowChoices \union {All}]
  \union [kind : {"other"}]

-----------------------------------------------------------------------------
(* The pager.                                                              *)

AtLeastOne(n) == IF n < 1 THEN 1 ELSE n

Per(choice, total) == AtLeastOne(IF choice = All THEN total ELSE choice)

PageCount(total, per) == AtLeastOne((total + per - 1) \div per)

Bug_Clamped(p, pages) == AtLeastOne(p)
Clamped(p, pages) == IF p > pages THEN pages ELSE AtLeastOne(p)

\* The rows start + 1 .. end of a table are on its page p.
Window(p, per, total) ==
  LET start == (p - 1) * per
  IN  [start |-> start,
       end |-> IF start + per < total THEN start + per ELSE total]

\* The page a session starts with.
FirstPage == [nav |-> "Scan", card |-> "empty", asked |-> {}]

Shown(s) == view[s].card = "rows"

-----------------------------------------------------------------------------
(* The world: a tree is edited, moved away or restored.                    *)

Edit(p) ==
  /\ edits < MaxEdits
  /\ edits' = edits + 1
  /\ \E t \in Trees \ {tree[p]} : tree' = [tree EXCEPT ![p] = t]
  /\ UNCHANGED <<memo, diffMemo, held, page, rowsPer, nav, pending, ev, pc, got,
                 view, clicks>>

-----------------------------------------------------------------------------
(* Clicks.  The browser shows the old page until the script is done, so    *)
(* what is clicked may have no place on the page the script now builds.    *)

\* A click is possible where the browser shows the widget.
Clickable(s, c) ==
  /\ c.kind = "nav" => view[s].nav # c.to
  /\ c.kind = "go" => view[s].nav = c.on
  /\ c.kind \in {"prev", "next", "rows"} =>
       /\ Shown(s)
       /\ view[s].table = c.table
  /\ c.kind = "prev" => view[s].page > 1
  /\ c.kind = "next" => view[s].page < view[s].pages

Click(s, c) ==
  /\ clicks < MaxClicks
  /\ pending[s] = {}
  /\ Clickable(s, c)
  /\ pending' = [pending EXCEPT ![s] = {c}]
  /\ clicks' = clicks + 1
  /\ UNCHANGED <<tree, memo, diffMemo, held, page, rowsPer, nav, ev, pc, got,
                 view, edits>>

\* The script starts for a click, wherever it stood; only cached_scan runs
\* to its end first, be it a report or an exception.
Begin(s) ==
  /\ pc[s] # "computing"
  /\ \E c \in pending[s] :
       /\ ev' = [ev EXCEPT ![s] = c]
       /\ nav' = [nav EXCEPT ![s] = IF c.kind = "nav" THEN c.to ELSE @]
       /\ rowsPer' = IF c.kind = "rows"
                       THEN [rowsPer EXCEPT ![s][c.table] = c.per] ELSE rowsPer
  /\ pending' = [pending EXCEPT ![s] = {}]
  /\ pc' = [pc EXCEPT ![s] = "page"]
  /\ got' = [got EXCEPT ![s] = {}]
  /\ UNCHANGED <<tree, memo, diffMemo, held, page, view, edits, clicks>>

\* The script can go on at a Streamlit call: it is there and nothing waits.
At(s, place) == pc[s] = place /\ pending[s] = {}

\* The script ends with a page in the browser.  Streamlit forgets the value
\* of every widget that is not on it.
Finish(s, v) ==
  /\ view' = [view EXCEPT ![s] = v]
  /\ pc' = [pc EXCEPT ![s] = "idle"]
  /\ ev' = [ev EXCEPT ![s] = Rerun]
  /\ rowsPer' = [rowsPer EXCEPT ![s] =
       [k \in Tables |-> IF v.card = "rows" /\ v.table = k THEN @[k]
                         ELSE DefaultRows]]

\* The settings of the Run Scan click that the script runs for, if it is one.
Asked(s) == IF ev[s].kind = "run" THEN {ev[s].cfg} ELSE {}

Card(s, card) == [nav |-> nav[s], card |-> card, asked |-> Asked(s)]

\* The page has been built with nothing to show but a message.
Say(s, card) ==
  /\ Finish(s, Card(s, card))
  /\ UNCHANGED <<tree, memo, diffMemo, held, page, nav, pending, got, edits, clicks>>

-----------------------------------------------------------------------------
(* The Scan page.                                                          *)

Running(s) == At(s, "page") /\ nav[s] = "Scan" /\ ev[s].kind = "run"

\* The button of the Diff or the Live Scan page.
Going(s, on) ==
  At(s, "page") /\ nav[s] = on /\ ev[s].kind = "go" /\ ev[s].on = on

NotFound(s) ==
  /\ Running(s)
  /\ ~tree[ev[s].cfg.path].exists
  /\ Say(s, "notfound")

Check(s) ==
  /\ Running(s)
  /\ tree[ev[s].cfg.path].exists
  /\ pc' = [pc EXCEPT ![s] = "call"]
  /\ UNCHANGED <<tree, memo, diffMemo, held, page, rowsPer, nav, pending, ev, got,
                 view, edits, clicks>>

Bug_Hits(c) == {r \in memo : r.cfg.path = c.path /\ r.cfg.patch_gap = c.patch_gap}
Hits(c) == {r \in memo : r.cfg = c}

\* cached_scan: the memo answers, or the scan reads the tree as it is by now.
\* Of two sessions that miss with the same arguments, one waits.
CallHit(s) ==
  /\ pc[s] = "call"
  /\ Hits(ev[s].cfg) # {}
  /\ got' = [got EXCEPT ![s] = Hits(ev[s].cfg)]
  /\ pc' = [pc EXCEPT ![s] = "log"]
  /\ UNCHANGED <<tree, memo, diffMemo, held, page, rowsPer, nav, pending, ev, view,
                 edits, clicks>>

CallMiss(s) ==
  /\ pc[s] = "call"
  /\ Hits(ev[s].cfg) = {}
  /\ \A t \in Sessions : pc[t] = "computing" => ev[t].cfg # ev[s].cfg
  /\ \E m \in {"answered", "fallback"} :
       got' = [got EXCEPT ![s] =
         {[cfg |-> ev[s].cfg, rows |-> tree[ev[s].cfg.path].rows, model |-> m,
           marked |-> ev[s].cfg.patch_gap]}]
  /\ pc' = [pc EXCEPT ![s] = "computing"]
  /\ UNCHANGED <<tree, memo, diffMemo, held, page, rowsPer, nav, pending, ev, view,
                 edits, clicks>>

Memoise(s) ==
  /\ pc[s] = "computing"
  /\ memo' = memo \union got[s]
  /\ pc' = [pc EXCEPT ![s] = "log"]
  /\ UNCHANGED <<tree, diffMemo, held, page, rowsPer, nav, pending, ev, got, view,
                 edits, clicks>>

\* The scan, the diff or the live scan raises, as a scan does on a completion
\* that is JSON and no object: nobody catches it, nothing is memoised or kept,
\* and the page ends in a traceback.  Whether Streamlit forgets the widgets
\* that were not built is left open.
Raise(s) ==
  /\ \/ pc[s] = "computing"
     \/ \E on \in {"Diff", "Live Scan"} : Going(s, on) /\ ev[s].ready
  /\ view' = [view EXCEPT ![s] = Card(s, "traceback")]
  /\ pc' = [pc EXCEPT ![s] = "idle"]
  /\ ev' = [ev EXCEPT ![s] = Rerun]
  /\ got' = [got EXCEPT ![s] = {}]
  /\ rowsPer' \in {rowsPer, [rowsPer EXCEPT ![s] = [k \in Tables |-> DefaultRows]]}
  /\ UNCHANGED <<tree, memo, diffMemo, held, page, nav, pending, edits, clicks>>

\* The log has been played to its end: the report is the session's.
Keep(s) ==
  /\ At(s, "log")
  /\ held' = [held EXCEPT ![s]["results"] = got[s]]
  /\ got' = [got EXCEPT ![s] = {}]
  /\ pc' = [pc EXCEPT ![s] = "show"]
  /\ UNCHANGED <<tree, memo, diffMemo, page, rowsPer, nav, pending, ev, view, edits,
                 clicks>>

-----------------------------------------------------------------------------
(* The Diff and Live Scan pages.                                           *)

\* A path that does not exist, or no source chosen.
NotReady(s) ==
  /\ \E on \in {"Diff", "Live Scan"} : Going(s, on)
  /\ ~ev[s].ready
  /\ Say(s, "notready")

Bug_NewTable(s, k, result) ==
  /\ held' = [held EXCEPT ![s][k] = @ \union result]
  /\ page' = [page EXCEPT ![s][k] = 1]
  /\ pc' = [pc EXCEPT ![s] = "show"]
NewTable(s, k, result) ==
  /\ held' = [held EXCEPT ![s][k] = result]
  /\ page' = [page EXCEPT ![s][k] = 1]
  /\ pc' = [pc EXCEPT ![s] = "show"]

Diff(s) ==
  /\ Going(s, "Diff")
  /\ ev[s].ready
  /\ IF diffMemo # {} THEN diffMemo' = diffMemo
     ELSE \E d \in Lists : diffMemo' = {d}
  /\ NewTable(s, "diff", diffMemo')
  /\ UNCHANGED <<tree, memo, rowsPer, nav, pending, ev, got, view, edits, clicks>>

LiveScan(s) ==
  /\ Going(s, "Live Scan")
  /\ ev[s].ready
  /\ \E l \in Lists : NewTable(s, "live_results", {l})
  /\ UNCHANGED <<tree, memo, diffMemo, rowsPer, nav, pending, ev, got, view, edits,
                 clicks>>

-----------------------------------------------------------------------------
(* What the pages show.                                                    *)

\* The script has nothing left to do but to show table k.
Showing(s, k) ==
  /\ nav[s] \in {"Scan", "Diff", "Live Scan"}
  /\ TableOf(nav[s]) = k
  /\ \/ At(s, "show")
     \/ At(s, "page") /\ ~Running(s) /\ ~\E on \in Navs : Going(s, on)

\* Scan says so only of no report; an empty diff or live scan has no table.
Nothing(s) ==
  /\ \E k \in Tables :
       /\ Showing(s, k)
       /\ \A r \in held[s][k] : k # "results" /\ r.rows = 0
  /\ Say(s, "empty")

\* _paginate: clamp the page, then obey the buttons with a rerun.
Bug_Turn(s, k, to) ==
  /\ page' = [page EXCEPT ![s][k] = to]
  /\ pc' = [pc EXCEPT ![s] = "page"]
  /\ UNCHANGED <<ev, rowsPer, view>>
Turn(s, k, to) ==
  /\ page' = [page EXCEPT ![s][k] = to]
  /\ ev' = [ev EXCEPT ![s] = Rerun]
  /\ pc' = [pc EXCEPT ![s] = "page"]
  /\ UNCHANGED <<rowsPer, view>>

Paginate(s) ==
  \E k \in Tables : \E r \in held[s][k] :
    LET per   == Per(rowsPer[s][k], r.rows)
        pages == PageCount(r.rows, per)
        p     == Clamped(page[s][k], pages)
    IN /\ Showing(s, k)
       /\ k = "results" \/ r.rows > 0
       /\ \/ /\ ev[s] = [kind |-> "prev", table |-> k]
             /\ Turn(s, k, p - 1)
          \/ /\ ev[s] = [kind |-> "next", table |-> k]
             /\ Turn(s, k, p + 1)
          \/ /\ ev[s] \notin [kind : {"prev", "next"}, table : {k}]
             /\ page' = [page EXCEPT ![s][k] = p]
             /\ Finish(s, [nav |-> nav[s], card |-> "rows", asked |-> Asked(s),
                           table |-> k, page |-> p, pages |-> pages, of |-> r,
                           window |-> Window(p, per, r.rows)])
       /\ UNCHANGED <<tree, memo, diffMemo, held, nav, pending, got, edits, clicks>>

\* page_patch marks the missing patches in copies of the candidates.
Bug_PatchGap(s) ==
  /\ At(s, "page")
  /\ nav[s] = "Patch Gap"
  /\ held' = [held EXCEPT ![s]["results"] = {[r EXCEPT !.marked = TRUE] : r \in @}]
  /\ Finish(s, Card(s, IF held[s]["results"] = {} THEN "empty" ELSE "patches"))
  /\ UNCHANGED <<tree, memo, diffMemo, page, nav, pending, got, edits, clicks>>
PatchGap(s) ==
  /\ At(s, "page")
  /\ nav[s] = "Patch Gap"
  /\ Say(s, IF held[s]["results"] = {} THEN "empty" ELSE "patches")

Cache(s) ==
  /\ At(s, "page")
  /\ nav[s] = "Cache"
  /\ Say(s, "cache")

-----------------------------------------------------------------------------
(* Specification.                                                          *)

Init ==
  /\ tree \in [Paths -> Trees]
  /\ memo = {} /\ diffMemo = {}
  /\ held = [s \in Sessions |-> [k \in Tables |-> {}]]
  /\ page = [s \in Sessions |-> [k \in Tables |-> 1]]
  /\ rowsPer = [s \in Sessions |-> [k \in Tables |-> DefaultRows]]
  /\ nav = [s \in Sessions |-> "Scan"]
  /\ pending = [s \in Sessions |-> {}]
  /\ ev = [s \in Sessions |-> Rerun]
  /\ pc = [s \in Sessions |-> "idle"]
  /\ got = [s \in Sessions |-> {}]
  /\ view = [s \in Sessions |-> FirstPage]
  /\ edits = 0 /\ clicks = 0

Step(s) ==
  \/ Begin(s) \/ NotFound(s) \/ Check(s) \/ CallHit(s) \/ CallMiss(s)
  \/ Memoise(s) \/ Raise(s) \/ Keep(s) \/ NotReady(s) \/ Diff(s) \/ LiveScan(s)
  \/ Nothing(s) \/ Paginate(s) \/ PatchGap(s) \/ Cache(s)

User(s) == \E c \in Clicks : Click(s, c)

Next ==
  \/ \E p \in Paths : Edit(p)
  \/ \E s \in Sessions : User(s) \/ Step(s)

\* A scan with an LLM is under way that the session waits for, its own or one
\* of the same settings.  Some backends hand their client no timeout.
AwaitsLlm(s) ==
  /\ pc[s] \in {"call", "computing"}
  /\ ev[s].cfg.backend = "llm"
  /\ \E t \in Sessions : pc[t] = "computing" /\ ev[t].cfg = ev[s].cfg

\* The thread of a session gets on where no LLM has to answer; nobody has to
\* click.
Fairness == \A s \in Sessions : WF_vars(~ AwaitsLlm(s) /\ Step(s))

Spec == Init /\ [][Next]_vars

FairSpec == Spec /\ Fairness

-----------------------------------------------------------------------------
(* Properties.                                                             *)

Views ==
  [nav : Navs, asked : SUBSET Requests,
          card : {"notfound", "notready", "empty", "patches", "cache", "traceback"}]
  \union [nav : Navs, asked : SUBSET Requests, card : {"rows"},
          table : Tables, page : Nat, pages : Nat, of : Reports \union Lists,
          window : [start : Nat, end : Nat]]

AtMostOne(S) == \A x, y \in S : x = y

Results(k) == IF k = "results" THEN Reports ELSE Lists

TableType(h) ==
  /\ DOMAIN h = Tables
  /\ \A k \in Tables : h[k] \subseteq Results(k) /\ AtMostOne(h[k])

(* Every variable has its shape, and what may be absent is there at most    *)
(* once: st.session_state holds one report of each page.                   *)
TypeOK ==
  /\ tree \in [Paths -> Trees]
  /\ memo \subseteq Reports
  /\ diffMemo \subseteq Lists /\ AtMostOne(diffMemo)
  /\ DOMAIN held = Sessions /\ \A s \in Sessions : TableType(held[s])
  /\ page \in [Sessions -> [Tables -> Nat]]
  /\ rowsPer \in [Sessions -> [Tables -> RowChoices \union {All}]]
  /\ nav \in [Sessions -> Navs]
  /\ pending \in [Sessions -> SUBSET Clicks]
  /\ ev \in [Sessions -> Clicks \union {Rerun}]
  /\ pc \in [Sessions -> {"page", "call", "computing", "log", "show", "idle"}]
  /\ got \in [Sessions -> SUBSET Reports]
  /\ view \in [Sessions -> Views]
  /\ edits \in 0 .. MaxEdits /\ clicks \in 0 .. MaxClicks

(* A table in the browser is a page of its report: the number is one of the *)
(* pages, the rows are there, and they end with the report on the last page *)
(* only.  The page number outlives a change of the rows per page, a report  *)
(* that shrinks, and a click on a table that is about to go (app.py:391).   *)
PageWithinReport ==
  \A s \in Sessions : Shown(s) =>
    LET v == view[s] IN
    /\ v.page \in 1 .. v.pages
    /\ v.of.rows > 0 => v.window.start < v.window.end
    /\ v.window.end <= v.of.rows
    /\ v.window.end = v.of.rows <=> v.page = v.pages

(* The page that answers Run Scan says that the path is not there, is the   *)
(* traceback of a scan that raised, or shows a report of the settings that  *)
(* were asked for: never an older report, whatever other sessions put in    *)
(* the memo and whatever clicks came in between (app.py:283, 533, 549).     *)
ViewAnswersClick ==
  \A s \in Sessions :
    view[s].nav = "Scan" =>
      \A c \in view[s].asked :
        \/ view[s].card \in {"notfound", "traceback"}
        \/ view[s].card = "rows" /\ view[s].of.cfg = c

(* The memo holds one report of each settings, and the report a session     *)
(* holds is that one: two sessions that asked for the same see the same,    *)
(* and the Patch Gap page of neither changes it (app.py:283, 672).          *)
SessionsAgree ==
  /\ \A r1, r2 \in memo : r1.cfg = r2.cfg => r1 = r2
  /\ \A s \in Sessions : held[s]["results"] \subseteq memo

(* Every click is served in the end, by a page that is complete, unless an  *)
(* LLM the session waits for never answers: no rerun brings about the next  *)
(* one, and a scan that raises leaves nobody waiting (app.py:404-411, 549). *)
EveryClickSettles ==
  \A s \in Sessions :
    []<> ~ AwaitsLlm(s) =>
      (pending[s] # {} ~> (pending[s] = {} /\ pc[s] = "idle"))

=============================================================================
