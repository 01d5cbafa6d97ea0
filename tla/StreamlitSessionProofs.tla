----------------------- MODULE StreamlitSessionProofs -----------------------
(***************************************************************************)
(* The safety of the Streamlit dashboard for any number of sessions,       *)
(* settings, clicks and rows: a table shown is a page of its report, a     *)
(* report shown for Run Scan is of the settings asked for, and sessions    *)
(* agree with the memo they share.                                         *)
(***************************************************************************)
EXTENDS StreamlitSession, TLAPS

\* A scan in progress belongs to a Run Scan click on the Scan page, and what
\* it has got so far is one report of the settings asked for ...
Scanning ==
  \A s \in Sessions : pc[s] \in {"call", "computing", "log"} =>
    /\ ev[s].kind = "run" /\ nav[s] = "Scan"
    /\ pc[s] # "call" =>
         /\ got[s] # {} /\ AtMostOne(got[s])
         /\ \A r \in got[s] : r.cfg = ev[s].cfg

\* ... that nobody else has put or will put in the memo first ...
Computing ==
  \A s \in Sessions : pc[s] = "computing" =>
    /\ Hits(ev[s].cfg) = {}
    /\ \A t \in Sessions \ {s} : pc[t] = "computing" => ev[t].cfg # ev[s].cfg

\* ... and that is in the memo by the time the log is played.
Logged == \A s \in Sessions : pc[s] = "log" => got[s] \subseteq memo

\* What is about to be shown on the Scan page answers the click.
Answered ==
  \A s \in Sessions : pc[s] = "show" /\ nav[s] = "Scan" =>
    /\ held[s]["results"] # {}
    /\ \A r \in held[s]["results"] : r.cfg = ev[s].cfg

IInv ==
  /\ TypeOK
  /\ Scanning /\ Computing /\ Logged /\ Answered
  /\ PageWithinReport
  /\ ViewAnswersClick
  /\ SessionsAgree

-----------------------------------------------------------------------------
(* The pager.                                                              *)

\* Division rounds down.
LEMMA DivRoundsDown ==
  ASSUME NEW n \in Nat, NEW d \in Nat \ {0}
  PROVE  /\ n \div d \in Nat
         /\ (n \div d) * d <= n
         /\ n < (n \div d) * d + d
BY SMT

LEMMA TimesMonotone ==
  ASSUME NEW a \in Nat, NEW b \in Nat, NEW d \in Nat, a <= b
  PROVE  a * d \in Nat /\ b * d \in Nat /\ a * d <= b * d
BY SMT

\* The number of pages is that of the rows divided by the rows per page,
\* rounded up, and one when there are no rows (app.py:397-399).
LEMMA PagesRoundUp ==
  ASSUME NEW total \in Nat, NEW per \in Nat \ {0}
  PROVE  LET pages == PageCount(total, per) IN
         /\ pages \in Nat \ {0}
         /\ total <= pages * per
         /\ (pages - 1) * per < total \/ (total = 0 /\ pages = 1)
<1> DEFINE n == total + per - 1
           q == n \div per
<1>1. n \in Nat
  OBVIOUS
<1>2. q \in Nat /\ q * per <= n /\ n < q * per + per /\ q * per \in Nat
  BY <1>1, DivRoundsDown, SMT
<1>3. CASE q >= 1
  <2>1. PageCount(total, per) = q
    BY <1>2, <1>3 DEF PageCount, AtLeastOne
  <2>2. (q - 1) * per = q * per - per
    BY <1>2, SMT
  <2> HIDE DEF q
  <2>3. total <= q * per /\ q * per - per < total
    BY <1>2 DEF n
  <2>4. q - 1 \in Nat
    BY <1>2, <1>3
  <2>5. /\ q \in Nat \ {0}
        /\ total <= q * per
        /\ (q - 1) * per < total \/ (total = 0 /\ q = 1)
    BY <1>2, <1>3, <2>2, <2>3, <2>4
  <2> QED BY <2>1, <2>5, Zenon
<1>4. CASE q < 1
  <2>1. PageCount(total, per) = 1 /\ q = 0
    BY <1>2, <1>4 DEF PageCount, AtLeastOne
  <2>2. q * per = 0
    BY <2>1, SMT
  <2>3. total = 0
    BY <1>2, <2>2
  <2> QED BY <2>1, <2>3
<1> QED BY <1>2, <1>3, <1>4

\* A page number that was clamped names a window of the rows, which is empty
\* only when there are none and ends with the rows on the last page only.
LEMMA ClampedWindow ==
  ASSUME NEW total \in Nat, NEW per \in Nat \ {0}, NEW page0 \in Nat
  PROVE  LET pages == PageCount(total, per)
             p     == Clamped(page0, pages)
             w     == Window(p, per, total)
         IN  /\ pages \in Nat /\ p \in 1 .. pages
             /\ w \in [start : Nat, end : Nat]
             /\ total > 0 => w.start < w.end
             /\ w.end <= total
             /\ w.end = total <=> p = pages
<1> DEFINE pages == PageCount(total, per)
           p == Clamped(page0, pages)
           w == Window(p, per, total)
<1> SUFFICES /\ pages \in Nat /\ p \in 1 .. pages
             /\ w \in [start : Nat, end : Nat]
             /\ total > 0 => w.start < w.end
             /\ w.end <= total
             /\ w.end = total <=> p = pages
  OBVIOUS
<1>1. /\ pages \in Nat \ {0}
      /\ total <= pages * per
      /\ (pages - 1) * per < total \/ (total = 0 /\ pages = 1)
  BY PagesRoundUp
<1> HIDE DEF pages
<1>2. p \in 1 .. pages
  BY <1>1 DEF Clamped, AtLeastOne
<1> HIDE DEF p
<1>3. /\ (p - 1) * per \in Nat /\ (pages - 1) * per \in Nat
      /\ (p - 1) * per <= (pages - 1) * per
  BY <1>1, <1>2, TimesMonotone
<1>4. (p - 1) * per + per = p * per
  BY <1>1, <1>2, SMT
<1>5. p < pages => p * per <= (pages - 1) * per
  <2> SUFFICES ASSUME p < pages PROVE p * per <= (pages - 1) * per
    OBVIOUS
  <2>1. p \in Nat /\ pages - 1 \in Nat /\ p <= pages - 1
    BY <1>1, <1>2
  <2> QED BY <2>1, TimesMonotone
<1>6. p * per \in Nat /\ pages * per \in Nat
  BY <1>1, <1>2, SMT
<1> DEFINE start == (p - 1) * per
<1>7. w = [start |-> start, end |-> IF start + per < total THEN start + per ELSE total]
  BY DEF Window
<1>8. CASE p = pages
  <2>1. total <= start + per
    BY <1>1, <1>4, <1>8
  <2>2. start < total \/ total = 0
    BY <1>1, <1>8
  <2>3. w.end = total /\ w.start = start /\ start \in Nat
    BY <1>3, <1>7, <2>1
  <2> QED BY <1>1, <1>2, <1>7, <1>8, <2>2, <2>3
<1>9. CASE p < pages
  <2>1. total > 0
    BY <1>1, <1>2, <1>3, <1>9
  <2>2. start + per < total
    BY <1>1, <1>3, <1>4, <1>5, <1>6, <1>9, <2>1
  <2> QED BY <1>1, <1>2, <1>3, <1>7, <1>9, <2>1, <2>2
<1> QED BY <1>1, <1>2, <1>8, <1>9

-----------------------------------------------------------------------------
(* Shapes.                                                                 *)

\* A click carries what its kind needs.
LEMMA ClickShape ==
  ASSUME NEW c \in Clicks \union {Rerun}
  PROVE  /\ c.kind = "run" => c.cfg \in Requests /\ c.cfg \in Cfgs
         /\ c.kind = "nav" => c.to \in Navs
         /\ c.kind = "rows" => c.table \in Tables /\ c.per \in RowChoices \union {All}
<1>1. CASE c = Rerun
  BY <1>1 DEF Rerun
<1>2. CASE c \in [kind : {"run"}, cfg : Requests]
  BY <1>2, RequestsAssumption
<1>3. CASE c \in [kind : {"nav"}, to : Navs]
  BY <1>3
<1>4. CASE c \in [kind : {"go"}, on : {"Diff", "Live Scan"}, ready : BOOLEAN]
  BY <1>4
<1>5. CASE c \in [kind : {"prev", "next"}, table : Tables]
  BY <1>5
<1>6. CASE c \in [kind : {"rows"}, table : Tables, per : RowChoices \union {All}]
  BY <1>6
<1>7. CASE c \in [kind : {"other"}]
  BY <1>7
<1> QED BY <1>1, <1>2, <1>3, <1>4, <1>5, <1>6, <1>7 DEF Clicks

\* A complete page leaves the session idle, with values of the right shape.
LEMMA FinishType ==
  ASSUME TypeOK, NEW s \in Sessions, NEW v \in Views, Finish(s, v)
  PROVE  /\ view' \in [Sessions -> Views]
         /\ pc' \in [Sessions -> {"page", "call", "computing", "log", "show", "idle"}]
         /\ ev' \in [Sessions -> Clicks \union {Rerun}]
         /\ rowsPer' \in [Sessions -> [Tables -> RowChoices \union {All}]]
         /\ pc'[s] = "idle" /\ view'[s] = v
         /\ \A t \in Sessions \ {s} :
              pc'[t] = pc[t] /\ ev'[t] = ev[t] /\ view'[t] = view[t]
<1>1. view' \in [Sessions -> Views] /\ view'[s] = v
  BY DEF TypeOK, Finish
<1>2. /\ pc' \in [Sessions -> {"page", "call", "computing", "log", "show", "idle"}]
      /\ ev' \in [Sessions -> Clicks \union {Rerun}]
      /\ pc'[s] = "idle"
  BY DEF TypeOK, Finish
<1>3. rowsPer' \in [Sessions -> [Tables -> RowChoices \union {All}]]
  <2>1. [k \in Tables |-> IF v.card = "rows" /\ v.table = k THEN rowsPer[s][k]
                          ELSE DefaultRows] \in [Tables -> RowChoices \union {All}]
    BY RowsAssumption DEF TypeOK
  <2> QED BY <2>1 DEF TypeOK, Finish
<1> QED BY <1>1, <1>2, <1>3 DEF TypeOK, Finish

\* The settings of the click are those of a request.
LEMMA AskedType ==
  ASSUME TypeOK, NEW s \in Sessions
  PROVE  Asked(s) \in SUBSET Requests
BY ClickShape DEF TypeOK, Asked

-----------------------------------------------------------------------------
(* Steps that touch neither the memo nor what a session holds.             *)

\* What the invariant says of the scans, and of the sessions that a step
\* leaves alone.
LEMMA ScansUndisturbed ==
  ASSUME IInv, NEW s \in Sessions,
         memo' = memo, held' = held,
         \A t \in Sessions \ {s} :
           /\ pc'[t] = pc[t] /\ ev'[t] = ev[t]
           /\ nav'[t] = nav[t] /\ got'[t] = got[t],
         pc'[s] \in {"page", "idle"}
  PROVE  (Scanning /\ Computing /\ Logged /\ Answered /\ SessionsAgree)'
<1>1. \A t \in Sessions : pc'[t] \notin {"page", "idle"} => t # s
  OBVIOUS
<1>2. Scanning'
  BY <1>1 DEF IInv, Scanning
<1>3. Computing'
  BY <1>1 DEF IInv, Computing, Hits
<1>4. Logged'
  BY <1>1 DEF IInv, Logged
<1>5. Answered'
  BY <1>1 DEF IInv, Answered
<1>6. SessionsAgree'
  BY DEF IInv, SessionsAgree
<1> QED BY <1>2, <1>3, <1>4, <1>5, <1>6

\* A page that is complete and shows no table.
LEMMA InvSay ==
  ASSUME IInv, NEW s \in Sessions,
         NEW card \in {"notfound", "notready", "empty", "patches", "cache"},
         nav[s] = "Scan" => card = "notfound" \/ Asked(s) = {},
         Say(s, card)
  PROVE  IInv'
<1> DEFINE v == Card(s, card)
<1>1. v \in Views /\ v.card = card /\ v.nav = nav[s] /\ v.asked = Asked(s)
  BY AskedType DEF IInv, TypeOK, Card, Views
<1> HIDE DEF v
<1>2. /\ Finish(s, v)
      /\ UNCHANGED <<tree, memo, diffMemo, held, page, nav, pending, got, edits, clicks>>
  BY DEF Say, v
<1>3. /\ view' \in [Sessions -> Views]
      /\ pc' \in [Sessions -> {"page", "call", "computing", "log", "show", "idle"}]
      /\ ev' \in [Sessions -> Clicks \union {Rerun}]
      /\ rowsPer' \in [Sessions -> [Tables -> RowChoices \union {All}]]
      /\ pc'[s] = "idle" /\ view'[s] = v
      /\ \A t \in Sessions \ {s} :
           pc'[t] = pc[t] /\ ev'[t] = ev[t] /\ view'[t] = view[t]
  BY <1>1, <1>2, FinishType DEF IInv
<1>4. TypeOK'
  BY <1>2, <1>3 DEF IInv, TypeOK
<1>5. (Scanning /\ Computing /\ Logged /\ Answered /\ SessionsAgree)'
  BY <1>2, <1>3, ScansUndisturbed
<1>6. PageWithinReport'
  BY <1>1, <1>3 DEF IInv, PageWithinReport, Shown
<1>7. ViewAnswersClick'
  BY <1>1, <1>2, <1>3 DEF IInv, ViewAnswersClick
<1> QED BY <1>4, <1>5, <1>6, <1>7 DEF IInv

\* The page ends in a traceback, and what the scan had got is lost.
LEMMA InvRaise ==
  ASSUME IInv, NEW s \in Sessions, Raise(s)
  PROVE  IInv'
<1> DEFINE v == Card(s, "traceback")
<1>1. v \in Views /\ v.card = "traceback"
  BY AskedType DEF IInv, TypeOK, Card, Views
<1>2. /\ view' = [view EXCEPT ![s] = v]
      /\ pc' = [pc EXCEPT ![s] = "idle"]
      /\ ev' = [ev EXCEPT ![s] = Rerun]
      /\ got' = [got EXCEPT ![s] = {}]
      /\ rowsPer' \in {rowsPer, [rowsPer EXCEPT ![s] = [k \in Tables |-> DefaultRows]]}
      /\ UNCHANGED <<tree, memo, diffMemo, held, page, nav, pending, edits, clicks>>
  BY DEF Raise
<1> HIDE DEF v
<1>3. rowsPer' \in [Sessions -> [Tables -> RowChoices \union {All}]]
  <2>1. [k \in Tables |-> DefaultRows] \in [Tables -> RowChoices \union {All}]
    BY RowsAssumption
  <2> QED BY <1>2, <2>1 DEF IInv, TypeOK
<1>4. TypeOK'
  BY <1>1, <1>2, <1>3 DEF IInv, TypeOK
<1>5. /\ pc'[s] = "idle" /\ view'[s] = v
      /\ \A t \in Sessions \ {s} :
           /\ pc'[t] = pc[t] /\ ev'[t] = ev[t] /\ view'[t] = view[t]
           /\ nav'[t] = nav[t] /\ got'[t] = got[t]
  BY <1>2 DEF IInv, TypeOK
<1>6. (Scanning /\ Computing /\ Logged /\ Answered /\ SessionsAgree)'
  BY <1>2, <1>5, ScansUndisturbed
<1>7. PageWithinReport'
  BY <1>1, <1>5 DEF IInv, PageWithinReport, Shown
<1>8. ViewAnswersClick'
  BY <1>1, <1>5 DEF IInv, ViewAnswersClick
<1> QED BY <1>4, <1>6, <1>7, <1>8 DEF IInv

\* A step of the world or a new click.
LEMMA InvWorld ==
  ASSUME IInv,
         \/ \E p \in Paths : Edit(p)
         \/ \E s \in Sessions : User(s)
  PROVE  IInv'
<1>1. UNCHANGED <<memo, diffMemo, held, page, rowsPer, nav, ev, pc, got, view>>
  BY DEF Edit, User, Click
<1>2. TypeOK'
  <2>1. CASE \E p \in Paths : Edit(p)
    <3>1. tree' \in [Paths -> Trees] /\ edits' \in 0 .. MaxEdits
      BY <2>1, LimitsAssumption DEF Edit, IInv, TypeOK
    <3>2. UNCHANGED <<pending, clicks>>
      BY <2>1 DEF Edit
    <3> QED BY <1>1, <3>1, <3>2 DEF IInv, TypeOK
  <2>2. CASE \E s \in Sessions : User(s)
    <3>1. PICK s \in Sessions, c \in Clicks : Click(s, c)
      BY <2>2 DEF User
    <3>2. pending' \in [Sessions -> SUBSET Clicks] /\ clicks' \in 0 .. MaxClicks
      BY <3>1, LimitsAssumption DEF Click, IInv, TypeOK
    <3>3. UNCHANGED <<tree, edits>>
      BY <3>1 DEF Click
    <3> QED BY <1>1, <3>2, <3>3 DEF IInv, TypeOK
  <2> QED BY <2>1, <2>2
<1>3. Scanning' /\ Computing' /\ Logged' /\ Answered'
  BY <1>1 DEF IInv, Scanning, Computing, Hits, Logged, Answered
<1>4. PageWithinReport' /\ ViewAnswersClick' /\ SessionsAgree'
  BY <1>1 DEF IInv, PageWithinReport, Shown, ViewAnswersClick, SessionsAgree
<1> QED BY <1>2, <1>3, <1>4 DEF IInv

\* The script starts afresh.
LEMMA InvBegin ==
  ASSUME IInv, NEW s \in Sessions, Begin(s)
  PROVE  IInv'
<1>1. PICK c \in pending[s] :
        /\ ev' = [ev EXCEPT ![s] = c]
        /\ nav' = [nav EXCEPT ![s] = IF c.kind = "nav" THEN c.to ELSE @]
        /\ rowsPer' = IF c.kind = "rows"
                        THEN [rowsPer EXCEPT ![s][c.table] = c.per] ELSE rowsPer
  BY DEF Begin
<1>2. /\ pending' = [pending EXCEPT ![s] = {}] /\ pc' = [pc EXCEPT ![s] = "page"]
      /\ got' = [got EXCEPT ![s] = {}] /\ pc[s] # "computing"
      /\ UNCHANGED <<tree, memo, diffMemo, held, page, view, edits, clicks>>
  BY DEF Begin
<1>3. c \in Clicks
  BY DEF IInv, TypeOK
<1>4. TypeOK'
  <2>1. nav' \in [Sessions -> Navs]
    BY <1>1, <1>3, ClickShape DEF IInv, TypeOK
  <2>2. rowsPer' \in [Sessions -> [Tables -> RowChoices \union {All}]]
    BY <1>1, <1>3, ClickShape DEF IInv, TypeOK
  <2>3. /\ ev' \in [Sessions -> Clicks \union {Rerun}]
        /\ got' \in [Sessions -> SUBSET Reports]
        /\ pending' \in [Sessions -> SUBSET Clicks]
        /\ pc' \in [Sessions -> {"page", "call", "computing", "log", "show", "idle"}]
    BY <1>1, <1>2, <1>3 DEF IInv, TypeOK
  <2> QED BY <1>2, <2>1, <2>2, <2>3 DEF IInv, TypeOK
<1>5. /\ pc'[s] = "page"
      /\ \A t \in Sessions \ {s} :
           /\ pc'[t] = pc[t] /\ ev'[t] = ev[t]
           /\ nav'[t] = nav[t] /\ got'[t] = got[t]
  BY <1>1, <1>2 DEF IInv, TypeOK
<1>6. (Scanning /\ Computing /\ Logged /\ Answered /\ SessionsAgree)'
  BY <1>2, <1>5, ScansUndisturbed
<1>7. PageWithinReport' /\ ViewAnswersClick'
  BY <1>2 DEF IInv, PageWithinReport, Shown, ViewAnswersClick
<1> QED BY <1>4, <1>6, <1>7 DEF IInv

\* Pages that end in a message.
LEMMA InvMessage ==
  ASSUME IInv, NEW s \in Sessions,
         \/ NotFound(s) \/ NotReady(s) \/ Nothing(s) \/ PatchGap(s) \/ Cache(s)
  PROVE  IInv'
<1>1. CASE NotFound(s)
  BY <1>1, InvSay DEF NotFound, Running, At
<1>2. CASE NotReady(s)
  <2>1. pc[s] = "page" /\ nav[s] # "Scan" /\ Say(s, "notready")
    BY <1>2 DEF NotReady, Going, At
  <2> QED BY <2>1, InvSay
<1>3. CASE Nothing(s)
  <2>1. PICK k \in Tables :
          Showing(s, k) /\ \A r \in held[s][k] : k # "results" /\ r.rows = 0
    BY <1>3 DEF Nothing
  <2>2. Say(s, "empty")
    BY <1>3 DEF Nothing
  <2>3. nav[s] = "Scan" => Asked(s) = {}
    <3> SUFFICES ASSUME nav[s] = "Scan" PROVE Asked(s) = {}
      OBVIOUS
    <3>1. k = "results" /\ held[s]["results"] = {}
      BY <2>1 DEF Showing, TableOf
    <3>2. pc[s] # "show"
      BY <3>1 DEF IInv, Answered
    <3>3. ev[s].kind # "run"
      BY <2>1, <3>2 DEF Showing, Running, At
    <3> QED BY <3>3 DEF Asked
  <2> QED BY <2>2, <2>3, InvSay
<1>4. CASE PatchGap(s)
  <2>1. pc[s] = "page" /\ nav[s] # "Scan"
    BY <1>4 DEF PatchGap, At
  <2>2. Say(s, "empty") \/ Say(s, "patches")
    BY <1>4 DEF PatchGap
  <2> QED BY <2>1, <2>2, InvSay
<1>5. CASE Cache(s)
  <2>1. pc[s] = "page" /\ nav[s] # "Scan" /\ Say(s, "cache")
    BY <1>5 DEF Cache, At
  <2> QED BY <2>1, InvSay
<1> QED BY <1>1, <1>2, <1>3, <1>4, <1>5

-----------------------------------------------------------------------------
(* A scan.                                                                 *)

\* Tables that are not touched stay in the browser.
LEMMA ViewsStay ==
  ASSUME IInv, view' = view
  PROVE  PageWithinReport' /\ ViewAnswersClick'
BY DEF IInv, PageWithinReport, Shown, ViewAnswersClick

\* The path exists and the scan is called.
LEMMA InvCheck ==
  ASSUME IInv, NEW s \in Sessions, Check(s)
  PROVE  IInv'
<1>1. /\ pc[s] = "page" /\ nav[s] = "Scan" /\ ev[s].kind = "run"
      /\ pc' = [pc EXCEPT ![s] = "call"]
      /\ UNCHANGED <<tree, memo, diffMemo, held, page, rowsPer, nav, pending, ev, got,
                     view, edits, clicks>>
  BY DEF Check, Running, At
<1>2. TypeOK'
  BY <1>1 DEF IInv, TypeOK
<1>3. pc'[s] = "call" /\ \A t \in Sessions \ {s} : pc'[t] = pc[t]
  BY <1>1 DEF IInv, TypeOK
<1>4. Scanning' /\ Computing' /\ Logged' /\ Answered'
  BY <1>1, <1>3 DEF IInv, Scanning, Computing, Hits, Logged, Answered
<1>5. SessionsAgree'
  BY <1>1 DEF IInv, SessionsAgree
<1> QED BY <1>1, <1>2, <1>4, <1>5, ViewsStay DEF IInv

\* The memo answers.
LEMMA InvCallHit ==
  ASSUME IInv, NEW s \in Sessions, CallHit(s)
  PROVE  IInv'
<1>1. /\ pc[s] = "call" /\ Hits(ev[s].cfg) # {}
      /\ got' = [got EXCEPT ![s] = Hits(ev[s].cfg)]
      /\ pc' = [pc EXCEPT ![s] = "log"]
      /\ UNCHANGED <<tree, memo, diffMemo, held, page, rowsPer, nav, pending, ev, view,
                     edits, clicks>>
  BY DEF CallHit
<1>2. TypeOK'
  <2>1. Hits(ev[s].cfg) \subseteq Reports
    BY DEF Hits, IInv, TypeOK
  <2> QED BY <1>1, <2>1 DEF IInv, TypeOK
<1>3. /\ pc'[s] = "log" /\ got'[s] = Hits(ev[s].cfg)
      /\ \A t \in Sessions \ {s} : pc'[t] = pc[t] /\ got'[t] = got[t]
  BY <1>1 DEF IInv, TypeOK
<1>4. Scanning'
  <2>1. AtMostOne(Hits(ev[s].cfg)) /\ \A r \in Hits(ev[s].cfg) : r.cfg = ev[s].cfg
    BY DEF IInv, SessionsAgree, AtMostOne, Hits
  <2> QED BY <1>1, <1>3, <2>1 DEF IInv, Scanning
<1>5. Computing'
  BY <1>1, <1>3 DEF IInv, Computing, Hits
<1>6. Logged' /\ Answered'
  BY <1>1, <1>3 DEF IInv, Logged, Answered, Hits
<1>7. SessionsAgree'
  BY <1>1 DEF IInv, SessionsAgree
<1> QED BY <1>1, <1>2, <1>4, <1>5, <1>6, <1>7, ViewsStay DEF IInv

\* The memo has no answer and nobody computes one: this session does.
LEMMA InvCallMiss ==
  ASSUME IInv, NEW s \in Sessions, CallMiss(s)
  PROVE  IInv'
<1>1. /\ pc[s] = "call" /\ Hits(ev[s].cfg) = {}
      /\ \A t \in Sessions : pc[t] = "computing" => ev[t].cfg # ev[s].cfg
      /\ pc' = [pc EXCEPT ![s] = "computing"]
      /\ UNCHANGED <<tree, memo, diffMemo, held, page, rowsPer, nav, pending, ev, view,
                     edits, clicks>>
  BY DEF CallMiss
<1>2. PICK m \in {"answered", "fallback"} :
        got' = [got EXCEPT ![s] =
          {[cfg |-> ev[s].cfg, rows |-> tree[ev[s].cfg.path].rows, model |-> m,
            marked |-> ev[s].cfg.patch_gap]}]
  BY DEF CallMiss
<1> DEFINE r == [cfg |-> ev[s].cfg, rows |-> tree[ev[s].cfg.path].rows, model |-> m,
                 marked |-> ev[s].cfg.patch_gap]
<1>3. r \in Reports /\ r.cfg = ev[s].cfg
  <2>1. ev[s].cfg \in Cfgs
    BY <1>1, ClickShape DEF IInv, TypeOK, Scanning
  <2>2. ev[s].cfg.path \in Paths /\ ev[s].cfg.patch_gap \in BOOLEAN
    BY <2>1 DEF Cfgs
  <2>3. tree[ev[s].cfg.path].rows \in TreeSizes \union {0}
    <3>1. tree[ev[s].cfg.path] \in Trees
      BY <2>2 DEF IInv, TypeOK
    <3>2. CASE tree[ev[s].cfg.path] = Gone
      BY <3>2 DEF Gone
    <3>3. CASE tree[ev[s].cfg.path] \in [exists : {TRUE}, rows : TreeSizes]
      BY <3>3
    <3> QED BY <3>1, <3>2, <3>3 DEF Trees
  <2> QED BY <2>1, <2>2, <2>3 DEF Reports
<1> HIDE DEF r
<1>4. got' = [got EXCEPT ![s] = {r}]
  BY <1>2 DEF r
<1>5. TypeOK'
  BY <1>1, <1>3, <1>4 DEF IInv, TypeOK
<1>6. /\ pc'[s] = "computing" /\ got'[s] = {r}
      /\ \A t \in Sessions \ {s} : pc'[t] = pc[t] /\ got'[t] = got[t]
  BY <1>1, <1>4 DEF IInv, TypeOK
<1>7. Scanning'
  BY <1>1, <1>3, <1>6 DEF IInv, Scanning, AtMostOne
<1>8. Computing'
  BY <1>1, <1>6 DEF IInv, Computing, Hits
<1>9. Logged' /\ Answered'
  BY <1>1, <1>6 DEF IInv, Logged, Answered
<1>10. SessionsAgree'
  BY <1>1 DEF IInv, SessionsAgree
<1> QED BY <1>1, <1>5, <1>7, <1>8, <1>9, <1>10, ViewsStay DEF IInv

\* The report joins the memo, where no other has its settings.
LEMMA InvMemoise ==
  ASSUME IInv, NEW s \in Sessions, Memoise(s)
  PROVE  IInv'
<1>1. /\ pc[s] = "computing" /\ memo' = memo \union got[s]
      /\ pc' = [pc EXCEPT ![s] = "log"]
      /\ UNCHANGED <<tree, diffMemo, held, page, rowsPer, nav, pending, ev, got, view,
                     edits, clicks>>
  BY DEF Memoise
<1>2. TypeOK'
  BY <1>1 DEF IInv, TypeOK
<1>3. pc'[s] = "log" /\ \A t \in Sessions \ {s} : pc'[t] = pc[t]
  BY <1>1 DEF IInv, TypeOK
<1>4. /\ AtMostOne(got[s]) /\ \A r \in got[s] : r.cfg = ev[s].cfg
      /\ \A r \in memo : r.cfg # ev[s].cfg
  BY <1>1 DEF IInv, Scanning, Computing, Hits
<1>5. Scanning'
  BY <1>1, <1>3 DEF IInv, Scanning
<1>6. Computing'
  <2> SUFFICES ASSUME NEW t \in Sessions, pc'[t] = "computing"
               PROVE  /\ Hits(ev[t].cfg)' = {}
                      /\ \A u \in Sessions \ {t} :
                           pc'[u] = "computing" => ev[u].cfg # ev[t].cfg
    BY <1>1 DEF Computing
  <2>1. t # s /\ pc[t] = "computing"
    BY <1>3
  <2>2. Hits(ev[t].cfg) = {} /\ ev[t].cfg # ev[s].cfg
    BY <1>1, <2>1 DEF IInv, Computing
  <2>3. Hits(ev[t].cfg)' = {}
    BY <1>1, <1>4, <2>2 DEF Hits
  <2>4. \A u \in Sessions \ {t} : pc'[u] = "computing" => ev[u].cfg # ev[t].cfg
    BY <1>3, <2>1 DEF IInv, Computing
  <2> QED BY <2>3, <2>4
<1>7. Logged' /\ Answered'
  BY <1>1, <1>3 DEF IInv, Logged, Answered
<1>8. SessionsAgree'
  BY <1>1, <1>4 DEF IInv, SessionsAgree, AtMostOne
<1> QED BY <1>1, <1>2, <1>5, <1>6, <1>7, <1>8, ViewsStay DEF IInv

\* The session takes the report for its own.
LEMMA InvKeep ==
  ASSUME IInv, NEW s \in Sessions, Keep(s)
  PROVE  IInv'
<1>1. /\ pc[s] = "log"
      /\ held' = [held EXCEPT ![s]["results"] = got[s]]
      /\ got' = [got EXCEPT ![s] = {}]
      /\ pc' = [pc EXCEPT ![s] = "show"]
      /\ UNCHANGED <<tree, memo, diffMemo, page, rowsPer, nav, pending, ev, view, edits,
                     clicks>>
  BY DEF Keep, At
<1>2. /\ got[s] # {} /\ AtMostOne(got[s]) /\ got[s] \subseteq memo
      /\ got[s] \subseteq Reports
      /\ \A r \in got[s] : r.cfg = ev[s].cfg
  BY <1>1 DEF IInv, Scanning, Logged, TypeOK
<1>3. /\ pc'[s] = "show"
      /\ \A t \in Sessions \ {s} :
           pc'[t] = pc[t] /\ got'[t] = got[t] /\ held'[t] = held[t]
  BY <1>1 DEF IInv, TypeOK
<1>4. /\ DOMAIN held' = Sessions /\ DOMAIN held'[s] = Tables
      /\ held'[s]["results"] = got[s]
      /\ \A k \in Tables : k # "results" => held'[s][k] = held[s][k]
  BY <1>1 DEF IInv, TypeOK, TableType, Tables
<1>5. TypeOK'
  <2>1. TableType(held'[s])
    BY <1>2, <1>4 DEF IInv, TypeOK, TableType, Results
  <2>2. \A t \in Sessions : TableType(held'[t])
    BY <1>3, <2>1 DEF IInv, TypeOK
  <2>3. /\ got' \in [Sessions -> SUBSET Reports]
        /\ pc' \in [Sessions -> {"page", "call", "computing", "log", "show", "idle"}]
    BY <1>1 DEF IInv, TypeOK
  <2> QED BY <1>1, <1>4, <2>2, <2>3 DEF IInv, TypeOK
<1>6. Scanning' /\ Logged'
  BY <1>1, <1>3 DEF IInv, Scanning, Logged
<1>7. Computing'
  BY <1>1, <1>3 DEF IInv, Computing, Hits
<1>8. Answered'
  BY <1>1, <1>2, <1>3, <1>4 DEF IInv, Answered
<1>9. SessionsAgree'
  BY <1>1, <1>2, <1>3, <1>4 DEF IInv, SessionsAgree
<1> QED BY <1>1, <1>5, <1>6, <1>7, <1>8, <1>9, ViewsStay DEF IInv

-----------------------------------------------------------------------------
(* The other tables.                                                       *)

\* A new table of another page than Scan.
LEMMA InvNewTable ==
  ASSUME IInv, NEW s \in Sessions, NEW k \in {"diff", "live_results"},
         NEW l \in Lists,
         pc[s] = "page", nav[s] # "Scan",
         NewTable(s, k, {l}),
         diffMemo' \subseteq Lists, AtMostOne(diffMemo)',
         UNCHANGED <<tree, memo, rowsPer, nav, pending, ev, got, view, edits, clicks>>
  PROVE  IInv'
<1>1. /\ held' = [held EXCEPT ![s][k] = {l}]
      /\ page' = [page EXCEPT ![s][k] = 1]
      /\ pc' = [pc EXCEPT ![s] = "show"]
  BY DEF NewTable
<1>2. /\ pc'[s] = "show"
      /\ \A t \in Sessions \ {s} : pc'[t] = pc[t] /\ held'[t] = held[t]
  BY <1>1 DEF IInv, TypeOK
<1>3. /\ DOMAIN held' = Sessions /\ DOMAIN held'[s] = Tables
      /\ held'[s][k] = {l}
      /\ \A j \in Tables \ {k} : held'[s][j] = held[s][j]
  BY <1>1 DEF IInv, TypeOK, TableType, Tables
<1>4. TypeOK'
  <2>1. TableType(held'[s])
    <3>1. TableType(held[s])
      BY DEF IInv, TypeOK
    <3>2. {l} \subseteq Results(k) /\ AtMostOne({l})
      BY DEF Results, AtMostOne
    <3> QED BY <1>3, <3>1, <3>2 DEF TableType
  <2>2. \A t \in Sessions : TableType(held'[t])
    BY <1>2, <2>1 DEF IInv, TypeOK
  <2>3. /\ page' \in [Sessions -> [Tables -> Nat]]
        /\ pc' \in [Sessions -> {"page", "call", "computing", "log", "show", "idle"}]
    BY <1>1 DEF IInv, TypeOK
  <2> QED BY <1>3, <2>2, <2>3 DEF IInv, TypeOK
<1>5. Scanning' /\ Logged'
  BY <1>2 DEF IInv, Scanning, Logged
<1>6. Computing'
  BY <1>2 DEF IInv, Computing, Hits
<1>7. Answered'
  BY <1>2 DEF IInv, Answered
<1>8. SessionsAgree'
  <2>1. \A t \in Sessions : held'[t]["results"] = held[t]["results"]
    BY <1>2, <1>3 DEF Tables
  <2> QED BY <2>1 DEF IInv, SessionsAgree
<1> QED BY <1>4, <1>5, <1>6, <1>7, <1>8, ViewsStay DEF IInv

\* A diff, new or remembered, and a live scan.
LEMMA InvDiffLive ==
  ASSUME IInv, NEW s \in Sessions, Diff(s) \/ LiveScan(s)
  PROVE  IInv'
<1>1. CASE Diff(s)
  <2>1. /\ pc[s] = "page" /\ nav[s] = "Diff"
        /\ NewTable(s, "diff", diffMemo')
        /\ UNCHANGED <<tree, memo, rowsPer, nav, pending, ev, got, view, edits, clicks>>
    BY <1>1 DEF Diff, Going, At
  <2>2. CASE diffMemo = {}
    <3>1. PICK d \in Lists : diffMemo' = {d}
      BY <1>1, <2>2 DEF Diff
    <3>2. diffMemo' \subseteq Lists /\ AtMostOne(diffMemo)'
      BY <3>1 DEF AtMostOne
    <3> QED BY <2>1, <3>1, <3>2, InvNewTable
  <2>3. CASE diffMemo # {}
    <3>1. diffMemo' = diffMemo
      BY <1>1, <2>3 DEF Diff
    <3>2. PICK d \in Lists : diffMemo = {d}
      BY <2>3 DEF IInv, TypeOK, AtMostOne
    <3>3. diffMemo' \subseteq Lists /\ AtMostOne(diffMemo)'
      BY <3>1 DEF IInv, TypeOK, AtMostOne
    <3> QED BY <2>1, <3>1, <3>2, <3>3, InvNewTable
  <2> QED BY <2>2, <2>3
<1>2. CASE LiveScan(s)
  <2>1. /\ pc[s] = "page" /\ nav[s] = "Live Scan"
        /\ UNCHANGED <<tree, memo, diffMemo, rowsPer, nav, pending, ev, got, view, edits,
                       clicks>>
    BY <1>2 DEF LiveScan, Going, At
  <2>2. PICK l \in Lists : NewTable(s, "live_results", {l})
    BY <1>2 DEF LiveScan
  <2>3. diffMemo' \subseteq Lists /\ AtMostOne(diffMemo)'
    BY <2>1 DEF IInv, TypeOK, AtMostOne
  <2> QED BY <2>1, <2>2, <2>3, InvNewTable
<1> QED BY <1>1, <1>2

-----------------------------------------------------------------------------
(* Showing a table.                                                        *)

\* The pager shows a page, or moves on and has the script run again.
LEMMA InvPaginate ==
  ASSUME IInv, NEW s \in Sessions, Paginate(s)
  PROVE  IInv'
<1>1a. PICK k \in Tables : \E r \in held[s][k] :
        LET per   == Per(rowsPer[s][k], r.rows)
            pages == PageCount(r.rows, per)
            p     == Clamped(page[s][k], pages)
        IN /\ Showing(s, k)
           /\ \/ Turn(s, k, p - 1)
              \/ Turn(s, k, p + 1)
              \/ /\ page' = [page EXCEPT ![s][k] = p]
                 /\ Finish(s, [nav |-> nav[s], card |-> "rows", asked |-> Asked(s),
                               table |-> k, page |-> p, pages |-> pages, of |-> r,
                               window |-> Window(p, per, r.rows)])
           /\ UNCHANGED <<tree, memo, diffMemo, held, nav, pending, got, edits, clicks>>
  BY ZenonT(30) DEF Paginate
<1>1. PICK r \in held[s][k] :
        LET per   == Per(rowsPer[s][k], r.rows)
            pages == PageCount(r.rows, per)
            p     == Clamped(page[s][k], pages)
        IN /\ Showing(s, k)
           /\ \/ Turn(s, k, p - 1)
              \/ Turn(s, k, p + 1)
              \/ /\ page' = [page EXCEPT ![s][k] = p]
                 /\ Finish(s, [nav |-> nav[s], card |-> "rows", asked |-> Asked(s),
                               table |-> k, page |-> p, pages |-> pages, of |-> r,
                               window |-> Window(p, per, r.rows)])
           /\ UNCHANGED <<tree, memo, diffMemo, held, nav, pending, got, edits, clicks>>
  BY <1>1a
<1> DEFINE per == Per(rowsPer[s][k], r.rows)
           pages == PageCount(r.rows, per)
           p == Clamped(page[s][k], pages)
           w == Window(p, per, r.rows)
<1>2. r \in Reports \union Lists /\ r.rows \in Nat
  <2>1. r \in Results(k)
    BY DEF IInv, TypeOK, TableType
  <2>2. r \in Reports \/ r \in Lists
    BY <2>1 DEF Results
  <2>3. r.rows \in TreeSizes \union {0}
    BY <2>2 DEF Reports, Lists
  <2>4. r.rows \in Nat
    <3>1. TreeSizes \union {0} \subseteq Nat
      BY RowsAssumption
    <3> HIDE DEF per, pages, p, w
    <3> QED BY <2>3, <3>1
  <2> QED BY <2>2, <2>4
<1>3. per \in Nat \ {0}
  <2>0. rowsPer[s][k] \in RowChoices \union {All}
    BY DEF IInv, TypeOK
  <2>1. rowsPer[s][k] \in Nat
    BY <2>0, RowsAssumption DEF All
  <2> QED BY <1>2, <2>1 DEF Per, AtLeastOne
<1>4. page[s][k] \in Nat
  BY DEF IInv, TypeOK
<1>5. /\ pages \in Nat /\ p \in 1 .. pages
      /\ w \in [start : Nat, end : Nat]
      /\ r.rows > 0 => w.start < w.end
      /\ w.end <= r.rows
      /\ w.end = r.rows <=> p = pages
  BY <1>2, <1>3, <1>4, ClampedWindow
<1>6. Showing(s, k) /\ pc[s] \in {"page", "show"}
  BY <1>1 DEF Showing, At
<1>7. UNCHANGED <<tree, memo, diffMemo, held, nav, pending, got, edits, clicks>>
  BY <1>1
<1>8. \/ Turn(s, k, p - 1) \/ Turn(s, k, p + 1)
      \/ /\ page' = [page EXCEPT ![s][k] = p]
         /\ Finish(s, [nav |-> nav[s], card |-> "rows", asked |-> Asked(s),
                       table |-> k, page |-> p, pages |-> pages, of |-> r,
                       window |-> w])
  BY <1>1
<1> HIDE DEF per, pages, p, w
<1>9. CASE \E n \in Nat : Turn(s, k, n)
  <2>1. PICK n \in Nat : Turn(s, k, n)
    BY <1>9
  <2>2. /\ page' = [page EXCEPT ![s][k] = n] /\ ev' = [ev EXCEPT ![s] = Rerun]
        /\ pc' = [pc EXCEPT ![s] = "page"] /\ UNCHANGED <<rowsPer, view>>
    BY <2>1 DEF Turn
  <2>3. TypeOK'
    BY <1>7, <2>2 DEF IInv, TypeOK
  <2>4. /\ pc'[s] = "page"
        /\ \A t \in Sessions \ {s} : pc'[t] = pc[t] /\ ev'[t] = ev[t]
    BY <2>2 DEF IInv, TypeOK
  <2>5. (Scanning /\ Computing /\ Logged /\ Answered /\ SessionsAgree)'
    BY <1>6, <1>7, <2>4, ScansUndisturbed
  <2> QED BY <2>2, <2>3, <2>5, ViewsStay DEF IInv
<1>10. CASE /\ page' = [page EXCEPT ![s][k] = p]
            /\ Finish(s, [nav |-> nav[s], card |-> "rows", asked |-> Asked(s),
                          table |-> k, page |-> p, pages |-> pages, of |-> r,
                          window |-> w])
  <2> DEFINE v == [nav |-> nav[s], card |-> "rows", asked |-> Asked(s),
                   table |-> k, page |-> p, pages |-> pages, of |-> r, window |-> w]
  <2>1. v \in Views
    <3>1. nav[s] \in Navs /\ Asked(s) \in SUBSET Requests /\ p \in Nat
      BY <1>5, AskedType DEF IInv, TypeOK
    <3> QED BY <1>2, <1>5, <3>1 DEF Views
  <2>2. /\ v.nav = nav[s] /\ v.card = "rows" /\ v.asked = Asked(s) /\ v.of = r
        /\ v.page = p /\ v.pages = pages /\ v.window = w
    OBVIOUS
  <2>3. Finish(s, v) /\ page' = [page EXCEPT ![s][k] = p]
    BY <1>10
  <2> HIDE DEF v
  <2>4. /\ view' \in [Sessions -> Views]
        /\ pc' \in [Sessions -> {"page", "call", "computing", "log", "show", "idle"}]
        /\ ev' \in [Sessions -> Clicks \union {Rerun}]
        /\ rowsPer' \in [Sessions -> [Tables -> RowChoices \union {All}]]
        /\ pc'[s] = "idle" /\ view'[s] = v
        /\ \A t \in Sessions \ {s} :
             pc'[t] = pc[t] /\ ev'[t] = ev[t] /\ view'[t] = view[t]
    BY <2>1, <2>3, FinishType DEF IInv
  <2>5. page' \in [Sessions -> [Tables -> Nat]]
    BY <1>5, <2>3 DEF IInv, TypeOK
  <2>6. TypeOK'
    BY <1>7, <2>4, <2>5 DEF IInv, TypeOK
  <2>7. (Scanning /\ Computing /\ Logged /\ Answered /\ SessionsAgree)'
    BY <1>6, <1>7, <2>4, ScansUndisturbed
  <2>8. PageWithinReport'
    BY <1>5, <2>2, <2>4 DEF IInv, PageWithinReport, Shown
  <2>9. nav[s] = "Scan" => \A c \in Asked(s) : r.cfg = c
    <3> SUFFICES ASSUME nav[s] = "Scan", NEW c \in Asked(s) PROVE r.cfg = c
      OBVIOUS
    <3>1. k = "results"
      BY <1>6 DEF Showing, TableOf
    <3>2. ev[s].kind = "run" /\ c = ev[s].cfg
      BY DEF Asked
    <3>3. pc[s] = "show"
      BY <1>6, <3>2 DEF Showing, Running, At
    <3> QED BY <3>1, <3>2, <3>3 DEF IInv, Answered
  <2>10. ViewAnswersClick'
    BY <2>2, <2>4, <2>9 DEF IInv, ViewAnswersClick
  <2> QED BY <2>6, <2>7, <2>8, <2>10 DEF IInv
<1> QED BY <1>5, <1>8, <1>9, <1>10

-----------------------------------------------------------------------------
(* Theorems.                                                               *)

\* Sessions that have loaded their first page satisfy the invariant.
LEMMA InvInit == Init => IInv
<1> SUFFICES ASSUME Init PROVE IInv
  OBVIOUS
<1>1. TypeOK
  <2>1. FirstPage \in Views
    BY DEF FirstPage, Views, Navs
  <2>2. DefaultRows \in RowChoices \union {All} /\ "Scan" \in Navs
    BY RowsAssumption DEF Navs
  <2>3. \A s \in Sessions : TableType(held[s])
    BY DEF Init, TableType, AtMostOne
  <2>4. edits \in 0 .. MaxEdits /\ clicks \in 0 .. MaxClicks
    BY LimitsAssumption DEF Init
  <2>5. /\ memo \subseteq Reports
        /\ diffMemo \subseteq Lists /\ AtMostOne(diffMemo)
        /\ got \in [Sessions -> SUBSET Reports]
        /\ pending \in [Sessions -> SUBSET Clicks]
    BY DEF Init, AtMostOne
  <2>6. /\ page \in [Sessions -> [Tables -> Nat]]
        /\ rowsPer \in [Sessions -> [Tables -> RowChoices \union {All}]]
        /\ nav \in [Sessions -> Navs]
        /\ ev \in [Sessions -> Clicks \union {Rerun}]
    BY <2>2 DEF Init
  <2>7. /\ pc \in [Sessions -> {"page", "call", "computing", "log", "show", "idle"}]
        /\ view \in [Sessions -> Views] /\ DOMAIN held = Sessions
        /\ tree \in [Paths -> Trees]
    BY <2>1 DEF Init
  <2> QED BY <2>3, <2>4, <2>5, <2>6, <2>7 DEF TypeOK
<1>2. Scanning /\ Computing /\ Logged /\ Answered
  BY DEF Init, Scanning, Computing, Logged, Answered
<1>3. PageWithinReport /\ ViewAnswersClick /\ SessionsAgree
  BY DEF Init, PageWithinReport, Shown, ViewAnswersClick, SessionsAgree, FirstPage, Tables
<1> QED BY <1>1, <1>2, <1>3 DEF IInv

\* Every step keeps it.
LEMMA InvStep == IInv /\ [Next]_vars => IInv'
<1> SUFFICES ASSUME IInv, [Next]_vars PROVE IInv'
  OBVIOUS
<1>1. CASE \E p \in Paths : Edit(p)
  BY <1>1, InvWorld
<1>2. CASE \E s \in Sessions : User(s)
  BY <1>2, InvWorld
<1>3. ASSUME NEW s \in Sessions, Step(s) PROVE IInv'
  BY <1>3, InvBegin, InvMessage, InvCheck, InvCallHit, InvCallMiss, InvMemoise, InvRaise,
     InvKeep, InvDiffLive, InvPaginate DEF Step
<1>4. CASE UNCHANGED vars
  <2>1. TypeOK'
    BY <1>4 DEF vars, IInv, TypeOK
  <2>2. Scanning' /\ Computing' /\ Logged' /\ Answered' /\ SessionsAgree'
    BY <1>4 DEF vars, IInv, Scanning, Computing, Hits, Logged, Answered, SessionsAgree
  <2> QED BY <1>4, <2>1, <2>2, ViewsStay DEF vars, IInv
<1> QED BY <1>1, <1>2, <1>3, <1>4 DEF Next

(* The inductive invariant holds in every reachable state.                  *)
THEOREM Invariance == Spec => []IInv
<1>1. Init => IInv
  BY InvInit
<1>2. IInv /\ [Next]_vars => IInv'
  BY InvStep
<1> QED BY <1>1, <1>2, PTL DEF Spec

(* Every variable keeps its shape.                                          *)
THEOREM TypeCorrect == Spec => []TypeOK
<1>1. IInv => TypeOK
  BY DEF IInv
<1> QED BY <1>1, Invariance, PTL

(* Every table shown is a page of its report, for any number of rows and of *)
(* rows per page (app.py:391).                                              *)
THEOREM PagesCorrect == Spec => []PageWithinReport
<1>1. IInv => PageWithinReport
  BY DEF IInv
<1> QED BY <1>1, Invariance, PTL

(* The page that answers Run Scan is a report of the settings asked for,    *)
(* says that the path is not there, or is a traceback, for any number of    *)
(* sessions that share the memo (app.py:283, 533, 549).                     *)
THEOREM AnswersCorrect == Spec => []ViewAnswersClick
<1>1. IInv => ViewAnswersClick
  BY DEF IInv
<1> QED BY <1>1, Invariance, PTL

(* Sessions hold what the memo holds, one report for each settings          *)
(* (app.py:283, 672).                                                       *)
THEOREM AgreementCorrect == Spec => []SessionsAgree
<1>1. IInv => SessionsAgree
  BY DEF IInv
<1> QED BY <1>1, Invariance, PTL

-----------------------------------------------------------------------------
(* Why every click settles.  How many steps the script of a session can     *)
(* still make: each place of the page is behind the last, a pager's button  *)
(* leads back to the top but leaves no click to obey, and a click that      *)
(* waits costs one more run.                                                *)

ToBuild(s) ==
  CASE pc[s] = "page" /\ ev[s] # Rerun -> 6
    [] pc[s] = "call"                  -> 5
    [] pc[s] = "computing"             -> 4
    [] pc[s] = "log"                   -> 3
    [] pc[s] = "show"                  -> 2
    [] pc[s] = "page" /\ ev[s] = Rerun -> 1
    [] OTHER                           -> 0

StepsLeft(s) == ToBuild(s) + IF pending[s] = {} THEN 0 ELSE 7

\* The script's own steps bring it nearer to the end; only a click of its own
\* user takes it further away.
Settles(s) ==
  /\ Step(s) => StepsLeft(s)' < StepsLeft(s)
  /\ ~ User(s) => StepsLeft(s)' <= StepsLeft(s)

LEMMA StepsLeftType ==
  ASSUME TypeOK, NEW s \in Sessions
  PROVE  /\ ToBuild(s) \in 0 .. 6 /\ StepsLeft(s) \in 0 .. 13
         /\ StepsLeft(s) = 0 <=> pending[s] = {} /\ pc[s] = "idle"
BY DEF TypeOK, ToBuild, StepsLeft

(* The script is done, with whatever page.                                  *)
LEMMA FinishSettles ==
  ASSUME TypeOK, NEW s \in Sessions, NEW v, Finish(s, v), pending' = pending,
         pc[s] \in {"page", "show"}
  PROVE  StepsLeft(s)' < StepsLeft(s)
<1>1. pc'[s] = "idle"
  BY DEF Finish, TypeOK
<1>2. ToBuild(s)' = 0 /\ ToBuild(s) >= 1
  BY <1>1 DEF ToBuild
<1>3. ToBuild(s) \in 0 .. 6
  BY StepsLeftType
<1> QED BY <1>2, <1>3 DEF StepsLeft

(* The script moves on to a later place of the page.                        *)
LEMMA MoveSettles ==
  ASSUME TypeOK, NEW s \in Sessions, pending' = pending,
         \/ /\ pc'[s] = "call" /\ pc[s] = "page" /\ ev[s] # Rerun
         \/ /\ pc'[s] = "computing" /\ pc[s] = "call"
         \/ /\ pc'[s] = "log" /\ pc[s] \in {"call", "computing"}
         \/ /\ pc'[s] = "show" /\ pc[s] = "log"
         \/ /\ pc'[s] = "show" /\ pc[s] = "page" /\ ev[s] # Rerun
         \/ /\ pc'[s] = "page" /\ pc[s] = "show" /\ ev'[s] = Rerun
         \/ /\ pc'[s] = "page" /\ pc[s] = "page" /\ ev[s] # Rerun /\ ev'[s] = Rerun
  PROVE  StepsLeft(s)' < StepsLeft(s)
<1>1. ToBuild(s)' < ToBuild(s) /\ ToBuild(s) \in Nat /\ ToBuild(s)' \in Nat
  BY DEF ToBuild
<1> QED BY <1>1 DEF StepsLeft

LEMMA TurnSettles ==
  ASSUME TypeOK, NEW s \in Sessions, Paginate(s)
  PROVE  StepsLeft(s)' < StepsLeft(s)
<1>1. pending' = pending /\ pc[s] \in {"page", "show"}
  BY DEF Paginate, Showing, At
<1>2. CASE \E v : Finish(s, v)
  BY <1>1, <1>2, FinishSettles
<1>3. CASE /\ \E k \in Tables : \E n : Turn(s, k, n)
           /\ \E k \in Tables : ev[s] \in [kind : {"prev", "next"}, table : {k}]
  <2>1. pc'[s] = "page" /\ ev'[s] = Rerun
    BY <1>3 DEF Turn, TypeOK
  <2>2. ev[s] # Rerun
    BY <1>3 DEF Rerun
  <2> QED BY <1>1, <2>1, <2>2, MoveSettles
<1> QED BY <1>2, <1>3 DEF Paginate

LEMMA StepSettles ==
  ASSUME TypeOK, NEW s \in Sessions, Step(s)
  PROVE  StepsLeft(s)' < StepsLeft(s)
<1>1. CASE Begin(s)
  <2>1. pending[s] # {} /\ pending'[s] = {} /\ pc'[s] = "page"
    BY <1>1 DEF Begin, TypeOK
  <2>2. ToBuild(s)' <= 6 /\ ToBuild(s)' \in Nat
    BY <2>1 DEF ToBuild
  <2>3. ToBuild(s) \in 0 .. 6
    BY StepsLeftType
  <2> QED BY <2>1, <2>2, <2>3 DEF StepsLeft
<1>2. CASE NotFound(s) \/ NotReady(s) \/ Nothing(s) \/ PatchGap(s) \/ Cache(s)
  <2>1. pc[s] \in {"page", "show"}
    BY <1>2 DEF NotFound, Running, NotReady, Going, Nothing, Showing, PatchGap,
                Cache, At
  <2>2. PICK card : Say(s, card)
    BY <1>2 DEF NotFound, NotReady, Nothing, PatchGap, Cache
  <2> QED BY <2>1, <2>2, FinishSettles DEF Say
<1>3. CASE Check(s)
  <2>1. pc'[s] = "call" /\ pc[s] = "page" /\ ev[s].kind = "run" /\ pending' = pending
    BY <1>3 DEF Check, Running, At, TypeOK
  <2>2. ev[s] # Rerun
    BY <2>1 DEF Rerun
  <2> QED BY <2>1, <2>2, MoveSettles
<1>4. CASE CallHit(s) \/ CallMiss(s) \/ Memoise(s) \/ Keep(s)
  <2>1. /\ pending' = pending
        /\ \/ pc'[s] = "computing" /\ pc[s] = "call"
           \/ pc'[s] = "log" /\ pc[s] \in {"call", "computing"}
           \/ pc'[s] = "show" /\ pc[s] = "log"
    BY <1>4 DEF CallHit, CallMiss, Memoise, Keep, At, TypeOK
  <2> QED BY <2>1, MoveSettles
<1>5. CASE Raise(s)
  <2>1. /\ pending' = pending /\ pc'[s] = "idle"
        /\ \/ pc[s] = "computing"
           \/ pc[s] = "page" /\ ev[s].kind = "go"
    BY <1>5 DEF Raise, Going, At, TypeOK
  <2>2. ToBuild(s)' = 0 /\ ToBuild(s) >= 1
    BY <2>1 DEF ToBuild
  <2> QED BY <2>1, <2>2, StepsLeftType DEF StepsLeft
<1>6. CASE Diff(s) \/ LiveScan(s)
  <2>1. pc'[s] = "show" /\ pc[s] = "page" /\ ev[s].kind = "go" /\ pending' = pending
    BY <1>6 DEF Diff, LiveScan, NewTable, Going, At, TypeOK
  <2>2. ev[s] # Rerun
    BY <2>1 DEF Rerun
  <2> QED BY <2>1, <2>2, MoveSettles
<1>7. CASE Paginate(s)
  BY <1>7, TurnSettles
<1> QED BY <1>1, <1>2, <1>3, <1>4, <1>5, <1>6, <1>7 DEF Step

(* What another session does is not seen here.                              *)
LEMMA OthersSettle ==
  ASSUME TypeOK, NEW s \in Sessions, NEW t \in Sessions \ {s}, Step(t) \/ User(t)
  PROVE  UNCHANGED <<pc[s], ev[s], pending[s]>>
<1>1. CASE User(t)
  BY <1>1 DEF User, Click, TypeOK
<1>2. CASE Begin(t) \/ Check(t) \/ CallHit(t) \/ CallMiss(t) \/ Memoise(t) \/ Raise(t)
           \/ Keep(t) \/ Diff(t) \/ LiveScan(t)
  BY <1>2 DEF Begin, Check, CallHit, CallMiss, Memoise, Raise, Keep, Diff, LiveScan,
              NewTable, TypeOK
<1>3. CASE NotFound(t) \/ NotReady(t) \/ Nothing(t) \/ PatchGap(t) \/ Cache(t)
  BY <1>3 DEF NotFound, NotReady, Nothing, PatchGap, Cache, Say, Finish, TypeOK
<1>4. CASE Paginate(t)
  BY <1>4 DEF Paginate, Turn, Finish, TypeOK
<1> QED BY <1>1, <1>2, <1>3, <1>4 DEF Step

LEMMA NextSettles ==
  ASSUME TypeOK, [Next]_vars, NEW s \in Sessions
  PROVE  Settles(s)
<1>1. StepsLeft(s) \in 0 .. 13
  BY StepsLeftType
<1>2. ASSUME UNCHANGED <<pc[s], ev[s], pending[s]>> PROVE StepsLeft(s)' = StepsLeft(s)
  BY <1>2 DEF StepsLeft, ToBuild
<1>3. CASE Step(s)
  <2>1. ToBuild(s)' \in Nat
    BY DEF ToBuild
  <2>2. StepsLeft(s)' \in Nat
    BY <2>1 DEF StepsLeft
  <2> QED BY <1>1, <1>3, <2>2, StepSettles DEF Settles
<1>4. CASE User(s) /\ ~ Step(s)
  BY <1>4 DEF Settles
<1>5. ASSUME NEW t \in Sessions \ {s}, Step(t) \/ User(t), ~ Step(s)
      PROVE  Settles(s)
  BY <1>1, <1>2, <1>5, OthersSettle DEF Settles
<1>6. CASE ~ Step(s) /\ (UNCHANGED vars \/ \E p \in Paths : Edit(p))
  BY <1>1, <1>2, <1>6 DEF Settles, vars, Edit
<1> QED BY <1>3, <1>4, <1>5, <1>6 DEF Next

(* The script never chases its own reruns: between two clicks of its user a *)
(* session makes a bounded number of steps, whatever the other sessions do, *)
(* and has none left just when no click waits and the page is complete      *)
(* (app.py:404-411).  With the fairness of FairSpec this is why             *)
(* EveryClickSettles.                                                       *)
THEOREM ScriptCountsDown ==
  Spec => /\ [](\A s \in Sessions :
                  /\ StepsLeft(s) \in 0 .. 13
                  /\ StepsLeft(s) = 0 <=> pending[s] = {} /\ pc[s] = "idle")
          /\ [][\A s \in Sessions : Settles(s)]_vars
<1>1. IInv => \A s \in Sessions :
                /\ StepsLeft(s) \in 0 .. 13
                /\ StepsLeft(s) = 0 <=> pending[s] = {} /\ pc[s] = "idle"
  BY StepsLeftType DEF IInv
<1>2. IInv /\ [Next]_vars => [\A s \in Sessions : Settles(s)]_vars
  BY NextSettles DEF IInv
<1> QED BY <1>1, <1>2, Invariance, PTL DEF Spec

=============================================================================
