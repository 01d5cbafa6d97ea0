--------------------------- MODULE WebServerProofs ---------------------------
(***************************************************************************)
(* The safety of WebServer for any number of tabs and reports: what a tab  *)
(* shows is its own scan, None is never read after the check, and reads of *)
(* LAST_REPORT only go forward.                                            *)
(***************************************************************************)
EXTENDS WebServer, SequenceTheorems, TLAPS

\* LAST_REPORT is the report published last.
LastIsPublished ==
  lastReport = IF published = << >> THEN 0 ELSE published[Len(published)]

\* A report on its way belongs to the request that carries it ...
CarriesOwn ==
  \A t \in Tabs, kind \in Posts :
    LET p == post[t][kind] IN
    p.pc \in {"publish", "answer"} =>
      /\ p.report \in 1 .. Len(reports)
      /\ reports[p.report].by = t /\ reports[p.report].from = kind

\* ... and until it is published nobody has seen it.
Fresh ==
  \A t \in Tabs, kind \in Posts :
    LET p == post[t][kind] IN
    p.pc = "publish" =>
      /\ p.report \notin In(published)
      /\ \A u \in Tabs :
           /\ p.report # shown[u]
           /\ get[u].pc = "reading" => p.report # get[u].seen

\* A reading request has seen reports that exist, and read published ones.
ReadPublished ==
  \A t \in Tabs : get[t].pc = "reading" =>
    /\ get[t].seen \in 0 .. Len(reports)
    /\ Len(get[t].got) < Len(Reads(get[t].kind))
    /\ \A i \in 1 .. Len(get[t].got) : get[t].got[i] \in In(published)

IInv ==
  /\ TypeOK
  /\ LastIsPublished
  /\ CarriesOwn
  /\ Fresh
  /\ ReadPublished
  /\ ShownIsOwnScan
  /\ NoneNeverRead
  /\ ReadsGoForward

-----------------------------------------------------------------------------
(* Histories.                                                              *)

\* What is appended joins the history and disturbs no order.
LEMMA AppendOrder ==
  ASSUME NEW S, NEW h \in Seq(S), NEW x \in S
  PROVE  /\ In(Append(h, x)) = In(h) \union {x}
         /\ \A a, b : NotAfter(h, a, b) => NotAfter(Append(h, x), a, b)
<1> DEFINE hx == Append(h, x)
<1>1. /\ Len(hx) = Len(h) + 1 /\ Len(h) \in Nat /\ hx[Len(h) + 1] = x
      /\ \A i \in 1 .. Len(h) : hx[i] = h[i]
  OBVIOUS
<1>2. In(hx) = In(h) \union {x}
  BY <1>1 DEF In
<1>3. \A a, b : NotAfter(h, a, b) => NotAfter(hx, a, b)
  <2> SUFFICES ASSUME NEW a, NEW b, NotAfter(h, a, b) PROVE NotAfter(hx, a, b)
    OBVIOUS
  <2>1. PICK i, j \in 1 .. Len(h) : i <= j /\ h[i] = a /\ h[j] = b
    BY DEF NotAfter
  <2>2. i \in 1 .. Len(hx) /\ j \in 1 .. Len(hx) /\ hx[i] = a /\ hx[j] = b
    BY <1>1, <2>1
  <2> QED BY <2>1, <2>2 DEF NotAfter
<1> QED BY <1>2, <1>3

\* Nothing in a history comes after its last element.
LEMMA LastComesLast ==
  ASSUME NEW S, NEW h \in Seq(S), NEW a \in In(h)
  PROVE  /\ h # << >>
         /\ NotAfter(h, a, h[Len(h)])
<1>1. PICK i \in 1 .. Len(h) : h[i] = a
  BY DEF In
<1>2. Len(h) \in 1 .. Len(h) /\ i <= Len(h) /\ h # << >>
  BY <1>1
<1> QED BY <1>1, <1>2 DEF NotAfter

-----------------------------------------------------------------------------
(* Init.                                                                   *)

\* A server that has just been started satisfies the invariant.
LEMMA InvInit == Init => IInv
<1> SUFFICES ASSUME Init PROVE IInv
  OBVIOUS
<1> USE DEF Init, NoPost, NoGet, NoDownload
<1>1. TypeOK
  BY BoundsAssumption DEF TypeOK, PostStates, GetStates, Downloads, Ids
<1>2. LastIsPublished /\ CarriesOwn /\ Fresh
  BY DEF LastIsPublished, CarriesOwn, Fresh
<1>3. ReadPublished /\ ShownIsOwnScan /\ NoneNeverRead /\ ReadsGoForward
  BY DEF ReadPublished, ShownIsOwnScan, NoneNeverRead, ReadsGoForward
<1> QED BY <1>1, <1>2, <1>3 DEF IInv

-----------------------------------------------------------------------------
(* Steps of a scan.                                                        *)

\* A step that moves no report keeps the invariant: only a request of one tab
\* changes its stage, and not to one in which it carries a report.
LEMMA PostOnly ==
  ASSUME IInv, NEW t \in Tabs, NEW kind \in Posts, NEW p \in PostStates,
         p.pc \in {"idle", "running"},
         post' = [post EXCEPT ![t][kind] = p],
         UNCHANGED <<reports, lastReport, published, get, shown, download>>
  PROVE  IInv'
<1>1. TypeOK'
  BY DEF IInv, TypeOK
<1>2. \A u \in Tabs, k \in Posts :
        post'[u][k].pc \in {"publish", "answer"} => post'[u][k] = post[u][k]
  BY DEF IInv, TypeOK
<1>3. LastIsPublished'
  BY DEF IInv, LastIsPublished
<1>4. CarriesOwn'
  BY <1>2 DEF IInv, CarriesOwn
<1>5. Fresh'
  BY <1>2 DEF IInv, Fresh
<1>6. ReadPublished' /\ ShownIsOwnScan'
  BY DEF IInv, ReadPublished, ShownIsOwnScan
<1>7. NoneNeverRead'
  BY DEF IInv, NoneNeverRead
<1>8. ReadsGoForward'
  BY DEF IInv, ReadsGoForward
<1> QED BY <1>1, <1>3, <1>4, <1>5, <1>6, <1>7, <1>8 DEF IInv

\* Sending a scan, and a scan that fails, move no report.
LEMMA InvSendFail ==
  ASSUME IInv, NEW t \in Tabs, NEW kind \in Posts,
         SendPost(t, kind) \/ Fail(t, kind)
  PROVE  IInv'
<1>0. post[t][kind] \in PostStates
  BY DEF IInv, TypeOK
<1>1. CASE SendPost(t, kind)
  <2> DEFINE p == [post[t][kind] EXCEPT !.pc = "running"]
  <2>1. p \in PostStates /\ p.pc = "running"
    BY <1>0 DEF PostStates
  <2>2. post' = [post EXCEPT ![t][kind] = p]
    BY <1>1 DEF SendPost, IInv, TypeOK, PostStates
  <2> QED BY <1>1, <2>1, <2>2, PostOnly DEF SendPost
<1>2. CASE Fail(t, kind)
  <2>1. NoPost \in PostStates /\ NoPost.pc = "idle"
    BY BoundsAssumption DEF NoPost, PostStates, Ids
  <2> QED BY <1>2, <2>1, PostOnly DEF Fail
<1> QED BY <1>1, <1>2

\* The report just computed is new to everybody.
LEMMA InvCompute ==
  ASSUME IInv, NEW t \in Tabs, NEW kind \in Posts, Compute(t, kind)
  PROVE  IInv'
<1> DEFINE n == Len(reports) + 1
           p == [pc |-> "publish", report |-> n]
<1>1. PICK c \in Contents :
        c.by = t /\ c.from = kind /\ reports' = Append(reports, c)
  BY DEF Compute
<1>2. /\ reports \in Seq(Contents) /\ reports' \in Seq(Contents)
      /\ Len(reports') = n /\ n \in 1 .. MaxReports
      /\ reports'[n] = c
      /\ \A i \in 1 .. Len(reports) : reports'[i] = reports[i]
  BY <1>1, BoundsAssumption DEF Compute, IInv, TypeOK
<1>3. post' = [post EXCEPT ![t][kind] = p]
  BY DEF Compute
<1>4. UNCHANGED <<lastReport, published, get, shown, download>>
  BY DEF Compute
<1>5. TypeOK'
  <2>1. p \in PostStates
    BY <1>2 DEF PostStates, Ids
  <2>2. post' \in [Tabs -> [Posts -> PostStates]]
    BY <1>3, <2>1 DEF IInv, TypeOK
  <2> QED BY <1>2, <1>4, <2>2 DEF IInv, TypeOK
<1>6. LastIsPublished'
  BY <1>4 DEF IInv, LastIsPublished
<1>7. CarriesOwn'
  BY <1>1, <1>2, <1>3 DEF IInv, TypeOK, CarriesOwn
<1>8. Fresh'
  <2> SUFFICES ASSUME NEW u \in Tabs, NEW k \in Posts,
                      post'[u][k].pc = "publish"
               PROVE  /\ post'[u][k].report \notin In(published')
                      /\ \A w \in Tabs :
                           /\ post'[u][k].report # shown'[w]
                           /\ get'[w].pc = "reading" =>
                                post'[u][k].report # get'[w].seen
    BY DEF Fresh
  <2>1. CASE u = t /\ k = kind
    <3>1. post'[u][k] = p
      BY <1>3, <2>1 DEF IInv, TypeOK
    <3>2. n \notin In(published')
      BY <1>2, <1>4 DEF IInv, TypeOK, In
    <3>3. \A w \in Tabs : n # shown'[w] /\ (get'[w].pc = "reading" => n # get'[w].seen)
      BY <1>2, <1>4 DEF IInv, TypeOK, ReadPublished
    <3> QED BY <3>1, <3>2, <3>3
  <2>2. CASE ~ (u = t /\ k = kind)
    <3>1. post'[u][k] = post[u][k]
      BY <1>3, <2>2 DEF IInv, TypeOK
    <3> QED BY <1>4, <3>1 DEF IInv, Fresh
  <2> QED BY <2>1, <2>2
<1>9. ReadPublished'
  BY <1>2, <1>4 DEF IInv, ReadPublished
<1>10. ShownIsOwnScan'
  BY <1>2, <1>4 DEF IInv, TypeOK, ShownIsOwnScan
<1>11. NoneNeverRead'
  BY <1>4 DEF IInv, NoneNeverRead
<1>12. ReadsGoForward'
  BY <1>4 DEF IInv, ReadsGoForward
<1> QED BY <1>5, <1>6, <1>7, <1>8, <1>9, <1>10, <1>11, <1>12 DEF IInv

\* The report published joins the end of the history and becomes the last one.
LEMMA InvPublish ==
  ASSUME IInv, NEW t \in Tabs, NEW kind \in Posts, Publish(t, kind)
  PROVE  IInv'
<1> DEFINE id == post[t][kind].report
           p == [pc |-> "answer", report |-> id]
<1>1. post[t][kind] \in PostStates /\ id \in 1 .. Len(reports)
  BY DEF IInv, TypeOK, CarriesOwn, Publish
<1>2. post' = [post EXCEPT ![t][kind] = p]
  <2>1. [post[t][kind] EXCEPT !.pc = "answer"] = p
    BY <1>1 DEF PostStates
  <2> QED BY <2>1 DEF Publish
<1>3. /\ lastReport' = id /\ published' = Append(published, id)
      /\ UNCHANGED <<reports, get, shown, download>>
  BY DEF Publish
<1>4. published \in Seq(1 .. Len(reports))
  BY DEF IInv, TypeOK
<1>5. /\ In(published') = In(published) \union {id}
      /\ \A a, b : NotAfter(published, a, b) => NotAfter(published', a, b)
  BY <1>1, <1>3, <1>4, AppendOrder
<1>6. TypeOK'
  <2>1. p \in PostStates
    BY <1>1 DEF PostStates
  <2>2. post' \in [Tabs -> [Posts -> PostStates]]
    BY <1>2, <2>1 DEF IInv, TypeOK
  <2> QED BY <1>1, <1>3, <1>4, <2>2 DEF IInv, TypeOK
<1>7. LastIsPublished'
  <2>1. published' # << >> /\ published'[Len(published')] = id
    BY <1>1, <1>3, <1>4
  <2> QED BY <1>3, <2>1 DEF LastIsPublished
<1>8. CarriesOwn'
  BY <1>2, <1>3 DEF IInv, TypeOK, CarriesOwn, Publish
<1>9. Fresh'
  <2> SUFFICES ASSUME NEW u \in Tabs, NEW k \in Posts,
                      post'[u][k].pc = "publish"
               PROVE  /\ post'[u][k].report \notin In(published')
                      /\ \A w \in Tabs :
                           /\ post'[u][k].report # shown'[w]
                           /\ get'[w].pc = "reading" =>
                                post'[u][k].report # get'[w].seen
    BY DEF Fresh
  <2>1. post'[u][k] = post[u][k] /\ ~ (u = t /\ k = kind)
    BY <1>2 DEF IInv, TypeOK
  <2>2. post[u][k].report # id
    BY <2>1 DEF IInv, CarriesOwn, Publish
  <2> QED BY <1>3, <1>5, <2>1, <2>2 DEF IInv, Fresh
<1>10. ReadPublished'
  BY <1>3, <1>5 DEF IInv, ReadPublished
<1>11. ShownIsOwnScan'
  BY <1>3 DEF IInv, ShownIsOwnScan
<1>12. NoneNeverRead'
  BY <1>3 DEF IInv, NoneNeverRead
<1>13. ReadsGoForward'
  <2> SUFFICES ASSUME NEW u \in Tabs, get[u].pc = "reading"
               PROVE  LET g == get[u] IN
                      /\ g.seen \in In(published') =>
                           \A i \in 1 .. Len(g.got) :
                             NotAfter(published', g.seen, g.got[i])
                      /\ \A i, j \in 1 .. Len(g.got) :
                           i <= j => NotAfter(published', g.got[i], g.got[j])
    BY <1>3 DEF ReadsGoForward
  <2>1. get[u].seen # id
    BY DEF IInv, Fresh, Publish
  <2> QED BY <1>5, <2>1 DEF IInv, ReadsGoForward
<1> QED BY <1>6, <1>7, <1>8, <1>9, <1>10, <1>11, <1>12, <1>13 DEF IInv

\* The answer that arrives was carried by the tab's own request.
LEMMA InvArrive ==
  ASSUME IInv, NEW t \in Tabs, NEW kind \in Posts, Arrive(t, kind)
  PROVE  IInv'
<1> DEFINE id == post[t][kind].report
<1>1. /\ id \in 1 .. Len(reports)
      /\ reports[id].by = t /\ reports[id].from = kind
  BY DEF IInv, CarriesOwn, Arrive
<1>2. /\ shown' = [shown EXCEPT ![t] = IF kind = "scan" THEN id ELSE @]
      /\ post' = [post EXCEPT ![t][kind] = NoPost]
      /\ UNCHANGED <<reports, lastReport, published, get, download>>
  BY DEF Arrive
<1>3. NoPost \in PostStates /\ NoPost.pc = "idle"
  BY BoundsAssumption DEF NoPost, PostStates, Ids
<1>4. TypeOK'
  <2>1. post' \in [Tabs -> [Posts -> PostStates]]
    BY <1>2, <1>3 DEF IInv, TypeOK
  <2>2. shown' \in [Tabs -> 0 .. Len(reports)]
    BY <1>1, <1>2 DEF IInv, TypeOK
  <2> QED BY <1>2, <2>1, <2>2 DEF IInv, TypeOK
<1>5. LastIsPublished'
  BY <1>2 DEF IInv, LastIsPublished
<1>6. \A u \in Tabs, k \in Posts :
        post'[u][k].pc \in {"publish", "answer"} =>
          post'[u][k] = post[u][k] /\ ~ (u = t /\ k = kind)
  BY <1>2, <1>3 DEF IInv, TypeOK
<1>7. CarriesOwn'
  BY <1>2, <1>6 DEF IInv, CarriesOwn
<1>8. Fresh'
  <2> SUFFICES ASSUME NEW u \in Tabs, NEW k \in Posts,
                      post'[u][k].pc = "publish"
               PROVE  /\ post'[u][k].report \notin In(published')
                      /\ \A w \in Tabs :
                           /\ post'[u][k].report # shown'[w]
                           /\ get'[w].pc = "reading" =>
                                post'[u][k].report # get'[w].seen
    BY DEF Fresh
  <2>1. post'[u][k] = post[u][k] /\ ~ (u = t /\ k = kind)
    BY <1>6
  <2>2. post[u][k].report # id
    BY <1>1, <2>1 DEF IInv, CarriesOwn
  <2>3. \A w \in Tabs : shown'[w] \in {shown[w], id}
    BY <1>2 DEF IInv, TypeOK
  <2> QED BY <1>2, <2>1, <2>2, <2>3 DEF IInv, Fresh
<1>9. ReadPublished'
  BY <1>2 DEF IInv, ReadPublished
<1>10. ShownIsOwnScan'
  BY <1>1, <1>2 DEF IInv, TypeOK, ShownIsOwnScan
<1>11. NoneNeverRead'
  BY <1>2 DEF IInv, NoneNeverRead
<1>12. ReadsGoForward'
  BY <1>2 DEF IInv, ReadsGoForward
<1> QED BY <1>4, <1>5, <1>7, <1>8, <1>9, <1>10, <1>11, <1>12 DEF IInv

-----------------------------------------------------------------------------
(* Steps of a reader.                                                      *)

\* What a step that changes only the requests and answers of readers leaves.
LEMMA GetOnly ==
  ASSUME IInv, UNCHANGED <<reports, lastReport, published, post, shown>>
  PROVE  LastIsPublished' /\ CarriesOwn' /\ ShownIsOwnScan'
<1>1. LastIsPublished'
  BY DEF IInv, LastIsPublished
<1>2. CarriesOwn' /\ ShownIsOwnScan'
  BY DEF IInv, CarriesOwn, ShownIsOwnScan
<1> QED BY <1>1, <1>2

\* A new request has read nothing yet, and has seen what its tab shows.
LEMMA InvClick ==
  ASSUME IInv, NEW t \in Tabs, NEW kind \in Gets, NEW idx \in Indexes,
         Click(t, kind, idx)
  PROVE  IInv'
<1> DEFINE g == [pc |-> "reading", kind |-> kind, idx |-> idx,
                 seen |-> shown[t], got |-> << >>]
<1>1. /\ get' = [get EXCEPT ![t] = g]
      /\ UNCHANGED <<reports, lastReport, published, post, shown, download>>
  BY DEF Click
<1>2. shown[t] \in 0 .. Len(reports) /\ 0 .. Len(reports) \subseteq Ids
  BY BoundsAssumption DEF IInv, TypeOK, Ids
<1>3. g \in GetStates
  BY <1>2 DEF GetStates
<1>4. TypeOK'
  BY <1>1, <1>3 DEF IInv, TypeOK
<1>5. \A u \in Tabs : get'[u] = IF u = t THEN g ELSE get[u]
  BY <1>1 DEF IInv, TypeOK
<1>6. Fresh'
  BY <1>1, <1>5 DEF IInv, Fresh
<1>7. ReadPublished'
  <2>1. Len(g.got) = 0 /\ Len(Reads(g.kind)) > 0
    BY KindsAssumption DEF Reads, AllGets
  <2> QED BY <1>1, <1>2, <1>5, <2>1 DEF IInv, ReadPublished
<1>8. NoneNeverRead'
  BY <1>1, <1>5 DEF IInv, NoneNeverRead
<1>9. ReadsGoForward'
  BY <1>1, <1>5 DEF IInv, ReadsGoForward
<1> QED BY <1>1, <1>4, <1>6, <1>7, <1>8, <1>9, GetOnly DEF IInv

\* A request that ends leaves an answer whose parts are reports.
LEMMA InvEnd ==
  ASSUME IInv, NEW t \in Tabs, NEW d \in Downloads,
         \A i \in DOMAIN d.parts : d.parts[i] # 0,
         get' = [get EXCEPT ![t] = NoGet],
         download' = [download EXCEPT ![t] = d],
         UNCHANGED <<reports, lastReport, published, post, shown>>
  PROVE  IInv'
<1>1. TypeOK'
  BY DEF IInv, TypeOK
<1>2. \A u \in Tabs : get'[u].pc = "reading" => get'[u] = get[u]
  BY DEF IInv, TypeOK, NoGet
<1>3. Fresh'
  BY <1>2 DEF IInv, Fresh
<1>4. ReadPublished'
  BY <1>2 DEF IInv, ReadPublished
<1>5. NoneNeverRead'
  BY <1>2 DEF IInv, TypeOK, NoneNeverRead
<1>6. ReadsGoForward'
  BY <1>2 DEF IInv, ReadsGoForward
<1> QED BY <1>1, <1>3, <1>4, <1>5, <1>6, GetOnly DEF IInv

\* What is read is the report published last: never None, never an older one.
LEMMA ReadingReads ==
  ASSUME IInv, NEW t \in Tabs, Reading(t)
  PROVE  /\ get[t] \in GetStates
         /\ lastReport \in Ids /\ lastReport # 0
         /\ lastReport \in In(published)
         /\ \A a \in In(published) : NotAfter(published, a, lastReport)
<1>1. get[t] \in GetStates
  BY DEF IInv, TypeOK, Reading, NoGet
<1>2. published \in Seq(1 .. Len(reports)) /\ lastReport \in Ids
  BY BoundsAssumption DEF IInv, TypeOK, Ids
<1>3. published # << >>
  <2>1. CASE get[t].got = << >>
    BY <2>1 DEF Reading, IInv, LastIsPublished
  <2>2. CASE get[t].got # << >>
    <3>1. get[t].got \in Seq(Ids) /\ 1 \in 1 .. Len(get[t].got)
      BY <1>1, <2>2 DEF GetStates
    <3>2. get[t].got[1] \in In(published)
      BY <3>1 DEF Reading, IInv, ReadPublished
    <3> QED BY <1>2, <3>2, LastComesLast
  <2> QED BY <2>1, <2>2
<1>4. lastReport = published[Len(published)]
  BY <1>3 DEF IInv, LastIsPublished
<1>5. lastReport # 0 /\ lastReport \in In(published)
  BY <1>2, <1>3, <1>4 DEF In
<1> QED BY <1>1, <1>2, <1>4, <1>5, LastComesLast

\* A read that is not the last one adds the last report to what was read.
LEMMA InvRead ==
  ASSUME IInv, NEW t \in Tabs, Read(t)
  PROVE  IInv'
<1> DEFINE g == [get[t] EXCEPT !.got = Append(@, lastReport)]
<1>0. Reading(t) /\ ~ LastRead(t)
  BY DEF Read
<1>1. /\ get[t] \in GetStates
      /\ lastReport \in Ids /\ lastReport # 0 /\ lastReport \in In(published)
      /\ \A a \in In(published) : NotAfter(published, a, lastReport)
  BY <1>0, ReadingReads
<1>2. /\ get' = [get EXCEPT ![t] = g]
      /\ UNCHANGED <<reports, lastReport, published, post, shown, download>>
  BY DEF Read
<1>3. /\ g \in GetStates /\ g.pc = "reading" /\ g.seen = get[t].seen
      /\ g.kind = get[t].kind
      /\ Len(g.got) = Len(get[t].got) + 1 /\ Len(get[t].got) \in Nat
      /\ g.got[Len(g.got)] = lastReport
      /\ \A i \in 1 .. Len(get[t].got) : g.got[i] = get[t].got[i]
  <2>1. get[t].got \in Seq(Ids)
    BY <1>1 DEF GetStates
  <2>2. g.got = Append(get[t].got, lastReport)
    BY <1>1 DEF GetStates
  <2>3. /\ g.got \in Seq(Ids)
        /\ Len(g.got) = Len(get[t].got) + 1 /\ Len(get[t].got) \in Nat
        /\ g.got[Len(g.got)] = lastReport
        /\ \A i \in 1 .. Len(get[t].got) : g.got[i] = get[t].got[i]
    BY <1>1, <2>1, <2>2
  <2>4. g \in GetStates /\ g.pc = get[t].pc /\ g.seen = get[t].seen /\ g.kind = get[t].kind
    BY <1>1, <2>2, <2>3 DEF GetStates
  <2>5. get[t].pc = "reading"
    BY <1>0 DEF Reading
  <2> QED BY <2>3, <2>4, <2>5
<1>4. TypeOK'
  <2>1. get' \in [Tabs -> GetStates \union {NoGet}]
    BY <1>2, <1>3 DEF IInv, TypeOK
  <2> QED BY <1>2, <2>1 DEF IInv, TypeOK
<1>5. \A u \in Tabs : get'[u] = IF u = t THEN g ELSE get[u]
  BY <1>2 DEF IInv, TypeOK
<1>6. get[t].pc = "reading"
  BY <1>0 DEF Reading
<1>7. Fresh'
  BY <1>2, <1>3, <1>5, <1>6 DEF IInv, Fresh
<1>8. \A i \in 1 .. Len(g.got) : g.got[i] \in In(published)
  BY <1>1, <1>3, <1>6 DEF IInv, ReadPublished
<1>9. ReadPublished'
  <2>1. Len(g.got) < Len(Reads(g.kind))
    <3>1. g.kind \in AllGets
      BY <1>1, <1>3, KindsAssumption DEF GetStates
    <3>2. Len(Reads(g.kind)) \in Nat
      BY <3>1 DEF Reads, AllGets
    <3>3. Len(get[t].got) < Len(Reads(g.kind)) /\ Len(get[t].got) + 1 # Len(Reads(g.kind))
      BY <1>0, <1>3, <1>6 DEF IInv, ReadPublished, LastRead
    <3> QED BY <1>3, <3>2, <3>3
  <2> QED BY <1>2, <1>3, <1>5, <1>6, <1>8, <2>1 DEF IInv, ReadPublished
<1>10. NoneNeverRead'
  <2>1. \A i \in DOMAIN g.got : g.got[i] # 0
    BY <1>1, <1>3, <1>6 DEF IInv, NoneNeverRead, GetStates
  <2> QED BY <1>2, <1>5, <2>1 DEF IInv, NoneNeverRead
<1>11. ReadsGoForward'
  <2>1. g.seen \in In(published) =>
          \A i \in 1 .. Len(g.got) : NotAfter(published, g.seen, g.got[i])
    BY <1>1, <1>3, <1>6 DEF IInv, ReadsGoForward
  <2>2. \A i, j \in 1 .. Len(g.got) :
          i <= j => NotAfter(published, g.got[i], g.got[j])
    BY <1>1, <1>3, <1>6, <1>8 DEF IInv, ReadsGoForward
  <2> QED BY <1>2, <1>5, <2>1, <2>2 DEF IInv, ReadsGoForward
<1> QED BY <1>2, <1>4, <1>7, <1>9, <1>10, <1>11, GetOnly DEF IInv

\* A refused request is answered with no report at all.
LEMMA InvRefuse ==
  ASSUME IInv, NEW t \in Tabs, Refuse(t)
  PROVE  IInv'
<1> DEFINE d == Reply(get[t], << >>)
<1>1. get[t] \in GetStates
  BY DEF IInv, TypeOK, Refuse, NoGet
<1>2. d \in Downloads /\ d.parts = << >>
  BY <1>1 DEF Reply, Downloads, GetStates
<1>3. \A i \in DOMAIN d.parts : d.parts[i] # 0
  BY <1>2
<1> QED BY <1>2, <1>3, InvEnd DEF Refuse

\* The last read completes an answer of published reports.
LEMMA InvReadAndAnswer ==
  ASSUME IInv, NEW t \in Tabs, ReadAndAnswer(t)
  PROVE  IInv'
<1> DEFINE g == get[t]
           refused == g.kind = "semgrep" /\ OutOfRange(g.idx, lastReport)
           read == Append(Tail(g.got), lastReport)
           d == Reply(g, IF refused THEN << >> ELSE read)
<1>0. Reading(t) /\ LastRead(t)
  BY DEF ReadAndAnswer
<1>1. g \in GetStates /\ lastReport \in Ids /\ lastReport # 0
  BY <1>0, ReadingReads
<1>2. Len(g.got) >= 1
  <2>1. g.kind \in AllGets
    BY <1>1, KindsAssumption DEF GetStates
  <2>2. Len(Reads(g.kind)) >= 2 /\ Len(Reads(g.kind)) \in Nat
    BY <2>1 DEF Reads, AllGets
  <2>3. Len(g.got) \in Nat
    BY <1>1 DEF GetStates
  <2> QED BY <1>0, <2>2, <2>3 DEF LastRead
<1>3. /\ Tail(g.got) \in Seq(Ids)
      /\ \A i \in 1 .. Len(Tail(g.got)) : Tail(g.got)[i] # 0
  <2>1. g.got \in Seq(Ids) /\ g.got # << >>
    BY <1>1, <1>2 DEF GetStates
  <2>2. \A i \in 1 .. Len(g.got) : g.got[i] # 0
    BY <1>0, <2>1 DEF IInv, NoneNeverRead, Reading
  <2> QED BY <2>1, <2>2
<1>4. read \in Seq(Ids) /\ \A i \in DOMAIN read : read[i] # 0
  BY <1>1, <1>3
<1>5. d \in Downloads /\ \A i \in DOMAIN d.parts : d.parts[i] # 0
  BY <1>1, <1>4 DEF Reply, Downloads, GetStates
<1> QED BY <1>5, InvEnd DEF ReadAndAnswer

-----------------------------------------------------------------------------
(* The theorems.                                                           *)

\* A restarted server carries nothing, and what tabs show stays their own.
LEMMA InvRestart ==
  ASSUME IInv, Restart
  PROVE  IInv'
<1> USE DEF Restart, NoPost, NoGet
<1>1. TypeOK'
  BY BoundsAssumption DEF IInv, TypeOK, PostStates, Ids
<1>2. LastIsPublished' /\ CarriesOwn' /\ Fresh'
  BY DEF LastIsPublished, CarriesOwn, Fresh
<1>3. ReadPublished' /\ ReadsGoForward'
  BY DEF ReadPublished, ReadsGoForward
<1>4. ShownIsOwnScan' /\ NoneNeverRead'
  BY DEF IInv, ShownIsOwnScan, NoneNeverRead
<1> QED BY <1>1, <1>2, <1>3, <1>4 DEF IInv

\* Every step of the server and its tabs keeps the invariant.
LEMMA InvNext == IInv /\ [Next]_vars => IInv'
<1> SUFFICES ASSUME IInv, [Next]_vars PROVE IInv'
  OBVIOUS
<1>1. ASSUME NEW t \in Tabs, NEW kind \in Posts,
             SendPost(t, kind) \/ ServePost(t, kind)
      PROVE  IInv'
  BY <1>1, InvSendFail, InvCompute, InvPublish, InvArrive DEF ServePost
<1>2. ASSUME NEW t \in Tabs, NEW kind \in Gets, NEW idx \in Indexes,
             Click(t, kind, idx)
      PROVE  IInv'
  BY <1>2, InvClick
<1>3. ASSUME NEW t \in Tabs, ServeGet(t)
      PROVE  IInv'
  BY <1>3, InvRefuse, InvRead, InvReadAndAnswer DEF ServeGet
<1>4. CASE Restart
  BY <1>4, InvRestart
<1>5. CASE UNCHANGED vars
  <2>1. TypeOK'
    BY <1>5 DEF IInv, TypeOK, vars
  <2>2. Fresh' /\ ReadPublished'
    BY <1>5 DEF IInv, Fresh, ReadPublished, vars
  <2>3. NoneNeverRead'
    BY <1>5 DEF IInv, NoneNeverRead, vars
  <2>4. ReadsGoForward'
    BY <1>5 DEF IInv, ReadsGoForward, vars
  <2> QED BY <1>5, <2>1, <2>2, <2>3, <2>4, GetOnly DEF IInv, vars
<1> QED BY <1>1, <1>2, <1>3, <1>4, <1>5 DEF Next

\* The invariant holds throughout.
LEMMA Invariance == Spec => []IInv
<1> QED BY InvInit, InvNext, PTL DEF Spec

\* Every variable of the server and its tabs keeps its shape.
THEOREM TypeCorrect == Spec => []TypeOK
<1>1. IInv => TypeOK
  BY DEF IInv
<1> QED BY <1>1, Invariance, PTL

\* A tab shows a scan it asked for itself, in whatever order threads publish.
THEOREM OwnScanCorrect == Spec => []ShownIsOwnScan
<1>1. IInv => ShownIsOwnScan
  BY DEF IInv
<1> QED BY <1>1, Invariance, PTL

\* One check for None is enough for all the reads of a request.
THEOREM NoneCorrect == Spec => []NoneNeverRead
<1>1. IInv => NoneNeverRead
  BY DEF IInv
<1> QED BY <1>1, Invariance, PTL

\* What a request reads is never older than what its tab showed.
THEOREM ForwardCorrect == Spec => []ReadsGoForward
<1>1. IInv => ReadsGoForward
  BY DEF IInv
<1> QED BY <1>1, Invariance, PTL

-----------------------------------------------------------------------------
(* The endpoints with one read after the check implement one register.     *)

Shown(d) ==
  {d.parts[i] : i \in IF d.kind \in SingleRead THEN DOMAIN d.parts ELSE {}}

Answer == [t \in Tabs |-> Shown(download[t])]

\* Init of the server is Init of the register.
LEMMA RegisterInit == Init => Register!Init
<1> SUFFICES ASSUME Init PROVE Register!Init
  OBVIOUS
<1>1. \A t \in Tabs : download[t].kind \notin SingleRead
  BY DEF Init, NoDownload, SingleRead
<1> QED BY <1>1 DEF Init, Register!Init

\* The answer to a request of t changes the register's answer to t only.
LEMMA AnswerChanges ==
  ASSUME IInv, NEW t \in Tabs, NEW d, download' = [download EXCEPT ![t] = d]
  PROVE  Answer' = [Answer EXCEPT ![t] = Shown(d)]
<1> DEFINE Parts(e) == Shown(e)
<1>1. /\ Answer = [u \in Tabs |-> Parts(download[u])]
      /\ Answer' = [u \in Tabs |-> Parts(download'[u])]
  BY DEF Answer, Shown
<1>2. /\ download'[t] = d
      /\ \A u \in Tabs \ {t} : download'[u] = download[u]
  BY DEF IInv, TypeOK
<1> HIDE DEF Parts
<1>3. Answer' = [Answer EXCEPT ![t] = Parts(d)]
  BY <1>1, <1>2
<1> QED BY <1>3 DEF Parts

\* What remains of one element without its first, and one more.
LEMMA OnePart ==
  ASSUME NEW S, NEW s \in Seq(S), Len(s) = 1, NEW x \in S
  PROVE  Append(Tail(s), x) = <<x>>
<1> DEFINE sx == Append(Tail(s), x)
<1>1. Tail(s) \in Seq(S) /\ Len(Tail(s)) = 0
  OBVIOUS
<1>2. sx \in Seq(S) /\ Len(sx) = 1 /\ sx[1] = x
  <2>1. /\ sx \in Seq(S) /\ Len(sx) = Len(Tail(s)) + 1
        /\ sx[Len(Tail(s)) + 1] = x
    <3>1. PICK u \in Seq(S) : u = Tail(s)
      BY <1>1
    <3>2. /\ Append(u, x) \in Seq(S) /\ Len(Append(u, x)) = Len(u) + 1
          /\ Append(u, x)[Len(u) + 1] = x
      BY <3>1, AppendProperties
    <3> QED BY <3>1, <3>2
  <2>2. Len(Tail(s)) + 1 = 1
    BY <1>1
  <2> HIDE DEF sx
  <2> QED BY <2>1, <2>2
<1>3. <<x>> \in Seq(S) /\ Len(<<x>>) = 1 /\ (<<x>>)[1] = x
  OBVIOUS
<1>4. Len(sx) = Len(<<x>>)
  BY <1>2, <1>3
<1>5. \A i \in 1 .. Len(sx) : sx[i] = (<<x>>)[i]
  <2>1. ASSUME NEW i \in 1 .. 1 PROVE i = 1
    OBVIOUS
  <2> QED BY <1>2, <1>3, <2>1
<1> HIDE DEF sx
<1>6. sx = <<x>>
  BY <1>2, <1>3, <1>4, <1>5, SeqEqual
<1> QED BY <1>6 DEF sx

\* An endpoint with one read after the check answers with that report, or none;
\* the answer of any other counts as none.
LEMMA OneReadAnswer ==
  ASSUME IInv, NEW t \in Tabs, ReadAndAnswer(t)
  PROVE  /\ lastReport # 0 /\ lastReport' = lastReport
         /\ \/ Answer' = [Answer EXCEPT ![t] = {}]
            \/ Answer' = [Answer EXCEPT ![t] = {lastReport}]
<1> DEFINE g == get[t]
           refused == g.kind = "semgrep" /\ OutOfRange(g.idx, lastReport)
           parts == IF refused THEN << >> ELSE Append(Tail(g.got), lastReport)
<1>1. Reading(t) /\ LastRead(t) /\ lastReport' = lastReport
  BY DEF ReadAndAnswer
<1>2. g \in GetStates /\ lastReport # 0
  BY <1>1, ReadingReads
<1>3. ASSUME g.kind \in SingleRead
      PROVE  Len(g.got) = 1 /\ g.got \in Seq(Ids)
  <2>1. g.kind \in {"csv", "sarif", "semgrep"} /\ g.got \in Seq(Ids)
    BY <1>2, <1>3 DEF SingleRead, GetStates
  <2>2. Len(Reads(g.kind)) = 2
    BY <2>1 DEF Reads
  <2>3. Len(g.got) \in Nat
    BY <2>1
  <2>4. Len(g.got) + 1 = Len(Reads(g.kind))
    BY <1>1 DEF LastRead
  <2>5. \A n \in Nat : n + 1 = 2 => n = 1
    OBVIOUS
  <2> QED BY <2>1, <2>2, <2>3, <2>4, <2>5
<1>4. ASSUME g.kind \in SingleRead
      PROVE  Append(Tail(g.got), lastReport) = <<lastReport>>
  BY <1>2, <1>3, <1>4, ReadingReads, <1>1, OnePart
<1>5. Shown(Reply(g, parts)) \in {{}, {lastReport}}
  <2>1. g.kind \in SingleRead => parts \in {<< >>, <<lastReport>>}
    BY <1>4
  <2>2. Reply(g, parts).parts = parts /\ Reply(g, parts).kind = g.kind
    BY DEF Reply
  <2>3. {(<<lastReport>>)[i] : i \in DOMAIN <<lastReport>>} = {lastReport}
    OBVIOUS
  <2>4. {(<< >>)[i] : i \in DOMAIN << >>} = {}
    OBVIOUS
  <2> DEFINE d == Reply(g, parts)
  <2>5. CASE g.kind \notin SingleRead
    <3>1. d.kind \notin SingleRead
      BY <2>2, <2>5
    <3> HIDE DEF d
    <3>2. Shown(d) = {}
      BY <3>1 DEF Shown
    <3> QED BY <3>2 DEF d
  <2>6. CASE g.kind \in SingleRead
    <3>1. /\ d.kind \in SingleRead
          /\ d.parts = << >> \/ d.parts = <<lastReport>>
      BY <2>1, <2>2, <2>6
    <3> HIDE DEF d
    <3>2. Shown(d) = {d.parts[i] : i \in DOMAIN d.parts}
      BY <3>1 DEF Shown
    <3>3. Shown(d) \in {{}, {lastReport}}
      BY <2>3, <2>4, <3>1, <3>2
    <3> QED BY <3>3 DEF d
  <2> QED BY <2>5, <2>6
<1>6. Answer' = [Answer EXCEPT ![t] = Shown(Reply(g, parts))]
  BY AnswerChanges DEF ReadAndAnswer
<1> QED BY <1>1, <1>2, <1>5, <1>6

\* Every step of the server is a step of the register, or none.
LEMMA RegisterStep ==
  ASSUME IInv, [Next]_vars
  PROVE  [Register!Next]_(Register!vars)
<1> USE DEF Register!Next, Register!vars, Register!Publish, Register!Forget,
            Register!Download, Register!Refuse
<1>0. Answer = [t \in Tabs |->
                  {download[t].parts[i] : i \in
                     IF download[t].kind \in SingleRead
                     THEN DOMAIN download[t].parts ELSE {}}]
  BY DEF Answer, Shown
<1>1. CASE UNCHANGED <<lastReport, download>>
  BY <1>1
<1>2. ASSUME NEW t \in Tabs, NEW kind \in Posts, Publish(t, kind)
      PROVE  Register!Publish
  <2>1. post[t][kind].report \in Nat \ {0}
    BY <1>2 DEF IInv, CarriesOwn, TypeOK, Publish
  <2> QED BY <1>2, <2>1 DEF Publish
<1>3. CASE Restart
  BY <1>3 DEF Restart
<1>4. ASSUME NEW t \in Tabs, Refuse(t)
      PROVE  Register!Refuse(t)
  <2>1. Shown(Reply(get[t], << >>)) = {}
    BY DEF Shown, Reply
  <2>2. Answer' = [Answer EXCEPT ![t] = {}]
    BY <1>4, <2>1, AnswerChanges DEF Refuse
  <2> QED BY <1>4, <2>2 DEF Refuse, Answer, Shown
<1>5. ASSUME NEW t \in Tabs, ReadAndAnswer(t)
      PROVE  Register!Refuse(t) \/ Register!Download(t)
  <2>1. /\ lastReport # 0 /\ lastReport' = lastReport
        /\ \/ Answer' = [Answer EXCEPT ![t] = {}]
           \/ Answer' = [Answer EXCEPT ![t] = {lastReport}]
    BY <1>5, OneReadAnswer
  <2> QED BY <2>1 DEF Answer, Shown
<1>6. ASSUME NEW t \in Tabs, NEW kind \in Posts,
             SendPost(t, kind) \/ Compute(t, kind) \/ Fail(t, kind)
               \/ Arrive(t, kind)
      PROVE  UNCHANGED <<lastReport, download>>
  BY <1>6 DEF SendPost, Compute, Fail, Arrive
<1>7. ASSUME NEW t \in Tabs,
             Read(t) \/ \E kind \in Gets, idx \in Indexes : Click(t, kind, idx)
      PROVE  UNCHANGED <<lastReport, download>>
  BY <1>7 DEF Read, Click
<1>8. CASE UNCHANGED vars
  BY <1>8 DEF vars
<1>9. CASE Next
  <2>1. CASE Restart
    BY <1>3, <2>1
  <2>2. CASE \E t \in Tabs, kind \in Posts : SendPost(t, kind) \/ ServePost(t, kind)
    BY <1>1, <1>2, <1>6, <2>2 DEF ServePost
  <2>3. CASE \E t \in Tabs : ServeGet(t)
    BY <1>1, <1>4, <1>5, <1>7, <2>3 DEF ServeGet
  <2>4. CASE \E t \in Tabs, kind \in Gets, idx \in Indexes : Click(t, kind, idx)
    BY <1>1, <1>7, <2>4
  <2> QED BY <1>9, <2>1, <2>2, <2>3, <2>4 DEF Next
<1> QED BY <1>1, <1>8, <1>9

\* CSV and SARIF exports and the Semgrep link answer with the last report as
\* it was at one instant, whatever is scanned or read meanwhile.
THEOREM AtomicExports == Spec => ExportsAreAtomic
<1>1. Init => Register!Init
  BY RegisterInit
<1>2. IInv /\ [Next]_vars => [Register!Next]_(Register!vars)
  BY RegisterStep
<1> QED BY <1>1, <1>2, Invariance, PTL DEF Spec, ExportsAreAtomic, Register!Spec

=============================================================================
