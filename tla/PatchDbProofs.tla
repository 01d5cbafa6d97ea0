---------------------------- MODULE PatchDbProofs ----------------------------
(***************************************************************************)
(* What PatchDb promises for any number of updates and scans, any set of   *)
(* CVEs, any text lengths and any time to live.                            *)
(***************************************************************************)
EXTENDS PatchDb, SequenceTheorems, TLAPS

\* A text is a non-empty sequence whose every cell is the update it spells.
LEMMA TextOf ==
  ASSUME NEW u \in Updates
  PROVE  /\ Size[u.refreshed] \in Nat \ {0}
         /\ Text(u) \in Seq(Updates)
         /\ Len(Text(u)) = Size[u.refreshed]
         /\ \A i \in 1 .. Len(Text(u)) : Text(u)[i] = u
         /\ Text(u) # << >>
<1>1. Size[u.refreshed] \in Nat \ {0}  BY SizeAssumption DEF Updates
<1>2. \A i \in 1 .. Size[u.refreshed] : u \in Updates  OBVIOUS
<1>3. Text(u) \in Seq(Updates) /\ Len(Text(u)) = Size[u.refreshed]
  BY <1>1, <1>2, IsASeq DEF Text
<1>4. \A i \in 1 .. Len(Text(u)) : Text(u)[i] = u  BY <1>3 DEF Text
<1>5. Text(u) # << >>  BY <1>1, <1>3
<1> QED  BY <1>1, <1>3, <1>4, <1>5

\* Writing at offset 0 leaves a sequence whose cells are new or were there.
LEMMA OverwrittenCells ==
  ASSUME NEW text \in Seq(Updates), file \in Seq(Updates)
  PROVE  /\ Overwritten(text) \in Seq(Updates)
         /\ \A i \in 1 .. Len(Overwritten(text)) :
              \/ i \in 1 .. Len(text) /\ Overwritten(text)[i] = text[i]
              \/ i \in 1 .. Len(file) /\ Overwritten(text)[i] = file[i]
<1> DEFINE length == IF Len(file) > Len(text) THEN Len(file) ELSE Len(text)
           cell(i) == IF i <= Len(text) THEN text[i] ELSE file[i]
<1>1. Len(file) \in Nat /\ Len(text) \in Nat /\ length \in Nat  OBVIOUS
<1>2. \A i \in 1 .. length :
        \/ i \in 1 .. Len(text) /\ cell(i) = text[i]
        \/ i \in 1 .. Len(file) /\ cell(i) = file[i]
  BY <1>1
<1>3. \A i \in 1 .. length : cell(i) \in Updates
  BY <1>2, ElementOfSeq
<1>4. Overwritten(text) = [i \in 1 .. length |-> cell(i)]
  BY DEF Overwritten
<1> HIDE DEF length, cell
<1>5. Overwritten(text) \in Seq(Updates) /\ Len(Overwritten(text)) = length
  BY <1>1, <1>3, <1>4, IsASeq
<1>6. \A i \in 1 .. length : Overwritten(text)[i] = cell(i)  BY <1>4
<1> QED  BY <1>2, <1>5, <1>6

-----------------------------------------------------------------------------
(* Types.                                                                  *)

\* The records the steps build are updates.
LEMMA Results ==
  ASSUME NEW t \in 0 .. MaxNow, NEW r \in SUBSET CVEs, NEW res \in Updates
  PROVE  [ts |-> t, refreshed |-> r] \in Updates /\ Refreshed(res, r) \in Updates
BY DEF Updates, Refreshed

\* So is the placeholder of an update that has not begun.
LEMMA NoResultIsAResult == NoResult \in Updates
BY NumbersAssumption DEF Updates, NoResult

\* Every step keeps every variable's shape.
LEMMA ShapedNext == Shaped /\ [Next]_vars => Shaped'
<1> SUFFICES ASSUME Shaped, [Next]_vars PROVE Shaped'  OBVIOUS
<1>1. ASSUME NEW u \in Updaters, Begin(u) PROVE Shaped'
  <2>1. [ts |-> now, refreshed |-> {}] \in Updates  BY Results DEF Shaped, Updates
  <2> QED  BY <1>1, <2>1 DEF Shaped, Begin
<1>2. ASSUME NEW u \in Updaters, Fetch(u) PROVE Shaped'
  <2>1. PICK r \in SUBSET CVEs :
          /\ result' = [result EXCEPT ![u] = Refreshed(result[u], r)]
          /\ fetched' = fetched \union {Refreshed(result[u], r)}
    BY <1>2 DEF Fetch, Shaped
  <2>2. Refreshed(result[u], r) \in Updates
    BY DEF Shaped, Updates, Refreshed
  <2> QED  BY <1>2, <2>1, <2>2 DEF Shaped, Fetch
<1>3. ASSUME NEW u \in Updaters, Open(u) PROVE Shaped'
  <2>1. file' \in Seq(Updates)  BY <1>3, EmptySeq DEF Open
  <2>2. crossed' \in BOOLEAN  BY <1>3 DEF Open, OthersOpened
  <2> QED  BY <1>3, <2>1, <2>2 DEF Shaped, Open
<1>4. ASSUME NEW u \in Updaters, Write(u) PROVE Shaped'
  <2>1. result[u] \in Updates  BY DEF Shaped
  <2>2. file' \in Seq(Updates)
    BY <1>4, <2>1, TextOf, OverwrittenCells DEF Shaped, Write
  <2> QED  BY <1>4, <2>1, <2>2, NoResultIsAResult DEF Shaped, Write
<1>5. ASSUME NEW u \in Updaters, Crash(u) PROVE Shaped'
  BY <1>5, NoResultIsAResult DEF Shaped, Crash
<1>6. ASSUME NEW s \in Scans, ReadDb(s) PROVE Shaped'
  <2>1. GetDb \in Updates \union {Builtin}
    BY ElementOfSeq DEF GetDb, Parses, Shaped
  <2>2. [db |-> GetDb, at |-> now] \in Answers
    BY <2>1 DEF Shaped, Answers
  <2>3. reads' \in [Scans -> Seq(Answers)]
    BY <1>6, <2>2, AppendProperties DEF Shaped, ReadDb
  <2> QED  BY <1>6, <2>3 DEF Shaped, ReadDb
<1>7. ASSUME Tick PROVE Shaped'
  <2>1. now' \in 0 .. MaxNow  BY <1>7, NumbersAssumption DEF Tick, Shaped
  <2> QED  BY <1>7, <2>1 DEF Shaped, Tick
<1>8. CASE UNCHANGED vars  BY <1>8 DEF Shaped, vars
<1> QED  BY <1>1, <1>2, <1>3, <1>4, <1>5, <1>6, <1>7, <1>8 DEF Next, Update

\* No step stamps an update ahead of the clock, and the clock does not go back.
LEMMA NoneAheadNext == Shaped /\ NoneAhead /\ [Next]_vars => NoneAhead'
<1> SUFFICES ASSUME Shaped, NoneAhead, [Next]_vars PROVE NoneAhead'  OBVIOUS
<1>0. now \in Nat /\ \A f \in Updates : f.ts \in Nat
  BY NumbersAssumption DEF Shaped, Updates
<1>1. ASSUME NEW u \in Updaters, Begin(u) PROVE NoneAhead'
  BY <1>0, <1>1 DEF Shaped, NoneAhead, Begin
<1>2. ASSUME NEW u \in Updaters, Fetch(u) PROVE NoneAhead'
  <2>1. PICK r \in SUBSET CVEs :
          /\ result' = [result EXCEPT ![u] = Refreshed(result[u], r)]
          /\ fetched' = fetched \union {Refreshed(result[u], r)}
    BY <1>2 DEF Fetch, Shaped
  <2>2. Refreshed(result[u], r).ts = result[u].ts  BY DEF Refreshed
  <2> QED  BY <1>2, <2>1, <2>2 DEF Shaped, NoneAhead, Fetch
<1>3. ASSUME NEW u \in Updaters, Open(u) PROVE NoneAhead'
  BY <1>3 DEF NoneAhead, Open
<1>4. ASSUME NEW u \in Updaters, Write(u) PROVE NoneAhead'
  <2>1. result[u] \in Updates /\ result[u].ts <= now
    BY DEF Shaped, NoneAhead
  <2>2. \A i \in DOMAIN file' : file'[i].ts <= now
    <3>1. /\ Text(result[u]) \in Seq(Updates)
          /\ \A i \in 1 .. Len(Text(result[u])) : Text(result[u])[i] = result[u]
      BY <2>1, TextOf
    <3>2. file \in Seq(Updates) /\ file' = Overwritten(Text(result[u]))
      BY <1>4 DEF Shaped, Write
    <3>3. /\ file' \in Seq(Updates)
          /\ \A i \in 1 .. Len(file') :
               \/ i \in 1 .. Len(Text(result[u])) /\ file'[i] = Text(result[u])[i]
               \/ i \in 1 .. Len(file) /\ file'[i] = file[i]
      BY <3>1, <3>2, OverwrittenCells
    <3> QED  BY <2>1, <3>1, <3>2, <3>3 DEF NoneAhead
  <2>3. \A v \in Updaters : result'[v].ts <= now
    BY <1>0, <1>4 DEF Shaped, NoneAhead, Write, NoResult
  <2> QED  BY <1>4, <2>1, <2>2, <2>3 DEF NoneAhead, Write
<1>5. ASSUME NEW u \in Updaters, Crash(u) PROVE NoneAhead'
  BY <1>0, <1>5 DEF Shaped, NoneAhead, Crash, NoResult
<1>6. ASSUME NEW s \in Scans, ReadDb(s) PROVE NoneAhead'
  <2> DEFINE answer == [db |-> GetDb, at |-> now]
  <2>1. answer.at <= now /\ (answer.db # Builtin => answer.db.ts <= answer.at)
    BY <1>0 DEF GetDb, Parses, Shaped, NoneAhead
  <2>2. reads' = [reads EXCEPT ![s] = Append(reads[s], answer)]
    BY <1>6 DEF ReadDb
  <2>3. reads[s] \in Seq(Answers) /\ DOMAIN reads = Scans  BY DEF Shaped
  <2> HIDE DEF answer
  <2>4. \A i \in DOMAIN reads'[s] :
          \/ i \in DOMAIN reads[s] /\ reads'[s][i] = reads[s][i]
          \/ reads'[s][i] = answer
    BY <2>2, <2>3
  <2>5. \A t \in Scans : t # s => reads'[t] = reads[t]  BY <2>2, <2>3
  <2>6. \A t \in Scans : \A i \in DOMAIN reads'[t] :
          LET read == reads'[t][i]
          IN  read.at <= now /\ (read.db # Builtin => read.db.ts <= read.at)
    BY <2>1, <2>4, <2>5 DEF NoneAhead
  <2> QED  BY <1>6, <2>6 DEF NoneAhead, ReadDb
<1>7. ASSUME Tick PROVE NoneAhead'
  <2>1. now' = now + 1  BY <1>7 DEF Tick
  <2>2. \A t \in Nat : t <= now => t <= now'  BY <1>0, <2>1
  <2>3. /\ \A i \in DOMAIN file : file[i].ts \in Nat
        /\ \A u \in Updaters : result[u].ts \in Nat
        /\ \A f \in fetched : f.ts \in Nat
        /\ saved # NoUpdate => saved.ts \in Nat
    BY <1>0 DEF Shaped
  <2>4. ASSUME NEW s \in Scans, NEW i \in DOMAIN reads[s]
        PROVE  reads[s][i].at \in Nat
    <3>1. reads[s][i] \in Answers  BY ElementOfSeq DEF Shaped
    <3> QED  BY <3>1, NumbersAssumption DEF Answers
  <2> QED  BY <1>7, <2>2, <2>3, <2>4 DEF NoneAhead, Tick
<1>8. CASE UNCHANGED vars  BY <1>8 DEF NoneAhead, vars
<1> QED  BY <1>1, <1>2, <1>3, <1>4, <1>5, <1>6, <1>7, <1>8 DEF Next, Update

\* Whatever the updates and scans do, every variable keeps its shape and no
\* timestamp lies in the future.
THEOREM TypeCorrect == Spec => []TypeOK
<1>1. ASSUME Init PROVE Shaped /\ NoneAhead
  <2>1. crossed \in BOOLEAN  BY <1>1 DEF Init
  <2>2. file \in Seq(Updates) /\ reads \in [Scans -> Seq(Answers)]
    BY <1>1, EmptySeq DEF Init
  <2>3. result \in [Updaters -> Updates]  BY <1>1, NoResultIsAResult DEF Init
  <2>4. Shaped
    BY <1>1, <2>1, <2>2, <2>3, NumbersAssumption DEF Init, Shaped
  <2> QED  BY <1>1, <2>4 DEF Init, NoneAhead, NoResult
<1>2. Shaped /\ NoneAhead /\ [Next]_vars => Shaped' /\ NoneAhead'
  BY ShapedNext, NoneAheadNext
<1> QED  BY <1>1, <1>2, PTL DEF Spec, TypeOK

-----------------------------------------------------------------------------
(* Answers.                                                                *)

\* A result that is ready to be written came out of a fetch, and so did every
\* cell of the file.
Sourced ==
  /\ \A u \in Updaters : pc[u] \in {"fetched", "opened"} => result[u] \in fetched
  /\ \A i \in 1 .. Len(file) : file[i] \in fetched

\* The induction that answers need: what is in the file was fetched.
LEMMA SourcedNext ==
  TypeOK /\ Sourced /\ [Next]_vars => Sourced' /\ fetched \subseteq fetched'
<1> SUFFICES ASSUME TypeOK, Sourced, [Next]_vars
             PROVE  Sourced' /\ fetched \subseteq fetched'
  OBVIOUS
<1>1. CASE \E u \in Updaters : Begin(u)
  BY <1>1 DEF TypeOK, Shaped, Sourced, Begin
<1>2. CASE \E u \in Updaters : Fetch(u)
  BY <1>2 DEF TypeOK, Shaped, Sourced, Fetch, Refreshed
<1>3. CASE \E u \in Updaters : Open(u)
  BY <1>3 DEF TypeOK, Shaped, Sourced, Open
<1>4. ASSUME NEW u \in Updaters, Write(u)
      PROVE  Sourced' /\ fetched \subseteq fetched'
  <2>1. result[u] \in Updates /\ result[u] \in fetched
    BY <1>4 DEF TypeOK, Shaped, Sourced, Write
  <2>2. \A i \in 1 .. Len(file') : file'[i] \in fetched
    <3>1. /\ Text(result[u]) \in Seq(Updates)
          /\ \A i \in 1 .. Len(Text(result[u])) : Text(result[u])[i] = result[u]
      BY <2>1, TextOf
    <3>2. file \in Seq(Updates) /\ file' = Overwritten(Text(result[u]))
      BY <1>4 DEF TypeOK, Shaped, Write
    <3>3. \A i \in 1 .. Len(file') :
            \/ i \in 1 .. Len(Text(result[u])) /\ file'[i] = Text(result[u])[i]
            \/ i \in 1 .. Len(file) /\ file'[i] = file[i]
      BY <3>1, <3>2, OverwrittenCells
    <3> QED  BY <2>1, <3>1, <3>3 DEF Sourced
  <2> QED  BY <1>4, <2>2 DEF TypeOK, Shaped, Sourced, Write
<1>5. CASE \E u \in Updaters : Crash(u)
  BY <1>5 DEF TypeOK, Shaped, Sourced, Crash
<1>6. CASE \E s \in Scans : ReadDb(s)
  BY <1>6 DEF Sourced, ReadDb
<1>7. CASE Tick  BY <1>7 DEF Sourced, Tick
<1>8. CASE UNCHANGED vars  BY <1>8 DEF Sourced, vars
<1> QED  BY <1>1, <1>2, <1>3, <1>4, <1>5, <1>6, <1>7, <1>8 DEF Next, Update

\* The answers given stay good when fetched grows, and the next one is good.
LEMMA AnswersNext ==
  TypeOK /\ Sourced /\ AnswersFetchedAndFresh /\ [Next]_vars
    => AnswersFetchedAndFresh'
<1> SUFFICES ASSUME TypeOK, Sourced, AnswersFetchedAndFresh, [Next]_vars
             PROVE  AnswersFetchedAndFresh'
  OBVIOUS
<1>1. fetched \subseteq fetched'  BY SourcedNext
<1>2. CASE UNCHANGED reads
  BY <1>1, <1>2 DEF AnswersFetchedAndFresh
<1>3. ASSUME NEW s \in Scans, ReadDb(s) PROVE AnswersFetchedAndFresh'
  <2> DEFINE answer == [db |-> GetDb, at |-> now]
  <2>1. answer.db # Builtin => answer.db \in fetched /\ answer.at - answer.db.ts < TTL
    BY DEF GetDb, Parses, Fresh, Sourced, TypeOK, Shaped
  <2>2. /\ reads' = [reads EXCEPT ![s] = Append(reads[s], answer)]
        /\ fetched' = fetched
    BY <1>3 DEF ReadDb
  <2>3. reads[s] \in Seq(Answers)
        /\ s \in DOMAIN reads /\ DOMAIN reads = Scans
    BY DEF TypeOK, Shaped
  <2> HIDE DEF answer
  <2>4. \A i \in DOMAIN reads'[s] :
          \/ i \in DOMAIN reads[s] /\ reads'[s][i] = reads[s][i]
          \/ reads'[s][i] = answer
    BY <2>2, <2>3
  <2>5. \A t \in Scans : t # s => reads'[t] = reads[t]
    BY <2>2, <2>3
  <2> QED  BY <2>1, <2>2, <2>4, <2>5 DEF AnswersFetchedAndFresh
<1>4. UNCHANGED reads \/ \E s \in Scans : ReadDb(s)
  BY DEF Next, Update, Begin, Fetch, Open, Write, Crash, Tick, vars
<1> QED  BY <1>2, <1>3, <1>4

\* get_db answers with the built-in signatures or with one fetch's result,
\* whole, while it is fresh: whoever writes the file, crosses or dies.
THEOREM AnswersCorrect == Spec => []AnswersFetchedAndFresh
<1>1. Init => Sourced /\ AnswersFetchedAndFresh
  BY DEF Init, Sourced, AnswersFetchedAndFresh
<1> QED  BY <1>1, TypeCorrect, SourcedNext, AnswersNext, PTL DEF Spec

-----------------------------------------------------------------------------
(* Updates that do not cross.                                              *)

\* Unless two updates have crossed, the file is empty while one has it open, and
\* holds the update saved last and nothing else when none has.
OneWriter ==
  ~ crossed =>
    /\ \A u \in Updaters : pc[u] = "opened" =>
         /\ file = << >> /\ saved = NoUpdate
         /\ \A v \in Updaters \ {u} : pc[v] # "opened"
    /\ saved # NoUpdate => saved \in Updates /\ file = Text(saved)

\* No step mixes two texts without two updates having crossed.
LEMMA OneWriterNext ==
  ASSUME TypeOK, OneWriter, [Next]_vars
  PROVE  OneWriter'
<1>1. CASE \E u \in Updaters : Begin(u)
  BY <1>1 DEF TypeOK, Shaped, OneWriter, Begin, Text
<1>2. CASE \E u \in Updaters : Fetch(u)
  BY <1>2 DEF TypeOK, Shaped, OneWriter, Fetch, Text
<1>3. CASE \E u \in Updaters : Open(u)
  BY <1>3 DEF TypeOK, Shaped, OneWriter, Open, OthersOpened
<1>4. ASSUME NEW u \in Updaters, Write(u), ~ crossed PROVE OneWriter'
  <2>1. /\ file = << >> /\ result[u] \in Updates
        /\ \A v \in Updaters \ {u} : pc[v] # "opened"
    BY <1>4 DEF TypeOK, Shaped, OneWriter, Write
  <2>2. Overwritten(Text(result[u])) = Text(result[u])
    <3>1. Size[result[u].refreshed] \in Nat \ {0}
          /\ Len(Text(result[u])) = Size[result[u].refreshed]
      BY <2>1, TextOf
    <3>2. Len(file) = 0  BY <2>1
    <3> QED  BY <3>1, <3>2 DEF Overwritten, Text
  <2>3. \A v \in Updaters : pc'[v] # "opened"
    BY <1>4, <2>1 DEF TypeOK, Shaped, Write
  <2>4. saved' \in Updates /\ file' = Text(saved)'
    BY <1>4, <2>1, <2>2 DEF Write, Text
  <2> QED  BY <2>3, <2>4 DEF OneWriter
<1>9. CASE crossed /\ \E u \in Updaters : Write(u)
  BY <1>9 DEF OneWriter, Write
<1>5. CASE \E u \in Updaters : Crash(u)
  BY <1>5 DEF TypeOK, Shaped, OneWriter, Crash, Text
<1>6. CASE \E s \in Scans : ReadDb(s)
  BY <1>6 DEF OneWriter, ReadDb, Text
<1>7. CASE Tick  BY <1>7 DEF OneWriter, Tick, Text
<1>8. CASE UNCHANGED vars  BY <1>8 DEF OneWriter, vars, Text
<1> QED  BY <1>1, <1>2, <1>3, <1>4, <1>5, <1>6, <1>7, <1>8, <1>9
     DEF Next, Update

\* A file that holds one text parses, and get_db answers with it while fresh.
LEMMA OneWriterServes == OneWriter => QuietDbServed
<1> SUFFICES ASSUME OneWriter, saved # NoUpdate, ~ crossed, Fresh(saved.ts)
             PROVE  GetDb = saved
  BY DEF QuietDbServed
<1>1. saved \in Updates /\ file = Text(saved)  BY DEF OneWriter
<1>2. file # << >> /\ file[1] = saved  BY <1>1, TextOf
<1> QED  BY <1>1, <1>2 DEF GetDb, Parses

\* An update that was alone in having the file open is what get_db serves, once
\* it is written, until it expires or the next one opens the file.
THEOREM QuietCorrect == Spec => []QuietDbServed
<1>1. Init => OneWriter  BY DEF Init, OneWriter
<1>2. TypeOK /\ OneWriter /\ [Next]_vars => OneWriter'  BY OneWriterNext
<1> QED  BY <1>1, <1>2, TypeCorrect, OneWriterServes, PTL DEF Spec
=============================================================================
