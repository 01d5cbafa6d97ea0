------------------------------- MODULE PatchDb -------------------------------
(***************************************************************************)
(* The patch-signature database ~/.racemap/patch_db.json.  `--update-db`,  *)
(* the web button and the Streamlit button each run an update in a process *)
(* or thread of their own: fetch, open the file for writing (which empties *)
(* it), write.  Scans read the file once per candidate.  Nothing locks the *)
(* file, so every system call is an action.                                *)
(*                                                                         *)
(* The file is a sequence of cells, each holding a piece of the update     *)
(* that wrote it; it parses as JSON only when it is one whole update.      *)
(* A definition named Bug_X is X with a mistake that code could contain.   *)
(***************************************************************************)
EXTENDS Naturals, Sequences, FiniteSets

CONSTANTS
  Updaters,   \* updates that may run at the same time
  Scans,      \* scans with the patch-gap check switched on
  CVEs,       \* db_updater.CVES
  Size,       \* length of the JSON text, by the set of refreshed CVEs
  NumReads,   \* candidates of a scan, each of which reads the database
  TTL,        \* db_updater.TTL_DAYS, in clock ticks
  MaxNow      \* bound on the clock

ASSUME SizeAssumption == Size \in [SUBSET CVEs -> Nat \ {0}]
ASSUME NumbersAssumption == NumReads \in Nat /\ TTL \in Nat /\ MaxNow \in Nat

VARIABLES
  file,      \* cells of patch_db.json; empty also when it does not exist
  now,       \* datetime.now(), in days
  pc,        \* per update: where it stands
  result,    \* per update: what fetch_latest_signatures has so far
  reads,     \* per scan: the answers get_db has given it, and when
  fetched,   \* history: the results of all fetches
  saved,     \* history: the update written last with no other opened since
  crossed    \* history: have two updates had the file open at the same time,
             \* since one last opened it alone?

vars == <<file, now, pc, result, reads, fetched, saved, crossed>>

-----------------------------------------------------------------------------
(* Data.  Signatures are the built-in ones but for the CVEs refreshed.     *)

Updates == [ts : 0 .. MaxNow, refreshed : SUBSET CVEs]

Builtin == [refreshed |-> {}]   \* dict(BUILTIN_SIGNATURES): no timestamp

Answers == [db : Updates \union {Builtin}, at : 0 .. MaxNow]   \* of get_db

Text(u) == [i \in 1 .. Size[u.refreshed] |-> u]

\* json.loads succeeds: one update, all of it and nothing after it.
Parses == file # << >> /\ file = Text(file[1])

Bug_Fresh(ts) == now - ts <= TTL
Fresh(ts) == now - ts < TTL

\* get_db: the file's signatures if it parses and is fresh.
GetDb == IF Parses /\ Fresh(file[1].ts) THEN file[1] ELSE Builtin

\* A write at offset 0 of a file that may have grown since it was opened.
Overwritten(text) ==
  [i \in 1 .. (IF Len(file) > Len(text) THEN Len(file) ELSE Len(text)) |->
     IF i <= Len(text) THEN text[i] ELSE file[i]]

NoResult == [ts |-> 0, refreshed |-> {}]

NoUpdate == [refreshed |-> {}, none |-> TRUE]   \* no complete update on disk

-----------------------------------------------------------------------------
(* An update.                                                              *)

\* fetch_latest_signatures takes its timestamp before the first request.
Begin(u) ==
  /\ pc[u] = "idle"
  /\ pc' = [pc EXCEPT ![u] = "fetching"]
  /\ result' = [result EXCEPT ![u] = [ts |-> now, refreshed |-> {}]]
  /\ UNCHANGED <<file, now, reads, fetched, saved, crossed>>

Refreshed(res, cves) == [ts |-> res.ts, refreshed |-> cves]

\* Each CVE is refreshed, or keeps its built-in signature when no commit names
\* it or its request fails.
Fetch(u) ==
  /\ pc[u] = "fetching"
  /\ \E r \in SUBSET CVEs :
       /\ result' = [result EXCEPT ![u] = Refreshed(@, r)]
       /\ fetched' = fetched \union {Refreshed(result[u], r)}
  /\ pc' = [pc EXCEPT ![u] = "fetched"]
  /\ UNCHANGED <<file, now, reads, saved, crossed>>

OthersOpened(u) == \E v \in Updaters \ {u} : pc[v] = "opened"

Bug_Open(u) ==
  /\ pc[u] = "fetched"
  /\ saved' = NoUpdate
  /\ crossed' = OthersOpened(u)
  /\ pc' = [pc EXCEPT ![u] = "opened"]
  /\ UNCHANGED <<file, now, result, reads, fetched>>

\* write_text, open(..., "w"): the file is created or emptied.
Open(u) ==
  /\ pc[u] = "fetched"
  /\ file' = << >>
  /\ saved' = NoUpdate
  /\ crossed' = OthersOpened(u)
  /\ pc' = [pc EXCEPT ![u] = "opened"]
  /\ UNCHANGED <<now, result, reads, fetched>>

Bug_Write(u) ==
  /\ pc[u] = "opened"
  /\ file' = Overwritten(Text([result[u] EXCEPT !.ts = now + TTL]))
  /\ saved' = [result[u] EXCEPT !.ts = now + TTL]
  /\ pc' = [pc EXCEPT ![u] = "idle"]
  /\ result' = [result EXCEPT ![u] = NoResult]
  /\ UNCHANGED <<now, reads, fetched, crossed>>

\* write_text, the write: the text fits the buffer and goes out in one call.
Write(u) ==
  /\ pc[u] = "opened"
  /\ file' = Overwritten(Text(result[u]))
  /\ saved' = result[u]
  /\ pc' = [pc EXCEPT ![u] = "idle"]
  /\ result' = [result EXCEPT ![u] = NoResult]
  /\ UNCHANGED <<now, reads, fetched, crossed>>

\* The process is killed, or the disk is full.
Crash(u) ==
  /\ pc[u] # "idle"
  /\ pc' = [pc EXCEPT ![u] = "idle"]
  /\ result' = [result EXCEPT ![u] = NoResult]
  /\ UNCHANGED <<file, now, reads, fetched, saved, crossed>>

-----------------------------------------------------------------------------
\* A scan's next candidate: signature_for calls get_db again.
ReadDb(s) ==
  /\ Len(reads[s]) < NumReads
  /\ reads' = [reads EXCEPT ![s] = Append(@, [db |-> GetDb, at |-> now])]
  /\ UNCHANGED <<file, now, pc, result, fetched, saved, crossed>>

Tick ==
  /\ now < MaxNow
  /\ now' = now + 1
  /\ UNCHANGED <<file, pc, result, reads, fetched, saved, crossed>>

Init ==
  /\ file = << >>
  /\ now = 0
  /\ pc = [u \in Updaters |-> "idle"]
  /\ result = [u \in Updaters |-> NoResult]
  /\ reads = [s \in Scans |-> << >>]
  /\ fetched = {}
  /\ saved = NoUpdate
  /\ crossed = FALSE

Update(u) == Begin(u) \/ Fetch(u) \/ Open(u) \/ Write(u)

Next ==
  \/ \E u \in Updaters : Update(u) \/ Crash(u)
  \/ \E s \in Scans : ReadDb(s)
  \/ Tick

Spec == Init /\ [][Next]_vars

-----------------------------------------------------------------------------
(* Properties.                                                             *)

Shaped ==
  /\ file \in Seq(Updates)
  /\ now \in 0 .. MaxNow
  /\ pc \in [Updaters -> {"idle", "fetching", "fetched", "opened"}]
  /\ result \in [Updaters -> Updates]
  /\ reads \in [Scans -> Seq(Answers)]
  /\ fetched \subseteq Updates
  /\ saved \in Updates \union {NoUpdate}
  /\ crossed \in BOOLEAN

\* No update is stamped later than the clock, nor read before its stamp.
NoneAhead ==
  /\ \A i \in DOMAIN file : file[i].ts <= now
  /\ \A u \in Updaters : result[u].ts <= now
  /\ \A f \in fetched : f.ts <= now
  /\ saved # NoUpdate => saved.ts <= now
  /\ \A s \in Scans : \A i \in DOMAIN reads[s] :
       LET read == reads[s][i]
       IN  read.at <= now /\ (read.db # Builtin => read.db.ts <= read.at)

\* Every variable keeps its shape, and no timestamp lies in the future: in the
\* file, on its way there, or in an answer at the time it was given.
TypeOK == Shaped /\ NoneAhead

\* Whatever updates run, cross or die while scans read the file, get_db answers
\* with the built-in signatures or with what one fetch returned, all of it, less
\* than TTL_DAYS after that fetch began (get_db's guard, db_updater.py:122).
AnswersFetchedAndFresh ==
  \A s \in Scans : \A i \in DOMAIN reads[s] :
    LET read == reads[s][i]
    IN  read.db # Builtin => read.db \in fetched /\ read.at - read.db.ts < TTL

\* Once an update that was alone in having the file open has been written, and
\* none was opened since, get_db answers with it as long as it is fresh ("Return
\* the local DB if present and fresh", db_updater.py:115): however large the text
\* was that the file held before, and whatever died half-way before.
QuietDbServed ==
  saved # NoUpdate /\ ~ crossed /\ Fresh(saved.ts) => GetDb = saved
=============================================================================
