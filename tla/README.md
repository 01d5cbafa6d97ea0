# racemap in TLA+

racemap scans a Linux kernel tree for race-condition candidates (built-in
detectors, optionally Coccinelle and Semgrep), triages each candidate with an LLM
or an offline heuristic, and shows the result on the command line, in a Flask web
UI and in a Streamlit page. This directory holds TLA+ models of the parts where
order, sharing and failure matter, the TLC runs that check them, and proofs that
TLAPS checks.

Paths below are relative to the repository; `scanner/…` and `triage/…` stand for
`src/scanner/…` and `src/triage/…` in it.

## The system

| Part | State | Operations | Interacts with |
|---|---|---|---|
| Scanner (`scanner/scanner.py`) | candidate list, `seen` dict of `_dedupe`, warnings | `scan`: Coccinelle rules, Semgrep, built-in detectors as fallback, merge per line, enrichment | source tree; subprocesses; its candidates go to triage |
| Source analyses (`caller_lock`, `taint`, `sparse_annotations`, `barrier`, `workqueue`, `interrupt_ctx`, `container_escape`, `version_tracker`, `git_log`) | none (`git_log` memoises per scan) | annotate one candidate from its source window | called from `_enrich_all` |
| Patch signatures (`scanner/db_updater.py`, `patch_gap.py`) | `~/.racemap/patch_db.json` | `fetch_latest_signatures`, `update_local_db`, `get_db` once per candidate | GitHub; the scans of every front end |
| Triage pipeline (`triage/pipeline.py`) | per run: chain position, warnings already seen, `active_backend` | `triage`, `triage_one`, `_triage_uncached` | backends, cache |
| LLM backends (`triage/backends/`) | `last_error` | `triage`: call (with a timeout: Ollama and OpenAI only), parse, fall back to the heuristic on malformed text | Ollama, Gemini, OpenAI, Anthropic |
| Response cache (`triage/cache.py`) | SQLite `~/.racemap/cache.db`, one row per key, shared by every process | `get` (TTL), `put`, `clear` | all pipelines |
| Web server (`web/server.py`) | global `LAST_REPORT`, one thread per request, no lock | scan, live scan, exports, Semgrep link, patch gap, cache and database endpoints | browser tabs; pipeline; patch database |
| Browser (`web/static/app.js`) | `LAST`, `PAGE`, `PER`, session log, theme, open card, busy buttons | one handler per control, two steps where it awaits a fetch | web server |
| Streamlit page (`ui/app.py`) | per session `st.session_state` (reports, page numbers, section), per process the `st.cache_data` memos | the script, run again for every click: scan, live scan, diff, patch gap, cache, pager | scanner, pipeline, patch database |
| Command line (`main.py`) | none | scan, validate, diff, update-db | all of the above |
| Reports (`reporter/`) | none | JSON, CSV, SARIF, HTML, Semgrep YAML | a `ScanReport` |

### What is hard

* **Shared files and globals without locks.** Every process reads and replaces rows
  of one SQLite file between which only single statements are atomic; the web
  server's threads share a global that handlers read several times; the patch
  database is truncated and rewritten in place.
* **Failure.** A backend may fail for some candidates of a run; engines may be
  missing, time out or reject a rule; an update may die between truncating and
  writing; the server may restart under open tabs.
* **Order.** Engines report one line in any order and the merge keeps whichever row
  is richer so far; scans publish in one order and answer in another; a tab's
  handlers go on in the order of the answers, not of the clicks.
* **Windows of text.** A candidate is judged by lines near it, which may belong to
  another function, another `#ifdef` branch or a comment.
* **Staleness.** The cache key names neither the backend nor the whole source
  window; links and pages are rendered for one report and resolved in another.

`PROJECT.json` lists each hazard at its line, with the properties about it.

## Modules

| Module | Models | Checked with | Proofs |
|---|---|---|---|
| `TriagePipeline` | runs of the pipeline that share the cache | `MCTriagePipeline` | `TriagePipelineProofs` |
| `OrderedTriage` | what `triage()` promises: one verdict per candidate, in order | refined by `TriagePipeline` | |
| `WebServer` | request threads, `LAST_REPORT`, tabs, restarts | `MCWebServer` | `WebServerProofs` |
| `LastReportRegister` | an atomic register of the last report | refined by `WebServer` | `WebServerProofs` |
| `BrowserTab` | one tab of the web UI: buttons and answers, session log, pager, cards and drawings | `MCBrowserTab` | `BrowserTabProofs` |
| `RequestPanel` | a button and its panel: one question at a time, answers in order | refined by `BrowserTab` | `BrowserTabProofs` |
| `PatchDb` | updates of `patch_db.json` and the reads of scans | `MCPatchDb` | `PatchDbProofs` |
| `ScanStage` | one `Scanner.scan()`: engines, fallback, merge, mitigation | `MCScanStage` | `ScanStageProofs` |
| `StreamlitSession` | sessions of the dashboard: script runs, clicks, shared memos, the pager | `MCStreamlitSession` | `StreamlitSessionProofs` |
| `CallerLock` | the walk over the callers of a candidate's function | `MCAnalyses` | `AnalysesProofs` |
| `Taint` | the hop of a flagged variable into a helper of its file | `MCAnalyses` | `AnalysesProofs` |
| `DetectorWindow` | the lines a table-driven detector judges a candidate by | `MCAnalyses` | `AnalysesProofs` |
| `VersionTracker` | is a kernel version affected? | `MCAnalyses` | `AnalysesProofs` |
| `Score` | the number that ranks a finding | `MCAnalyses` | `AnalysesProofs` |
| `DiffMode` | the findings of two trees compared | `MCAnalyses` | `AnalysesProofs` |
| `InductionFacts` | no code: induction and recursion over numbers, for the proofs | | itself |

`PROJECT.json` maps every definition to the lines it translates. A definition named
`Bug_X` is `X` with a mistake that code could contain. No specification uses one;
each shows, put in the place of `X`, that a property notices the mistake.

### TriagePipeline

A run (`Runs`) is one `TriagePipeline` object: a CLI process, a web request, a
Streamlit scan. `mode[r]` is how its entry point constructed it (`CliModes`,
`WebModes`, `ValidateModes`: requested backend, demo, cache on or off).
`triage_one` is cut at every point where another run can interleave: the `SELECT`
(`CacheHit`, `DemoMiss`, `CacheMiss`), each backend call (`LlmAnswers`,
`LlmUnparseable`, `LlmNotAnObject`, `LlmFails`, `HeuristicAnswers`) and the
`INSERT OR REPLACE` (`Store`). Around the runs, `Clear`, `Tick` (expiry),
`EditSource` and `Abort` may happen at any time. `rows` is the table, one row per
candidate because runs scan the same tree; `tree` says per candidate whether its
mitigation is there, `cands[r]` what run `r` saw of it when it scanned, which is
what the heuristic's verdict depends on. `answers` is a history of what backend
chains have answered. A call of a backend that is given no timeout (`LLMs` without
`Timed`) may never return; `Waits(r)` says that run `r` is in one. Confidences are in
tenths. A verdict is one of four;
rationale, model names and prompts are left out, except for what `model` says of
the backend (`Labels`), because the fallback label and the web UI's "effective"
backend are about it.

### WebServer

A tab sends `POST` requests (scan, live scan; the button is disabled until the
answer is in) and `GET` requests (three exports, the Semgrep link, the patch-gap
page). `Reads(kind)` is the list of reads of `LAST_REPORT` each handler makes, the
`None` check first; `Read` and `ReadAndAnswer` perform one each, so that another
thread's `Publish` can fall between any two. A report is an index into `reports`
(who asked, by which kind of scan, how many results, is a patch missing).
`Restart` forgets `LAST_REPORT` and cuts off every request; tabs keep what they
show. The register promise is made for the endpoints that read the global once after
the check (`SingleRead`); the JSON export and the patch-gap page read it several
times and promise nothing. What the tab does with its answers is in `BrowserTab`.

### BrowserTab

`app.js` runs on one thread, so a handler is atomic up to its first `await` and from
there on: `Ask` is the part before, `End` the part after, in any order of the
requests in flight, with the server's answer good, refused or lost. A reload of the
page is a new instance. What is drawn is kept as what it was drawn from (the request
whose answer it is, and the theme), so that a stale drawing differs from a fresh
one: `panel` for the panels, `table` for the page of rows, `chart` and `graphs` for
the drawings. `OPEN_IDX` outlives the cards it was set for, as in the code. Rows are
a number; what they say is left out.

### PatchDb

An update is fetch, open (truncate), write; each is a step and the process may die
between any two (`Crash`). The file is a sequence of cells, each remembering the
update that wrote it, so a short text written over a longer one leaves the tail of
the other behind, and `Parses` is "one whole update and nothing else". A scan
calls `get_db` once per candidate (`ReadDb`). `saved` and `crossed` are history
variables: the update written last, and whether two updates have had the file
open at once.

### ScanStage

One action per engine outcome (`NoSpatch`, `CocciReports`, `CocciFails` for each
rule file, `SemgrepReports`, `SemgrepFails`), one per site and detector of the
built-in scan (`Detect`), one for a file that it cannot read and leaves out without
a word (`PassOver`), one per iteration of `_dedupe` (`Merge`), one per row of
`_enrich_all` (`Enrich`). What a regular expression matches is a choice, fixed for
a scan where the code evaluates it twice (`guarded`: is the mitigation of this rule
near this line). A candidate keeps what the merge looks at: rule, mitigation
verdict, shared field, snippet, CVE. A site is a (file, line) pair.

### StreamlitSession

Streamlit runs `main()` from the top for every click of a session, in a thread of
that session, and stops a run at its next Streamlit call when another click comes.
So `Begin` may come at any point but inside `cached_scan`, which is plain Python
(`pc = "computing"`), and takes back what the interrupted run had not yet put into
the session state. `held` is the session state that a page leaves for the next run
(`last_report`, `live_report`, `diff_entries`), `page` and `rowsPer` that of the
pager, `memo` and `diffMemo` are what `st.cache_data` keeps for all sessions. A
button is an event of one run (`ev`); the pager's end in `st.rerun()`, which starts
over without the event (`Turn`). The browser shows the old page (`view`) until the
new one is complete, and that is where the next click comes from (`Clickable`). Two
facts of Streamlit are used besides: a widget that a run does not build loses its
value (`Finish`), and of two sessions that miss a memo with the same arguments one
waits for the other (`CallMiss`). A scan, a live scan or a comparison may raise, which
no page catches: the page then ends in a traceback, nothing is memoised or kept, and
whoever waited for the same settings computes them (`Raise`). `AwaitsLlm(s)` says that
what session `s` waits for is a scan with an LLM, which may take for ever. Clicks that
merge before the script notices the
first one and reloads of the page are left out.

### CallerLock, Taint, DetectorWindow, VersionTracker, Score, DiffMode

Pure functions, so the variables are their inputs, and `MCAnalyses` enumerates the
inputs of each in turn. The only steps are that an annotated candidate is rendered
for another kernel (`RenderFor`), that a comparison is made the other way round
(`Swap`), and that a result which is ranked already is marked by the patch-gap check
(`MarkMissing`). A file of `CallerLock` is a
sequence of lines, and a line is what the regular expressions see in it: a function
header, a call (a prototype counts as one, as in the code), a lock, or nothing.
`_holds_lock` calls itself with one less to go; `Covered` is the recursion over that
number, for all calls at once. The reference, `WalkMatchesChains`, speaks of chains
of calls instead, and of locks in the body that holds the call. A version of
`VersionTracker` is the sequence of its parts; `Ver` pads, cuts and replaces
unreadable parts as `_ver` does, and `Rank` is the reference: one number per version.
A tree of `DiffMode` is the list of candidates a scan returns, each with the key
(file and shared field) and the mitigation verdict that decide.

A line of `Taint` is a header, a comment that looks like one, a call, or plain, with
its braces, its lock and whether the variable is named; `Body` counts braces as
`_callee_has_lock` does. The reference, `TaintMatchesBody`, asks which header each
lock stands under. It says nothing of the two cases in which the code takes something
else for what it looks for (`CommentsFollow`, `OnlyCalls`; see the observations), nor
of a lock below the lines that are read of a body (`LocksInReach`; `taint.py:83`).
`WellFormed` are the files looked at: braces in balance, code in bodies only, and no
brace or lock in a comment that names a helper. A
line of `DetectorWindow` is a branch directive, code or a comment with the tokens one
detector looks for; the reference numbers the parts of the file between directives.
`Score` is in units of 1/10000, the precision the code rounds to, so that the sum is
exact.

## Runs

All runs use TLC's breadth-first search to the end of the state graph.

| Run | Checks | Shows | Bounds |
|---|---|---|---|
| `triage_shared` | `TypeOK`, `CacheProvenance`, `DemoStaysOffline` | two runs race on a row that is cleared, expires and goes stale: the cache invents nothing, serves what was stored (but for confidence zero), a demo run stays offline | 2 runs, 1 candidate (rows are independent), 1 LLM, clock of 2 with TTL 1 so that rows expire |
| `triage_flow` | `FallbackExplained`, `WarningsDistinct`, `ExplicitBackendReported`, `ImplementsOrderedTriage`, `EveryRunStops` | two web scans over two candidates with two flaky LLMs: fallbacks are explained, messages are logged once, the report names the heuristic or the LLM for verdicts they gave (unparseable completions aside), verdicts come in order, runs stop unless a call without a timeout never returns | 2 candidates, so that a backend can fail for one and answer the other; 2 reasons to fail, so that the reason can change; the auto chain of 3; one LLM with a timeout and one without |
| `triage_cli_llm` | `HeuristicReproducible` (violated) | a bare scan serves what an LLM scan stored | |
| `triage_effective` | `EffectiveBackendProduced` (violated) | a scan that names gemini is reported as "gemini" although its completion could not be parsed and the heuristic gave the verdict | 1 run, 1 candidate, 1 LLM |
| `web_shared` | `TypeOK`, `ShownIsOwnScan`, `NoneNeverRead`, `ReadsGoForward`, `ExportsAreAtomic` | two tabs, all interleavings of reads, publishing and restarts; the Semgrep rule, read once after the check, is the register's | 2 tabs, 2 reports: enough for any two reads to differ; one endpoint that reads once (the Semgrep link; CSV and SARIF have its reads, without an index) and one that reads several times (the patch-gap page; the JSON export reads once more, and the properties compare two reads at a time; the proofs cover all five); reports of 1 row, so that a Semgrep index is always in range here (the proofs cover the refusal) |
| `web_all_clear` | `NoFalseAllClear` (violated) | "No missing upstream patches" shown for a scan that misses some | 1 tab, reports of 0 and 1 rows (one that misses a patch has a row) |
| `patchdb_shared` | `TypeOK`, `AnswersFetchedAndFresh`, `QuietDbServed` | updates that cross, die and repeat | 2 updates that repeat, 1 CVE (texts of two lengths), clock of 3 with TTL 2 |
| `scan_external` | `TypeOK`, `IdsCarried`, `NotItsOwnOther`, `RichestKept`, `OwnMitigationExonerates`, `EmptyMeansTried` | engines that overlap on one line in any order, fail, or leave it to the built-in detectors; a scan that found nothing has tried those on each file it could read | 2 lines in 2 files, either of which may be unreadable; the engines report on the first only (lines do not interact in `_dedupe`); 2 `.cocci` rules, 2 Semgrep rules, up to 2 hits of each engine run, 3 detectors, two of them with a CVE |
| `scan_masked` | `LiveFindingSurvives` (violated) | a live finding disappears into an exonerated row of its line | 2 detectors |
| `streamlit_shared` | `TypeOK`, `PageWithinReport`, `ViewAnswersClick`, `SessionsAgree`, `EveryClickSettles` | two sessions share the memo, turn pages, change the rows per page and leave pages half-way | 2 sessions, 3 clicks in all (scan, then turn or resize, with the third by either session), 2 settings that differ in the backend only, a tree of 2 rows that goes or comes once, 1 row per page or all: 1 or 2 pages |
| `browser_tab` | `TypeOK`, `LogOfOwnScan`, `TableIsPage`, `DrawnAsShown`, `AnswersInOrder`, `EveryButtonReturns` | a tab with scans, live scans, updates and cache requests in flight, whose answers come in any order or not at all | 4 requests, so that a third scan pushes the first out of a log of 2; scans of 0 and 3 rows, 1 or 2 rows per page: up to 3 pages, the last one full or not |
| `analyses` | `WalkMatchesChains`, `NameIsTaken`, `AffectedIsRange`, `DiffClassifies`, `ScoreKeepsOrder`, `JudgedByOwnBranch`, `TaintMatchesBody` | pure algorithms against reference definitions, over all small inputs | callers: files of up to 6 lines, 3 functions and 2 locks (two callers that call each other fit, so the depth of 3 cuts chains off), of those of 6 lines the ones that start with a header and end with a call, because lines outside of every function and after the last call change nothing; windows: files of up to 4 lines, spans of 1 and 2 lines, so that a window ends by its length, by a directive and by the file; hop: well-formed files of up to 5 lines and 2 helpers, a hop of 3 lines, a body read for 3 lines, so that it may end below what is read; 10 versions of 1 to 4 parts, one with an unreadable part; all results with 4 confidences; trees of up to 3 candidates with 2 keys |

Deadlock is checked in the triage, web, browser, patch-database and analysis runs but for
`triage_flow`, whose runs end with no clock and no clear left to happen; a scan
ends, so the scan runs do not check it; nor does `streamlit_shared`, where the
bounded clicks are used up.

Symmetry is used over runs, tabs and updates where only invariants are checked.

### Fairness

`TriagePipeline` assumes weak fairness of each run's own step but for a call that has
no timeout (`WF_vars(~Waits(r) /\ Step(r))`): `triage` is a plain loop, and the calls of
Ollama and OpenAI return within theirs (`ollama.py:52`, `openai.py:37`), but Gemini's is
given none (`gemini.py:50-64`) and Anthropic's client is built without the backend's
(`anthropic.py:37`). `EveryRunStops` is therefore conditional: a run stops if it is not
held by such a call for ever (`[]<> ~Waits(r)`). Without that condition TLC refutes it
in this instance. Clearing, the clock, edits and aborts are not fair. `OrderedTriage`
is a safety specification. `BrowserTab` assumes weak fairness
of the end of a request, for each button that is disabled while it waits: a fetch is
answered, or the browser learns that it is not. `StreamlitSession` assumes weak fairness of
each session's script thread, but for the time it waits for a scan with an LLM
(`AwaitsLlm`), and `EveryClickSettles` is conditional in the same way; its user need not
click. `WebServer`, `PatchDb`
and `ScanStage` make no liveness claim.

### Disagreements between code and documentation

The four violated properties and their counterexamples are findings of
`PROJECT.json`, with the lines they quote:

* the "effective" backend of a scan that names an LLM whose completions cannot be
  parsed: the verdicts are the heuristic's, the report names the LLM
  (`web/server.py:155`, `base.py:100-103`);
* bare scans that are not reproducible once an LLM scan filled the cache
  (`triage/cache.py:40`);
* the false all-clear of the patch-gap page (`web/static/app.js:446`);
* the live finding masked by a mitigated one of its line (`scanner/scanner.py:741`).

Further observations, which follow from the models but are no runs of their own:
`export_json` reads the global once for each of target, kernel version and results,
so a scan published in between gives a file with the target of one report and the
results of another (`web/server.py:322`; `Reads("json")` has the reads, and
`ExportsAreAtomic` leaves this endpoint out, as it is about `SingleRead` only);
under auto, the web UI reports "heuristic" as soon as any backend left a warning, also
when a later LLM gave every verdict (`web/server.py:154-156`, `Effective`);
`api_patch_gap` reads the rows from one report and decides about aliases by the
target of another (`web/server.py:308-310`; `Reads("patch")` has the same shape as
the JSON export's); `api_semgrep` resolves the index of a shown candidate in the
report published last (`web/server.py:267-271`); two updates that cross leave a file
that does not parse, so the built-in signatures are served although a fresh database
was saved (`db_updater.py:110`: this is why `QuietDbServed` excludes crossings); a
completion that is valid JSON but no object raises out of `parse_triage` and ends
the run (`base.py:104`, action `LlmNotAnObject`), and in the dashboard the page
(`ui/app.py:549`, `Raise`); a call of Gemini or Anthropic has no timeout of racemap's
(`gemini.py:50-64`, `anthropic.py:37`), so a request that hangs holds its run; a verdict of confidence 0.0 comes
back from the cache as 0.5 (`cache.py:78`, `RestoredConfidence`).

In the dashboard (`ui/app.py`): the memo has no expiry, so a scan made while a
backend was down, or while the path was an empty directory, is served for the same
settings until the process ends (line 283, `Hits`); a click while the log is played
discards the scan that was finished, because the report is kept after the log (line
561, `Begin` against `Keep`); Run Scan does nothing on a page other than Scan (line
774); a new scan does not go back to page 1 while a new diff or live scan does
(lines 561, 602, 647), which is why `PageWithinReport` rests on the clamp alone;
`cached_scan` drops the warnings of scanner and pipeline (line 283).

In the browser (`app.js`): the patch and cache pages and the clear button are not
disabled while they wait, so two answers that come out of order leave the older one
on the panel (lines 443-469), and a late answer of `loadDb` overwrites what an update
just wrote (473-486); both are why `AnswersInOrder` speaks of the other buttons only.
`LIVE_FILE` is never cleared, so a preset chosen after a file was dropped is not
scanned (lines 411-422, `server.py:243`).

In the scanner: a file that cannot be read is skipped by the built-in detectors with no
warning (`scanner.py:516-519`, `PassOver`), so an empty result says nothing of it, and
`EmptyMeansTried` is about the others; `_scan_legacy` takes its snapshot from a window that is neither
clipped nor stripped of comments, so a mitigation in the `#else` branch exonerates the
site in the other one, against the rule that `scanner.py:61-63` states and
`JudgedByOwnBranch` checks for the table-driven detectors; `require_window`, and the
windows of the barrier, work-queue and interrupt labels, are not clipped either;
`_enclosing_function` never looks at the first line of a file; a live finding with
enough protections is clamped to a score of 0 and ties with exonerated ones, which is
why the last part of `ScoreKeepsOrder` asks for none.

In `taint.py`: the header of a function that follows within the hop and has a
parameter of the variable's name counts as a call that passes it on (`OnlyCalls`); a
comment that names a helper above its definition is taken for the definition, so that
its lock is looked for in whatever follows the comment (`CommentsFollow`). The sparse
annotations are looked for from one line above a header to two below it, which may
be another function's.

In the other analyses: a lock that is released before the call counts as held
(`caller_lock.py:87`), and so does a lock of the first of two functions of one name,
as in the two branches of an `#ifdef`, for a call in the second (`FirstDef`; this is
why the reference assumes one header each). The lock shown as the one "all callers
hold" (`reporter.py:166`) is that of the first caller only; others may hold another.
The kernels 5.16.1 to 5.16.10 are "not in the affected range" (`reporter.py:208`) of
CVE-2022-0847 although its `fixed_in` is 5.16.11, because the high bound 5.16 is
read as 5.16.0 (`version_tracker.py:18`); a part such as `8-rc1` counts as 0, so
6.8-rc1 is taken for 6.0. In a comparison of two trees, a race added to a file that
already has one on the same field is PERSISTENT, not NEW (`diff_mode.py:40`).

## Proofs

TLC checks the instances above; the theorems hold for every value of the constants
that meets the named assumptions of the modules (`NoCve` is no CVE, lists are lists,
bounds are natural numbers, texts are not empty). The theorems listed in
`PROJECT.json` are the results; the lemmas before them are the argument:

* **TriagePipeline**: `Inv` (types and `PositionOK`) is inductive; it gives
  `TypeCorrect` and `PositionCorrect`. `ProvenanceInv` adds that no answer in the
  history is itself a cached one, without which a cached result could be justified
  by another cached result; it gives `ProvenanceCorrect`. `DemoCorrect` rests on
  the same `Inv`.
* **WebServer**: `TypeCorrect`; `OwnScanCorrect` needs that the report a request
  carries is its own; `NoneCorrect` and `ForwardCorrect` need that `LAST_REPORT` is
  the last element of the history of publications, that every tab shows a published
  report or one of before the restart, and that what a pending request has read is
  in that history, in order; `AtomicExports` is a refinement: whatever endpoints are in
  use, every step is a step of the register or a stutter, where the register's answers
  are those of the endpoints that read once after the check (CSV, SARIF, Semgrep).
* **PatchDb**: `TypeCorrect` includes that no timestamp, of the file or of a fetch under
  way, lies in the future (`NoneAhead`). `AnswersCorrect` needs `Sourced` (every cell of the file, and every
  result ready to be written, was fetched). `QuietCorrect` needs `OneWriter`:
  unless two updates have crossed, at most one has the file open, the file is then
  empty, and otherwise holds the text of `saved`.
* **ScanStage**: `FirstRow` and `CollapseRow` are about `_dedupe` alone: what
  collapsing two rows does to ids, own ids and rank. `MergeInv` says of each site
  that its row is right for the candidates merged so far; with `PhaseInv` (positions,
  and that no row exists before the merge) it is inductive, and gives `IdsCorrect`,
  `OwnCorrect`, `RichestCorrect` and `MitigationCorrect`, for any number of
  candidates in any order. `CleanCorrect` follows from `PhaseInv`, which also keeps what
  has been tried in step with the visits made and the files read.

* **StreamlitSession**: one inductive invariant `IInv`. `Scanning` and `Computing`
  say what a session that runs a scan has in hand and that no two compute the same
  settings; with them `SessionsAgree` survives `Memoise`. `Logged` (a report in
  hand is the memo's) and `Answered` (the session's report is of the settings the
  script runs for, once it has come so far) give `ViewAnswersClick`; a scan that
  raises takes its session out of the computing ones and changes nothing else of them
  (`InvRaise`).
  `PageWithinReport` is arithmetic: `PagesRoundUp` characterises
  `(total + per - 1) // per` and `ClampedWindow` says what follows for the window
  of a clamped page.

* **BrowserTab**: one inductive invariant `IInv`. `Requested` says that a guarded
  button has at most one request in flight, newer than what its panel shows;
  `TopOfLog` that the request of a running scan is the one of the newest entry, which
  makes "add to the newest entry" the right one; `Paged` that the table was drawn for
  the page the pager is on. `AnswersInOrder` is a refinement: every step is a step
  of `RequestPanel` or a stutter.
* **AnalysesProofs**: a version is three digits, so lexicographic order is the order
  of numbers (`OrderIsNumeric`), which gives `RangeCorrect` for any parts below the
  base; `RankingCorrect` from what a signal can do to a sum that is clamped at both
  ends; `BranchesApart` from the fact that two lines have the same number of branch
  directives above them just if there is none between (cardinalities of finite
  intervals); `DiffCorrect` because the entry of a key is the last of its live
  findings, which exists (the greatest element of a finite set of positions).
* **AnalysesProofs**, the walk over the callers: `WalkCorrect` goes through the calls a
  walk with `n` more to go leaves uncovered. `CoveredSteps` says that `Covered` obeys
  the equations of `_holds_lock`; `UncoveredIsOpen` and `ChainsOf` show by induction on
  `n` that a call is uncovered exactly if it begins an unlocked chain that is complete
  for `n`: a chain is a call and the chain of its caller, or nothing more (`OpenGrows`,
  `OpenShrinks`), as the recursion is. `NamingCorrect` follows the name along the first callers in the same
  way (`CoveredIsNamed`).
* **AnalysesProofs**, the hop: `HopCorrect` follows the depth of braces. `DepthOfPart`
  says that the depth the code counts from a header on is the difference of two depths
  of the file, by induction on the line; a well-formed file has depth zero at each header
  and is not below zero anywhere (`FileRules`), so the body the code collects ends before
  the next header (`BodyHasOneHeader`) and holds all locks of its own (`NothingBehind`,
  `LocksOfHelper`).
* **InductionFacts**: induction in the form that the provers take, from the library's
  fact that each non-empty set of natural numbers has a least element: the numbers for
  which a statement holds are a set, and a set that contains 0 and with each number the
  next contains all (`Induction`). `Recursion` is the existence of a function that is
  defined by recursion on numbers, from unique functions on initial segments.
* **TriagePipeline**, continued: `WalkInv` (every backend before the present one has
  left a warning, and an answer that waits for the cache is explained already) gives
  `FallbackCorrect`; `Honest` (a warning of a run with a named LLM means that the
  heuristic has answered, or is next, and every label names the LLM asked for)
  gives `ReportCorrect`. `OrderCorrect` is the refinement of `OrderedTriage`: each step of a run is the promised
  next answer, the end, or invisible. Chains name a backend once (`ChainAssumption`).

Liveness under fairness is out of the prover's reach and only model-checked:
`EveryRunStops`, `EveryClickSettles` and `EveryButtonReturns`. What carries each of them is proved, for any number of candidates,
backends, sessions and requests; TLC alone says that the next step is enabled:

* `RunsCountDown` (`TriagePipelineProofs`): `ToDo` is what an active run has left, its
  remaining candidates times the cost of one (the cache, the chain, the store) plus what
  is left of the present one. Each of its own steps makes it smaller, no other step makes
  it larger, and it is zero just when the run is not active.
* `ScriptCountsDown` (`StreamlitSessionProofs`): `StepsLeft` counts the places of the page
  that are still ahead. The pager's rerun goes back to the top, but without the click it
  obeyed, so it cannot come about twice.
* `ButtonsWaitForOne` (`BrowserTabProofs`): a button is disabled exactly while its one
  request is in flight, which stays the same until its end enables the button. This
  needs, besides `IInv`, that a disabled button is waiting for something (`Awaited`).

Every invariant and every refinement the passing runs check is stated by a theorem.

## Not modelled

What a regular expression matches, and text (prompts, reports, HTML); CSS and layout;
the labels that are keyword searches in one window and keep no state (sparse
annotations, barriers, work queues, interrupt context, container escape), whose
results are the signals of `Score`; the two oldest detectors (`_scan_legacy`); the
lookup of a CVE by pattern name; git subprocesses, whose output is text; the `.env`
loader; rules and scripts. See `components` in `PROJECT.json` for each part and the
reason.

## Plan

Done: the triage stage, the web server and its tabs, the patch database, the scan
stage, the dashboard, the source analyses with an algorithm of their own, the ranking
and the comparison of trees, and their proofs.

What is left, in this order:

1. A composition of `ScanStage`, `TriagePipeline` and `WebServer`: what a user sees
   is a verdict about a row of the scan that was asked for. The parts meet in one
   call each (`scan()` returns a list, `triage()` a list of the same length), which
   the modules state as `EmptyMeansTried`, `OrderedTriage` and `ShownIsOwnScan`.
2. The retries a user makes of a failed update, across `PatchDb` and `BrowserTab`.
3. Proofs: the reports of a composition, from those of its parts.
