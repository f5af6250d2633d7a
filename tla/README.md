# Verification of the benchmark campaign

The repository is a benchmark campaign. Shell and Python programs serve
language models on rented GPU boxes, measure throughput and answer quality, and
turn the measurements into tables. A box is rented by the hour, may be stopped by
its host at any moment, and works unattended for days: a measurement that is
filed under the wrong configuration, passed over, or cut without a mark is not
noticed before it is in a table.

This directory models the programs that decide *what is measured, when, and what
is written down about it*. TLC checks the models on small instances, and TLAPS
proves the most important results for every value of the constants. Line numbers
refer to the files under `src/`.

1. Inventory of the system
2. Modules and the code they stand for
3. Runs, bounds and fairness
4. What is proved
5. Disagreements between the documents and the code
6. What is only model-checked, and what is not modelled
7. Plan

## 1. Inventory

```
 ops/rearm_all.sh ──arms──▶ box/chain*.sh ──runs──▶ box/ksweep.sh ──serves──▶ vLLM servers
        ▲                        │ waits for             │    │                 ▲  ▲
   host stops the box            ▼ DONE in a log         │    └─bench clients───┘  │
                               box/chain*.sh             └─box/evalsuite/run_eval.py
                                                              (chat client, families)
 bench/sweep.sh ──▶ bench/launch.sh ──▶ replicas ◀── bench/rr_proxy.py ◀── clients
                    bench/stop.sh, bench/prefetch.sh
```

Components meet in four places: the ports of a box (anybody's server answers
there under the same model name), its GPUs (`kill_all` takes them from whoever has
them), the results directory (a file's existence is the record that something was
done), and the logs (a line in a log is the signal that a chain has ended).

### 1.1 Quality-suite runner - `box/evalsuite/run_eval.py`

*State.* In memory: the plan, `RunState` (records, resumed, blocked families,
skipped ids, observed item times, interrupted), a semaphore, the set of tasks.
On disk: `<tag>.items.jsonl`, one line per attempt; `<tag>.json`, a checkpoint or
the final result; `eval_summary.tsv`.
*Operations.* Start fresh or with `--resume`; dispatch the plan in order under
`--concurrency` and `--time-budget`, blocking a family when the estimate of an
item no longer fits; run an item; checkpoint every 20 s; drain, grace period,
cancellation; SIGINT; publish.
*Hard.* The dispatcher, the tasks, their callbacks, the progress task and signals
interleave at awaits; the estimate moves while items are in flight; the
process is killed between any two writes, and inside one; the disk fills up.
*Correct when* slots are neither leaked nor returned twice; every item of the plan is
recorded or skipped, not both; what says it is complete is complete; the items file
and the result speak of the same outcomes across kills and resumed runs; a run
ends although the server never answers.

### 1.2 Chat client - `box/evalsuite/common.py`

*State.* The list of live base URLs, a session per URL, a semaphore, counters in
total and per URL.
*Operations.* `probe` drops URLs that do not answer; `chat` tries
`retries + 1` times, walking over the URLs from one fixed by the item, with backoff;
a caller may be cancelled at any await; `close` closes the sessions one by one.
*Hard.* Retries against several replicas, cancellation in the middle of an attempt,
the client closed while attempts sleep or wait for a permit.
*Correct when* permits come back exactly once, an item meets every live replica before
it gives up, each attempt is counted once, every call ends.

### 1.3 Item data - `box/evalsuite/prepare_data.py`, `families/*`, `common.py`

*State.* `data/raw` (downloaded files, each with its digest beside it), `data/items`
(one file per family), `data/manifest.json`.
*Operations.* A prepare takes the families of `--only` in turn: fetch or reuse each source,
choose items, replace the item file, list it; the manifest is replaced once at the end.
A run reads the manifest, compares digests, loads, interleaves, cuts at `--limit`.
*Hard.* A prepare fails in one family or is killed between file and manifest; a fetch is cut
between the file and its digest; sources change between two pages of a crawl; a run
reads while a prepare writes.
*Correct when* a run uses what its manifest lists or is refused; pinned items are of
their version; no item comes twice; a plan cut anywhere is balanced.

### 1.3.1 Replies and scorers - `common.py`, `families/{knowledge,math,longctx,tools}.py`, `run_eval.py`

*State.* One reply, its normalised form, the record it becomes.
*Operations.* Split reasoning from the visible text, extract the answer, judge it, give
the verdict precedence over or below a cut and a loop.
*Hard.* Tags that nothing opens or closes; several answers in one reply; the cap falling inside any
of this; matching of calls and parts many to many.
*Correct when* credit comes from what the reply shows and commits itself to, and a cut reply is
never counted as wrong.

### 1.3.2 Code sandbox - `box/evalsuite/families/code.py`

*State.* A child process per test, one directory per item, a sentinel file, clocks.
*Operations.* Extract a candidate, run test after test under a wall limit, kill and reap,
judge by exit status, output and sentinel, stop at the first failure or the budget.
*Hard.* The child ends between expiry and kill, breaks its pipe, leaves files to the next
test, survives SIGKILL for a while.
*Correct when* a pass is earned by every hidden test in time, and an item's time is bounded.

### 1.4 Round-robin proxy - `bench/rr_proxy.py`

*State.* A cyclic iterator over the backends and counters (requests, errors, in flight) per
backend, under one lock; a thread per connection.
*Operations.* Read a request, pick a backend, forward, relay the answer chunk by
chunk, end or break off, give the place back.
*Hard.* Threads interleave; either socket may fail at any step and the exceptions
of both arrive in one `try`; the three framings of an answer end differently.
*Correct when* the shares stay equal, the counters exact, a refusal counted, a broken
answer not passed off as whole, and no silent backend holds a thread for ever.

### 1.5 Kernel sweep, teardown and chains - `box/ksweep.sh`, `box/hardkill.sh`, `box/chain*.sh`, `ops/rearm_all.sh`

*State.* Position of each chain in its script, list and kernel combinations; the tmux
session `srv`; the servers on the ports; result files; DONE lines in appended logs.
*Operations.* For every row and combination: skip what has a result, tear
down, launch, wait for health, quality suite or throughput shapes, tear down.
Chains wait for one another's DONE line. The host stops the box, and the chains are armed
again, then or at any other time; those that are not there are started from the top.
*Hard.* Two chains share ports and GPUs; a stop may come between any two lines;
files and logs survive it, and an old DONE line is as good as a new one; servers die or
never come up.
*Correct when* what a chain files while the others rest was measured on that arm's servers;
no server is left behind when all rest; the judge files are the last; every chain comes to its end.
That chains keep out of one another's way, and that a stop costs time but no result, is what the
documents say and the code does not do (section 5).

### 1.6 Cell launcher and stop - `bench/launch.sh`, `_run_server.sh`, `stop.sh`

*State.* tmux windows, one per replica; `.exit` files; ports; GPUs.
*Operations.* Stop what is there, prefetch, launch replicas and the proxy, wait for
health or an exit file, load test; TERM, wait, rescan, KILL.
*Hard.* Health is asked of ports, and before the exit files (281 and following); a timeout
leaves the servers; servers start workers and are re-parented during a stop; any script may
be interrupted.
*Correct when* what a launch reports was decided by its own replicas; after a stop nothing of
the cell is alive and nothing holds its GPUs; no script hangs.

### 1.7 Throughput sweep - `bench/sweep.sh`, `summarise.py`

*State.* The present point, its clients, bench, meta and skip files.
*Operations.* Warm up; for each point split concurrency and prompts over the replicas, run
a client per replica, wait for all, write a meta file, decide on a failure. `summarise.py`
sums over whatever files of a run id there are.
*Hard.* Several clients fail and one exit status is kept; servers die under a point; an interrupt
leaves clients behind that write their files later.
*Correct when* the shares add up to the concurrency, a row without a mark is whole, and a sweep
that finished has numbers.

### 1.8 Weights and images - `bench/prefetch.sh`, `box/dlget.sh`, `box/pull_image.py`

*State.* Directories with sentinels, partial files, layers.
*Hard.* Retries and resumed downloads against deletion; two downloads of one model;
a stop inside a deletion; a layer that is given up.
*Correct when* a sentinel means that the weights are whole.

### 1.9 Co-tenant training, sleep and wake - `train/lora_cotenant.sh`, `train/sleep_wake.sh`

Phases of a training job beside a serving cell, a server put to sleep and woken.
*Correct when* every exit leaves the server awake or gone.

### 1.10 Correctness gates - `gates/run_kv_diff.sh`, `kv_diff.py`, `gsm8k.sh`

*State.* In the results directory of a cell: a capture per KV dtype, `kv_diff.json`, a self
check, raw results of lm_eval, `gsm8k.json`. On the box: the server on the cell's port.
*Operations.* Serve side A, capture, stop, serve side B, capture, stop or keep, compare; score
whatever server is up with lm_eval.
*Hard.* Captures, comparisons and servers die and the script continues; files of earlier invocations
have the same names; health is asked of a port; the script is interrupted or killed.
*Correct when* a verdict is what the answers deserve, a pass was measured by the invocation that
claims it, no server stays that nobody asked to keep, every gate ends.

### 1.11 The rest

Installation, environment capture, analysis scripts, a watcher that
looks for the last marker, cells (`cells/*.env`), results, notes and reports. They have
little state; section 6 says of each why it is left out.

## 2. Modules and the code they stand for

| module | stands for | source |
| --- | --- | --- |
| `EvalRunner` | one tag of the runner across any number of processes | `run_eval.py` 279-788, `common.py` 85-120 |
| `EvalLedger` | abstract: what the readers of its files rely on | - |
| `ChatClient` | the calls of one client on its replicas | `common.py` 662-874 |
| `Replies` | splitting of a reply, extraction of answers from marks | `common.py` 291-500 |
| `Scorers` | the scorers of knowledge, math, longctx and tools | `families/*`, `common.py` 217-245 |
| `Scoring` | from a reply to its record | `run_eval.py` 253-374, `families/tools.py` 785-795 |
| `CodeSandbox` | one answer of the code family, run against its tests | `families/code.py` 428-887 |
| `ItemRecipes` | what each family's `prepare` fetches and chooses, as data | `families/*`, `prepare_data.py` 89-104 |
| `ItemPlan` | interleaving and cutting of items | `families/_base.py` 142-182 |
| `ItemData` | prepares, manifest, and a run up to its plan | `prepare_data.py` 77-156, `common.py` 95-608, `run_eval.py` 185-773 |
| `RRProxy` | handler threads and counters of the proxy | `rr_proxy.py` 34-200 |
| `Cell` | server processes, `stop.sh`, `launch.sh` | `launch.sh` 173-374, `stop.sh` 52-229, `_run_server.sh` |
| `Sweep` | `sweep.sh` on the servers of `Cell`, and its summary | `sweep.sh` 124-387, `summarise.py` 166-581 |
| `Campaign` | chains, kernel sweep, teardown, host stop, re-arming | `ksweep.sh` 40-260, `hardkill.sh`, `rearm_all.sh`, chains master2 and post2, 600w3d and w4 |
| `KvDiff` | what a comparison of two captures says | `kv_diff.py` 358-543 |
| `Gates` | gates of one cell across invocations, with their servers | `run_kv_diff.sh` 56-229, `kv_diff.py` 263-351, 603-701, `gsm8k.sh` 43-266 |
| `MC...` | constants of the instances for TLC | - |
| `...Proofs` | theorems about the module they extend | - |

Composition: `Sweep` extends `Cell`, so that a sweep runs on servers that live and die as
`Cell` lets them; `ItemData` uses `ItemPlan` and `ItemRecipes`; `Scoring` puts `Replies` and
`Scorers` between a reply and its record; `EvalRunner` implements `EvalLedger`. The outcomes
a call has in `ChatClient` and a reply in `Scoring` are what `EvalRunner` knows as the
status of a record.

A definition introduced as "Mutant of X" stands before X and is a plausible wrong
version of it; it is used by nothing. Each property of a run is known to fail when the
named definition is replaced by the mutant listed for it in `PROJECT.json`.

Every module has a type invariant `TypeOK` (`SandboxTypeOK` in `CodeSandbox`). Those of
`EvalRunner`, `RRProxy`, `Campaign`, `CodeSandbox`, `Scoring`, `ChatClient`, `Sweep`, `ItemData` and
`Gates` are theorems (section 4) and not part of a run.

### 2.1 EvalRunner

* An item is its index in the plan (`Work.index`, from 1). Time is counted in ticks
  since `t0`. A record is reduced to the class of its status: *scored* (correct,
  wrong, empty, truncated), *error*, *cancelled*: the three that resuming and
  `build_result` tell apart.
* **Atomicity.** asyncio switches only at awaits. `Suspended` lists the awaits of the
  main coroutine (`acquire`, `drain`, `cancelling`); tasks, callbacks, the progress
  task and signals take their steps only there. The code between two awaits is a
  step of its own or part of one. `Launch` creates the task and runs its first
  step, because the ready queue of the event loop is first-in first-out.
* **Time.** No tick passes while a slot is free for a dispatcher that waits for one. An
  estimate is rounded up to a tick, it is only ever compared with whole ticks.
* **The process boundary.** `ProcessGone` forgets the memory when a process ends. `Kill` is a
  kill at any step, with or without a half-written line; it also stands for a second
  interrupt and an exception that escapes `run_async` (exit status 1). `ResumeRefused`
  is the traceback of `json.loads` on such a line. `StartFails` has the early exits.
* **The disk.** With `DiskMayFill` every write may fail. An append may leave half a line or none, and
  the task that appended ends with the exception (its slot has to come back all the same); the items
  concerned are `unwritten`, a history variable. A line for the log or a checkpoint that does not fit
  ends the progress task and nobody else, and nothing is checkpointed any more (`ProgressDies`). The
  final write, the rows of the table and the last line of the log end the process with a traceback
  (`PublishFails`, `AppendTsvFails`), and the last checkpoint stays what the readers find.
* `eval_summary.tsv` is appended to and read by nothing in the runner; its rows are no state.
* **Refinement.** `EvalLedger` knows a set of scored, of failed and of lost items (measured, but
  without a line) and one report. The mapping reads them off the items file, the records and the
  json file; `measuring` is
  `pc \in Active \cup {"publish"}`. A report covers exactly the ledger it was drawn from, and only
  one that covers every item is complete.
* The same plan is assumed in all runs of a tag, which `--resume` takes for granted
  as well.

### 2.2 RRProxy

One process per connection, since every answer closes its connection. `Pick` and `Leave`
are atomic because `STATE.pick` and `STATE.done` hold the lock. An answer is its number of
chunks. `BackendCloses` distinguishes the framings: `http.client.read1` raises
`IncompleteRead` in a chunked body that ends early and returns `b""` in one with a
Content-Length (framing `length`, which also stands for a body that ends with its connection). `Reset` and `ClientTimeout` may come from either socket, because one
`except` clause serves both. `/health` and `/proxy_stats` only read and are left out.

### 2.3 Campaign

* A chain is a sequence of ksweep invocations (`Program`), each with its mode
  and list of rows; a row is a sequence of arms (tag and kernel combination).
  `pc` names the line of the shell script, `pos` invocation, row and
  combination.
* The ports are shared. All servers answer to the model name `m`, so a client credits the
  arm it works for with whatever is on the port: `measuredOn` is a history variable that
  remembers whose servers answered.
* `kill_all` is assumed to leave nothing alive (it ends with SIGKILL and waits).
  `Session` is the tmux session `srv`, which lives as long as one of its servers.
  `Launch` does nothing if there is one: `tmux new-session` fails and nobody looks.
* `ServeFails` stands for the 2100 s timeout, an error pattern in the log, and a launcher
  that is gone, and may therefore happen whenever a port is not up.
* `Stop` ends processes and sessions and leaves files and logs. `Rearm` is `rearm_all.sh arm`, at
  any time: `kill_all` first, then a `tmux new-session` per chain, which fails for a chain whose session is
  there (it goes on, without its servers) and starts one that has ended, or was stopped, from the top.
* `done` is the set of chains that have left a DONE line in the log, in this round or an earlier one:
  a waiting chain greps for any (`chain_post2.sh:7`, `chain600w4.sh:10`). `WaitExpires` allows the
  predecessor to outlast the 48 hours of the loop. So chains may be at work together, and do.
* `alone` is a history variable: at its last teardown every other chain was resting, and none has begun
  since. What a chain files while it is alone enters `measuredOn`. What two chains at work do to one
  another's measurements is not held against ksweep: it has no means against it.
* Chains that count the DONE lines (`chain600w16.sh:9-10`, `chain_c9.sh:8-10`) are left out. Their
  `grep -c ... || echo 0` gives two lines when there is no match, on which the test errs, so that they wait
  for their loop to expire; the third waiter of the box, `chain_post3.sh`, is left out as well.
* The throughput shapes before `judge` are one shape; all rows use all ports.

### 2.4 ChatClient

* A call is its attempts: `Route(c, k)` is the replica of attempt k, fixed by the item
  and the list the probe left. `Answer` is one outcome of the request with everything the
  code does about it: counters, retry or end, release of the permit.
* A caller may be cancelled in backoff, in the queue of the semaphore and in the request;
  `Close` does not wait for requests, and sessions are closed one after the other, so that a
  call can meet an open and a closed one.
* `completed` stands for all counters that a good answer increments (calls, tokens).
* History: `failedBy` and `dropped`. `tokenize` and `served_models` are left out: the first
  notes a length, the second only reads.

### 2.5 Replies, Scorers, Scoring

* A text is a sequence of marks: tags, answers in a form (boxed, after a phrase, bare, keyed)
  with a value (the gold one or another), "or", prose, calls. What a regular expression of
  the code finds is a set of places in this sequence.
* `Split` is `normalize_response` with the fields a reasoning parser fills or leaves alone; `Scored`
  and `Lost` are the ends of the scoring thread: a verdict, a cancellation, an exception.
* A matrix of agreements stands for the arguments of calls; names, numbers, units, dates and
  the checkers of ifeval are below this level.
* The definitions were compared with the Python on 84 112 enumerated texts while they were
  written, and agree on 84 110 of them.
  `longctx`'s key attribution is modelled as it is: it overrides a hedge.
* The loops and the recursion of the code are recursive functions: `BlockAt` goes through a text,
  `LeftOver` through the parts of the gold answer, `TryCall` through the searches for an augmenting
  path. `ScoringAssumption` types the items and says nothing of what they are worth: texts
  of any length, any number of calls with any matrix of agreements, any two lists of parts.

### 2.6 CodeSandbox

* One item: `Extract`, then a child per test. The child is free: as driver it may fail, as
  candidate it may exit with any status, loop, print, break its pipe or leave files, and
  it seals a test only through the driver. It is assumed not to guess the sentinel's
  random name (`code.py` 69-73).
* Time is counted in units of which limits are multiples. A reached limit is acted upon before
  the clock moves on, but the child may take steps between expiry, kill and reap.
* History: `honest` and `late`.

### 2.7 ItemData

* A downloaded file is the version of its source, an item file the versions it was chosen from and
  how many items of each; a digest is the thing itself. A crawl of many pages is two files.
  `Fixture` is the version of a file given by `--offline-fixtures`.
* `Taken` has the three ways in which the code goes on once a file is read: on, short of
  items, or with duplicate ids. `Write` and `List` are separate since a kill
  may come between them; `Save` is the one replacement of the manifest. The attempts of a fetch
  are one outcome.
* `disturbed` and `turned` are history variables: the families whose file was replaced between a run's
  comparison of the digest and its reading, and those whose file was replaced between the reading of the items
  and that of its header. For `longctx` and `knowledge` the file is opened again for the header when the first
  prompt is built (`ReadHeader`; `longctx.py` 571-579, `knowledge.py` 383-387), behind the plan, and nothing is
  compared. `RunUsesListed` excepts both: in these two windows a run does use items, or joins
  a header to items, that its manifest does not list.
* `ItemPlan` is the loop of `_base.py` turn by turn: a turn takes the next item of the group the index
  points at among those that have items left, in their order. What is collected is (group, place), the
  plan is read off it; the queues of the code are the items a group has not yet given.
* The groups of a family are its sub-families in the order of SUBFAMILIES (`order_items`), whichever file
  they were chosen from: `SubOf` deals the items of a file out to the sub-families the file feeds.
  `run.loaded` has the families of a run in the order they were loaded in, with the items that the
  limit left of each, of which `Plan` makes the plan.
* One prepare at a time: two parallel ones lose each other's entries (the manifest is
  read at the start and replaced at the end), as the code has no lock. Which items of a pool
  are drawn is left out; `--pin`, `--no-manifest-check` and the mock server are left out too.
* Over-approximated: sources pinned by a commit may change; a run's families come in any order
  (the code sorts by priority). Excluded by `DataAssumption`: a family named twice in one list.
* Noted, and as coded: a family the manifest does not list is used unverified; a `.sha256` stays
  when its file is replaced by a fixture or by a download that is cut, hence `Digest` may be stale; the
  manifest's profile and seed are those of the last prepare only; a gated source may be left
  out without a failure; `--resume` after a rebuild goes on with other items.

### 2.8 Cell and Sweep

* A replica is runner, API server and worker. The runner starts its server in the same
  step as itself; a server that was sent TERM starts no worker. Servers may load for ever,
  end by themselves (`MaxCrashes`), and leave their worker behind.
* `stop.sh` is `Scan`, `TermServers`, `GraceOver`, `TermLeft`, `KillLeft`, `StopDone`: three
  scans, with processes moving in between; every wait has its deadline. `launch.sh` is
  `Launch` (which stops first), `Spawn`, `AskPort`, `LookAtExits`, `LaunchEnds`. `Interrupt`
  ends a script anywhere and leaves what it started.
* The proxy is not launched (`USE_PROXY=0`), clients fan out per port (not `VIA_PROXY`),
  and there is one shape. `dmon`, environment capture and logs are left out. Scripts run one
  after the other; launches and stops are behind a sweep.
* `PortAssumption`: replicas of different cells on one port share a GPU, which holds of the
  cells in the repository. Without it the server of another cell outlives the stop, answers
  on the port, and a launch is taken for ready by it.
* A sweep's point is `StartPoint`, a `ClientEnds` per client, `EndPoint`. `InterruptSweep`
  reaches the clients of a warm-up but of a point only their subshells, so clients become
  `orphans` and write their file later. `summarise.py` is `Rows`, `Files`, `MetaOf`, `Marked`.
* Noted, and as coded: `stop.sh` finds servers by their served name too, and ends a cell of
  the same alias on other GPUs (the comment at 13-14 says that cells on other GPUs are left alone); rows
  without a meta file have no mark; a sweep called for a cell that has the alias of the one that
  is up measures that one.

### 2.9 KvDiff and Gates

* A text is the sequence of its words, of which it matters which are equal, which have no
  letter or digit, and which hold a run of '!' or odd characters. `Levenshtein` is the table of the code
  row by row. It is judged by `LeastEdits`, the least cost of an alignment: a pairing of words of one text
  with words of the other in their order, in which what has no partner is deleted or inserted and what is paired with
  another word is replaced. In the same way `Degenerate`, a stretch of the text that has a period and
  the length of enough periods, judges the two loops of `corruption_flags`. Distances are counted in 1/`Unit`; the limits of
  10 words and 6 n-grams are constants.
* `pc` is the line of the script; `side` the dtype served, A or B. `Invoke` and `StartGsm8k` begin an
  invocation and `runs` numbers it; a file is what it says and who wrote it. A server is the
  invocation that started it and its dtype.
* `LaunchCell` is a whole `bench/launch.sh` (`Cell` has its steps): it stops the cell, and ends with a
  server or without. `LaunchCommand` starts SERVE_CMD beside whatever is there, and
  `AskHealth` may end by the time limit at any moment at which nothing answers.
* `CaptureSide` writes an answer or an error per prompt, or dies before it writes or in the middle,
  and the script goes on. `CompareSides` reads what is there. `Interrupt` runs the trap, `HostStops`
  and `Kill` do not; a second signal, while the trap stops the server, is a `Kill`.
* A `bench/launch.sh` is a child of the script: a SIGTERM or a kill of the script alone leaves it running, and
  it starts its server when the trap's stop is over, or was never run. Such launchers are `orphans`, and
  `OrphanServes` is their server. It has the port of whatever is launched next (`unsure`), and nobody stops
  it: `NoServerLeft` excepts a script that ended with 143, as it does one that was killed. The other
  children (a capture, a comparison, lm_eval) are not followed beyond the end of their script.
* History: `unsure`, the sides that were not captured, or that were answered by a server that
  was there before or that an orphan started. `PassIsOwn` excepts them; that there are such sides is a property of the code
  (section 5).
* Left out: the retries of a request (one outcome), the noise floor's figures, the launch records and
  flags copied into the verdict, option checks that end the script before the trap.

## 3. Runs, bounds and fairness

| run | cfg | properties | instance; distinct states |
| --- | --- | --- | --- |
| `one_run` | EvalRunnerOneRun | `AccountedFor`, `FreshRunAttemptsPrefix`, `SlotConservation` | 5 items of one family, 2 slots, budget 5, 1 process; 0.53 M |
| `resume` | EvalRunnerResume | `FileAgrees`, `SlotConservation`, `ScoredLinesSurvive`, `ImplementsLedger`, `EveryRunPublishes` | 2 items of 2 families that may hang, 1 slot, disk may fill, 2 processes; 0.22 M |
| `rr` | RRProxySafety | `RoundRobin`, `CountersExact`, `StreamTerminatedWhole`, `RequestsEnd` | 3 connections, 2 backends, 1 chunk; 0.18 M |
| `chains` | Campaign | `MeasuredOnOwn`, `JudgeIsLast`, `RestingIsClean`, `ChainsEnd` | master2 and post2, cut to a list each, 3 arms, 2 ports, 1 re-arming; 0.82 M |
| `chains_rearmed` | CampaignRearmed | violation of `CutEvalsResume` | 600w3d and 600w4, 4 lists, 4 arms |
| `code_sandbox` | CodeSandbox | `PassIsEarned`, `WallBounded` | up to 3 tests, limits 2, 3 and 1; 5 k |
| `chat_client` | ChatClient | `PermitsConserved`, `EveryReplicaTried`, `CountersBalance`, `CallsEnd` | 3 calls, 2 replicas, 1 permit, 1 retry; 0.17 M |
| `answers` | Scoring | `CreditFromVisible`, `OnlyCommittedCredited`, `CutIsNotWrong`, `MatchedOneToOne` | all texts of the bounded kind; 0.57 M |
| `boxed_alternatives` | ScoringBoxes | violation of `BoxedAlternativesNotCredited` | as `answers` |
| `bench` | Bench | `StopEmpties`, `VerdictIsOwn`, `SplitIsWhole`, `UnmarkedIsWhole`, `ScriptsEnd` | 2 cells, 2 GPUs, 2 launches, 1 crash, 1 sweep of 3 points; 0.57 M |
| `item_data` | ItemData | `RunUsesListed`, `FinishedIsListed`, `PinnedItems`, `NoneTwice`, `FairMerge` | 3 families, 2 versions, 2 prepares, 1 run; 2.1 M |
| `gates` | Gates | `VerdictEarned`, `PassIsOwn`, `NoServerLeft`, `GateEnds` | 2 invocations, 2 prompt sets, 6 texts; 1.04 M |

Three of the properties have named parts: `CountersExact` is `InflightExact` and
`RefusalsCounted`; `OnlyCommittedCredited` is `AlternativesNotCredited` and
`FinalBoxCredited`; `MatchedOneToOne` is `AssignableIsCredited`, `SetsCompareAsBags` and
`IrrelevanceCallsNothing`; `FairMerge` is `PlanMerges` and `PlanIsFair`.

**Why the bounds are enough.** `one_run` has five items in one family, because the
estimate changes from prior to p90 at the third observation and items must be
left on which the two rules disagree; two slots, so that items finish out of order. `resume`
has two processes: everything that crosses a process boundary is in the files,
and a third process sees files of the same kind as the second. It has one slot, so that an item
that hangs keeps the dispatcher at `acquire` until its timeout, items of two families, so that blocking one leaves
the other, and a disk that may fill under each write of either process.
`rr` has more connections than backends, so that a backend is picked
twice while both are busy; with one chunk an answer can break off before it, and be complete.
`chains` has one list of each script, cut to its first row: throughput with the judge shape of an arm, and the
quality of a row of two combinations. Two ports are the least on which a server
may be up and another not. The chains are armed again once, after a stop at any point or without one: they then
meet a log and files of the time before, and one another at work, and a second time meets
the same. `WaitExpires` is TRUE, as every waiting loop ends; with FALSE the run passes too (0.40 M states). That
a list has more rows and a script more invocations (FIRST_ONLY, EVAL_RESUME=1, both) is in the other
instance, and in the proofs, which have no bound.

`chat_client` has more calls than permits and as many attempts as replicas, so that calls queue
and a walk goes round; `Retries + 1 >= Len(base_urls)` is the premise of `EveryReplicaTried`.
`code_sandbox`: the budget of 3 lies between one and two limits of 2, so that it is exceeded
both in and between tests. `answers`: tags three deep before one statement, and three
marks after one tag (two answers joined by "or" are three); calls up to three against three
expected, where first fit and matching differ; parts up to three with repetitions. `bench`:
a cell of two replicas and a load test on one of its GPUs are the two ways in which cells
overlap; the points 14, 7 and 1 are over the budget, not divisible by two and over the cap of the
prompts, and smaller than the fleet; fleets up to 4 in `SplitIsWhole`. The second launch meets what the first, or an
interrupted stop, left. `item_data`: the second version is short of items for one profile and
of two sources for both, the families are those that have a pinned, an optional, a
gated source and both crawls; the second prepare meets files, digests and entries of the first.
`gates`: the second invocation meets captures, verdicts and servers of the first, under another
prompt set or the same; texts of one to four words with the limits 3 and 2 in place of 10 and 6, one of
which repeats at its last possible place, a table bar, a repeated word, odd characters.

`CHECK_DEADLOCK FALSE` is set everywhere: processes, connections, chains and scripts come to an
end and the number of starts is bounded.

**Fairness.** `EvalRunner`: weak fairness of the dispatcher, the end of the run, ticks,
cancelled tasks and callbacks - what the event loop guarantees a process nobody
kills. There is none for `Finish`: an item may hang for ever, the
grace period and the cancellation must end it. Kills and failing writes are possible at any time, and
`EveryRunPublishes` says that a run ends with its result published, or else with the exit status of
a traceback or a kill. `RRProxy`: the timeouts of a silent backend,
the end of an answer that is all there, and threads that wait for nothing; none for a backend's
answers. `Campaign`: the shell goes on, the wait for a server is bounded by
2100 s, the quality suite and the bench clients end, the waiting loops expire; none for a server, and
none for `Stop` and `Rearm`. `ChainsEnd` therefore says "done or off". `ChatClient`: a request ends by its
timeout at the latest, the event loop runs what is ready; nobody has to cancel or close.
`Sweep` and `Cell`: scripts run on, their clocks advance, bench clients end (their
own timeouts); servers may hang for ever, and nobody has to interrupt anything. `Gates`: the script
goes on, because the health loop, the requests of a capture and of lm_eval have time limits (the
installation of lm_eval, in front of it, has none and is taken to end)
(`CompareEnds` is the comparison but for what it says); no server has to come up.

## 4. What is proved

All theorems hold for every value of the constants allowed by the named assumptions
(`PlanAssumption`, `LimitAssumption`, `BoundAssumption`, `ProxyAssumption`,
`CampaignAssumption`, `SandboxAssumption`, `ClientAssumption`, `LayoutAssumption`,
`PortAssumption`, `SweepAssumption`, `ScoringAssumption`, `DataAssumption`, `KvDiffAssumption`,
`GatesAssumption`), which TLC evaluates in the runs. The layout is the same everywhere: a strengthening in named parts, one lemma per action that
keeps it, under it one step per part the action can disturb, and a theorem that puts
them together.

**EvalRunner.** None of the safety invariants is inductive by itself. `AccountedFor` speaks of the end
of a run only: it needs to know what the dispatcher has done with the items before `next`
(`PlanCovered`), and that behind the last one nothing runs (`PcTellsProgress`). The prefix
property holds because a skipped item blocks its family, so that nothing of it
is launched behind the skipped item (`SkippedIsTail`), however the estimate moves.
`OneLinePerItem` needs that a running task has no record and no line yet
(`TaskHasRecord`, `FileAgrees`), and a resumed run that the file is readable (`TailClean`).
`OffIsBlank` says that no process inherits memory. `IInv` is the conjunction of these and of
`TypeOK`, `SlotConservation`, `CompleteMeansAll`, `OneLinePerItem`, `FileAgrees`. `SlotConservation`
needs that the set of tasks is finite and gains or loses one item at a time.

* `InductiveInvariant`, `TypeCorrect`, `SlotsConserved`, `EveryItemAccountedFor`,
  `CompleteResultsAreComplete`, `FreshRunsAttemptPrefixes`, `ItemsFileConsistent`.
* `ScoredLinesAreKept` - a step that is not the start of a run without `--resume` loses no line of
  an item that did not fail. Resuming keeps exactly those lines (`ResumeKeepsScored`), because of
  `OneLinePerItem`; every other step only adds lines.
* `RunnerImplementsLedger` - `Spec => ImplementsLedger`: every step is one of the ledger's or a stutter,
  with a full disk too. An item whose line could not be written is known to its process only and `lost` with it;
  until then reports cover it. That no result is overwritten by a checkpoint behind it is part of this refinement.

**RRProxy.** `HandlerShape` ties the place of a handler to the backend it has picked and to what
its client has seen. With it: `ProxyTypeCorrect`, `EqualShares` (at most
the one request that the turn accounts for), `ProxyCountersExact`, for any number of
connections and backends. `TerminatorIsEarned` rests on `HandlerShape` too: while a handler
streams its client has seen no end, and a chunked answer is given the terminator by `Terminate` only.

**Campaign.** `Placed` says that a chain stands at an invocation, row and combination its program
has; every move of the list loop keeps it (`MovePlaced`), so `ArmAt` is always an arm.
`JudgeIsLast` is inductive together with `JudgeBehindShapes`: a chain at the judge shape has the
other shapes of its arm behind it, and that is never taken back. `CampaignInvariant`,
`CampaignTypeCorrect`, `JudgeFilesVouch`. No theorem needs an assumption on how chains wait or on how many
are at work.

* `ChainsInvariant` - `SInv`, four parts that need one another. `AloneOnBox`: while a chain that is alone is at
  work all others rest, because a chain that begins (`WaitOver`) takes the attribute from all. `OwnServers`: when
  such a chain launches the ports are empty, and from then to the end of its measurement what is on them is
  what it launched: the others can only launch after a wait, a stop and a re-arming only take servers away.
  `SessionHasChain`: servers have a chain at work with a `kill_all` still in front of it.
* `AloneMeansOwnServers`, `LastChainCleansUp` - `MeasuredOnOwn` and `RestingIsClean` follow.

**CodeSandbox.** `Counted` relates the tests passed, the sentinels in the directory and the tests that
really succeeded: a sentinel is never that of another test. `Remembered` keeps an expired limit
until the item ends as wrong, `Justified` says what a verdict knows of the state it was given in,
`Timed` bounds each wait by what precedes it. `SandboxTypeCorrect`, `CorrectIsEarned`,
`CreditIsPrefix`, `ItemTimeBounded`. (`AnswerProofs` holds these and the next ones.)

**Replies and scorers.** The state is simple: `ScoringInv` says that what was split is `Normalize` of the
item and what was recorded is `Outcome` of that (`ScoringInvariant`, `ScoringTypeCorrect`). What the
properties need is what these functions compute, for every reply.

* `CreditNeedsAnAnswer` - `Keep` returns the marks at some places in their order (`KeepIs`); what is outside
  of the blocks has between it and a closing tag behind it an opening one, and a
  closing one behind every `<think>` in front of it (`OutsideBlocks`), and what is left in the end is a
  slice of that (`SlicesKeep`). So the gold answer, if it is visible, is shown (`VisibleIsShown`), and each
  scorer credits only texts in which it is there (`McqShows`, `SimpleqaShows`, `MathShows`, ...).
* `CommitmentIsCredited` - a lemma per scorer for two values joined by an "or" (`McqHedged`, `MathHedged`,
  `OthersHedged`), and one for a reply that ends on the gold box (`McqBox`, ... `TextBox`).
* `CutRepliesAreApart` - all ways from a reply to its record.
* `MatchingIsOneToOne` - that every search of `try_m` has a value: each step looks at one more expected
  call, so the searches are ordered by what they have not looked at (`TryCallIs`). A search finds
  a place for its call and keeps the assignment one to one, with one more expected call taken, or it has looked at
  everything its call, and the holders of what it has looked at, could have (`TryCallDecides`). In the second
  case these calls are one more than the places they could have, so that not all calls can be placed
  (`NoneFails`); hence the size is n exactly if all can be (`MatchingIsPlacing`). For the parts of an answer,
  `Balanced` says that what is left of each value and what was taken of it make up what there was
  (`EquivalentIsSameBag`).

**ChatClient.** `WalkInv`: a call that was made found a live replica, the list does not
change any more, and every replica of its attempts so far has failed it. That attempts
`0..Retries` meet every replica is a fact about `%` (a lemma of its own). `ClientTypeCorrect`,
`ClientPermitsConserved` (the set of posted calls gains or loses one at a time), `ClientTriesAll`.
`ClientCountersBalance`: the totals are sums over replicas and calls, counted as sets of units, so that one more
count of an entry is one more element (`TotalGrows`); `Balances` says by how much the two sides of
each balance may move in a step, and every outcome of an attempt moves them by as much.

**Cell and Sweep.** `StopEmpties` is about what scans may miss. `Stopping`: from the first TERM
on every API server the scan finds is termed and starts no worker, so that what appears after
a scan can only be something that ends; the last scan sees all that is left, and
`kill` takes it. `Alone`: during a launch everything alive is its own or has other GPUs. `Asking`:
what answered, in this pass, was its own - a server on its port would share a GPU
(`PortAssumption`) and would have been stopped. `StopEmptiesTheCell`, `LaunchVerdictIsOwn`.
`SweepInv` (`Behind`, `AtPoint`, `Whole`): a meta file is written when no client of its point is running, so
that no orphan belongs to a run id that has one; `UnmarkedRowsAreWhole`. `PointsAreSplitWhole`: the
requests of a point, dealt to the replicas in turn, are a bijection with the places in the
shares, so the shares add up to it for every concurrency and fleet. `BenchTypeCorrect`: a point is
attempted once (`SweepTyped`), so that no count and no run id leaves its range.

**ItemData.** `MemAsBuilt`: the manifest in a prepare's memory is the one it found, with the
entries of families that went well and whose files have not been touched since.
`Pending`: what a run has compared is what it is about to load, or `disturbed`. `HeaderLast`: as long as a
header is unread the file is the one the items were read from, or `turned`. `ListedOnce` goes through
the manifest, the memory of a prepare and of a run. `RunsUseListed`, `ExitZeroVouches`,
`NothingTwice`, `EntriesAreKept`.

* `PinnedStaysPinned` - `RawInv` says of what version the file in the place of the pinned source may be,
  `Reading` which of a family's files have been read at each step, and of what version they were.
* `DataTypeCorrect` - from these and the type of what is stored; that a family's files are all read
  when its item file is written is what makes the item file's type hold.
* `PlansAreFairMerges` - for any number of families, sub-families and items and any limit. The loop is followed
  turn by turn (`TurnInv`): what was taken of each group are its first items (`TurnsTaken`); two groups
  that both have items left have given equally many, but for one that this round adds to those in front of
  the index, and for one per group that has run out and moved the index against them (`Even`, `Ahead`).
  A turn that empties a group (`DropsEven`) is the hard case: all groups behind it move up by one. With
  it the interleaving is a merge of its groups, fair at every place, and so is every prefix,
  which is what the limit cuts. `Loading` says that a run has loaded its families from the files it used.

**Gates.** Three of the parts of `GatesInv` speak of the moment behind a property. `ServerInv`: a server on the port
that this invocation started is the one of the side it is at. `TrapInv`: until the trap is taken back,
or where there is none, it can stop whatever the script has started, and what it cannot stop
is side B's server with `--keep-b`. `OrphanInv`: an orphan of the present invocation is there only when that
has ended with 137 or 143. `CaptureInv`: a side that is not `unsure` and was tried holds answers of the server
of that side, or nothing but errors; a comparison of nothing but errors is no pass. `StatusInv` adds what an exit
status of 0 vouches for. `GatesTyped`, `GatesPassIsOwn`, `GatesNoServerLeft`.

**The comparison (`KvDiff`).** What it computes is proved to be what it means, for texts of any
length over any vocabulary, and for every value of the thresholds.

* `LevenshteinIsLeast` - the distance is the least cost of an alignment. By induction over the places of
  the table: an alignment of two texts either pairs their last words or leaves one of them
  unpaired, and so is one of the three shorter alignments and one edit (`LastPaired`, `Unpaired`); each of
  the three can be extended (`PairAdded`). Which text lies across does not matter (`TurnedTable`).
* `FlagsAreExact` - an output has a corruption flag exactly if it is empty, holds a run of '!' or too many odd
  characters, or `Degenerate`. A run length reaches n exactly at the end of n equal
  words; r equal blocks of n words are a stretch of n * r words with period n
  (`BlocksArePeriodic`, `PeriodicAreBlocks`), a period that is tried for every n by the code. That the
  n-gram scan is skipped beside a repeated token loses no verdict.
* `VerdictsAreEarned` - hence a verdict in `kv_diff.json` is a pass exactly if the captures it was drawn from
  deserve it.

Liveness under fairness is out of reach of the prover and rests on TLC. Modules with theorems use
no RECURSIVE operator, which the provers cannot use: the loops of `ItemPlan`, `KvDiff`, `Replies` and
`Scorers` are recursive functions. The library's induction theorems cannot be used either (they take an operator),
so that these are unfolded in another way: the set of numbers for which a claim fails has a least
element (`LeastElement`, from the well-foundedness of < on the naturals), and the sequence of values of a
loop exists by the same argument (`LoopExists`, `TurnsExist`, `SearchExists`).

## 5. Disagreements between the documents and the code

Two runs are refuted by TLC.

`boxed_alternatives`: the comment at `knowledge.py` 1001-1002 says that a model
that named alternatives ("X or Y") must not be scored correct, as in the official grader; the code
looks for the "or" in the extracted span, which for a boxed answer is the content of the
last box, so `\boxed{Rome} or \boxed{Paris}` is correct for Paris.

`chains_rearmed`: `rearm_all.sh` 2-4 says that every chain step is idempotent, so that a chain restarted from
the top resumes where the stop cut it. The quality suite writes its checkpoints under the final name
(`run_eval.py:492`), and without EVAL_RESUME=1 an arm with such a file is passed over (`ksweep.sh:234`). Of the
chains that are armed again, `chain600w3d.sh:12` and `chain600w4.sh:12` do not set it: the trace stops the box behind a
checkpoint, arms the chains, and the first list skips the arm that was cut.

Others were met while modelling. The models contain the behaviour, and the properties
are stated so as to allow for it:

| text | code |
| --- | --- |
| docs/RESUME.md:86-87: `--resume` continues a partial | a kill inside `append_jsonl` leaves half a line, on which `read_jsonl` raises (common.py:91); `ResumeRefused` |
| docs/RESUME.md:116: `partial` is the completion flag | a second run of a tag leaves the old `partial: false` in place until its first checkpoint |
| evalsuite/README.md:107-108: a truncated run attempts a prefix | a resumed run need not: the failed items it drops stand in front of scored ones; hence `FreshRunAttemptsPrefix` |
| rr_proxy.py:12-13: a backend that dies mid-stream closes the client without the terminator | so in a chunked body; in one with a Content-Length the terminator is written; hence `StreamTerminatedWhole` speaks of chunked answers |
| rr_proxy.py:177: the clause for clients that went away | a reset by the backend ends in the same clause and is not counted; hence `RefusalsCounted` speaks of 502s |
| docs/RESUME.md:106-107: wait on a marker count, never two chains per box; rearm_all.sh:2: safe to run repeatedly | `chain600w4.sh:10` and `chain_post2.sh:7` take any DONE line, also one of the round before, and every waiting loop goes on when it expires; armed again, the waiter begins beside its predecessor and each `kill_all` takes the servers of the other; hence `MeasuredOnOwn` speaks of a chain that is alone |
| docs/RESUME.md:106-107: wait on a marker count | `chain600w16.sh:9-10` and `chain_c9.sh:8-10` do; at count 0 the fallback `echo 0` behind `grep -c` gives two lines and the test errs |
| rearm_all.sh:2: safe to run repeatedly | while the chains are at work it takes their servers (41, `kill_all`) and the chains go on: what they are measuring fails |
| FIRST_ONLY evaluates one combination of a row | after a restart it may evaluate a second one |
| run_kv_diff.sh:42: exit 0 is a pass of the gate | a capture that dies leaves the one of an earlier invocation, which is compared instead (197, 204); with SERVE_CMD a server that is still on the port answers for both sides (135); hence `PassIsOwn` excepts `unsure` sides |
| run_kv_diff.sh:42: exit 1 is a gate that failed | it is also a traceback, with an older `kv_diff.json` left in place; `Traceback` |
| gsm8k.sh:228: `lm_eval_failed` | the record may carry the figures, and a `pass`, of older raw results (210-239); `PassIsOwn` speaks of records that are ok |
| stop.sh:13-14: other cells on other GPUs are left alone | the rule by served name also ends a cell of the same name on other GPUs |

## 6. What is only model-checked, and what is not modelled

Only model-checked:

* the liveness properties `EveryRunPublishes`, `RequestsEnd`, `ChainsEnd`, `CallsEnd`, `ScriptsEnd`, `GateEnds`;

Not modelled inside the modelled components: option parsing and the statistics of a result;
the thread pool of the runner; `/health` and `/proxy_stats` of the proxy; the
serving command line, per-model profiles, disk and weights checks of ksweep beyond "this row is
refused", what `agg.py` sums up, and steps of a chain other than ksweep (downloads,
`glm_eval`, `kldiff`, soak); the string level of scorers; the proxy inside a cell.

Not modelled at all:

* Downloads (`prefetch.sh`, `dlget.sh`, `pull_image.py`): shell loops around external
  downloaders, whose file layout and resumption are not in the repository; a model would
  be a model of those. One hazard is known here: a failed download removes the whole directory
  (`dlget.sh:64`), also under a server or a second download.
* The mock server: a test double; its faults are outcomes in `ChatClient`.
* GLM and per-model launchers: the serve-measure-skip shape of ksweep with fixed arms.
* Co-tenant training, sleep and wake, logit divergence, soak and probes: straight-line
  measurement scripts, what they produce is numeric.
* Analysis scripts, economics, and of the gates the tables of `gates_summary.py` and `hwdecisions.py`:
  arithmetic and formatting over files, better tested than model-checked.
* Engine set-up, environment capture, instances, operation scripts: inspection of a host, calls
  of a provider's interface, single remote commands.
* Cells, results, notes and reports: data and prose. `results/` also holds copies of
  earlier states of the scripts and installed third-party files.

## 7. Plan

Done: sections 2 to 4. What would add most next, in this order:

1. Composition of `Campaign` with `EvalLedger` in place of its three evaluation actions, so that what
   a chain takes for finished is what the runner wrote.
2. `Cell` with its proxy (`USE_PROXY=1`), which joins it to `RRProxy`.
3. Two prepares at a time in `ItemData`, with the loss of entries as the property that fails.
4. The exits of the co-tenant scripts, and sentinels of downloads with an external model of the
   downloader.
