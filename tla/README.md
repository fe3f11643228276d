# Verification of brainkm (MemNetwork)

TLA+ specifications of the parts of brainkm where several callers, processes or
timers meet over one project's `.brain/` directory, their model checking with
TLC, and proofs checked by TLAPS. Paths below are relative to
`src/brainkm/brainkm/`; the documentation they are compared with is
`README.md` and `docs/`.

## 1. The system

brainkm keeps a coding agent's memory of one project: *neurons* (facts,
decisions, procedures, episodes) in a SQLite file, and beside them the project's
code graph, imported from the external program `graphify`.

Who runs:

- one or more **MCP servers** (`server.py`, stdio or HTTP) that answer eight
  tools through `tools/dispatch.py`, every one of them through the write queue;
- **hooks** (`services/hooks.py`): the editor starts a process at SessionStart,
  UserPromptSubmit, PreToolUse, PostToolUse, SubagentStart, SubagentStop, Stop,
  PostCompact and SessionEnd (PreInvocation in Antigravity);
- **git hooks** that `brainkm` has written, at a commit, a merge and a checkout;
- the **command line** (`cli.py`) and the **terminal dashboard** (`tui/`);
- inside the server, the threads of the **graph sync scheduler** and the watch.

What they share: `brain.db` (WAL, `busy_timeout` 10 s), `pending/<id>.json`
review files, `graphify-out/graph.json`, the marker files
`graph_sync.requested` and `graph_sync.lock`, and with the user the editors'
configuration files. There is no daemon and no protocol between the processes;
they meet in the database and the file system.

How SQLite is used matters everywhere: Python's `sqlite3` opens a transaction
only at the first INSERT, UPDATE or DELETE. A SELECT before it is a read of its
own, whose result may be stale when the write comes; from the first write to the
COMMIT no other connection writes.

### Components

| component | state | operations | what is hard | what makes it correct |
|---|---|---|---|---|
| write queue (`services/write_queue.py`) | asyncio queue, worker task, futures | `run`, `start`, `stop`, worker loop, retry | event loops that close under the queue, cancelled callers, retries | one job at a time, in order, at most once, every caller answered |
| neurons (`services/memory.py`, `audit.py`) | `nodes`, `audit_log`, `supersedes` edges | remember, correct, archive | read-then-write across processes | history never forks |
| consolidation (`services/consolidate.py`) | same | merge a cluster into a new neuron | minutes between the read and the write | merges only what is still believed |
| capture (`services/capture.py`, `hygiene.py`) | neurons and review files | distil a transcript, enqueue, purge | file and transaction, crash between | no review lost |
| review (`services/review.py`) | review files, confidence | approve, reject | several reviewers | one verdict, and it holds |
| lineage backfill (`services/backfill.py`, `repair.py`) | `supersedes` edges | `repair --backfill-supersedes` | rows read before the transaction | every trail ends |
| graph sync (`services/graphify_sync.py`, `graph_import.py`) | request flag, lock file, `graph.json`, code graph | extract, import, `sync_graph` | processes, crashes, stale locks | one syncer, nothing lost, requests served |
| sync scheduler (`GraphSyncScheduler`) | poll thread, debounce timer, in-progress flag | start, poll, fire, stop | timers re-armed and overlapping | a request is served, and soon |
| watch (`graphify_watch.py`) | none of its own | raise the request flag on a save | saves of no consequence | a request is harmless and served |
| observations (`observe.py`, `lifecycle.py`) | `observation` and `error` neurons | record, promote, archive by age and by cap | hooks of one session at once, each on rows read before | none lost, none beside what it became |
| learning (`learning.py`, `session_activity.py`, `feedback.py`) | hits, pending episode, weights, counts | recall, claim, reinforce, decay, flush | hooks, server and hygiene on the same rows | a use credits once, a period halves once |
| procedures (`procedures.py`) | procedure neurons | promote strong pairs, upsert | weights that decay and grow beside it | a procedure rests on evidence |
| snapshots (`snapshot.py`, `compression/cohort.py`) | the pack of each session | build, save, load, invalidate | hooks that build at once, a branch change meanwhile | a session is told one thing, and of this tree |
| clients' wiring (`install.py`, `connect.py`, `uninstall.py`, `client_adapters.py`) | MCP, hooks and text files of each client | install, connect, uninstall, SessionStart's heal | files rewritten in place, half-done commands, a heal at the same time | the user's entries stay, ours are there or gone |
| git hooks (`git_note.py`) | post-commit, post-merge, post-checkout | install, strip, `branch-changed` | shell text that is stripped and added again | packs go with the branch |
| transcripts (`capture.py`, `handover.py`, `chunks.py`, `quality.py`) | chunks, ingested marks, neurons | capture, hand over | files that grow while they are read, captors side by side | captured whole, and distilled once |
| last hook session (`hook_session.py`, `handle_checkpoint`) | one row, the server's copy of it | set, get, checkpoint | sessions that take turns on the row, an old copy | a checkpoint takes its own transcript |
| Antigravity sessions (`antigravity_session.py`) | a JSON file of entries | PreInvocation, Stop, heal | whole-file rewrites without a lock, truncation, an older file | what is skipped was sent, or tried |
| packing (`budget.py`, `context_pack.py`, `snapshot.py`) | none | slots, cuts, refill, clamp | minima, floors and percentages of one total | a pack fits, its best lines first |
| tool registry, migration (`tool_registry.py`, `db/migrate.py`) | tool rows, schema version | upsert, migrate | two processes starting | not modelled |
| shared server (`serve_helper.py`) | `serve.pid`, the port | start, probe, stop | left-over pid | not modelled |
| search, compression, adapters, traversal | none | read-only | scoring and text | not state machines |
| import, export, teams | archives of neurons | one shot | ids that exist already | not modelled |
| TUI, viewer, doctors, benchmarks | reports | one-shot | | not modelled |

`PROJECT.json` lists all of them with their status, and under "hazards" each
place that is hard to test, with the properties that guard it.

## 2. Modules

| module | models | composed with |
|---|---|---|
| `SerialExecutor` | what callers may rely on: an abstract executor that serves a line | |
| `WriteQueue` | `services/write_queue.py` and its use by server and commands | implements `SerialExecutor` through `INSTANCE` |
| `WriteQueueProofs` | proofs | extends `WriteQueue` |
| `NeuronStore` | supersession, archival, consolidation, capture, review | |
| `NeuronStoreProofs` | proofs | extends `NeuronStore` |
| `Lineage` | the backfill of `supersedes` edges and the writers it races | |
| `LineageProofs` | proofs | extends `Lineage` |
| `SyncScheduler` | when the server refreshes the graph, in discrete time | |
| `SyncSchedulerProofs` | proofs | extends `SyncScheduler` |
| `GraphSync` | how any process refreshes the graph, and the watch | |
| `GraphSyncProofs` | proofs | extends `GraphSync` |
| `Learning` | recalls, claims, co-activation, decay, procedures | |
| `Packing` | the slots and cuts of a pack | |
| `Observations` | what hooks note of a session, and its promotion | |
| `Capture` | transcripts into chunks, marks and neurons | |
| `HookSession` | the last hook's row and what a checkpoint makes of it | |
| `AgySession` | Antigravity's session file, injection and distilling | |
| `HookRecords` | what hooks keep from one to the next | composes `Observations`, `Capture`, `HookSession`, `AgySession` |
| `HookRecordsProofs` | proofs | extends `HookRecords` |
| `LearningProofs` | proofs | extends `Learning` and `Packing` |
| `ClientSetup` | install, connect, uninstall and heal, file by file | |
| `Snapshots` | frozen packs and branch changes | |
| `SessionHooks` | the wiring, the packs and the git hook together | composes `ClientSetup` and `Snapshots` |
| `SessionHooksProofs` | proofs | extends `SessionHooks` |
| `MCLearning` | bounds, symmetry | `Learning` and `Packing`, side by side |
| `MCObservations` | bounds, symmetry | the four parts of `HookRecords`, side by side |
| other `MC*` | bounds and symmetry for TLC | |

### WriteQueue

Asyncio runs the code between two suspension points without interruption, so
that is an action: `run` up to its await (`Run`, which also does what `start`
does), the top of the worker's loop (`TakeNext`, inside `WorkerGets` and
`Deliver`), `stop` up to its await (`Stop`) and after it (`StopReturns`). The job
runs in a thread: an attempt begins in one step and ends in another
(`AttemptOk`, `AttemptLocked`, `AttemptFails`), with a sleep before the next
(`Retry`). `pc[w]` is where a worker task is suspended, `queue` is `self._queue`,
`workerTask` is `self._worker_task`, `fut` the callers' futures.

Three things happen around the code. A caller is cancelled (`Cancel`), and its
job stays queued. The event loop closes (`CloseLoop`): all tasks are cancelled,
but a running thread finishes. Another loop opens with the same process-global
queue (`OpenLoop`); the `asyncio.Queue` may still be bound to the old loop
(`bound`), where waiting on an empty queue raises and ends the task.

The guards on `started` and `stopping` state how the repository uses the class:
`stop` is called where `start` was, when no caller waits, and the queue is used
again only when `stop` has returned. A use outside this is not covered. In
particular, `stop` on a worker that is already done leaves the queue as it is,
and what is left in it meets the next worker.

`SerialExecutor` knows only a line of callers, the one being served and what
each was told. The refinement maps the line to the queue while a live worker
reads it on an open loop, and to nothing otherwise.

### NeuronStore

A neuron's `log` is its sequence of audit events; `valid_until IS NULL`, which
triggers maintain from the events, is `log[n] = <<"created">>`. Each process
has a step `pc[p]` and what it works on, `arg[p]`: what it read and has not yet
acted on.

- `Remember` is one step: the neuron is inserted first, so the target of a
  correction is read inside the transaction.
- `ArchiveRead`/`ArchiveWrite`, `ConsolidateRead`/`ConsolidateWrite` and
  `RejectRead`/`RejectWrite` are two: the read comes before the transaction.
- Capture holds the lock over several steps, since each `CaptureNeuron` writes a
  review file that no rollback removes. `CaptureCommit` includes the hygiene
  pass.
- A review reads the file (`ReviewOpens`), commits (`Approve`, `RejectWrite`) and
  removes the file (`Unlink`), and another review may come between any two.
- `Crash` ends any process anywhere, and rolls back what it had open. An
  exception in the middle of an operation has the same effect.

`conf` is the confidence relative to `learning.auto_capture_confidence`.
`from` (whose content a neuron holds), `captured` and `verdicts` are history.

Simplifications: one cluster per consolidation; hygiene's two commits are one;
the fingerprint check, links, tags and chunks are left out; the backfill is in
`Lineage`. So `OneSuccessor` is about the operations in this module: the
backfill does give retired decisions further successors, on purpose.

### Lineage

`order` is the decisions sorted by `updated_at`: a recall flushed at the end of
a session, an archival or a supersession moves a decision to the end. `rows` is
the backfill's result set with the flags it read; `row` the one it is at; `best`
the pair between the last check (`supersede_neuron`'s `get_node`) and the first
write, where the lock is not yet held; `draft` the edges written and not yet
committed. Which pairs resemble each other is a constant, which of several
resembles most and whether `detect_conflicts` agrees are left open. `touched` is the order
as the pass will leave it at its commit, since each edge it writes moves the
retired decision (`Moved`). Ties in
`updated_at` and the limit of 200 rows are left out. One backfill runs at a time.

### SyncScheduler

Time is counted in steps of `Tick`, which waits for every thread that is due:
threads are prompt, and what is late is late because of the code. `poll` and
`timer` are the time until the polling thread and the debounce timer act, `left`
what the running sync may still take, `since` the time since the last import,
`age` how long a request has stood unserved since the last import. `Start` and
`Down` are the server's. An import without the clearing of the flag is
`ImportElsewhere` (a bare `graph import`, or a process that dies between the
two), and `CutShort` when the server itself is stopped there.

### GraphSync

A graph is the version of the source it was extracted from, or `Empty`. `file`
is `graph.json`, `db` the imported graph, `newer` whether the file's mtime is
after the last import's. `pc[p]` walks through `sync_graph`: look at the age of
the lock, unlink it, create it, extract (read the source, then write the file),
`prepare_force_sync`'s and `import_graph_json`'s own reads of the file, import,
clear the request, release. Every stage may fail, and the process may die at
every step, leaving the lock. `LockAges` is 30 minutes passing; a living process
does not hold the lock so long, since the extract is cut off after 5 minutes by
default. A dead process's extractor is taken to write nothing more.

The bare commands `graph import` and `graph extract` begin at `load` and at
`extract` and end without touching the lock or the flag; `met` records that one of
them ran beside another process, for then a command may import what a sync has
just replaced, and `StalenessSeen` and `GraphKept` are promised only while the
processes keep `Apart`. The watch (`WatchRequests`) may raise the flag at any time.

### Learning

`episode[s]` is the row of `session_learning_state`: the ids of the last recall
and whether a tool call may still claim them. `ProcessPostTool` is the whole
PostToolUse handler: it claims, credits `used`, reinforces the pairs and promotes
those that have reached the threshold. Its first statement writes, so it is one
step. Time is counted in idle periods; weights are integers, in units of which
`co_activation_delta` is `Delta`, and `Decayed` halves them by integer division
(with the shipped 1.0, 0.3 and 3.0 the unit is an eighth, which two halvings keep
exact). `HygieneRead` and `HygieneWrite` are two steps, for
`brainkm hygiene --decay` reads the edges before its transaction; a run that
archived nothing before closes without a commit (`HygieneDiscard`).

An edge has an `id`, because one that was deleted and made again is another row,
which a sweep that read the first does not touch. `marked` and `claimed` are
history, and so is an edge's `created`, by which `HalvedOncePerPeriod` tells what
idle time alone would have left of its first claim (`Start`). Left open: which pairs an ignore rate blocks and how many procedures
are ignored too often; left out: `use_count` and the counters of the feedback.

### Observations

`obs` is the neurons of the subtypes `observation` and `error` by `created_at`. A
row that was promoted points to its source. PostToolUse writes first, so its
checks and its insert are one step; the checks of UserPromptSubmit and Stop
(`PromptRead`) come before the transaction of their insert (`PromptRecord`), and so
do the rows a promotion reads (`PromoteRead`) before it remembers and forgets them
(`Promote`). A content is a fingerprint, of a failed call or not, above the
quality gate or not; `Tick` moves the rows' ages past the dedup window and past
the TTL. `Crash` ends a hook between its two steps.

### Capture

`script[t]` is a transcript, a sequence of rounds that the host appends to.
`CaptureBegins` is the first read, of the bytes for the fingerprint (`mark`),
`CaptureParses` the second, with the check of `ingested_sessions` before it, and
`CaptureWrites` everything from the first write to the commit, the distiller
included, for the lock is held. `chunks` counts how often each message is stored,
because every capture and every handover inserts all of them again (`Stored`). What
the distiller makes of the rounds is any subset of them; `made` is the memories by
`updated_at`, with others among them (`Remembers`) and recalls that move one to the
end (`Touches`), since fingerprints are compared with the latest `Recent` only
(`Latest`; 500 in the code). A memory is known by what it says, but for one whose body is
stored compressed, whose fingerprint no distilled one meets again (`Nil`). A
handover is not checked against `ingested_sessions`, keeps the durable subtypes
only, and adds a context neuron when nothing else is new (`AddContextNeuron`).
`CaptureFails` is a kill, a lock-out, or the UNIQUE fingerprint of another session.

### HookSession

`lastHook` is the row of `brain_runtime`, `cached` the server's copy of some
seconds, `announced[s]` (history) the transcripts that hooks named for session
s, `asked` the checkpoints that wait in the write queue, and `handed` what they
handed over and filed for whom. A hook without a transcript keeps
the one in the row if the row is its own session's (`PathToKeep`). A call that
names no session takes that of the row (`AsksInferred`); if there is none, it still
has none when the queue runs it, and then takes whatever the row holds by that time,
filed under the transcript's own name (`Accepted`, `FiledFor`).

### AgySession

`file` is `agy_sessions.json`, `shadow` the file an older installation left
elsewhere, which `heal_antigravity_wiring` merges. A save is three steps
(`SaveLoads`, `Truncates`, `Writes`), and `file` is empty between the last two, for
a loader takes what does not parse for no entries. `agent[p]` is what a hook holds
from one step to the next; the hooks of a conversation may overlap, because a
Stop with a handover takes as long as its distiller. `sent` and `tried` are
history; `tried` and not done, for a handover that raises, or is switched off, is
stamped as distilled like any other (`HandoverEnds`). The turn is the number of earlier invocations; what a handover does is in
`Capture`, and which pack is found is any.

### Packing

The cost of a line is its tokens; titles cost `Title`, and a text may be cut at
any token. `CompileContextPack` cuts what `Ask` found to the slots of its channels
(`TruncateByChannels`), fits the text (`FitPackText`), and gives the arrays what is
left (`Structured`); `FreezePack` selects from the five sections in turn, of which
any may be empty and the first three have the budget of `pinned_rules` each, sorts
what it selected by the session's hint (`ByHint`), and clamps from the end. Percentages are
integer divisions, which agree with the code's `int(total * 0.45)` and the like for
the totals of the runs. Which lines are found, compressed, deduplicated and
diversified is left open: a mix of costs stands for it. What the code builds in a loop
over the lines is a recursive function over their number (`Tokens`, `GreedyTruncate`,
`AddRows`), and what it filters or sorts is given by positions (`Picked`, `Ordered`).

### Side by side

`HookRecords` puts the four hook modules together, their steps interleaved; they
share no variable, and the theorems about it are of `RecordsSpec`. For TLC,
`MCObservations` and `MCLearning` let each part step while the others are in their
initial states, so that the states of the run are the union of the parts' states
and not their product: no state and no step of a part is lost, and none of a
combination is claimed. A property over one part is checked on all of that part's
behaviours.

### ClientSetup, Snapshots, SessionHooks

A configuration file is the sequence of the entries in it: the user's, ours,
those of an older version, under an event that this one wires (`stale`) or not
(`dropped`), a stray `fi`, or `torn` for a file cut off between
truncation and write. Below the snippet in a text file the user may add `notes`, which
belong to its section, and a `chapter` with a heading of its own, which ends it
(`Section`). A command is a list of lists of tasks on files, one for
each client (`Wire`, `Unwire`) and one for the git hooks, in the order of the code's
loops; each task is refused, skipped, done at once (a delete, or the rename that
`settings.local.json` gets), or done as `Truncate` and `WriteOut`, between which the
command may die or a SessionStart may look. `status` is what the last command
about a client came to, `mine` the user's entries that nothing admitted has cost
(`Costs`: what `--force` and an uninstall of the snippet take along), `back` the files in which a heal has put something since they were stripped. What a strip leaves is given in closed
form (`Without`: the entries that stay, in their order), not as a fold over the
file.
Codex and Antigravity share `AGENTS.md`, and take a torn MCP file for empty.

In `Snapshots` a hook reads that there is no pack (`BuildReads`), selects, and saves
with `ON CONFLICT DO NOTHING` (`BuildSaves`), with a branch change possibly in
between; a pack is known by its builder and its tree, not by its neurons. `told` is
what the session was told since the last branch change. A hook that finds a pack tells
it (`Reuses`); one that built tells its own, saved or not, and a build is `alone` when
it is no PostCompact and no other hook built for the session beside it.
`SessionHooks` puts the two together: `Checkout` tells brainkm only if the
post-checkout hook that commands have left is one the shell can run to the end,
which the second `fi` of a stripped block prevents. Builds share nothing with the
steps of a command, so they are interleaved between commands only.

## 3. Runs

| run | instance | states | shows |
|---|---|---|---|
| `write_queue` | 3 callers, one with two commits; 2 worker identities; 2 attempts | 163,522 | all safety, `CallersAnswered`, `StopCompletes`, refinement of `SerialExecutor` |
| `neuron_store` | 4 neurons, 2 processes; captures use at most 2 ids | 1.8 million up to symmetry | `OneSuccessor`, `ReviewNotLost`, `OneVerdict`, `RejectedRetired` |
| `rejected_content` | 3 neurons, 2 processes | stops at the violation | finding 1 |
| `lineage` | 4 decisions, all similar | 6.3 million | `LeadsToTruth` |
| `newer_supersedes` | 3 decisions | stops at the violation | finding 2 |
| `sync_scheduler` | poll 5, debounce 4, interval 10, sync up to 6 | 872 | `ServedInTime`, `RequestServed` |
| `sync_starved` | poll 1, debounce 12, interval 60 (units of 5 s: the shipped values) | stops at the violation | finding 3 |
| `graph_sync` | scheduler and one other process, 2 edits, 2 foreign operations of four kinds, watch, 2 deaths | 244,501 | `OneSyncer`, `StalenessSeen`, `GraphKept`, `ServedWhenTried` |
| `lost_request` | scheduler alone, 3 edits, no death | stops at the violation | finding 4 |
| `learning` | 2 neurons, 2 sessions, 1 chain, 2 hygiene processes, 2 recalls per neuron, 2 periods; packs of 4 lines of 3 costs, 3 totals | 367,000 up to symmetry | `EpisodeOnce`, `HalvedOncePerPeriod`, `ProcedureEvidence`, `PackFits` |
| `observations` | 2 processes, 2 sessions; 3 contents, cap 1, 3 rows; 1 transcript of 2 rounds, 1 session id, 3 memories, 2 of them compared, 3 copies of a message; 2 paths; 1 conversation, 2 packs, 3 turns, interval 2, debounce 2, clock 3 | 2.2 million up to symmetry | `NotesKept`, `CapNearlyKept`, `WholeAndOnce`, `OwnTranscript`, `SkippedWasTried` |
| `session_hooks` | Claude, Codex, Antigravity; 2 commands, 1 heal; then 1 session, 2 hooks, 1 checkout | 3.2 million up to symmetry | `UserEntriesKept`, `InstallComplete`, `UninstallComplete`, `PackOfTheTree`, `FrozenPack` |

Why the bounds are enough. *WriteQueue*: a job in the thread, one queued behind
it and one arriving is every relation the code distinguishes; two worker
identities allow a stale worker beside a live one; two attempts are a retry and
the last. *NeuronStore*: a race needs two processes; a consolidation of two
takes three ids, and the fourth is corrected, captured or merged against it.
`TwoCaptures` keeps captures to two ids: reviews concern one neuron, and a second
one is enough for what else may be captured, purged or merged meanwhile. *Lineage*: a chain of three and a fourth that is
touched or corrected meanwhile; the bound is also that on edges, so a pass may
be repeated until nothing changes. *GraphSync*: with the scheduler and one more
process both orders of every step occur; two deaths are the least by which a
stale lock is left twice. *Learning*: two recalls of a pair are what a procedure
needs with the threshold at two claims, and two periods take an edge below
`min_weight` and let two sweeps overlap over both. *Observations*: three rows are two
that are promoted and what one of them becomes, or one noted meanwhile; a cap of
one is passed by the second hook. *Capture*: a transcript of two rounds grows
between the two reads of one captor while another writes; two memories are a pair of
twins, and the third pushes one out of the window of two; three copies are two captures
and a handover. *AgySession*: two hooks of one conversation are every overlap of a
save with another's load; a hook of any other conversation is `OtherTalkSaves`; three
turns pass an interval of two, and a clock of three a debounce of two. *Packing*: sections
with rows and without, a decision that is pinned too, a hint that names some rows;
lines below, at and above a slot, totals below, at and above the sum of the minima,
and each kind of query. *SessionHooks*: an install and an uninstall, or
two installs of which the first dies, and a third client so that two may share a
file while the last one out is a third; the earlier state, with or without the
user's entries and an older brainkm, stands for what longer histories leave. The run's
specification is `MCSpec`: the wiring first, and then the packs, of which only the
post-checkout hook knows anything of the wiring, and from the states without entries of
the user, since no pack depends on them (`WiringFirst`, `PacksThen`); with one checkout
this leaves out no step of either and no meeting of the two. The theorems are of
`Spec`. For
every safety property in the table the theorems below lift the bounds; for `PackFits`
those on costs, titles and totals, and theorems on the cuts themselves lift the
number of lines and their mix.

Deadlock is checked except in the two `GraphSync` runs, whose bounded edits and
operations run out, and in `session_hooks`, where the commands do and nobody need
start a session. In `Lineage` and `NeuronStore` an exhausted id supply still
leaves reads and crashes; in `Learning` sweeps and in `Observations` reads remain.

Each property of a passing run has a mutant in `PROJECT.json`: a "faulty form"
beside the definition it replaces, under which TLC finds the property violated.

### Fairness

- `WriteQueue`: weak fairness of each worker's steps (the event loop resumes ready
  tasks; a thread's attempt ends, as `busy_timeout` bounds it) and of `stop`'s
  return. None of callers, loops or the owner.
- `SyncScheduler`: threads run, time passes. Strong fairness of `SyncCompletes`
  says that a sync tried again and again does not always fail; without it no
  request need be served. `RequestServed` says nothing of a server beside which
  others import for ever without clearing the flag, for each import begins the
  minimum interval anew. The run has `Debounce < Poll`; with the shipped values the
  property fails (finding 3).
- `GraphSync`: weak fairness of the hook that follows an edit, of the processes'
  steps and of the lock's age, strong of the extract and of the import, for the
  same reason. Deaths are bounded and nothing obliges them. The scheduler has no
  fairness: whether it starts is what `SyncScheduler` is about, and the shipped
  debounce keeps it from it. `ServedWhenTried` says what holds if it does, that no dead
  process's lock shuts it out. Finding 4 is run with the opposite assumption
  (`PromptSpec`, a debounce below the poll), so that it does not rest on finding 3.
- `Lineage`, `NeuronStore`, `Learning`, `Observations`, `Capture`, `HookSession`,
  `AgySession`, `Packing`, `SessionHooks`: none. Their
  processes are started by an editor or a user who owes them nothing, and their
  properties are safety.

### Findings

1. *Rejected content stays.* A low-confidence capture that waits for review may
   be consolidated; rejecting it then archives only the retired original
   (`rejected_content`).
2. *Older supersedes newer.* The backfill orders by `updated_at`, which a recall
   advances; the newer decision is then archived in favour of the older
   (`newer_supersedes`).
3. *The debounce never ends.* A standing request re-arms the timer every 5 s, so
   with any debounce above 5 s, 60 s as shipped, it never fires
   (`sync_starved`; theorem `Starvation`).
4. *A request is lost.* An edit during an extract raises a flag that the end of
   the sync clears (`lost_request`).

### Divergences without a run of their own

Met while modelling, and kept as the code has them: where a model covers the place
it does what the code does, and its properties say what holds in spite of it.

- *Hygiene rolls itself back.* `brainkm hygiene --decay` with nothing to archive
  never commits (`hygiene.py:162`, `cli.py:1454`), though `docs/CLI_COMMANDS.md:106`
  promises decay: `HygieneDiscard`.
- *A refresh told once.* PostCompact builds a pack with `force` and tells it
  (`hooks.py:940`), but `ON CONFLICT DO NOTHING` (`snapshot.py:328`) does not keep it, so
  that the next hook tells the pack of before; `docs/CLI_COMMANDS.md:177` and
  `docs/FEATURES.md:66, 81` say "refresh". Likewise, of two SessionStarts that overlap
  one tells a pack that was not saved (`snapshot.py:400`). `FrozenPack` says what holds
  of the saved pack, and of every hook but these.
- *Promoted twice.* Two overlapping promotions of a session each remember the same
  observation (`observe.py:277`); `NotesKept` says that no one hook does so twice, and
  that none which comes later does.
- *The TTL takes what was promoted.* `archive_expired_observations` says that it
  archives "unpromoted" observations (`lifecycle.py:96`); it archives any that is old,
  what promotions have made included: `ExpiredRows`. Errors stay.
- *Uses counted twice or not.* `flush_use_counts` reads the hits before its
  transaction (`session_activity.py:84`), and the server's copy in memory is merged
  with rows another process has flushed.
- *A pack of the tree before.* A pack that is being built when the branch changes
  is saved after the change has deleted the others (`git_note.py:787`): `stale`.
- *A cohort inserted twice.* Two SessionStarts of one new session both find no
  cohort; the second INSERT raises (`compression/cohort.py:28-56`).
- *A stray `fi`.* Stripping the post-checkout block leaves its second `fi`
  (`git_note.py:450`), after which the shell refuses the hook: `"stray"`.
- *`--force` cuts the user's text* below the snippet (`install.py:1012`), though its
  docstring says that it "never clobbers" (`install.py:1000`): `Costs`.
- *Uninstall cuts the snippet's section.* What the user wrote below the snippet without
  a top-level heading of its own goes with it (`uninstall.py:392`), while
  `README.md:163` says that "anything else in those files stays", and the
  docstring that what is written above or below survives: `Section`.
- *Groups of events no longer wired stay.* An install replaces brainkm's groups event
  by event of those it wires (`install.py:293-314, 674-697`); those of an older version
  under another event stay until an uninstall: `dropped`.
- *The shared snippet goes early.* Uninstalling one client removes the snippet from
  the `AGENTS.md` another one uses: `InstallComplete` excepts it.
- *Mixed groups are dropped.* A hook group that holds the user's command beside
  brainkm's goes as a whole (`install.py:281`, `uninstall.py:238`); left out.
- *A torn file counts as empty.* SessionStart takes a `settings.local.json` that
  does not parse for an empty one (`install.py:430`), and may put hooks back after
  an uninstall: `UserEntriesKept` and `UninstallComplete` except both.
- *Half a client is no client.* After a crash, a client with neither MCP nor hooks
  file is not found by a plain `uninstall` (`connect.py:100`).
- *A torn file stays torn.* `_write_json` (`install.py:979`) truncates and writes; the
  next install refuses what a crash leaves, the next uninstall skips it.
- *An import unlinks memories.* `_purge_code_graph` (`graph_import.py:80-88`) deletes
  every edge at a code node, `about_file` and `about_symbol` links of memories
  included; only `repair --backfill-links` restores them, for neurons that have
  none left, 500 at a time. `docs/FEATURES.md:150` says that `about_file` and
  `about_symbol` edges "attach memories to code nodes".
- *Bare commands overtake.* `graph import` and `graph extract` run beside a sync
  may import what has been replaced (`cli.py:310, 396`): `Apart`.
- *`import --replace` of known ids fails.* It archives all nodes and then inserts
  records under ids that are still there (`import_merge.py:96, 175`; `memory.py:105`),
  so a re-import of a project's own export is rolled back as a whole, where
  `docs/FEATURES.md:257` says "reset cleanly"; a merge that holds one forgotten or
  superseded record fails the same way.
- *Imports repeat themselves.* Importing a file twice, or at each install
  (`auto_import_on_install`), duplicates every record of equal confidence with a
  `conflicts_with` edge (`import_merge.py:113`).
- *Small budgets are exceeded.* `adaptive_token_budget` returns at least 200
  (`budget.py:104`), and the text may always have 100 tokens beside the 200 of its
  envelope (`context_pack.py:1450`), so a `total_tokens` of 100 is not kept to;
  `trim_neurons_to_budget` keeps the title of the last line when it does not fit
  (`mcp_results.py:105`). `PackFits` says by how much.
- *Not the lowest priority.* `_fit_pack_text` and `clamp_injection_pack` say that they
  drop the lowest-priority lines (`context_pack.py:1052`, `snapshot.py:275`); they drop
  the last of a list that is ordered by score, or, after `snapshot.py:155`, by the
  session's hint, so that a decision or a pinned rule may go before something lesser
  that the hint names.
- *One long row ends a section* of the frozen pack, whatever is behind it
  (`snapshot.py:58-81`).
- *Memories have twins.* Fingerprints are of stored bodies, and a long body is stored
  compressed, so that it is captured again; and only the 500 latest active
  memories are compared (`quality.py:185-193`), where `docs/AI_PROJECT_BRIEF.md:333` says
  "skip duplicates"; each handover without news adds one more context neuron
  (`handover.py:132`). `CapturedOnce` excepts all three.
- *Messages are stored again.* `persist_message_chunks` inserts every message under a
  fresh id at every capture and every handover of its transcript (`chunks.py:30-60`):
  `Stored` counts.
- *A checkpoint without a session.* One that is called when no hook is known takes the
  transcript of whichever hook has come before the queue runs it
  (`hook_session.py:227-235`, `dispatch.py:758`), and files it under the transcript's
  stem (`handover.py:177`), a session that no hook announced: `OwnTranscript` excepts it.
- *A handover counts as ingested.* It marks the session, so that a SessionEnd on
  the same bytes captures nothing of the subtypes a handover leaves out
  (`capture.py:109, 209`), and what a reviewer rejected is captured again by the
  next handover, since retired neurons are not compared.
- *Equal bytes in two sessions.* `ingested_sessions.fingerprint` is UNIQUE and the
  upsert is by session, so the second handover of the same bytes fails:
  `CaptureFails`.
- *The end of a conversation.* A Stop within the debounce of the last one distills
  nothing, and if no hook follows, nobody does (`antigravity_session.py:372`;
  `docs/FEATURES.md:64`).
- *A failed handover counts as distilled.* It is logged, and `last_distill_at` set
  all the same (`hooks.py:1456-1466`), so that the Stops of the next 120 s do not try
  again: `SkippedWasTried` says "tried".
- *The wrong server is stopped.* `stop_serve_background` (`serve_helper.py:216`)
  signals whatever listens on the configured port, and the pid in a left-over
  `serve.pid`.

## 4. Proofs

The theorems are of the specifications, or of operators for any arguments, for every
value of the constants that the modules' `ASSUME`s allow. TLC evaluates those assumptions in each run.

**WriteQueueProofs** (any callers, workers, attempts). `IInv` has layers.
`ThreadInv`: a busy worker holds a caller's job, within the retry limit.
`OwnerInv`: only the worker that `_worker_task` names is not done (`OneWorker`);
what a closing loop leaves (`Closing`); what the queue may hold without a worker
(`NothingLeft`) and where the sentinel is (`Sentinel`); that a waiting caller's
job is held or queued (`Waiting`). `OrderInv`: the queue keeps the order of
acceptance, everything accepted is accounted for, and nothing queued has begun.
`CommitInv`: what was committed at each stage of an attempt. The properties are
not inductive by themselves: `Serialized` needs that no worker is created while
another is in a thread, which depends on the loop, on `stopping` and on what
`_worker_task` still names; `NoOvertaking` needs the order of the queue itself.
Theorems: `TypeCorrect`, `OneWriter`, `NobodyStranded`, `InOrder`, `OnceOnly`.
`SerialExecution`, that `Spec` implements `SerialExecutor`, rests on the same
invariant: the abstract line is the queue without its sentinel, and what is served
is what the one busy worker holds, so a lemma per action says which abstract step
it is (`RunSubmits`, `TakeTurns`, `CancelGivesUp`) or that it stutters
(`ThreadStutters`, `OwnerStutters`).

**NeuronStoreProofs** (any neurons, processes). Beside the properties, `IInv` says
that an id in use was handed out (`FreshInv`), that what has a successor is
retired (`SuccInv`), that what a process holds between its read and its write
still exists, and what each step knows of it (`ArgInv`), that a low draft has its
file (`DraftInv`) and that a verdict's file is gone and its id never fresh
again (`VerdictInv`). `OneSuccessor` then follows because each write adds
successors only to what it finds active; `OneVerdict` because the removal of the
file is the only step that reports success; `ReviewNotLost` because the file of
an active, low neuron is removed only after its confidence or its log changed.
One lemma per action, gathered in `NextStep`. Theorems: `Invariance`,
`TypeCorrect`, `LinearHistory`, `ReviewsKept`, `SingleVerdict`,
`RejectionHolds`.

**SyncSchedulerProofs** (any intervals). For `Debounce < Poll`, the timer keeps its
phase with the poll and the next firing is near (`LatencyInv`), whence
`PromptService`: `[]ServedInTime`. For `Debounce > Poll`, `Starvation`: a request
that has stood for a poll has re-armed the timer, and does so again before it
fires (`RearmedInv`), so no sync begins for a request older than one poll. The first
is of a configuration that is not the shipped one, as its statement says; the second
is of the shipped one.

**GraphSyncProofs** (any processes, edits, deaths). `IInv` has layers that hold up
one another in this order: the types; `BareInv`, which steps a bare command is
ever at; `LockInv`, that until a death the lock names the one process inside and
is never stale; `AloneInv`, that a bare command runs alone unless `met`; `PastInv`,
that no graph is ahead of the source; and `GraphInv`, what is known of the graphs
while the processes keep apart. `GraphInv` is where the argument is: a process
between `load` and `import` holds the present file, and one between its two extract
steps a source no older than the database. That a step of another process does
not disturb it follows from the lemma `OneWorker`: with the lock, and without a
bare command beside, nobody else is at work. `db = file` unless `newer` alone is not
inductive, for an import would have to know that the file has not changed since it
was read. Theorems: `TypeCorrect`, `OneSyncerHolds`, `StalenessNeverHidden`,
`GraphNeverLost`.

**SessionHooksProofs** (any clients, commands, sessions, hooks and SessionStarts at
once). Of the wiring: `InstallComplete` and `UninstallComplete` say nothing of a
client while a command is at work on it, so `SetupInv` says what is true then. `FileInv`: what may be in a file; `TodoInv`: what tasks a command may
still have, the git hooks last; `DoneInv`: each file of its clients has a task left
or is in the state that the command is for; `NewInv`: what is being written is whole
and effective, and the file is cut off meanwhile unless a SessionStart has put
another in its place; `HealInv`: what a SessionStart is about to write is sound and
has all of the user's in it that nothing has cost; `GitInv`: a command that goes at the git hooks in the
end has found every other client bare; `KeptInv`: the user's entries are in the file
or in what is about to be written to it. `StatusInv` then is the conclusion for
commands that have ended. A task of one client reaches no file of another but the
shared text (`Elsewhere`, `OthersCleared`). One lemma per action of command and heal,
gathered in `SetupStep`; the plans of install and uninstall are in `InstallPlan` and
`UninstallPlan`, and lemmas on sequences say what `Without` leaves. Theorems:
`SetupTyped`, `EntriesKept`, `InstallsComplete`, `UninstallsComplete`.

Of the packs: `PackInv` is their type with `PackOfTheTree`, that what a session was told
by hooks that were alone is the saved pack (`AllOne`), and `AloneInv`: a build that is alone has no
other beside it and no pack before it, for a hook that finds it building takes the
solitude from it. Every step of the
composition is for the packs one of `PackStep` or nothing (`NextIsPackStep`), so that
the wiring need not be looked into; the cases with content are `ReadInv`, and `SaveInv`: the
insert that finds no pack saves one whose tree is the present one or is recorded as
gone, and a hook that was alone finds none, nor anything told by another. Theorems: `PacksFollowTree`, `PacksAreFrozen`.

**HookRecordsProofs**, of `Observations` (any processes, sessions, contents, caps).
`TakenInv`: the rows that a promotion has read are observations of its session, and
stay so, because what a step changes of a row is only whether it is active and how
old it is (`RowsStay`). `NotesKept` follows since a promotion deactivates what it read
and appends the row that takes its place (`PromoteStep`); that one hook does so once
is that nothing it has read was promoted by it before. The cap is checked before
the transaction of the insert, so `CapNearlyKept` is not inductive; `CapInv` counts
the hooks that have checked and are yet to record together with the rows. Theorems:
`ObservationsTyped`, `NotesAreKept`, `CapHolds`.

Of `Capture` (any captors, transcripts, sessions, contents): `CaptureInv` says
of a captor between its reads that the fingerprint covers no more than the
transcript has, and after them no more than it has parsed (`CaptorInv`), because
transcripts only grow, so that what is stored has each message as often as
the marked prefix says it. That no two active memories say the same, while all are
within the window, needs that the
new ones are compared with what is stored when the write takes the lock
(`OnceExtended`), and that `SetToSeq` lists a finite set once. Theorem:
`CapturesAreWholeAndOnce`.

Of `HookSession` (any sessions and transcripts): what the row and its copy name
was announced for their session (`Told`), and announcements are never taken back, so
that a copy stays true as it grows old; a call without a session is filed under the
transcript itself. Theorem: `CheckpointsAreOwn`.

Of `AgySession` (any hooks, conversations, packs, intervals): an entry is
`Justified` when the pack of which it tells was sent and the distill tried. Every
copy of an entry is: in the file, in the shadow, in what a hook has loaded and is
about to write back, however old. The one exception is the entry that a
PreInvocation is about to write for the pack that it prints only then (`OwnInv`),
and its write makes it true (`WritesStep`). Losing entries is harmless because `New`
is justified too; `JustifiedStays` is the monotonicity of the history. Theorem:
`SkipsAreJustified`.

Of the composition: a step of one part leaves the others as they are, so that each
part keeps its own invariant (`PartsApart`). Theorem: `RecordsTyped`.

**LineageProofs** (any decisions, any resemblance). `LeadsToTruth` says that out of
any set of superseded decisions some edge leads. Edges are only added, so a step can
harm it only by retiring a decision; `RowsInv` says that the edges of a pass lead from
a row to a later one that was active when it was read, `LeadsToNew` that decisions
retired since then lead on to decisions that are in no row. The commit takes, of the
rows in question, the last in the order of the pass: its edge leads out
(`CommitLeadsOn`). Without `LeadsToNew` the property is not inductive: an edge of the
pass might lead to a decision that a correction has retired in between, and from
there back. Theorems: `LineageTyped`, `TrailsEnd`.

**LearningProofs**, of `Learning` (any neurons, sessions, processes, weights). Of each
neuron, the credits given and the sessions whose next tool call would give one
(`Pending`) are together no more than the episodes opened with it. Opening an episode
makes at most one more session pending; a claim gives a credit and closes its
session's episode; the rest only drops episodes. Theorem: `CreditsAreEarned`.

Of the edges, `LearnInv` says `Sound` of each one, and of each row that a sweep holds
(`RowsInv`), however old: that its weight is no less than its first claim halved for
every period that its checkpoint lies after it, that it is no more than the claims of
its pair have added up to, and that a row with the id of the present edge is
of that edge (`SameEdge`). A sweep's write therefore halves nothing for a period twice, although it
computes from what it read (`DecayedSound`), and a claim in between makes it pass by.
The arithmetic is in `PowerSum` (a power of two counts the subsets of an interval),
`DivTwice` and `HalvedMore`. Theorems: `LearningTyped`, `ProceduresAreEarned`,
`NothingHalvedTwice`.

Of `Packing`: `SlotsShareTheTotal` (any total, any limits, any type of query), what
`budget.py:113` says of the slots, and that the cap on the lines leaves room for
their framing. The cuts are proved as functions, of whatever lines they are given.
`TruncationFits`, of any lines in the three channels: within the cap, no line twice,
none that was not given, and the memory of the highest rank among them. Each greedy
cut keeps `Taken` from line to line: none taken twice, the sum within the limit, and
the first in rank taken if its title fits (`TakenMore`, `GreedyIs`); a refill takes
only lines that its channel does not have yet (`RefillIs`), so that the channels stay
apart when they are put together (`PartsIs`), and when the cap cuts once more the
leader is first in rank again. `ArraysFit`: the text and the arrays that share what it
leaves stay within the budget but for two titles (`TrimmedIs`). `SectionsFit`: a frozen
pack of five sections of any rows, any of them empty, has the first row there is and is
within the five budgets but for that row if it alone is larger (`Rowed`, `RowAdded`), and
no row goes before one that the hint names more, for the sort is of positions
(`Ordered`), as the ranking is. `PacksFit` is `[]PackFits` of `PackingSpec`, for
any costs, titles and totals: `PackingInv` says that what is packed was made of what was
asked, and the theorems on the cuts say the rest. It keeps the shape of what `Ask`
finds (four lines); the theorems on the cuts do not depend on it.

A recursive function is shown to exist by `Recursion` and computed by `UpTo`, which
turns an induction up to a number into the least element of a set of numbers
(`LeastExists`, from `WFMin`): the library's own induction rules take operators as
parameters. No module uses `RECURSIVE`.

Only model-checked: liveness under fairness (`CallersAnswered`, `StopCompletes`,
`RequestServed` and `ServedWhenTried`), which needs `ENABLED`.

## 5. Plan

Done: the write queue, the store of neurons, the lineage backfill, the graph sync
with its scheduler, learning, observations, capture, the last hook's session,
Antigravity's sessions, the clients' wiring, the frozen packs and the packing:
modelled, checked, and every safety property proved.

Next, proving more: of `SyncScheduler` and `GraphSync`, the safety half of
`RequestServed` and `ServedWhenTried`: that no request is cleared without an import but in the window of
finding 4; and of `Packing`, that no room is left for a line that was omitted.

### Not modelled

- Search, ranking, compression, traversal: scores in floating point and wording,
  read-only; which neurons they find is left open wherever it matters,
  in `Packing` too.
- Transcript adapters: parsing and LLM calls. That they take long and fail is in
  `NeuronStore`'s captures, that they may find anything in `Capture`'s.
- The handover's text: wording, overwritten whole by the last hook.
- Migration by two processes: one script per version in a transaction; the loser
  fails and succeeds at its next start.
- Links of memories to code: every import deletes them (see the divergences), so
  there is nothing to hold.
- Import, export, teams: copies by one user, whose divergences are listed above.
- The shared HTTP server's life: processes and ports of the operating system.
- The terminal UI, the viewer, the doctors' reports, benchmarks: one user, one
  shot, nothing kept. What the UI writes it writes through operations modelled
  here.
- SQLite, asyncio, graphify, the editors and git, which are external.
