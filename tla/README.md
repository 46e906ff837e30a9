# A TLA+ model of claude-ollama-orchestrator

`claude-ollama-orchestrator` runs delegations: a prompt is sent to a model behind an
OpenAI-compatible Ollama endpoint, alone or as one of a batch, by possibly several processes
of one project at once. What is hard in it is coordination: lockfiles without an operating
system lock, a circuit breaker shared by delegations that finish in any order, a scheduler
that can be interrupted, deadlines shared by retries. This directory models that part in
TLA+, checks it with TLC and proves its main invariants with TLAPS.

Source paths below are relative to `src/skills/ollama/scripts/`.

## Inventory

| Component | State | Operations | Interacts with | Hard behaviour | What makes it correct |
|---|---|---|---|---|---|
| Ephemeral lock (`run_lock.py:299-808`) | the lockfile, the per-PID scratch copy | `_acquire_ephemeral`, `_restore_stolen_lock`, `_release_ephemeral`, `acquire_token`, `release_token` | stdout wrapper, slot pool; other processes through the file system | every system call interleaves; crashes; recycled PIDs; torn files; failing calls; suspended holders | one holder; a live holder's lock is never removed; an abandoned lock is recovered |
| Circuit breaker (`circuit_breaker.py`) | failure count, open-until, probe reservation per model | `record_failure`, `record_success`, `release_probe`, `is_definitively_open`, `try_enter` | batch runner | outcomes of delegations admitted before and after the circuit opened arrive in any order | opens only after the threshold; a reservation never outlives its delegation; a blocked model is offered again |
| Batch runner (`run_ollama.py:1886-2484`) | one result per job, running delegations | filter, admission, classification, interrupt | breaker, scheduler, slot pool, transports | a verdict read before scheduling is stale at admission; interrupts | every batch ends; every probe is released; a rate limit is not a failure |
| Scheduler (`scheduler.py`) | semaphore, active count | `run_all` | batch runner | the cap and the queue ceiling | never more than the cap, nobody waits for ever |
| Slot pool (`run_lock.py:811-951`) | one lockfile per index | `acquire_slot`, `release_slot`, orphan sweep | delegations and batch worker threads of all processes | sweep races acquirers; stranded slots | at most `max_parallel_agents` delegations over all processes |
| Run directory (`run_lock.py:138-287`, `temp_dirs.py`, `managed_run_dir`) | the directory, its lock, its mtime | `write_lock`, `is_dir_live`, `cleanup_old_runs`, `remove_lock` | CLI, batch | a pruner races creators and live runs | a live run's directory is never pruned |
| Dispatch (`run_ollama.py:553-730`, `validate.py`, `parse_output.py`) | deadline, retry flag | `dispatch` | transports, token stats | one parse retry shares the deadline with transport retries | at most one parse retry; the deadline holds |
| Transactional backend (`backend.py`) | attempt counters, deadline | the attempt loop, downgrade, 429 backoff | endpoint | retries and the deadline | bounded attempts; no attempt long after the deadline |
| Streaming client (`ollama_stream.py`) | deadline, backoffs, line buffer, bytes delivered | `stream_run`, `_stream_once`, `_consume` | endpoint, sinks | the idle timeout against the deadline; a sink that fails; retries; lines and characters cut by a read or a cap | the stream ends; how late it may end is bounded; the result does not depend on where reads end |
| Delegation CLI and stdout wrapper (`run_ollama.py:754-1388`) | managed directory, token | `run_delegation`, `_stream_with_stdout_token` | lock, run directory, status display | interrupts between acquisition and release | token and directory given back on every path |
| Stderr capture (`stderr_shim.py`) | proxy, ContextVar | install, capture, flush | every delegation | a delegation that fails with text in its buffer | what was written reaches the terminal or the log |
| Token accounting (`token_stats.py`) | counters | `record`, `write` | batch threads | threads of an interrupted batch record next to a later one | the file holds exactly the completed calls of its batch |
| Configuration (`ollama_config.py`) | files and environment | `resolve_config` | CLI | each key has its own test of what is set; a malformed value in some layer | the first layer that sets a key decides; a shadowed value has no effect |
| Diff guard (`diff_guard.py`) | the parser's counters | `parse_diff`, `validate_findings` | dispatch of a review | text that looks like a header; omitted counts; kinds of files; line ends within lines | a claim is judged by the lines the diff really adds |
| Preflight, media clients, input handling, sanitising | none that outlives a call | sequential functions | CLI | none | pure functions of their inputs |

## Modules

| Module | Models |
|---|---|
| `TokenLock` | what a caller of `acquire_token`/`release_token` is promised: at most one holder, given back by the holder or its death |
| `EphemeralLock` | the lockfile protocol, one action per system call |
| `EphemeralLockProofs` | type correctness, that only stale copies are removed, mutual exclusion of two processes, and that they implement `TokenLock` |
| `CircuitBreaker` | the breaker, one operator per public method |
| `RunBatch` | `run_batch` with the scheduler and the breaker, batch after batch |
| `RunBatchProofs` | type correctness, no leaked probe, no circuit open before the threshold |
| `AgentCap` | what the slot pool promises: no more delegations at once than the cap, over all threads of all processes |
| `BatchWorkers` | the worker threads of `run_batch`: executor, slots, totals, and what outlives an interrupt |
| `BatchWorkersProofs` | type correctness, enough workers, exact totals, and that the slots implement `AgentCap` |
| `RunDir` | `managed_run_dir`, the run directory's lock and `cleanup_old_runs` |
| `RunDirProofs` | type correctness, and that a live run's directory is never pruned |
| `Transport` | one delegation: `dispatch` over `OllamaBackend.run` or `stream_run`, under one deadline |
| `TransportProofs` | type correctness, the cap on requests, at most one late request, billing |
| `Delegation` | `run_delegation` in the processes of one project, with the slot pool, the stdout token, the stderr buffer and the display |
| `DelegationProofs` | type correctness, the cap over all processes, one stream on stdout, that delegations implement `AgentCap`, and that what tells how a delegation ended agrees |
| `StreamLines` | `_consume`: reads cut anywhere, lines, deltas, usage, the caps |
| `DiffGuard` | `parse_diff` over the diff git writes, `validate_findings` over its result |
| `DiffGuardProofs` | type correctness, the hunk bookkeeping, no phantom file, verdicts by the added lines only, each as far as it survives a line that `splitlines` breaks |
| `Settings` | `resolve_config`, one key over its layers |
| `InputProofs` | `StreamLines`: type correctness, that a body means the same however it is read, the sink, the buffer; `Settings`: type correctness, the deciding layer, shadowed values |
| `MCEphemeralLock`, `MCRunBatch`, `MCBatchWorkers`, `MCDelegation`, `MCTransport`, `MCOutcomes`, `MCParts` | the small instances TLC checks; `MCOutcomes` puts `Transport` and `Delegation`, and `MCParts` `StreamLines`, `DiffGuard`, `Settings` and `RunDir`, which share nothing, side by side: each behaviour is one of one of them |

The modules meet where the code does. `TokenLock` is what `Delegation` and `BatchWorkers` assume of
a lockfile and `EphemeralLock` implements. `AgentCap` is what `BatchWorkers` and `Delegation`
implement with slots.
`RunBatch` uses `CircuitBreaker`'s operators. `Transport` opens the one step in which `RunBatch`,
`BatchWorkers` and `Delegation` let a dispatch end, and `StreamLines` the bytes of one read of
`Transport`.

### EphemeralLock

A contender is a thread; `PidOf` says which process runs it. `path` is the file at the lock path
and `steal[p]` the file at `<path>.reclaim.<p>`; a file keeps whose payload it carries (`by`),
whether the payload has been written (`torn`), whether its mtime is within the five-second grace
(`young`), whether its payload is past its bound (`expired`) and who has it open (`writer`).
`pc[c]` is the system call the contender makes next:

| Label | Call in `_acquire_ephemeral` | Action |
|---|---|---|
| `idle` | `os.open(O_CREAT\|O_EXCL)`, line 636 | `Create` |
| `write`, `drop` | write and close, or removal after a failed write, 651-654 | `Write`, `Drop` |
| `check`, `mtime` | `_lockfile_holder_is_live(path)`: read, then mtime of a file without fields, 657 | `Check`, `CheckMtime` |
| `steal` | `os.replace(path, steal_path)`, 669 | `Steal` |
| `inspect`, `inspect_mtime` | `_lockfile_holder_is_live(steal_path)`, 686 | `Inspect`, `InspectMtime` |
| `restore` ... `dropcopy` | `_restore_stolen_lock`, 591-608 | `Restore`, `Reread`, `Recreate`, `Rewrite`, `DropCopy` |
| `discard` | `_remove_quiet(steal_path)`, 713 | `Discard` |
| `claim`, `claim_write`, `verify` | second `O_EXCL` create, write, re-verification, 714-734 | `Claim`, `Write`, `Verify` |
| `held` | `_release_ephemeral`, 738-762 | `Release` |

A bounded retry of a transient error is a stutter: the state of the files does not change between
two attempts of one call. A persistent error is a step of its own, for the calls whose labels are in
`Failing`; it may strike any of them:

* `AcquiringFails`: a failed write removes the torn file; a re-verification that cannot read removes
  whatever is at the path; a removal that fails is ignored; any other call gives up.
* `CheckingFails`: `_read_lock_fields` answers a failing read with no fields (386-390), so the file,
  however complete, is judged by its mtime; one that cannot be stat'ed is reclaimable (500-504).
* `RestoringFails`: after the last failed rename the lock is re-created from its payload. `except
  OSError: return` (605) covers a create that fails with the path free as well as one that finds it
  taken, and a write that fails leaves an empty file of the holder's.
* a `Release` that gives up leaves its lockfile behind (760).

`Crash` kills a process with all its threads. The clock is the action that ages a file, first past
the grace, then past the bound. "Torn" is a file of which no field can be read; one with a PID but
no age or bound (a partial write) is judged by its mtime too and is not distinguished from it. A PID in a left-behind
lockfile may be dead or recycled to an unrelated live process, not to one of the contenders.

Time is bounded by the code's own timing: a writer fills or closes the file it has open within the
grace, a complete file does not leave the grace between the two calls of one liveness check, and a
delegation ends within its bound (`2*timeout`). Nothing keeps an empty file young once it is closed:
if a restoration's write fails, the live holder's file is past the grace five seconds later.
`Suspends` lifts these assumptions: `"hold"` lets a holder outlive
its bound (a suspended laptop, which the code discusses at `run_lock.py:446-454`), `"call"` lets a
thread stop between two system calls for any time.

### CircuitBreaker and RunBatch

Each method of the breaker runs under its own lock, so it is one step. `left[m]` is the time left
until `_open_until[m]`, -1 without an entry. The failure count saturates at the threshold, the only
value it is compared with.

`run_batch` runs on one event loop, so a step is what a coroutine does between two awaits:

| Action | Code |
|---|---|
| `StartBatch(B)` | the pre-scheduling filter (`run_ollama.py:2386-2393`) and `run_all`'s static ceiling (`scheduler.py:65, 89`) |
| `Enter(j)` | the FIFO semaphore admits the job, `_execute_delegation` calls `try_enter` (2004) |
| `Finish(j)` | the worker's answer is classified (2017-2065), the `finally` releases a probe (2066-2075), the semaphore is given back |
| `Interrupt` | `run_batch`'s `except BaseException` (2448-2479) |
| `Tick` | the clock; not beyond the deadline of a running delegation, nor while a coroutine is ready |

The serial path of a single job under a cap of one (2078-2199) takes the same steps: the
scheduler it skips has nothing to bound, and only its own job can hold a probe when it is
interrupted. `Streams` names the jobs whose capability is streamed; they differ in how a rate
limit that outlives its backoffs is raised (`Raised`).

### BatchWorkers

One process with its event loop, its batches one after the other, and the threads of its executors.
The jobs of a batch are positions in submission order; a task is what an executor runs for a job.
`task[t]` keeps where the task is, the index it probes or has, its batch's cap, whether its
batch is gone (`retired`) and whether its thread is one of the cached executor's (`here`).

| Action | Code (`run_ollama.py`, unless said otherwise) |
|---|---|
| `StartBatch(last, c)` | `run_batch` up to the gather, with `_ensure_sized_default_executor` (1534-1596) and a fresh `TokenStats` (2302) |
| `Submit(j)` | the FIFO semaphore (`scheduler.py:71`) and `asyncio.to_thread` on the loop's executor |
| `Run`, `TakeSlot`, `MissSlot` | a worker takes the task; `acquire_slot` probes index after index (`run_lock.py:936-941`), and `_run_one_delegation_slotted` rejects (1827-1831) |
| `Answer` | `dispatch` ends by its deadline and bills its completed calls (`token_stats.py:61-154`) |
| `GiveBack`, `Collect` | the `finally` with `release_slot` (1834-1835), which may give up (`run_lock.py:753-762`) and leave a slot that names a live process (`Left`); the coroutine resumes |
| `Return` | `_write_stats_best_effort` (2483, 2198), which may fail |
| `Interrupt` | coroutines and queued tasks are cancelled, the executor is shut down and leaves the cache (2448-2479; 2171-2191 for a `KeyboardInterrupt` on the serial path); a running task goes on as `Retired` |
| `Cancel(j)` | the serial path's `CancelledError` (the first Ctrl-C under `asyncio.run`, or a caller's cancellation), which `_execute_delegation` returns as the job's result (2042-2048): the batch goes on to its `Return`, its thread goes on too, and the executor stays open and cached |
| `NewLoop`, `Crash` | the end of `asyncio.run` joins the threads; the process dies and leaves its slots with a dead holder |
| `TakeElsewhere`, `LeaveElsewhere` | the slots of other processes |
| `Expire(i)` | the bound of a slot that was left behind is over, or the process it names dies |

A task that nobody waits for keeps only what can still have an effect, its slot and its thread, so
states do not multiply with the past of an interrupted batch. Breaker and queue ceiling are `RunBatch`'s: every
job is eligible here. A slot is taken in one step, as `TokenLock` promises.

### RunDir

A run is a process that makes one delegation, and names its directory. `dir[r]` keeps what a
liveness check and a removal look at: whether there is a lock, whether there is anything else, and
the mtime, which every creation or removal of an entry refreshes. `pc[r]` follows
`managed_run_dir`, with the calls of `is_dir_live` and of `shutil.rmtree` one by one:

| Label | Code | Action |
|---|---|---|
| `start` | the scan with its mtimes, or its early returns (`temp_dirs.py:81-105`) | `Scan`, `SkipPruning` |
| `check` | `os.path.exists(lock)` of the next directory; after the last one the sort and the cut at `keep` (`run_lock.py:271`, `temp_dirs.py:106-111`) | `LookForLock`, `Select` |
| `parse_lock`, `parse_none` | `_parse_lock` and the PID's liveness, after a lock was seen or not (272-285) | `ParseLock` |
| `mtime` | `_dir_is_within_setup_grace` (279) | `CheckGrace` |
| `remove`, `rmtree` | `shutil.rmtree` of a surplus directory, or of the run's own after an interrupt | `RemoveEntry`, `RemoveDir`, `RemovalStops` |
| `mkdtemp`, `lock` | `create_output_dir`, `write_lock` (`run_ollama.py:829-830`) | `MakeDir`, `WriteLock`, `WriteLockFails` |
| `running`, `unprotected` | the body, with and without a lock | `WriteArtifact`, `RemoveLock`, `Raise`, `Interrupt` |
| `age` | `os.utime` in `remove_lock` | `AgeDir` |
| `failed`, `ended`, `over` | the exception left directory and lock; the call is over; the process is | `Exit` |

`held` stands for the content of the locks: the runs whose lock, if there is one, names a live PID
that is within its bound. A process keeps its run in it until it ends; `Recycle` puts an ended run
back (its PID belongs to another process), `Expire` takes one out. `Tick` is the clock. Two
assumptions on it: a run gets from `mkdtemp` through `write_lock` within the ten-second grace, and
a liveness check that found no lock because the run was in that window reads the mtime within it
too. A run ends within the bound of its lock (at least six hours, and more than twice its
timeout). `Suspends` lifts the first two (`"call"`) and the third (`"bound"`).

### Transport

A delegation is one thread that waits: for an answer, for the next read of a stream, for a backoff
to end. Each wait is one action with a duration, so `now` moves inside the actions and there is no
separate clock. `kind` says which of the three ways `dispatch` takes: the strict schema (over the
transactional transport, parsed, retried once), verbatim, or streamed; `_run_once` never streams
the strict schema, so no delegation is both.

| `stage` | Code | Action |
|---|---|---|
| `attempt` | the head of `dispatch`'s loop and its check of the deadline (`run_ollama.py:681-685`) | `Attempt` |
| `request` | `urlopen` and, for the transactional transport, the bounded read of the body (`backend.py:559-735`, `ollama_stream.py:193-230`) | `Respond`, `Fail`, `Reject` (downgrade), `Throttle` (429) |
| `read` | one turn of `_consume`'s loop (`ollama_stream.py:310-393`) | `Read`, `ReadTooLate` |
| `judge` | `TokenStats.record`, then parsing and validation (`run_ollama.py:696-730`) | `Judge` |
| `done` | what `dispatch` returned or raised, in `outcome` | |

The endpoint may answer anything, and answer a 400 that names the response format to a request
without one. `SocketTimeout` is what the code gives to `urlopen`; urllib applies it to each wait
for the socket and not to the request, so a request or a read of a chunk takes any number of them:
`Waits` is a bound of the model and none of the code. `stream_run` derives its own deadline from
`--timeout`; since a streamed delegation has one round it is the one of `dispatch`. A read that
completes no delta takes time: a chunk is at most `_READ_CHUNK_BYTES` and a line is bounded, so what
arrives without delay is finite. `requests` is history, saturated past its cap so that a loop
without a bound is a cycle, and `late` counts those sent after the deadline.

`RunBatch` takes a delegation to end by its timeout and `EphemeralLock` a holder to end by twice
its timeout. What the transport gives is less: nothing is retried after the deadline, but one
downgraded request may be sent then (`OneLateRequest`), and a request or read that has begun ends
when its waits do. `HardDeadline` states what the comments promise and is refuted.

### Delegation

A process makes one delegation and exits; another may start in its place. `pc[p]` is where it is
in `run_delegation`:

| Label | Code (`run_ollama.py`, unless said otherwise) | Action |
|---|---|---|
| `start` | `managed_run_dir` up to the lock, 824-830 | `Start` |
| `prepare` | preflight, input and their warnings, 1120-1147 | `Prepare` |
| `sweep`, `remove` | `_cleanup_orphaned_slots`, slot by slot: check, then remove by name (`run_lock.py:862-896`) | `Sweep`, `RemoveOrphan` |
| `probe` | the indices in turn; none left is an error (`run_lock.py:937-941`, 1164-1171) | `AcquireSlot`, `NextSlot` |
| `token` | `acquire_token`, 1342 | `AcquireToken`, `MissToken` |
| `open`, `stream`, `footer` | the frame's header, `dispatch`, the `finally` that closes the frame, 1217-1230 | `OpenFrame`, `Return`, `CloseFrame` |
| `block` | a stream that went to a file is printed at once, 1263 | `ShowBlock` |
| `give_back` | the `finally` of `_stream_with_stdout_token`, 1345-1347 | `ReleaseToken` |
| `dispatch`, `present` | a transactional capability, 1272 and 1277-1284 | `Return`, `Present` |
| `artifacts` | `_write_artifacts` and the display, 1274-1276 | `WriteArtifacts` |
| `flush` | the end of `buffered_stderr_while` (`stderr_shim.py:207-217`) | `Flush` |
| `handle` | the `except` clauses, 1285-1300 | `Handle` |
| `release` | the `finally`: slot and display, 1301-1311 | `Release` |
| `leave` | the end of `managed_run_dir`, 833-849 | `Leave` |

`raised` is the exception in flight; `Unwound` is the cleanup it runs next, so `Raise` and
`Interrupt` may strike at any label and cut the cleanup that is running short. The two windows
between a lockfile's creation and the assignment that remembers it are disjuncts of `AcquireSlot`
and `AcquireToken`. `Exit` is also a kill. A lockfile is taken in one step when it is free or its
holder is gone: what `TokenLock` promises. `EphemeralLock` opens that step, and `lock_no_crash`
shows when three contenders break the promise; `AtMostCap` and `OneTerminal`
are about what `run_delegation` makes of a lock that keeps it. Locks are released by name, as in
the code, so both need that whoever releases still holds. All processes have the same cap, as
`acquire_slot` demands; `Stranded` slots are left from a larger one.

### StreamLines

`Read` appends a chunk of any length up to `ReadChunk` to `buf`; `NextLine`, `LongLine`, `NeedMore`
and `EndOfBody` are the branches of `_iter_lines` (`ollama_stream.py:310-344`), and `Consume` is the
loop's body for one line (346-394), with `_truncate_utf8_bytes` (`validate.py:79-109`) byte by byte.
A symbol stands for the bytes that matter together: a newline, the `data:` of a line of interest, a
delta, `[DONE]`. Text is a sequence of characters, each the number of its bytes. `whole` is the
reference: what the same symbols mean to a reader that gets them one at a time and has no buffer.

### DiffGuard

The diff is the environment: `section` is where git is in it, `added` what it has added, and each
action is one line of `splitlines`, or the few that begin a file, with the turns of `parse_diff`'s
loop for them. `parser` is the function's locals. Files are text, new, deleted, binary, deleted
binary, renamed with and without changes. Added text may read as the `+++` line of a file that is
not in the diff (`Phantom`). `splitlines` also ends a line at a form feed and its like, where git
does not: `Rest` is what it takes for a line then, which may read as anything (blank, added,
removed, a marker, a `+++`, binary or rename line of any file, a hunk header that claims any of
the lengths in `Claimed`), up to `Breaks` times and several times in one line of git's, in a body or after the
heading of a hunk header. A phantom hunk swallows what follows, the `diff --git`, `index` and `---`
lines of the next file first (`Preamble`, `Started`). `broken` counts the rests, `intact` keeps the
files the diff had left before the first. Paths are sequences of components with git's `b/` in front
of them, so that a directory `b` can be told from the prefix. `Verdict` is `validate_findings` for
one claim.

### Settings

`setting` is what each layer holds for the key looked at, reduced to what the code's tests can tell
apart, and `Edit` changes one layer. `Url`, `ApiKey`, `Present` and `Stream` are the four ways in
which `resolve_config` chooses (`ollama_config.py:420-544`); `Resolved` says which key takes which.

## Runs

| Run | Checks | Shows |
|---|---|---|
| `lock_two` | `TypeOK`, `MutualExclusion`, `DiscardsOnlyStale`, `ImplementsToken` | two processes, one of which may crash, any lockfile left behind; the theft, the removal of the copy, the claim and the re-verification may fail: one holder, only stale copies are removed, and the protocol implements `TokenLock` |
| `lock_heals` | `SelfHeals` | every write, removal, inspection of a copy, restoration, claim and release may fail, one process may crash, holders may outlive their bound: whoever keeps calling acquire settles an abandoned lockfile, although its author may never call again |
| `batch_safe` | `TypeOK`, `NoLeakedProbe`, `OpenOnlyAfterThreshold`, `Unblocks`, `BatchEnds` | over any sequence of batches and interrupts: no reservation outlives its delegation, no circuit opens early, no model stays blocked, no batch hangs |
| `delegation_safe` | `TypeOK`, `AtMostCap`, `OneTerminal` | three processes and two slots, one process failing, interrupted and killed anywhere: never more delegations than the cap, one stream on stdout at most |
| `outcomes_safe` | `OutcomeAgrees`; `TransportTypeOK`, `CapsRequests`, `OneLateRequest`, `BillsOnce`, `DispatchEnds` | how a delegation ends. Outside: a streaming and a buffered process, both displayed, failing anywhere and interrupted up to twice; directory, display and stdout agree. Inside: whatever the endpoint answers and when, requests stay within their cap, one at most is sent after the deadline, a delegation is billed once and a dispatch ends |
| `workers_safe` | `TypeOK`, `NeverFewer`, `ImplementsCap`, `TotalsExact`, `BatchReturns`, `SlotsComeBack` | batches of one or two jobs under caps of one and two, interrupted anywhere, serial ones cancelled, releases that give up, next to another process: the cap holds over all of them, a batch finds an open executor with workers enough, but for one that a cancelled serial delegation may have, totals are exact, batches return and slots come back |
| `parts_safe` | `StreamTypeOK`, `AsWhole`, `ShownIsKept`, `BufferBounded`; `DiffTypeOK`, `JudgedByTheDiff`, `NoPhantom`, `InStep`; `SettingsTypeOK`, `Precedence`, `ShadowedIsUnread`; `DirsTypeOK`, `LiveRunKept` | a body cut into reads anywhere means what it means whole; a diff of any kind of file is parsed into the lines it adds; a setting comes from the layer that decides it; no live run's directory or lock is pruned by two runs after an earlier one, one of which may be killed, with failing scans, lock writes and removals |

These runs refute a statement of the code's own comments or documentation (see `findings` in
`PROJECT.json` for the quotes):

| Run | Property | Behaviour found |
|---|---|---|
| `lock_no_crash` | `MutualExclusion` | Three processes, no crash, no lockfile left behind. `a` holds; `b`'s create fails; `a` releases; `b` finds no file and judges the missing path reclaimable; `a` acquires again; `b` renames the live lock away; `d` creates a second one. |
| `batch_rate_limit` | `RateLimitSpares` | A streamed 429 is recorded as a failure of the model. |
| `delegation_diagnostics` | `DiagnosticsSeen` | Preflight warns, the display is on, and the delegation fails: the flush of the buffer is skipped by the exception and no artifact is written, so the warning is lost. |
| `delegation_display` | `FailureTold` | stderr is broken. A dispatch times out, the display is told, cannot draw, and the warning about that, a bare print to the same stderr in the `except` clause, raises: what leaves `run_delegation` is the print's exception and not the timeout. |
| `transport_deadline` | `HardDeadline` | A streamed request connects at once, with a socket timeout of three; a read begins at the deadline of four and returns at seven. Each request and read waits for the socket once (`Waits` 1). |

Further configurations that TLC refutes, with `tlc -config X.cfg M`. They show where a property above
needs the restriction its run has:

| Configuration, module | Property | Behaviour found |
|---|---|---|
| `lock_threads.cfg`, `MCEphemeralLock` | `DiscardsOnlyStale` | Three threads of one process (a batch's workers) share `<path>.reclaim.<pid>` (`run_lock.py:655`): a second thief replaces an inspected copy by a live lock, the first removes it. The comment at 664-665 calls the copy isolated. |
| `lock_write.cfg`, `MCEphemeralLock` | `MutualExclusion` | Two processes, a failing write. `b`'s create finds a lock that is gone when it checks; it steals the torn file `a` has just created; `a`'s write fails, its author removes nothing and acquires afresh; `b` restores the torn file over the new lock, where it leaves the grace behind a live holder and is reclaimed. The comment at 688-700 takes three reclaimers to be needed. |
| `lock_restore.cfg`, `MCEphemeralLock` | `MutualExclusion` | Two processes, a restoration whose rename and create fail with the path free: the live lock is gone, although the docstring (573) says "never leave *path* unclaimed". |
| `lock_reads.cfg`, `MCEphemeralLock` | `DiscardsOnlyStale` | A complete lock of a live process, older than the grace, that cannot be read has no fields, is judged by its mtime, stolen, and removed when the copy cannot be read either. |
| `batch_one_probe.cfg`, `MCRunBatch` | `OneProbe` | The failure of a delegation admitted before the circuit opened is taken for the probe's (`circuit_breaker.py:81`); a cooldown later `try_enter` admits a second probe beside the first, against its docstring (164-169). |
| `workers_serial.cfg`, `MCBatchWorkers` | `WorkerForEach` | A cancelled serial batch returns normally with its delegation under way and its executor cached; the next batch on the loop has more jobs than free workers ("never fewer", `run_ollama.py:1551-1562`). |
| `diff_split.cfg`, `MCParts` | `KnowsTheEnd` | The rest of a line that `splitlines` breaks at a form feed takes one of the lines its hunk header announced, and the body ends for the parser while the hunk has lines left (`diff_guard.py:20-24` says it "knows exactly when a hunk body ends"). |

What else was met while modelling:

* Of two processes, exclusion survives a theft, a removal of the copy, a claim or a re-verification
  that fails (`lock_two`). It does not survive any single other failing call: a write, a read or a
  stat of a liveness check, a restoration's rename and create, or a release, nor a removal after a
  failed re-verification (TLC, with `Failing` set to `"write"`, `"claim_write"`, `"check"`,
  `"mtime"`, `"inspect"`, `"inspect_mtime"`, `"restore"`, `"held"`, or `"drop"` and `"verify"`). The
  code retries every one of them, so each takes an error that persists.
* An interrupted serial batch writes `token_stats.json` although the comment at
  `run_ollama.py:2265-2268` has it written "ONLY at SUCCESSFUL batch completion", and the file may or
  may not count the call of the delegation that goes on: the exception `TotalsExact` makes.
* `docs/architecture.md:187` gives the parse retry "a fresh timeout budget"; the code
  (`run_ollama.py:647-651`) lets it share the deadline of the first round.
* A delta that ends exactly at the output cap sets `truncated` although nothing was cut, and usage
  in the same chunk as the last text is not read (`ollama_stream.py:389-394`).
* A claim about a deleted file, an empty new one, or one whose mode alone changed, is dropped as
  fabricated (its path is on no line that `parse_diff` reads); a deleted binary file registers
  `/dev/null`.
* The rest of a broken line that reads as a hunk header opens a phantom hunk for the parser, which
  swallows the headers of the files that follow: claims about them are dropped as fabricated.
  `JudgedByTheDiff` is therefore about the files before the first such line.
* The configuration table of the top-level `README.md` gives `off` as the default of
  `structured.<cap>`; the code's default is `schema` for the reviewer and the tester
  (`ollama_config.py:116-118`). A falsy value that is no string is skipped for `base_url` and
  `transcribe_transport` (the test is of truth) and an error for the other keys.

### Bounds, and why they are enough

* Lock: two contenders suffice for every race between a holder and a reclaimer; the code's own
  argument for three (its "triple race") is what `lock_no_crash` looks at, and `DiscardCorrect`
  covers any number for `DiscardsOnlyStale`. `Retries` is the code's 3 where exclusion is checked and
  1 in `lock_heals`, where a round more only postpones what the call settles. Every contender
  acquires and releases any number of times. `Failing` has in `lock_two` the calls whose failure the
  code survives, and in `lock_heals` those that leave something behind and the inspection of a copy,
  whose failure moves a file that is not to be moved; a check of the path that fails for ever would
  settle nothing.
* Batch: four jobs, two of three for one model running at a time and one queued, reach every
  outcome, the overflow, a straggler and a waiter. `Threshold` 2 stands for 3: one failure that
  does not open the circuit and one that does. A tick is 30 s: the cooldown is 30 s (1) and the
  delegation's timeout 60 s (2), so a delegation can outlive a cooldown.
* Workers: two jobs under a cap of one or two, so that one waits for the other or both run, and a
  batch may follow a smaller or larger one; three tasks, so that one or two that outlived an
  interrupt, or a cancelled serial batch, run next to a new batch; one delegation elsewhere, which can take the slot that is
  missing. `MinWorkers` is 1 rather than the code's 4, or no executor would ever be too small. A
  batch starts when enough tasks are idle, a bound that `BatchWorkersProofs` has too.
* Streams: a read of two symbols cuts a line anywhere; a line of three is longer than a line with a
  delta, which has two, and shorter than four, so lines are just within and just beyond the bound; a
  cap of five bytes over characters of one and two is met exactly and passed in a character.
  `InputProofs` covers any bounds. A stream ends, so deadlock is not checked.
* Diffs: two files, `x` and `b/x`, so that one path is the other with git's prefix; three lines,
  hunks of up to two on a side and a margin of one, so that a claim is near, far, or between.
  `splitlines` breaks one line (`Breaks` 1), and a hunk header that is only its rest claims three
  lines (`Claimed`), one more than a hunk has: just enough to swallow the beginning of the next file.
  `DiffGuardProofs` covers any number of files, lines, breaks and claims.
* Settings: each key has every kind of value in every layer.
* Run directories: two runs that prune, create and end while the other does, and one that is over
  (with any content, lock and mtime, its PID recycled or not).
  `KeepRuns` 1 prunes every directory judged not live, the most a pruner can do. `Grace` is two
  ticks of five seconds, so that a directory may be within it with and without a tick since its
  creation; `Horizon` 2 lets the grace of a directory made at the beginning run out, and one made
  later stay within it. `RunDirProofs` covers any number of runs. A run ends once; deadlock is not
  checked because all of them end.
* Transport: a timeout of four floors lets a round end early, late, and past the deadline with and
  without a downgraded request to follow; the idle timeout is shorter than it, as in the code. Three
  backoffs are the code's, delays of zero to two floors let each be the last, and two waits per
  request show that they add up (`TransportProofs` covers any number; `HardDeadline` is refuted with
  one). An output of two deltas is capped after one that is not. A delegation ends once, so deadlock
  is not checked.
* Delegation: three processes contend for two slots and an out-of-range one to sweep, two of them
  for the token, one of them with a display; a third waiter adds nothing since a slot or a token is
  taken in one step. One process is `Disturbed` (failures, one interrupt each life, kills); the
  others meet whatever it leaves behind, life after life. For the outcome of a delegation, in
  `outcomes_safe`, nobody else matters: one process streams and one does not, both are displayed and
  disturbed, and a second interrupt cuts the cleanup of the first. `DelegationProofs` covers any
  number.

### Fairness

* `EphemeralLock!FairSpec`: a call under way goes on (WF per contender of `Acquire` outside `idle`:
  threads are scheduled), and the clock ages a file that can age infinitely often (SF: time passes
  whatever the contenders do). Nobody has to begin a call and a holder may hold for ever; `SelfHeals`
  itself names the contender that keeps calling.
* `RunBatch!FairSpec`: the event loop runs the coroutine whose turn it is (WF of `Enter`), a worker
  ends (WF of `Finish`: it has a socket timeout and a deadline), and time passes however many
  batches are started (SF of `Tick`). Nothing obliges anyone to start or interrupt a batch.
* `BatchWorkers!FairSpec`: the event loop runs what is ready (WF of `EventLoop`), every thread is
  scheduled and its dispatch ends by its deadline (WF of each `Worker`), so do delegations of other
  processes (WF of each one's `LeaveElsewhere`), and the bound of a slot left behind runs out (WF of
  each `Expire`). Nothing obliges anyone to start or interrupt a batch.
* `Transport!TransportFairSpec`, and `Inside` in `MCOutcomes`: WF of `TransportNext`: every call to the endpoint has a socket timeout and returns,
  and so does `sleep`.

## Proofs

`EphemeralLockProofs`, from `LockAssumption`, for any sets of contenders and processes, any number
of rounds, any failing calls and any crashes:

* `TypeCorrect`: `Spec => []TypeOK`, for threads that share processes too. The inductive invariant
  adds `CarriedOK`: what a contender is about to re-create is a file it has read.
* `DiscardCorrect`: with one thread per process, no suspension between two system calls, and an
  inspection whose read and stat do not fail (`InspectionReads`), `Spec => []DiscardsOnlyStale`. The
  invariant is not inductive alone: a copy judged stale could still be written by whoever has it
  open. `Writers` says that a file open for writing is torn and within its grace and that its writer
  is at a write, so what has been judged stale has no writer; `Inspected` says that a copy between
  the two calls of its inspection is torn or has just been written. `CopyStays` then shows that no
  write or close of another thread changes the verdict, `OthersCopy` that other processes do not
  touch the copy otherwise, and `OwnCopy` that a thread reaches the removal only through its
  inspection. All three hypotheses are needed: `lock_threads.cfg` breaks the property with threads of one
  process, `lock_reads.cfg` with a failing read of the copy.

In the same module, for two contenders of different processes and any lockfile left behind, if
threads are not suspended past the grace between two calls, holders end within their bound, and no
call fails but the theft, the removal of a copy, the claim and the re-verification (`Two`); for any
number of rounds and any crashes:

* `TwoProcessesExclude` (`Spec => []MutualExclusion`) and `TwoProcessesImplement`
  (`Spec => ImplementsToken`). The invariant `Apart(c, x)`, for either order of the two, says in
  `OwnOK` that whoever owns the lockfile has it at the path, or the other has just stolen it and is
  about to return it; in `InspectOK` and `ReturnOK` that a stolen copy which is not stale is the
  owner's, and that the owner has not created another; in `AimOK` that what is about to be stolen is
  stale or the owner's. It needs `YoungOK` (a file within its grace is within its bound), `TornOK`
  (an empty file is still being written, unless its author was killed: what a failed write would
  break) and `AliveOK`. The hypotheses are not there for convenience: `lock_write.cfg` and
  `lock_restore.cfg` refute exclusion when a write or a re-creation fails, `lock_no_crash` when there is
  a third contender, and a holder past its bound is what the code accepts.

`BatchWorkersProofs`, from `WorkersAssumption`, for any finite sets of jobs and tasks, any caps with
a largest one, and any other processes:

* `TypeCorrect`, `WorkersSuffice`, `TotalsAreExact`, `CapImplemented`. `TaskOK` says that a task
  which delegates or releases has the slot of its index, that a task of the current batch runs a job
  whose coroutine waits for it or was cancelled, and that a retired one has started and, if it is on
  the executor that is still cached (`here`), is a serial batch's; `OwnJob` that no two tasks of a
  batch run one job, so there are at most as many as threads, and `PoolOK` that the executor has as
  many workers as the cap of its batch. `OneLost` follows: at most one worker is with a task that no
  coroutine waits for, which is the exception `NeverFewer` makes. `JobOK` ties the results to the
  bill, of every job that was not cancelled. Under `TaskOK`, whoever is under way has a slot of its
  own (`RoomLeft`, an injection into the indices), so an agent that begins finds fewer than the cap
  under way: the step that `AgentCap` asks for. A slot whose release failed is nobody's who is under
  way; when its bound is past another takes it, and the step is a stutter of `AgentCap`.

`RunBatchProofs`, from `BreakerAssumption` and `BatchAssumption`, for any jobs, models, caps,
threshold, cooldown and timeout:

* `TypeCorrect`, `OpensAfterThreshold`, `NeverLeaksProbe`, from the conjunction of the three
  invariants: a reservation implies a running delegation that was admitted as the probe, so a
  batch that starts finds none and an interrupt, which visits the model of every job, releases all.

`RunDirProofs`, from `RunDirAssumption`, for any number of runs, any budget, grace and names, any
crashes and failing calls:

* `TypeCorrect`: `DirsSpec => []DirsTypeOK`.
* `NeverPrunesLive`: with no run suspended past the grace between two calls or past its bound,
  `DirsSpec => []LiveRunKept`. The property is not inductive: a pruner acts on a verdict it reached
  many steps before. `DeadOK` says that what it has judged not live belongs to a run that needs it
  no more, and stays so, since no run goes back (`CheckedOK`: nothing it checks is yet to be
  created). For the verdict itself, `HeldOK` rules out a lock of a run that has not ended, and
  `GraceOK` a directory without one: a run still in its setup, or one that wrote its lock after the
  pruner had looked for it, is within the grace. Without `GraceOK`'s second part the pruner that
  looked just before `write_lock` would be a counterexample. `OwnOK` says that `shutil.rmtree`
  after an interrupt takes the run's own directory.

`TransportProofs`, from `TransportAssumption`, for any timeouts, number of backoffs, delays, output
cap and number of waits:

* `TypeCorrect`, `RequestsCapped`, `LateSentOnce`, `BilledOnce`: the safety properties of `Transport` in
  `outcomes_safe`. None but the last is inductive alone. `InTime` says that a request sent after the
  deadline is a downgraded one, since a retry and a backoff check the deadline first, and that
  nothing is sent after it. For the requests, `InQuota` counts the formats given up so far, in both
  rounds, times the tries of one. For the billing, `InRound` says that while a delegation goes on it
  has been billed once for each round that is over, and that only an answer that can be judged is.

`DelegationProofs`, from `DelegationAssumption`, for any number of processes, slots and interrupts,
any of them disturbed:

* `TypeCorrect`, `CapHolds`, `TerminalExclusive`, `OutcomeTold`, `DelegationsPooled`: the safety
  properties of `Delegation` in `delegation_safe` and `outcomes_safe`, and that the delegations
  implement `AgentCap`, of which the run checks the consequence `AtMostCap`. The last is a
  refinement: a step of one process leaves the labels of the others alone, so it begins or ends its
  own delegation only, and since the invariant still holds after it, there was room for it.
  `Stage` says what holds of a process at each label. For the cap, `SlotOK` says
  that whoever knows its slot's index has the slot until it gives it back, and `AtOK` that the sweep
  never looks into the pool; so the indices of the delegating processes are distinct (an injection
  into the pool, `InvAtMostCap`). `TokenOK` is its like for the token. `OthersKeep` shows that no
  step of another process, releases by name included, takes a lock away. For the outcome,
  `FlightOK`, `ShownOK`, `RowOK` and `DirOK` say what has been told so far, and `UnwindStage` that an
  exception or an interrupt anywhere leads to a stage where it is still true.

`DiffGuardProofs`, from `DiffAssumption`, for any files, any number and length of hunks, any text:

* `DiffTypeCorrect`, `BookkeepingInStep`, `TextNamesNoFile`, `ClaimsGrounded`: the four properties of
  the diff guard in `parts_safe`. `StepOK` says that the parser is where the diff is until
  `splitlines` breaks a line, and that from then on the diff is past every file that still counts as
  intact; `KnownOK` that until then it knows the files so far and exactly the lines added to them,
  and after it still does of the intact ones. So after a broken line nothing need be known of the
  parser but that it only ever registers more (`Grows`), whatever the rest of the line reads as:
  `Afterwards`. `StripsPrefix` shows by its sequences that git's prefix comes off and nothing else.

`InputProofs`, the first part from `StreamAssumption`, for any body, any way it is cut into reads, any
deltas and any bounds:

* `StreamTypeCorrect`, `ReadsAsWhole`, `SinkSeesResult`, `BufferStaysBounded`: the four properties of
  `StreamLines` in `parts_safe`. The inductive invariant is `StreamInv`. Its `Waiting` says that while
  bytes are read or lines taken, `whole` is what the buffer means after the text and the usage kept so
  far, and that a read is made only when the buffer is part of one line; `AsWhole` says so only between
  reads, and of the buffer only that it is the line begun. `ConsumeMeans` shows that the loop's body does
  with a line what the reference says it means: goes on with the text kept, ends with the text cut, or
  fails with the sink. `LineMeans` takes one line off the buffer, `LongLineFolds` meets one that is
  too long, and `Absorbed` says that nothing after the end matters. `KeptFits` is the step from one
  delta cut to the bytes left to the whole text cut once at the cap; it rests on `TruncateIs`, by which
  the walk back from the byte after the budget (`EncodedPrefixes`: where characters begin in the bytes)
  keeps as many characters as counting them does (`OneFits`).
* The reference, the bytes of a text and its encoding are folds, so all this is by induction on data.
  The induction is on sets, since a theorem that takes a predicate cannot be used: `Smallest` has a
  smallest element in every set of numbers, `Induction` follows, `FoldedIs` identifies a fold with a run
  of its steps, and `FoldIsFolded` the community modules' fold, which goes over sets of indices, with
  that. `BytesFolds`, `EncodedFolds` and `WholeFolds` apply it to the three folds of the model.

The second part from `SettingsAssumption`, for any set of values of a key's own:

* `SettingsTypeCorrect`, `LayersDecide`, `ShadowedNeverRead`: the three properties of `Settings`.
  `SettingsInv` only says that a layer holds what it can hold, which is what keeps a generic variable
  from deciding a key that has none. `LeadsAbove` is the argument: if a layer's value counts for a
  loop of the resolver, the one it finds is there or above; `Kinds` says what a value above that
  counts without deciding must be, `LayerLists` which layers each loop goes through.

Only model-checked: liveness (`SelfHeals`, `Unblocks`, `BatchEnds`, `BatchReturns`, `SlotsComeBack`,
`DispatchEnds`), which is out of TLAPS's reach here. Every safety property of a passing run is a
theorem; `MutualExclusion`, `ImplementsToken`, `DiscardsOnlyStale` and `LiveRunKept` under the
hypotheses stated above.

## Not modelled

Whole components, with the reason for each in `PROJECT.json`: preflight, the media clients, input
handling and sanitising. They are sequential, keep no state between calls and share none, so a unit
test that calls them with an input sees all they can do.

Of the modelled ones: the artifact files of a batch and its manifest, the reported peak,
`--output-dir` and the degraded namespace of the run directory, `disable_fs_locks`, `transcribe`'s
transport of its own, processes that disagree on the cap (documented as unsupported), the sweep's
removal of scratch copies, symbolic links in a run directory's place, the stderr proxy (installed
once before the tasks of a batch, each of which writes through its own context variable), the JSON
envelope of a delta, un-quoting of paths in a diff, TOML parsing and the normalisation of URLs, the
diff guard's place in `dispatch`, the arithmetic of tokens and rates, wording of messages, the Windows
specifics of `is_pid_alive` and retry delays.

## Order of work

The modules were written in this order, each with its runs before its proofs: `EphemeralLock` and
`TokenLock`; `CircuitBreaker` and `RunBatch`; `RunDir`; `Transport`; `Delegation` with the slot pool;
`BatchWorkers` with `AgentCap`; `StreamLines`, `DiffGuard`, `Settings`; then the proofs of two-process
exclusion, of the workers, of the diff guard and of the two other inputs. What could follow is a
theorem of exclusion for two processes when a release or a check may fail, and a run in which
`BatchWorkers` takes its slots through `EphemeralLock` instead of what `TokenLock` promises.
