# WorkTracking in TLA+

Specifications of the parts of this repository whose correctness depends on the
order in which things happen: the background job system (`queue_job`), the
starting and ending of work on an issue and chain work sessions
(`project_management`), and the exchange of issues, work logs and master data
with Jira (`wt_migration`).  Paths below are relative to `src/`.

## 1. Inventory

The repository is three Odoo addons and an SDK.

| Component | State it keeps | Operations | Modelled in |
|---|---|---|---|
| Priority queue, `queue_job/jobrunner/channels.py` `PriorityQueue` | a heap, the set of known objects, the set of removed ones | `add`, `remove`, `[0]`, `pop`, `in`, `len` | `PriorityQueue` |
| Channel tree, same file, `ChannelJob`, `ChannelQueue`, `Channel`, `ChannelManager` | for each channel a queue, the running and the failed jobs, the end of its throttle pause | `notify`, `remove_job`, `remove_db`, `get_jobs_to_run`, `get_wakeup_time` | `Channels` |
| Runner, `queue_job/jobrunner/runner.py`, trigger in `post_init_hook.py` | the connections, what was notified, the channel tree as its view of the rows | the loop of `run()`, the thread of each GET | `JobRunner` |
| Workers, `queue_job/controllers/main.py` | a transaction for each attempt | `runjob`, `_try_perform_job` with all their ways out | `JobRunner`, `JobRecord` |
| Job record, `queue_job/job.py`, `models/queue_job.py`, wizards and crons | state, retry counter, eta, dates | `perform`, `postpone`, `store`, `set_*`, buttons, `requeue_stuck_jobs`, `autovacuum` | `JobRecord` |
| Identity keys, `job.py` `enqueue` | rows with a key, snapshots of the callers | search, then create | `IdentityKey` |
| Work and time logs, `project_management/models/wt_issue.py`, `wt_time_logging.py`, `wt_work_log.py`, their routes in `controllers/issue.py` | time logs (what is billed), work logs (stretches of time), clusters | start, pause, done, cancel, manual entry, update, delete | `WorkLogs` |
| Time formats and rounding, `project_management/utils/time_parsing.py`, `wt_time_logging.py` | none | rounding of a duration, its log format and back | `WorkLogs`, `ChainSession` |
| Chain session, `project_management/wizard/kick_off_counting.py` | a transient session and its transient lines | next, start on a line, done, confirm, vacuum | `ChainSession` |
| Personal to-do, `wt_issue.py` `get_daily_tasks`, `_personal_todo_move` | the day's issue of each user, its checklist | creation, nightly move | not modelled |
| Export of time logs, `wt_migration/models/wt_overall.py`, `wt_issue.py`, `wt_migration.py` | `id_on_wt`, `export_state`, the work log on the server | write, unlink, forced and automatic export, beside the import | `LogExport` |
| Issues, `wt_migration.py` `do_request`, `_export_issues`, `wt_issue.py`, the sprint jobs | the copies of the server's issues, their parents, sprints and clones | paged import, clone, export, sprint jobs | `IssueSync` |
| Master data, `wt_migration.py` `load_*`, `create_missing_*` | users, projects, boards, statuses, types, labels, priorities | loading by button, creation by an import | `MasterData` |
| Import from Jira, `wt_migration/models/wt_project.py`, `wt_migration.py` | `latest_unix`, `last_update`, jobs, the work logs on the server | cron, loading and deletion by time window, fetch by a user | `JiraFetch` |
| Tokens, `wt_migration/models/res_users.py`, `token_storage.py` | a table, a cache in each process | entering, use by crons, boards and projects | `TokenAccess` |
| Channel configuration, channel and function forms, serialization of arguments, parsers of Jira's JSON, API routes that only read, authentication, digests | none, or form data | | not modelled: no order of steps to get wrong, or the work of a library |

How they interact.  `with_delay()` inserts a row into `queue_job`; a trigger
notifies the runner's connection at commit.  The runner reads the row, tells the
channel tree, and from time to time takes from the tree the jobs that may start:
for each it writes `enqueued` and starts a thread, which sends an HTTP GET and
waits for one second.  A worker that serves the GET locks the row, writes
`started`, commits, runs the job and stores its outcome, all of which notify the
runner again.  Users and crons write the same rows at any time.  The addon
`wt_migration` uses these jobs to talk to Jira; requests of the API write the
work logs directly.

Hard behaviours: the runner's view is always a little old; a GET may time out
and still be served; a process may die between two of its steps; notifications
arrive in any order; two transactions may read the same snapshot; a user may
have several applications open.

What makes each correct:

- queue: behaves as a set that is popped at its least element;
- tree: a job is on one path, no channel is overfilled, order, etas and throttle
  are kept, the runner wakes up exactly when there is something to do;
- runner and workers: the root channel's capacity bounds the active rows through
  any failure, no write of a row is missed, a job takes effect once for each
  time somebody asks for it, and every job ends;
- record: the retry limit and schedule are kept, crons find what they look for;
- identity keys: duplicates have a cause one can name;
- work logs: what is started can be ended and is billed for the time worked,
  once;
- chain sessions: a line takes the time the meeting was at it, and the
  confirmation enters it once;
- export: a time log is on the server once, with what it says, and what is on
  the server is here;
- issues: one row for each issue of the server, in the sprint it is in there;
  what was exported is tied to the row it came from;
- master data: one row for each thing and one account for each person, so that
  an import finds what it looks up and does not fail over what exists;
- tokens: the one that was entered last is used, and the cron leaves no project
  out whose users have one;
- import: each change and deletion on the server falls in a window that some job
  fetches, and a work log has one time log here.

The hazards of the code, each at its line, are listed in `PROJECT.json`.

## 2. Modules

| Module | What it is |
|---|---|
| `RemovableQueue` | abstract: a set of items, popped at the least |
| `PriorityQueue` | the lazily cleaned heap; implements `RemovableQueue` |
| `JobPool` | abstract: jobs that wait or are active, a bound on the active ones |
| `Channels` | the tree; implements `JobPool` with the root's capacity |
| `JobRunner` | rows, runner, GET threads, workers, users and crons; the runner's view is a `JobPool` |
| `JobRecord` | the fields of one row through its attempts |
| `IdentityKey` | `Job.enqueue` in concurrent transactions |
| `WorkLogs` | time logs and work logs of a few issues, users and applications |
| `ChainSession` | a session over `WorkLogs`, which it extends: a confirmation enters time logs |
| `LogExport` | time logs here and work logs there, under auto export, forced export and import |
| `IssueSync` | issues here and there, in transactions that overlap |
| `TokenAccess` | tokens, the caches of the processes, and the projects they are used for |
| `MasterData` | the tables an import looks up, over `TokenAccess`, which it extends: every import needs a token |
| `JiraFetch` | the cron of the import, its jobs and the server's work logs |
| `MC*` | constants and symmetry for TLC |
| `QueueJob_proofs`, `Channels_proofs`, `JobRunner_proofs`, `WorkLogs_proofs`, `LogExport_proofs`, `MasterData_proofs`, `JiraFetch_proofs`, `IssueSync_proofs` | the theorems; `QueueJob_proofs` is about `PriorityQueue`, `JobRecord` and `IdentityKey`, each for itself, `WorkLogs_proofs` about `WorkLogs` and `ChainSession` together, `MasterData_proofs` about `MasterData` and `TokenAccess` |

The layers of the job system meet at the abstract specifications: `PriorityQueue`
shows that a `ChannelQueue` may be taken for a set, `Channels` does take it for
a set and shows that the tree may be taken for a `JobPool`, and `JobRunner` keeps
only `waiting` and `active`.

### Correspondence with the code

**PriorityQueue.**  `heap`, the known and the removed objects are `_heap`,
`_known`, `_removed`; `heapq` is external, as what it holds.  `Peek` and `Pop`
throw removed objects away as `__getitem__` and `pop` do; `Discard` is that loop.

**Channels.**  `queue`, `running`, `failed` and `pauseUntil` are the attributes
of each `Channel`.  A `ChannelQueue` is one set: a job with an eta is in
`_eta_queue`, the others in `_queue`, and `pop` clears the eta of those that are
due (`EtaCleared`).  `get_jobs_to_run` is a generator that the runner drains, so
a pass is many steps: `StartPass`, then for each channel, children before their
parent, `SkipPaused`, `SkipFull`, `Yield` until `Exhaust`, then `EndPass`, where
the wakeup time is asked for.  The order among siblings is left open; no property
depends on it, as a job only moves down its own branch.  `YieldRaises` is the
generator dropped in the middle when `set_job_enqueued` raises.  Notifications
are told between passes, by `Notify` with any channel, priority, eta and state,
`RemoveJob` or `CloseDatabases`.  A job's uuid order stands for
`(date_created, seq)`.

**JobRunner.**  One action for each transaction or step of a process.

- `Create`, `Requeue`, `SetDone`, `Delete`, `RequeueStuck`: callers, users,
  crons.  Each write that the trigger reports puts the job into `notes`.
  Notifications are a set: each is only a reason to read the row again, so that
  order and number do not matter once the row is read when it is handled.
- `Listen`, `SelectJobs`, `ProcessNotification`, `Dispatch`, `RunnerFails`: the
  loop.  The code handles notifications and hands out jobs in batches; here
  either may be next, which allows every order the batches can produce and more.
- `ClientReset`, `ClientReturns`: a GET's thread.  `sent` counts requests whose
  thread waits, `orphan` those whose thread gave up, `unanswered` threads whose
  request was served.
- `Begin`, `Refuse`, `LoseRequest`: a request is served, refused or lost.
  `Begin` takes the lock, `set_started` and the commit in one step, as the lock
  excludes other writers.
- `Snapshot`, `FinishDone`, `RetryPostpone`, `FinishFailed`, `Abandon`,
  `WorkerDies`: the transaction of the job.  A worker whose snapshot is outdated
  by another's write is `stale`: its commit is refused (REPEATABLE READ), and
  it ends in one of the handlers that open a transaction of their own.

**JobRecord.**  `row` is what is stored, `mem` the `Job` object of the worker,
which `store()` writes as a whole.  The methods (`SetPending`, `SetDone`, ...)
are operators on the record of fields.  One worker executes the job at a time;
what happens when a running job is requeued is the matter of `JobRunner`.  `seen`
is the runner's view: what it took for pending it enqueues, a done row as well.

**IdentityKey.**  `visible[j]` is the snapshot in which the caller that created
j had searched.  `view` are the jobs the runner takes for pending; `SetJobEnqueued`
writes their rows whatever they are, `SetOver` (`button_done`, a deletion, a worker
that was overtaken) and `PutBack` do so too.  What waits again after it waited no
longer is in `back`.

**WorkLogs.**  `logs` and `works` are `wt.time.log` and `wt.work.log`; the place
of a time log in the sequence is the name of its cluster.  `Start`, `Pause`,
`Done` and `Cancel` give the rows a request wants to write, from the snapshot it
has read.  `Serve` is a request that no other overlaps.  `Delay` and then
`Complete` or `Abort` is one that others overlap: any number of requests are
served in between, and its commit is refused if a row it changed was written.
Two requests that overlap are such a pair, as the one that commits first is as
good as atomic at its commit.  Time passes only while no request is being
served.  Every request also updates a field of the issue or touches the user's
last login; conflicts on those rows are left out, so that the model allows more
overlaps than the database may.  An exception is answered with 404 and what was
written before it is committed (`utils/error_tracking.py`): see `Done`.
A duration is rounded by `create` once (`RoundUp`) and by `write` as often as
`Rounds` says: once, or twice with `wt_migration`, whose `write` rounds and then
calls the base one, which rounds again.  `Unit` is `rouding_up`, any positive number;
zero and negative ones round to nothing, as a unit of 1 does.  (An import creates
work logs with `bypass_rounding` in one place, `wt_migration.py:1042`; what it reads
is the matter of `LogExport`.)

**JiraFetch.**  `at` and `gone` are the server: of a work log only the time of its
last change counts, which stands for its content.  `local[w]` are the time logs with
one `id_on_wt`, each as the time of the change it holds; `stamp` is `write_date` of an
issue.  `Cron` creates the jobs of `cron_fetch_issue` and `load_new_project`.  The
jobs run one at a time, as the channel of capacity one allows (`JobRunner`), those
without an eta before those with: each is one action, `UpdateIssues`,
`DeleteWorkLogs`, `LoadWorkLogs`, `LoadMissing`.  Each handles all it is about, or any
part of it (`Handled`): after six answers in a row that are neither a dict nor a list
the loops end, and the job is done (`wt_migration.py:784`, `:992`, `:1001`, `:1065`,
`:1074`, `:1117`).  `dropped` names what it left out.  A run is of all projects, of
those a user chose ("Fetch issues"), or of those an import found.  `Disrupt` is a job
that raises and is rolled back, or is postponed by a conflict; `RequeueFailed` is
`JobRunner`'s `Requeue`.  One Jira server is modelled, and a single user whose token
each served project uses.  The clocks of both sides are taken to agree.  Left out are
the search routes and the limit of 100 work logs in `load_work_logs`; an import that
overlaps an export is in `LogExport`.

**ChainSession** extends `WorkLogs`.  `lines` and `session` are the transient
records, each with its last write, by which `VacuumLines` and `VacuumSession`
delete them; the stored state of the session follows its lines (`StateOf`), also
after the vacuum.  `shown` is the state a browser tab was loaded with: a `Click`
needs a button of that state, whatever the state is now, and `stale` counts the
clicks for which it was another one.  `Confirm` enters time logs as
`WorkLogs!Entered` does, after the time went through `LogFormat` and `Seconds`.

**LogExport.**  `logs` and `jira` are the two sides; a row is tied to a work log by
`id`, which is `id_on_wt`.  What a log says is one value, its text, as no step looks
into it but an import: that reads the duration from how Jira writes it and rounds it
up (`Readings`, with any conversion `Rounded`), while the captured values, the mark
and the server keep what was read.  The histories `sent`, `behind` and `foreign` tell
what was last sent to a work log, that auto export sent what the log said before, and
that others changed it there.  Requests to Jira happen inside a transaction:
`Transaction` gives what one writes, and either it commits at once, or it is left
`open`, so that others overlap it, and then `Commit`s, is refused (`Conflict`) or is
rolled back (`Rollback`), while what it posted stays on the server.  `Write` is
`write()` whole: the export of the old values comes first, then the values, then what
`_get_export_state` makes of the mark.  `id_on_wt` is assigned through the same
`write()`, which exports once more (`Nested`); `Nesting` stands for the depth at which
Python stops it.  `OpenImport` and `FinishImport` are an import whose dict is read
before, `Import` one that nothing overlaps.

**IssueSync.** A transaction is in `tx[t]` with its snapshot, and with what others told
of the rows it wrote (`Told`).  An import reads its dict when it begins (`Found`,
restricted by the domain of `load_my_issues` and `_search_load`), takes one `Page` after
another of a listing that may change between them, creates parents it does not know
first, and the other new issues at the end (`Commit`).  `Gap`, `UpdateBoard`,
`LoadSprints`, `UpdateSprints` are the queued sprint job and its searches.  A `Commit`
between two pages is an import that gives up after six bad answers.  One that raises is
rolled back.  Not modelled is one that raises when it was called through the API, which
answers and commits (`res_api.py:31`): the updates of the pages done stay then, without
the new issues, or, when `load_boards` raised, without the sprint job.  `OpenClone`,
`OpenExport`, `Post`, `Link` are the clone of issues of another server and their export,
the request first and the write after.  An issue is its key, parent and sprint, and its
assignee, the loading user, another one or nobody: the fields whose import looks at
other records.  `Mapped` writes them as `mapping_issue` does, which leaves out what is
`None`: an issue that has no assignee on the server keeps the one it has here.  Its
sprint is the first of the list the server gives.  Of an import, `hidden` are the keys
it cannot see here, `split` the epics an earlier page listed, `shifted` says that its
listing changed between two pages, and `moved` that the server did.

**TokenAccess.**  `token` is the table, `accepted` what the server takes, `cached`
what a process holds by `ormcache`: tokens by user, and one answer of
`token_exists_by_migration`.  A request is one step, from the tables and the cache
of its process (`Request`); one request at a time may have begun earlier
(`BeginEarly`, `EarlyRequest`), with an old snapshot.  `Drop` empties the cache of
the process and signals the others, which do so when their next request begins
(`dirty`).  `Enter` is the whole of `set_jira_token` before the commit, and
`CommitEntered` or `AbortEntered` its end.  `Fetch` is `cron_fetch_issue` as far as
the choice of users goes; what it then fetches is in `JiraFetch`.  The server refuses
tokens that are not `accepted`, and may answer anything else with an error
(`trouble`), the trial of the tokens or the requests after it: then `load_boards` and
`load_projects` raise after an answer was cached and before they drop it
(`LeftBehind`).

**MasterData** extends `TokenAccess`.  `accounts` are users with their login and the
name `get_user` gives them, which are what the server tells of the person or, for
those who were users before (`people`), anything else; `rows` and `boards` count what
exists under one name.  `Known` is the dict a request reads, `MissingUsers`,
`MissingItems`, `MissingProjects` what it takes for missing, and `Import` creates all
of it, runs the cron for new projects and loads boards, in that order, or fails as a
whole; through the API what was written before `load_boards` raised is committed.
There a user who was refused is marked as such. A status is created each time, because
it is looked up by another key than the dict has.  One company and one server, a Jira
Cloud, are modelled.

## 3. Runs

Times are with two workers on a small machine; all are exhaustive.

| Run | Question | Bounds |
|---|---|---|
| `PriorityQueue` | Is the heap a set popped at its least element, over every sequence of calls? (`HeapIsKnown`, refinement of `RemovableQueue`) | 4 objects, so that one that is removed and comes back has others before and after it |
| `ChannelsPipeline` | Do the channels agree on each job (`PipelineConsistent`), is none overfilled by a pass (`NeverOverfilled`), is the tree a pool (`ImplementsJobPool`)? | a chain of 3 channels with capacities 1, 2, 1; 3 jobs, one more than fits; rows may name a channel that is not configured |
| `ChannelsTiming` | Order in a sequential channel, etas, throttle, wakeup times | 2 channels, both throttled, 2 jobs, 2 priorities, an eta in the future; clock up to 3, longer than the pause of 2 |
| `JobRunnerSafety` | View, capacity and number of executions under any three disturbances | 2 jobs for 1 place, 2 workers, 2 GETs of each job: a timed out and a repeated one |
| `JobRunnerLiveness` | Is a pending job settled? | two disturbances |
| `JobRecordAttempts` | Retry limit, schedule, dates through attempts, users and crons | 4 attempts with a limit of 3, so that a fourth would show; clock up to 7, past every postponement |
| `WorkLogs` | Can work be ended, and is it billed in full; does a session bill each line once? | scenes that each stress one cause: a user with 2 applications on a story and its task (3 work logs, to pause and go on; clock 3), a user for longer (clock 7, a day of 5 and a rounding unit of 3, which does not divide it, and two roundings of each write, so that a log is longer than the unit and than a day), two users whose requests overlap, one whose own requests overlap while time passes (clock 5), a chain session of two lines with two tabs (5 clicks, clock 4, transient records kept for 1) |
| `JiraFetch` | Is a change or deletion on the server forgotten, or a work log doubled? | 1 work log, 2 projects (one known while the other is new); 3 crons, so that two windows wait together; 2 disturbances, of which each may be a job that gives up with any part |
| `LogExport` | What is on each side, and what does the mark say? | 2 logs, 2 issues, 2 texts, of which an import rounds one to the other, 3 work logs on the server, 5 steps of users, failures and the server; with and without auto export |
| `IssueSync` | Are issues doubled, in a wrong sprint, or posted twice? | 4 issues on the server, 5 rows, pages of 1 so that a listing changes between two, 2 transactions that overlap, 1 change of the server; one issue already imported without its parent, one clone not exported |
| `MasterData` | Which token is used, what does the cron leave out, what is created twice, and when does an import fail? | 2 users, 2 processes; scenes of 3 requests: tokens that are replaced, with and without administrators, an import with an outdated answer, and imports of 2 issues with 3 persons, of whom one was a user before, by a login and an address that are those of the server, hidden there, or others, one request overlapping others or answered with an error |
| `IdentityKey` | When do two jobs wait with the same key? | 2 callers, 3 jobs |

Bounds that end a behaviour early (`MaxFaults`, `MaxTime`, `MaxAttempts`,
`MaxGets`, `MaxLogs`, `MaxPosts`, `MaxSteps`, `MaxKeys`, `MaxRows`, `MaxOpened`,
`MaxChanges`, `MaxCopies`) are guards of the actions they bound; in `WorkLogs` and
`TokenAccess` they are the fields of a `scene`, chosen in the initial state, so that
one run explores several small settings in place of one that is too large.
Everywhere but in `PriorityQueue` and `Channels` the system may come to rest when
the finite supply of jobs, ticks, rows or requests is used up, and TLC does not look
for deadlock there.

The three requests of `MasterData` are the least in which one fills a cache, one
changes what it holds and one reads it.  Its eleven scenes have errors of the server
(`trouble`) or a request that overlaps others, not both.

### Fairness

`JobRunnerLiveness` assumes weak fairness of the loop's steps, of the GET
threads, of the workers and of the cron that requeues stuck jobs: each is a loop
or a straight piece of code with a timeout that nothing can disable for long.
`Begin` has strong fairness: a request for an enqueued job is at last served by
a worker that is free before the cron, five minutes later, resets the job.
Callers, users and failures have none.  Two disturbances are left out of that
run, because with them the property does not hold and the code does not claim
it: a worker that dies leaves its job `started` until somebody requeues it (the
caveat in `runner.py:105`), and a user who requeues a running job may set off
two executions that outdate each other for as long as their luck lasts
(`main.py:71` retries a conflict without a limit).

### What the properties say

- `ExecutionsBought` (in `ExecutionInv`): executions that were committed, that
  are going on and that are still to begin are never more than one plus the
  requeues of the job while it had not failed.  Timeouts, late requests, dead
  processes and the cron never add one; they only move it.
- `NothingMissed`: when the runner sees a row wrongly, a notification is on its
  way.  `ActiveRowsOccupy`: it never takes an active row for one that waits.
- `NoMissedWakeup`, `NoBusyWakeup`: without a notification a pass yields a job
  only at or after the wakeup time given before, and that time lies ahead.
- `SequentialOrder`: of the jobs that are due a sequential channel starts the first, and
  none before the next job to come if that goes first.  Of the jobs that come after
  that one it says nothing (see below).
- `LimitEnforced` counts `RetryableJobError`s since the last reset; conflicts are
  not among them (see below).
- `WorkCanBeEnded` and `OneLogInProgress` hold except for time logs that a second
  application joined (`wt_issue.py:188` compares `source` with itself), that were
  ended from a child issue (`:236`), or that an overlapping request wrote to; the
  histories `mixed` and `overlapped` name those.  So the runs show that these are the
  only causes.  `TimeBilled` asks for a user and an issue none of whose time logs is
  among them (`Undisturbed`): with a second time log in progress what is worked
  belongs to both, and the one that was in order is billed for less.  Rounding looks
  at the seconds of the last day only (`wt_time_logging.py:72`): the next multiple of
  the unit is promised to times within a day, or if the unit divides it (`Exact`), and
  otherwise less than a unit more for each rounding.
- `TimeOnLine`: the duration of a line is the time the meeting was at it, counted
  by the clock beside the model of the code; a line that was started again loses
  what it had.  `ChainBilled`: a confirmed session has entered each line once, to
  the next multiple of the unit, but for lines the vacuum deleted, sessions it
  made `done` again and clicks in outdated tabs.
- `Accounted`: a work log on the server is held by a log here, or new, so that the
  next import brings it, or one whose deletion failed.
  `CountedOnce`: a second work log for one log comes from a transaction that was
  rolled back after its request, or from the nested exports.  `HeldOnce`: a second
  log for one work log comes from an import that overlapped its export.
  `SameIssue`, `MarkTruthful`: a log and its work log belong to one issue, and
  "exported" means that they say the same.  But the server may have been changed
  since, or an import has rounded what it says, or what was captured is not what was
  sent last and the log says it again; and the last export may have failed, have sent
  what the log said before the write, or have raced with an import.
- `QuietImportExact`: an import nothing disturbs, for whose time the server stands
  still, leaves what it asked for with one row and the fields of the server, but for an
  assignee the server has no longer.  `CopiesExplained`, `SprintExplained`,
  `ExportsAccounted`: what may differ otherwise, each second copy, wrong sprint and
  lost export counted against its cause.
- `AccessExplained`: no cache holds another token than the table, unless a request
  filled it with what it had read before the token was committed; and the cron leaves
  out a project somebody has a token for only by a cached answer that was about other
  users: one of an earlier cron, one that names nobody, or one of a request that
  raised before it dropped it.  `TablesExplained`: rows are doubled only by requests
  that overlap, by a manager who sees no projects, and, for boards, by several users;
  a second account or a login that clashes is that of a tester, of a person
  `load_all_users` gave an address, or of two requests at once, or of one who was a
  user here before: under an address the server hides or does not know (a second
  account, or a clash if the login is the address there), or under another login than
  her address, to whom `load_all_users` adds an account.
- `DuplicatesExplained`: two jobs wait with one key only if neither creator could
  see the job of the other, or the one that was seen had started, had ended or was set
  done, and was put back: by a retry, a requeue, or the runner with an outdated view.
- `ChangesArrive`, `DeletionsArrive`: what is on the server is here, or a job or
  the next cron is going to fetch it.  This holds although `latest_unix` moves on
  before the jobs have run, because a failed job stays to be requeued.  Exceptions
  are the histories `missed` (work logs loaded before the job for their issues
  succeeded, which drops them), `skipped` (`latest_unix` moved by a new
  token, past projects no user served, or past deletions nobody asked for) and
  `dropped` (left out by a job that gave up after six bad answers, and is done).
- `OneTimeLog`: only `load_missing_work_logs_by_unix`, which starts from an empty
  `dict_log`, adds a second time log.

### Disagreements found

Met while modelling.  Where a property says "unless", the exception is one of
these, and the property holds for nothing else.

Jobs:

- `set_job_enqueued` writes `enqueued` without looking at the state: a job that was
  set to done after the runner last read it runs again, while `job.py:154` says
  "the final state is done"; a job created meanwhile with its key waits beside it;
- `autovacuum` deletes by `date_done` alone, which a requeued job keeps: one that was
  done once and now waits is deleted (`queue_job.py:282`: "Delete all jobs done");
- serialization errors count as tries but never fail the job (`main.py:71`),
  though the help of the field says it "will fail if the number of tries reach
  the max. retries" (`models/queue_job.py:90`);
- a sequential queue with several late jobs compares the ready job with the one
  of the earliest eta only, so that it does not wait for a later eta of higher
  priority, as the comment at `channels.py:341` says;

Work and time logs:

- starting from one application joins the time log of another, `wt_issue.py:188`;
- a manual time log without a date gets one in 1970, because `False` is an `int`
  (`wt_time_logging.py:100`), and the wizard passes `log_date`, which nobody reads;
- the vacuum of transient lines, which are not written for an hour while the meeting
  is at another one, drops their time; after a session is logged, it makes its stored
  state `done` again, so that it can be confirmed twice;
- a line that is started again loses its earlier time;
- a duration from about a day on is not rounded to a multiple of a unit that does not
  divide a day, and `write` with `wt_migration` rounds it twice
  (`wt_time_logging.py:72`, `wt_overall.py:105`).

Export and import of time logs:

- with auto export the *old* values are sent and the new ones written after
  (`wt_overall.py:104-130`), with the mark "exported" (comment at `:37-39`); the next
  import overwrites the edit here;
- an import passes `time`, which is parsed again (a day has 24 hours then) and rounded
  up, while the captured duration and the mark are those of the server
  (`wt_migration.py:903-904`, `wt_time_logging.py:80-85`);
- `export_time_log` and auto export do not update what was captured, so that a log that
  says the captured values again is taken for exported while the server has others;
- assigning `id_on_wt` inside `add_time_logs` exports again, and so on until Python
  stops it; the exception is swallowed and several work logs are left;
- errors of PUT, and of POST in `force_export`, are swallowed while the log is marked;
- the `tracking` filters of `wt_overall.py:173-176` are swapped;
- moving a log without a mark leaves it tied to a work log of the other issue.

Issues:

- `create_missing_epics` creates an epic again that an earlier page listed as an
  issue; a key typed in lower case, and `load_my_issues`, hide what exists; the last page
  is cut to the total an earlier one told, and misses an issue created meanwhile;
- `sprint_key` stays when a known sprint is found, so the queued job moves the issue
  back (`wt_issue.py:32`); `update_board_by_new_issues` compares rows with ids of the
  server (`wt_migration.py:1409`);
- an export sends the request for the last epic and the last sprint only
  (`wt_migration.py:407`); one that is rolled back leaves its issues there;
- an import never clears a field (an issue without an assignee on the server keeps the
  one it has here, `wt_migration.py:599`, `:624-627`), and only adds labels.

Fetching, tokens and master data:

- `cron_fetch_issue` marks projects as fetched that no job was created for, and moves
  `latest_unix` for all when it runs for some; `load_missing_work_logs_by_unix`
  doubles the time logs of a project that is reset, or of which a user had fetched an
  issue;
- six answers in a row that are neither a dict nor a list end a job as done, with a part
  loaded or deleted, though `latest_unix` has moved on;
- `@ormcache('migration')` ignores the users the call is about: after a cron over some
  projects, or a button pressed by a user without a token, that process leaves others
  out; `load_boards` returns without dropping an empty answer, and any error it or
  `load_projects` meets leaves its answer there (`wt_migration.py:200-225`,
  `:1310-1336`);
- one refused token makes the whole cron fail and its record of it is rolled back;
  through the API the record is kept, and nothing removes it when she enters a new one;
- a status is looked up by its id in a dict of category keys, so that each import
  creates it again;
- whether a tester is missing is decided by the address of the assignee
  (`wt_migration.py:664`): existing logins are created again and the import fails, or
  the tester of a known assignee is never created;
- a user of whom the server does not tell the address is not found by it, and an
  import creates a second account, with the `accountId` as login
  (`wt_migration.py:663-666`); one whose login is not her address gets a second account
  from `load_all_users`, which compares addresses with logins (`:160-162`, `:178-180`);
- a person without an address gets `id@mail` from `load_all_users`, which no import
  finds, and every import of her issues fails; its cron calls it on an empty recordset,
  where `ensure_one` raises;
- a manager who is not in `group_wt_admin` sees no project by the record rule, so "Load
  All Projects" creates all again; several users create the same board each;
- the parsers of a self-hosted server lack attributes that `Issue` reads.

## 4. Proofs

For every value of the constants.  A theorem rests on the named assumptions about
constants alone, which TLC evaluates in the runs, and each property named here is
checked by TLC as well.

**QueueJob_proofs**, about three parts that share no state:

- `PriorityQueue`: `HeapAlwaysKnown` and `QueueRefinement`.  `HeapIsKnown` is inductive
  (each object is in the heap once, the removed ones are known); with it each action
  maps to one of `RemovableQueue` or to a stutter, with the live objects as the
  abstract set.
- `JobRecord`, for any retry limit and retry pattern: `AttemptInvariant`, with
  `RecordAlwaysConsistent`, `LimitAlwaysEnforced` and the action property
  `ScheduleAlwaysKept`.  The invariant adds to the properties the same of the `Job`
  object a worker holds, which a later `store()` writes over the row, and that a job the
  runner takes for pending is not executed and has forgotten no error (`SeenInv`).
  `RetrySecondsAreLastReached`: the loop over the sorted pattern ends with the entry
  of the highest count that was reached.
- `IdentityKey`: `DuplicatesAlwaysExplained`.  `KeyInv` adds that a job a snapshot shows
  as started or over has left the waiting states (so that it waits only if somebody
  put it back), and that so has each job the creator of another could see.

**Channels_proofs**, for any finite tree of channels, capacities, throttles, jobs and
etas:

- `AboveLinear`: the channels on the way of a channel to the root form a line.
  `PathInvariant` rests on it: a job is nowhere but on its way, where it waits or runs
  it runs in all the channels before, and what runs in a channel waits or runs in the
  next.  `PipelineConsistent` says so of neighbours only, which a step cannot preserve
  without following the chain.
- `PoolRefinement`: with `PathInv`, what waits in any channel is the waiting set of
  `JobPool` and what runs in the root the active one; each step takes, adds or
  returns a job there, or leaves both.
- `NeverEverOverfilled`, `AlwaysSequential`: by the guards of `Yield` with `PathInv`.
- `TimeInvariant`: a channel is paused until its throttle after its last job, unless
  that is over, and the eta of a job that has none any more has passed;
  `EtaAlwaysRespected`, `ThrottleAlwaysKept`.
- `NoWakeupEverMissed`, `NeverBusyWakeup`: during a pass, a channel that is done has
  nothing to give, and its children are done (`DoneInv`: only a child could fill it
  again).  After the pass and until its alarm, the last open channel on each way to
  the root has nothing to give (`SleepInv`).  Not every channel: one whose parent is
  full keeps jobs that are due, and none of them can become the one that was missed.

**JobRunner_proofs**: `TypesKept`, then `RunnerInvariant`.  `RunnerInv` is the type
invariant, the three properties of the view and `waiting \cap active = {}`; the last
is what makes them inductive, as `HasSlot` counts `active` and `Dispatch` moves a job
from one to the other.  `CapacityKept`, `ActiveRowsAlwaysOccupy` and
`NothingEverMissed` follow.  `ExecutionInvariant`: `ExecutionInv` is inductive with
`RunnerInv`.  The steps that matter are `Dispatch`, which writes `enqueued` on the
word of the view (what it hands out is owed already, being in `waiting`), and
`Begin`, which turns what is owed into an execution.  `NeverExecutedTwice` follows.

**WorkLogs_proofs**, about `ChainSpec`, for any users, issues, tree, sources, scenes,
units and tabs.  The invariant is `AllKept`, of four parts:

- `WorkKept`: the snapshot of a slow request is older than the tables *row for row*
  (each row it did not write may only have moved on in the ways requests can), every
  work log has its time log, and the clusters of a snapshot begin those of the table.
  `WorkCanBeEnded` and `OneLogInProgress` are parts of it: when a slow request
  commits, they follow from its snapshot for the rows it changed, and from the
  refusal of outdated writes for the others.
- `ChainKept`: `TimeOnLine`, with the state of a line and the session.
- `AccountInv`: while an undisturbed log is in progress, its user is at work exactly
  if one of its work logs runs, and what was worked is the sum of their lengths up to
  now.  `TimeBilled` follows when it ends, from the rounding lemmas: each rounding adds
  less than a unit, also if the unit does not divide a day.
- `BookedInv`: a line that is not there any more was vacuumed, booked, or never
  worked on; a line is booked no more often than outdated clicks and the vacuum
  explain; a booking has the time of its lines up to the next unit (a multiple of it
  where `Exact` promises one).  `ChainBilled`
  follows.  `FormatRoundTrip`, which it uses, is about the log format: any duration,
  written in units of which the last is the second, is read back as it was.

Sums over sets, the chain of parents and the log format are recursive in the model.
They are functions (or folds of the community modules), and the lemmas `RecursionExists`,
`RankInduction` and the lemmas on `SumOf` show that such a definition by rank has a
function that satisfies it and only one, by a least counterexample.  The theorems
therefore hold of what is computed, not only of how it is typed.

**LogExport_proofs**, for any issues, texts, number of rows and depth of `Nested`:
`ExportInvariant`, with `AlwaysAccounted`, `AlwaysCountedOnce`, `AlwaysHeldOnce`,
`AlwaysSameIssue` and `MarksAlwaysTruthful`.

- `ExportInv` has the five properties in a form a step can preserve (`Known`,
  `Origins`, `Single`, and `RowsRight` for the last two).  They are not inductive
  alone, because what is committed was decided earlier.  `OpenUser` says of the rows an
  open transaction will write what the others say of the table, and that only an
  import that is told of in `raced` can have given its work logs to another row;
  `OpenImported` says that nobody holds a work log its dict has but those who did
  when it began, and that rows not written since are as they were.
- `MarkTruthful` follows from what was sent last: unless others changed it, the work
  log says what was sent to it (`SentTrue`), and a log that is marked says what was sent
  or captured last, or rounds what was both (`Marks`).  What an import reads counts as
  sent; the rounding is in the row alone, and the theorem holds for any function
  `Rounded`.
- `SoundBut(x, E)` describes a transaction as far as it has got: the rows it has not
  written, those it has, what it posted and for whom, and the rows E whose mark may
  be wrong for the moment.  Each helper (`AddTimeLogs`, `UpdateTimeLogs`, `Write`,
  `Move`, `Captured`, ...) preserves it, and each request ends with E empty.  One lemma
  for each end (committed, opened, rolled back) and one for what the open transaction
  keeps while others are served then give `ExportInv'` for all requests alike.

**MasterData_proofs**, about `TablesSpec`, for any users, processes, people, issues and
scenes: `AccessAlwaysExplained` and `TablesAlwaysExplained`.

- `AccessInv` says of each cache that its tokens are the table's, unless its process
  is to drop them when its next request begins (`dirty`) or a request filled it with
  what it had read before (`raced`), and that a kept answer, and each one by which a
  cron left a project out (`left`), names nobody, was given to a cron, or was left by
  a request that raised (`Harmless`).  `MayKeep(r, c)` is what a request may leave
  behind in its cache: tokens it found there or in the table it sees, which count as
  the table's only if nothing was committed meanwhile.  Every request of both modules
  is shown to keep within it, and `CommitEntered` to make every other process dirty.
- `TablesInv` has one conjunct for each table.  Projects and boards are counted: a
  request adds at most one project of a key (`Enlarged`, `CountAfter`), only if it saw
  none or is one of a manager who sees none (`unseeing`), and a user creates the board
  of a project once.  What overlapped is in `doubled`.  `AccountsRight` adds to one
  account per person that logins are unique and that an account has the name imports
  look for (`Proper`), but those of `load_all_users` and of people whose login or
  address was their own before; without it a second account could not be ruled out by
  what an import looked up.

**JiraFetch_proofs**, for any work logs, issues and finitely many projects:
`ChangesAlwaysArrive`, `DeletionsAlwaysArrive` and `AlwaysOneTimeLog`.  In `FetchInv`
the three properties are joined by what the queue owes to the way `Cron` fills it:
times on both sides lie behind the clock and windows behind `latest_unix`
(`ClockRight`), the jobs of one run, which share their `since`, share their projects
(`OneCron`).  Without the last a job that is done could be the one on which a change
relied: a change awaits not only a job for its work log, but its issue, which is here
or awaits a job of the same run (`ToBeLoaded`); a job that gives up takes what it
leaves out into `dropped`.  A job leaves the queue or changes its state (`OverIs`,
`Kept`), so that a change it was not about is still awaited by the same job, told by
its kind, window and projects (`Alike`) and not by its place.

**IssueSync_proofs**, for any issues, pages, sprints, issues of the other server, and
any number of transactions: `SprintAlwaysExplained`, `ExportsAlwaysAccounted`,
`CopiesAlwaysExplained`, and the action property `QuietImportsExact`.

- `SyncInv` says of the table and the server that what they refer to exists, that a
  row is in the sprint its last import saw or waits for it, and that a clone and the
  issue it was exported as name each other (`TableOK`, `ServerOK`); that copies are no
  more, and lost exports exactly, what was counted (`CopiesCounted`, `LostCounted`);
  and of each transaction what it has done so far (`Sound`).
- `TxOK` is about the rows a transaction created and wrote.  `ImportOK` adds, of an
  import, that it knows every row of a key but those that are hidden or that others told
  it of, that it creates a key once unless its listing shifted or an epic was split,
  and which places of the listing it has seen; `ExportOK`, of a clone or an
  export, that what it posted is in the rows it came from, and in no committed one.
  `QuietOK`, of an import for whose whole time the server stood still, that it has seen
  each place of the listing before `start`, and that the rows it holds mirror the
  server.  `QuietImportsExact` follows at the commit, where the pages cover the listing.
- These are operators over a transaction x, a table i, a server s and the next row n,
  so that the lemmas about `Page`, `Post` and `Link` need no state.  What a transaction
  keeps while others commit, fail, or change the server is shown once for each of the
  two kinds; then there is one lemma for each action.  `Apart` (rows created and issues
  posted by two transactions differ) is what keeps the counts exact when one ends.

Six errors came to light in these proofs: `Start` named the cluster of a new work log
by the snapshot of its request and not by the row that is created; `TimeBilled` did not
hold for a log in order beside a mixed one, which needed longer behaviours than the run
explored; `TablesExplained` did not hold for a user whose address the server hides,
of whom no scene had one; the scenes that show these two were added.  `QuietImportExact`
did not hold for a server that changes between two pages and changes back, which
`moved` now tells.  A row that is not exported made the key 0 count as hidden, so that
no import of a user's own issues was quiet beside it.  And `UNION A \cup B` was read
by TLC as the union of both and by the prover as that of `UNION A` with B (`SUBSET A \ B`
likewise): such expressions now have parentheses.

The assumptions about the constants: the orders and capacities named in the modules;
channels, issues and the entries of a retry pattern are finitely many; bounds are
natural numbers.  `WorkLogs` asks for a positive unit and day, and one or two
roundings of a write.  `LogExport` adds that "no row" and "deleted" are no records.
`TokenAccess` and `MasterData` add that users and keys are finitely many, that the
projects a scene begins with have different keys (those that were created twice come
from requests), that a scene names each person who was a user before once, and that
statuses are no types, labels or priorities.  `JiraFetch` adds that projects are
finitely many; `IssueSync` that the issues of the other server are finitely many and
are no keys, and of the database it begins with (`InitAssumption`) what `SyncInv` says
of it: one row for each name, epics, parents and keys that exist, clones and exports
that name each other.

Only model-checked: the liveness of the job system (`EveryJobSettles`, in
`JobRunnerLiveness`), as liveness under fairness is out of the prover's reach.  Every
invariant, action property and refinement of the runs is a theorem, or a conjunct of
the invariant of one.

## 5. Not modelled, and plan

Not modelled: routes that only read or translate to one call of a model,
authentication (a signed token of a library), digests and billing reports, forms of
channels and functions, the channel configuration string, serialization of arguments,
encryption of tokens, pictures.  They have no order of steps to get wrong.  The
personal to-do is written by one request each; `wt_issue.py:457` fails for an assignee
without a list of today and is rolled back.  Checklists (acceptance criteria) and the
fields of an issue other than parent, sprint and key are translated one by one.

What is left, in the order of what is worth most:

1. `JiraFetch` with several issues and users;
2. the checklists of an issue, which both sides write.
