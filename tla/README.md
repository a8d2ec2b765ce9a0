# Verification of pve-flr-portal

The portal is one FastAPI process. A user signs in with a Proxmox VE (PVE) account, browses
the disks inside Proxmox Backup Server snapshots with the user's own PVE ticket, downloads
files from them, and restores files and folders into running guests through the QEMU guest
agent or over the guest's own network. This directory holds TLA+ modules of its parts, the
TLC configurations that check them on small instances, and theorems that TLAPS checks for
every value of the constants.

Paths below are relative to `src/`.

## 1. Inventory

| Component | State it keeps | Operations | Talks to |
|---|---|---|---|
| Restore job registry, `backend/restore_jobs.py` | `_jobs` (id to job: status, `cancel_requested`, task) | create, submit, cancel, mark_running / verifying / done / failed / cancelled, evict_expired, list_jobs | history (write-through after each change), runner (a task per job), endpoints |
| Job history, `backend/job_history.py` | SQLite tables `jobs`, `job_log_lines` | persist, list_recent (sweeps first), get, reconcile_interrupted | registry, endpoints, lifespan hook |
| Process and listeners, `run.py`, unit file, compose file | the main uvicorn server, one server per data NIC | start, lifespan, shutdown, crash | reconciliation, all in-memory state |
| Job endpoints, `backend/main.py` 932-1167 | none of their own | create, list, detail, cancel | registry, history |
| Restore runner, `backend/restore_runner.py` | locals of one task: scratch directory, source, network decision, TLS mode | both pipelines, Direct Network Transfer, metadata, verification, cleanup | PVE downloads, guest channel, registry, bundles, download tokens |
| Guest-agent channel, `backend/guest_agent_lock.py` | an `asyncio.Lock` and a last-used stamp per guest | guest_agent_command, call_with_retries | every guest command |
| Guest commands, `backend/pve_client.py`, `backend/guest_agent.py` | none | file-write, exec and exec-status polling, agent info, capabilities | channel, PVE |
| Network pull, `backend/restore_network_pull.py`, `backend/guest_ca.py` | none | NIC choice, tool detection, TLS ladder, fetch command, CA installation | runner |
| Sessions, `backend/auth.py` and the login routes | `_sessions`, cookies | password, second factor and OIDC logins, lookup with idle timeout and ticket refresh, keepalive polls, logout | PVE, every endpoint |
| Listings, `backend/pve_client.py` list_path, `backend/dir_cache.py` | SQLite cache, `_inflight_list_calls`, `_list_semaphore` | list_path, evict_missing | PVE helper VM, index page, browse endpoints |
| Disk view, `backend/main.py` 474-757 | none | volume-group elevation, partition flattening, hiding of what cannot be mounted | listings |
| Download tokens, `backend/restore_download.py` | `_tokens` | mint, consume, consume_full | runner, public fetch endpoint |
| Bundles, `backend/restore_bundle.py`, `backend/download_bundle.py` | temporary directory, bounded queue, thread pool | build_bundle, stream_bundle | runner, download endpoint, PVE |
| Original location, `backend/guest_original_location.py` | two caches of guest facts, two minutes each | resolve a destination, label partitions with drive letters | disk view, listings, guest commands |
| Guest browsing, `backend/guest_browse.py` | none | list directories of the guest | guest commands |
| Configuration, TLS certificate, version | none after start | read and validate | all |
| Browser client, `backend/static/app.js` | page state | polls jobs, drives the endpoints | endpoints |
| Deployment, `deploy/` | container network configuration, settings file | install, update, change the network and roll back | host tools |
| Release script, `scripts/release.py` | none | tags a release | git |

What makes each of them hard, and what makes it correct:

- **Registry and history.** One job has two records, and a task, two requests and a start
  of the process may all touch them between each other's awaits; each write may raise and
  the process may die between any two. Correct: a cancel the user was promised wins, an
  outcome is final, the row keeps up with the job, nothing is left looking in progress, no
  list reply loses a job.
- **Channel.** Callers wait, pace, retry, poll, time out and are cancelled around one lock,
  while PVE may carry out a request whose caller has gone. Correct: requests never overlap,
  a command never runs twice, the gap is kept, nobody waits for ever.
- **Runner.** Some twenty steps, each of which can succeed, lie about it, fail, time out
  with its process alive, or be cancelled; several steps are best effort. Correct: "done"
  means the content is the source's and nothing is still writing it, the metadata survives
  the steps after it and what was given up before it, a refusal leaves the guest alone, TLS never falls below the floor,
  the scratch directory is swept.
- **Sessions.** Two clocks per session, reset by requests that overlap a refresh. Correct:
  an active user always has a live ticket, a removed session stays removed, polling does not
  keep a session alive, a login is bound to the browser that began it.
- **Listings.** Cache, coalescing, semaphore and eviction with awaits between them.
  Correct: nobody is shown another user's listing, no stampede, good rows survive failures,
  revoked access does not live on.
- **Disk view.** Correct: hiding loses nothing that can be mounted and offers nothing that
  cannot, with any listing on the way failing.
- **Tokens and bundles.** A producer thread behind a bounded queue, a reader that may go,
  temporary files under a failing build, threads that outlive the coroutine that awaited
  them, tokens retried or never fetched. Correct: what ends normally is whole, on either way
  out; no thread, download, file or token is left behind.
- **Original location.** A trail made by the disk view, rows cached for two minutes, a live
  guest that changes. Correct: the destination is on the file system the item came from, or
  there is none.

`PROJECT.json` lists the individual hazards at their lines, with the properties that would
notice them going wrong.

## 2. Plan

Modules in the order they are written; the most important behaviour comes first.

1. `RestoreJobs` (registry, history, reconciliation, endpoints) with the abstract
   `JobLifecycle` it implements. *Built, checked, proved.*
2. `GuestChannel`. *Built, checked, proved.*
3. `RestoreRunner`, which composes `NetworkPull` (pure operators) with the pipelines, and
   the abstract `Restore` it implements. *Built, checked, proved.*
4. `Sessions`, `ListingCache`, `DiskView`. *Built, checked, proved.*
5. `StreamBundle` (producer thread, bounded queue, stop, drain, pool limit) and
   `BundleTransfer` (`build_bundle`, then the single-use tokens composed with fetches that
   are retried). *Built, checked, proved.*
6. `OriginalLocation`, composed with `DiskView`. *Built, checked, proved.*
7. Not begun: the network change of `deploy/pfr-manage.sh` with its rollback, the poll loop
   of the client.

Module 2 is what each command of module 3 goes through, and module 3 is what a task of
module 1 does between two status changes. They are kept apart rather than multiplied: 1
sees the runner as the choice of an outcome and the awaits around it, 3 sees a command as
one step with the outcomes 2 allows (served, refused, given up with a late effect). Each has
an abstract specification: `JobLifecycle` is what a user hears of a job, `Restore` what
happens to the file the job is about.

## 3. Modules and code

### RestoreJobs, JobLifecycle

State: `registry` and `status` are `RestoreJobManager._jobs` and the jobs in it,
`cancelRequested` the flag, `task` the asyncio task with the awaits at which it can be
interrupted, `cancelling` a `task.cancel()` that is not delivered yet, `row` the table,
`poll` the list requests with the values they carry across their awaits, `server` and
`reconciling` the process and the lifespans of its listeners. `expired` says which jobs are
older than the retention.

Every status change is memory first, then the row; the action contains both, and the
fault actions are the same change with a write that raises and the exception handlers that
follow. A list request is four actions because it awaits twice (sweep, snapshot of live
ids, read, reply). `Create` and the submission are one action: no await separates them.
`Stop` is asyncio's cancel-all of an orderly shutdown, `Crash` everything that ends the
process with no Python code run.

Simplifications: the runner's cooperative checks of `cancel_requested` never get to act,
since `task.cancel()` raises at the next resumption; `aclose()` does not raise;
`Expire` assumes that a restore takes less time than the retention; a task takes its first
step in the loop iteration that created it; read errors of a list request change nothing
and are left out. `JobLifecycle` is what a user who keeps asking for one id sees.
The cancellation of a shutdown may turn *done* into *cancelled* for a task still closing its
download; the abstract action `Overrule` admits exactly that.

### GuestChannel

State per caller: its position (`pc`), the command (`op`), attempts and polls, the request
in flight, requests it abandoned (`adrift`), and what PVE did (`ran`, `process`). Per guest:
the lock, its FIFO queue, the cooldown and a clock `quiet` the properties use. Actions
follow `guest_agent_command`, `call_with_retries` and `run_guest_exec`: ask, wake, pace, the first request,
retry after an error PVE answered with, polls of `agent/exec-status`, timeouts and
cancellation at each await, each releasing the lock as its `finally` does.

External, from how the code uses it: an `asyncio.Lock` wakes its first waiter; an HTTP error
answer of PVE means the command was not carried out, whereas a request without an answer
may be carried out later (`Drift`), which the guest's clock `quiet` counts like any other
request of ours and `strayed` remembers until the lock is next released. A caller starts again only when PVE has let go of
its last request, so that `ran` counts one command. Closing the HTTP client before the lock
is released takes no time.

What abandoned requests do to the properties: `RunsOnce` counts their late execution,
`NoOverlap` is about the requests callers still wait for, and `GapKept` excepts a guest that
carried one out since the last release, which the pacing of the code cannot know of.
`backend/guest_agent_lock.py:64-68` says that the channel is always left clean when it is
released; a caller that times out or is cancelled releases it while its command may still be
carried out, just before the next caller's (section 4, observations).

### NetworkPull, RestoreRunner, Restore

One job against one guest. `at` is the step, `guest` the destination and the scratch
directory, `adrift` the commands nobody waits for any more. A command ends in one of:
`Returns`, `Misreports` (success without the effect, for the commands whose exit code is not
proof), `ExitsNonzero`, `Raises` (refused, lost or polled out, with or without a late
effect), `Cancel` and its delivery. `Late` is the effect of a command given up. Following a
step, `Following` computes the next one from the job, the guest's answers and the settings,
in the order of the source. Network transfer walks the TLS ladder of `NetworkPull`
(`TlsFails`, `SteppedDown`) and falls back to chunks where the settings say so.

Simplifications: progress, logs and a guest whose OS family is unknown are left out;
`check_path_safe` raises together with the capability check; the CA installation is one
step; whether a fetch tool recognises a TLS failure is the guest's choice; a bundle carries
file metadata in its archive; the guest starts without the manifest of an earlier bundle.

`clear_readonly` is two commands, `chmod u+w` and `chattr -i`, and the runner swallows that it
gave up on them (`backend/restore_runner.py:330`), so the first may take effect at any later
time, after the last `chmod` and after *done* included. On a mode that was restored already it
adds the owner's write permission: a file whose source is 0444 ends up 0644. The mode is then
"widened" (`OwnerWritable`). `MetadataSurvives` and `Restore` allow exactly this and no other
late change; a late change of anything else by a job that says done is excluded.

`Restore` is the same job without steps, guest agent, scratch directory or network: content
is written, metadata is put on a file that exists, the outcome is said, all of it possibly by
something the job gave up on. `KeepsPromise` maps it to the runner: `wish` is computed from
the job's options, the file is the part of `guest` that outlives the job, and *running* and
*verifying* are both "underway". It admits late writes after *failed* and *cancelled*, which
the code allows, and after *done* only `Stray`, the late `chmod u+w` above.

### Sessions

`store` is the key set of `_sessions`; `idle` and `age` are the ages of `last_activity_at`
and `ticket_issued_at` in ticks, capped just above the limits. A request resolves its
session, may await a refresh, and continues with an object the store may have dropped.
Logins are atomic since they read nothing before their await but the binding cookie. PVE
refuses tickets older than `TicketLife`. A second factor is a login like another: nothing is
kept on the server between its two calls. The copies of a session that jobs carry, and a
malformed refresh answer, are left out.

### ListingCache

A call reads the cache in a thread (`Call`), then joins a fetch or begins one on the
loop; a fetch waits for the semaphore, asks PVE, writes the row in a thread and ends, and its
callbacks run later (`Finish`). A page reads the archives storage by storage and evicts only
if each answered. Eviction goes by volume, so one volume stands for all paths in it. What PVE
grants changes at any time.

### DiskView

`snapshot` is any content of the disks; at any moment PVE answers the listings in `broken`
with an error and those in `silent` not at all (a timeout of 30 s, a lost connection), and a
view is evaluated against one such pair. `Root`, `Below` and `Offered` are the
answers of the browse and tree endpoints, written from `_discover_lvm_volumes`,
`_apply_lvm_view`, `_disk_level_entries`, `_disk_has_visible_content` and
`_filter_unmountable_children`. Three things a reader should know. The probes catch `httpx.HTTPStatusError` only
(`backend/main.py:518`, `525`, `610`, `689`), and so do the routes' own listings (783, 830), so a
listing that is not answered escapes the `gather` and fails the whole view it is probed for:
`RootRaises` for the root, `BelowRaises` for an entry. The listing that replaces a lone `part`
(line 565) is not guarded at all, so that an error fails the view as well (`Unguarded`). And
`_disk_level_entries`, written for disks, also runs on a group's listing, so a logical volume
called `lvm` is dropped. `AllReachable` is therefore a statement about root views that are
answered: a listing that fails *with an error* costs only what it was asked for, one that is
not answered costs its view and no other.

### OriginalLocation

Extends `DiskView`: `Trails` are the entries the view offers, each with the labels that lead
to it, and `Meant` is what `resolve_original_directory` makes of such labels. A destination is
the file system it is on; the directories below it are appended unchanged. `order` is the
running guest's numbering of its disks (Windows disk numbers, or the rows of `lsblk -dn`),
`rows` the cached answer of the disk query with `stale` for what the code cannot see. A
request is asked, finds a disk (`LocateOnWindows` by address or else by position,
`LocateOnLinux` by position), and asks the guest (`FindLetter`, `FindMountPoint`,
`FindVolume`); each may fail. Which partitions the guest has besides the backup's, and which
of them carry a logical volume, is chosen at the lookup.

Simplifications: names have no structure, so that the escaping of dashes in device-mapper
names, which the second lookup (`/dev/mapper/<vg>-<lv>`, line 470) leaves out, is not in the
model; a lookup that raises and one that
says "unavailable" are the same answer; `Addressable` are the disks whose bus identifies them (sata, scsi, the only
disk on ide); a partition without a mount point and a failing command are the same answer;
the second cache, of drive letters, only labels the tree and is left out, so `Annotate` is the
part of the labelling that fills the rows. A logical volume called `part` that is alone in its
group is flattened away like a disk's folder, so its directories are taken for volumes of the
group, which the guest does not have; `TrailsAreUnderstood` speaks of the partitions and
volumes offered themselves, and `Places`, the file systems together with those misread
directories, is what a request may be for: `FindVolume` finds only the former. A trail of one
label is refused before any shape is looked at, as `resolve_original_directory` does; its
branch for an `lvm` folder below a disk, which its comment calls defensive, is left out: the
view never offers that folder.

### StreamBundle

One record per download: `reader` is where the generator of `stream_bundle` stands, `thread`
the worker with its position in `_build`, `queue` the bounded queue, `stop` the event,
`waiting` the executor's queue. A piece is what fills the sink's buffer once. A leaf that held
no regular file is fetched a second time, followed, and spooled. `Leave` is a client that
goes: at `queue.get()` the server's cancel scope cancels the generator, and cancels every
further await too (`CancelDrain`), between two chunks the generator is closed by the event
loop. Both set `stop` and empty the queue before their first await.

Simplifications: names that are skipped as unsafe, the early end of a body PVE closes in
good order, and what the archive's own close writes after a failure are left out.

### BundleTransfer

One restore. `at` is the await its coroutine is at, `work` the threads that are still at
it (awaited or not: cancelling a coroutine does not stop `asyncio.to_thread`), `temp` the
items with a file in the temporary directory, `archive` the output. Per fetch there is a
token, the tool in the guest, how often it repeated its request, and what it was given. The
build is `Opens`, `Download`, `Describe`, `Adds`, `Finishes` with their failures and
`CancelBuild`; the runner is `Mint`, `StepDown`, `EndJob`, `Collect`; the endpoint is
`Request`, `EndOfBody`, `BodyFails`. A build that fails ends at "ended", where nobody refers to
its `TemporaryDirectory` any more; one that is cancelled ends at "kept": the runner raises the
`CancelledError` again (`backend/restore_runner.py:999-1001`), the finished task keeps it, its
traceback keeps the frame of `build_bundle` with `tmp_dir_ctx` (`backend/restore_bundle.py:600`),
and `RestoreJobManager._tasks` keeps the task until a list request sweeps the expired job
(`Evict`, days later; nobody has to ask). A body of a bundle opens its file after the status was
sent, so a directory that is gone cuts the response. `RestoreRunner` sees the same build and
fetch as one step each.

## 4. Runs

| Run | Module, configuration | Shows |
|---|---|---|
| history | `MCRestoreJobs`, `RestoreJobs_history.cfg` | the row follows the job, no row is left in progress by an earlier process, the detailed model implements `JobLifecycle`, every job seen in progress is seen to end unless it waits for a silent PVE uncancelled |
| listeners | `RestoreJobs_listeners.cfg` | what survives failing writes and a reconciliation that runs while jobs do, with two list requests sweeping at once: cancel wins, active jobs have tasks, lists are complete, outcomes final |
| channel | `MCGuestChannel`, `GuestChannel_channel.cfg` | no overlap, no second execution, gap kept but for strayed requests, every call ends |
| runner | `MCRestoreRunner`, `RestoreRunner_runner.cfg` | the detailed model implements `Restore`; verified content, surviving metadata, no file left writable unwarned, the TLS floor, the sweep of the scratch directory; every restore ends unless it waits for a silent PVE uncancelled |
| sessions | `MCSessions`, `Sessions_sessions.cfg` | live tickets for active users, no resurrection, own session, idle tabs time out |
| listing | `MCListingCache`, `ListingCache_listing.cfg` | own listings, no stampede, no eviction without cause, revoked rows go, everybody is answered |
| location | `MCOriginalLocation`, `OriginalLocation_location.cfg` | nothing mountable lost, nothing dead offered, every trail understood, destinations found by name or address right |
| stream | `MCStreamBundle`, `StreamBundle_stream.cfg` | no truncated archive passes for a whole one, no download from PVE left open, no thread leaked, every response ends |
| transfer | `BundleTransfer`, `BundleTransfer_transfer.cfg` | one item staged at a time, whole bundles delivered, one download per token, nothing left behind but the directory of a cancelled build until its job is evicted |
| stale_list | `RestoreJobs_stale_list.cfg` | **violated**: see finding 1 |
| hang | `RestoreJobs_hang.cfg` | **violated**: finding 2 |
| wrong_partition | `OriginalLocation_wrong_partition.cfg` | **violated**: finding 3 |

A run does not repeat the type invariant of a module whose type theorem is proved (section 5).

All runs switch deadlock checking off: each of these systems may come to rest (no
request, every bounded fault used up, a finished restore).

### Bounds

- *RestoreJobs*: two jobs (one to be swept or relabelled by the other's steps); two stops
  for a restart that is itself interrupted (history), or two list requests whose sweeps
  interleave, one bout of failing writes (a bout ends the promises that need the two stores
  to agree; a second adds none) and one data listener (it has no state but having reconciled
  or not) in listeners. The safety properties of both are proved for every value. Jobs are
  symmetric where no liveness is checked.
- *GuestChannel*: three callers on one guest give a holder, a waiter, and a waiter behind
  it; two attempts and two polls, because the loops tell only the first and the last apart;
  a gap of one tick.
- *RestoreRunner*: two chunks, for the same reason; `SomeSites` is the corners of the
  settings: no guest-exec, no data NIC, plaintext only, a ladder that goes all the way down,
  and one with a floor equal to the preference.
- *Sessions*: two browsers, so one can receive the other's redirect; two requests, so one refresh can fail after another succeeded; limits that keep
  the real relation, IdleLimit = TicketLife - RefreshAge (30 = 120 - 90 minutes).
- *ListingCache*: two tabs of one user and a second user, two fetch tasks over a cap of one,
  one page load that can overlap any of them.
- *OriginalLocation* with *DiskView*: two disks sharing one group, two partitions, a
  volume and one with the awkward name `part`, two listings at a time that fail with an error
  or are not answered; destinations are asked for one backup (`Restored`), whose disks take
  both shapes, of a guest that renumbers once, because only the order of two disks can differ.
  A volume called `lvm` and further renumberings are left to the theorems, which hold for every
  name and number.
- *StreamBundle*: two downloads over one worker, so one waits for the other; a queue of one
  chunk, which is full as soon as it is not empty; two pieces an item, a file and a folder.
- *BundleTransfer*: three items give a first, a middle and a last; two rungs of the ladder
  and one repeated request, because each token is told from the next only.

### Fairness

- Callers of the channel, calls and fetches of listings: weak fairness, because every await in
  them is bounded by an HTTP timeout (15 to 30 s), a poll budget or a sleep, and asyncio
  resumes what is ready.
- Tasks of the registry and the runner (`TaskStep`, `RunnerStep`): the same, except where they
  wait for a download from PVE, which has no timeout (`backend/pve_client.py:454`). There
  (`WaitsOnPve`: `open_download`, the pieces of a file, `build_bundle`, the lookup of ownership,
  the drain) no step is assumed until the job is cancelled, and `RunnerEnds` and `JobSettles`
  say so: the restore ends, or it waits there for ever and nobody cancels it. `RestoreJobs`
  does not tell the awaits of a task at work apart and assumes the least of all of them.
- `Boot`: the unit restarts on failure, the compose file unless stopped, and after an
  orderly stop the administrator starts it again.
- `Tick`: time passes. PVE is never assumed to answer; timeouts end what it leaves open.
- The generator and the worker thread of a bundle download: weak fairness, an event loop and
  the system's scheduler. What needs PVE's answer says so (`PveAnswers`), and so does what needs a client to read.
- The threads of `build_bundle` work on a local disk and end; a `TemporaryDirectory` nobody
  refers to is finalized (`Collect`). `Evict` is not fair: users need not ask for the list.
- Users: never fair. `AccessEnds` is conditional on the user loading pages again and again,
  `IdleTabTimesOut` on being served again and again.

### Findings

1. `backend/main.py:1103`: the list request takes the live ids before it awaits the
   table, so a job created in between is listed as a history entry that is still running
   and cannot be cancelled; the comment at line 1114 says it is necessarily terminal.
2. `backend/restore_runner.py:1279`: when the write that records an outcome raises, nothing
   repeats it, and once the registry has evicted the job the row is shown as running until
   the next start; line 1278 says a job must never hang running.
3. `backend/guest_original_location.py:449`: partition n of a Linux disk is looked up as
   row n of `lsblk`, which also prints logical and encrypted volumes below their partition
   and skips no number for a gap; the mount point of another file system is then the
   destination of the restore. The comment at 443-445 says rows match partition numbers 1..N.

Observed in the models, without a run of their own:

- `run.py:168`: each data listener runs the lifespan hook of the same app (`DataReconcile`),
  so its reconciliation may mark a live job's row interrupted; `docs/architecture.md:168-171`
  says it runs once, before any request.
- `backend/pve_client.py:504`: a transport error while ownership is looked up fails a restore
  whose content is in place; `backend/restore_runner.py:678-681` says the lookup never raises.
- `backend/guest_original_location.py:244`: a disk the guest's own rows do not contain is still
  looked for by its position in PVE's listing, a guess the docstring admits in lines 58-62 and
  excludes in lines 24-28; and rows from before the guest renumbered its disks decide a
  restore's destination, although the comment at 97-100 calls them a browse-time convenience.
- `backend/pve_client.py:454`: a PVE that accepts a download and then falls silent leaves the
  restore *running* until somebody cancels it; `backend/restore_runner.py:1278` says a job must
  never hang running (`RunnerEnds` and `JobSettles` without their second disjunct are false).
- `backend/restore_runner.py:328`: a `chmod u+w` whose poll budget ran out may widen the mode of
  a file the job has restored and called done; the docstring, lines 314-317, calls a failure of
  it "worst case, a no-op" (`MetadataSurvives` without "widened" is false).
- `backend/guest_agent_lock.py:69`: the channel is released with abandoned requests outstanding,
  against lines 64-68, so the configured gap is not kept from those (`GapKept` without
  `strayed` is false).
- `backend/restore_bundle.py:600`: the temporary directory of a cancelled build, with the item
  that was being staged and the archive so far, stays on the portal's disk until its job is
  evicted (`NothingLeftBehind` without "kept" is false).
- `backend/main.py:518`, `525`, `610`, `689`: one listing that times out fails the whole view of
  the disks, although one that fails with an error costs only itself.
- `backend/download_bundle.py:69`: four clients that neither read nor leave hold the pool.

## 5. Proofs

The proof modules are `RestoreJobsProof`, `GuestChannelProof`, `RestoreRunnerProof`,
`SessionsProof`, `ListingCacheProof`, `StreamBundleProof`, `BundleTransferProof` and
`OriginalLocationProof`. Their assumptions are the named `ASSUME`s of the modules: bounds are
naturals, constants have the types their comments give, for the runner the minimum TLS mode
is not above the preferred one, which the configuration enforces, and for the original
location PVE lists each of finitely many disks once.

**RestoreJobs.** `IndInv` adds to the type invariant how status, task and pending
cancellation go together (`TaskMatchesStatus`, `CancellationPending`). `CancelWins` alone is
not inductive: what carries it is that an accepted cancel is pending on a task that is at
work, and that a task past its outcome cannot be cancelled while requests are served. From
`IndInv`: `TypeCorrect`, `CancelAlwaysWins`, `NoActiveJobIsOrphaned`, `OutcomesAreFinal`.
`ListInv` adds that a task at work keeps its job in the registry and out of the sweeps'
reach, and what a request past its snapshot knows: `ListsAreComplete`. `HistoryInv`
adds that a task at work has a row in progress (false with a second listener, hence the
assumption `DataListeners = 0`): `HistoryFollowsRegistry`, `NoRowIsStuck`,
`HistoryStaysFinal`, and, with `WriteFaults = 0`, the refinement `ImplementsLifecycle`.

**GuestChannel.** `ChannelInv`: whoever is inside holds the lock and is alone there
(`LockHeld`), what each position says about the command's execution (`CommandOnce`, which
`RunsOnce` needs: a start that is adrift has not run and will not be sent again), and the
gap (`GapRuns`: quiet time plus cooldown cover it while nobody is at work and nothing strayed). It gives
`ChannelTypeCorrect`, `RequestsNeverOverlap`, `CommandsRunOnce`, `GapIsKept`, for any number
of callers, guests, attempts and polls.

**RestoreRunner.** `RunnerInv` strengthens each promise by what holds at each step before the
end: `StepFits` (which steps a job can be at), `ScratchKnown`, `ChunksFit`, `QuietGuest`
(nothing adrift can write while the job still means to say done), `Denied`, `Delivered`,
`MetadataSet`, `ModeKnown`, `LadderInRange`. It was checked by TLC before it was proved. It
gives the module's theorems for all jobs, sites and numbers of chunks. `RefusalIsClean`
is stated by no run: it is one conjunct of the invariant. That a `chmod u+w` may be adrift at
any step is why `MetadataSet` and `MetadataSurvives` speak of two modes, and the lemma
`OwnerWrite` is all the rest of the proof has to know of it.

Three results are about steps. `SweepIsLast` needs only `ScratchKnown` and that no step but
the sweep leads to the end. `LadderGoesDown` adds `NotYetClimbed` (no mode before the choice
of one, and no way back there): the mode of a fetch is chosen once and then strictly falls,
so the attempts of one restore are at most the three rungs. It is the part of `RunnerEnds` the
prover can reach. `RunnerKeepsPromise` is the refinement of `Restore`: `CommandIsSeen` shows
each command, complete or spoilt, awaited or late, to be a write, a description or nothing;
the new invariant `AdriftFits` is what a command given up on needs for that once the job has
ended: one that describes is only left behind when the file exists, and a bundle leaves
nothing that describes. The step to *done* takes `VerifiedIsSource` and `MetadataSurvives` of
the state after it, and `DoneIsQuiet` (from `QuietGuest`) shows that only stuttering or `Stray` follows.

**Sessions.** `SessionInv`: the type invariant, `FreshWhileUsed` (inductive as it stands: a
tick ages both clocks, and only a request that goes on to refresh an old ticket resets the
idle one), `OwnSession`, and `FlowsAreBound`, which it needs: a flow's state is in the cookie
of no browser but the one that began it. `NeverResurrected` follows from the steps alone.
The limits need only `RefreshAge < TicketLife`.

**ListingCache.** `CacheInv`: rows hold their own user's listings (`RowsAreOwn`), the tasks
at work and the dictionary of calls in flight are the same thing seen from both sides
(`Registered`), the semaphore's waiters are unserved tasks without repetition (`QueueFits`),
calls wait for live tasks of their own user (`CallsAreOwn`), and the cap (`CapKept`, by the
cardinality lemmas of the library; the set of task slots is finite). It gives
`CacheTypeCorrect`, `ListingsAreOwn` and `StampedesAreHeldOff`, the part of this
component where a missed callback or a stale dictionary entry would show. `GoodRowsAreKept`
is about steps and needs two more facts: a task about to write has a listing
(`StoresListing`), so only an eviction empties a row; and a page that had no error has, of
every volume, one not yet read, one seen, or one its user could not see at some time since the
page began (`PagesKnow`), through every grant and withdrawal in between.

**StreamBundle.** `StreamInv` keeps, per download, three accounts: what the thread may hold
(`Threading`), which items the archive has and whether anything read is still unsent
(`Filed`), and `Flow`: as long as nobody has left and nothing has failed, what the client
got, what the queue holds and what the thread has in hand is what was read, plus the trailer
once it is flushed and the end mark once it is signalled; the mark is always the queue's
last entry. `NeverTruncated` needs the whole of it, since at the end only the sum is left.
`Waits` adds that the pool's queue holds each download once, so that a thread starts once.
It gives `Complete` and `Closed` for any number of downloads, items, workers and any depth.

**BundleTransfer.** `TransferInv`: the only file staged is the one of the item at hand, the
archive's members are the items before it and the only thread at work is the awaited one
(`Progress`), a token that is not used has served nothing and exists only for a fetch that
was begun (`Minted`), and from the first fetch on the archive is whole and nothing writes it
(`Settled`). It gives `OneItem` (by the cardinality lemmas), `Delivered` and `SingleUse`.

**DiskView, OriginalLocation.** `NothingIsLost` and `NothingOfferedIsDead` are not about
steps: the view is a function of the disks' content and of the listings that fail, and the
proof follows a partition or a volume from its listing through elevation, flattening and
hiding, for every content and every set of failures, with an error or without an answer. `TrailsLeadBack` lists the shapes a trail
of up to three labels can have (`TrailShapes`) and what the resolver makes of each. An attempt
at it showed that the branches of `Meant` overlapped for a trail of one label, where TLA+
leaves the choice open; the length is now tested first. For the requests, `LocationInv` says
that rows not known to be stale are the guest's own numbering (`RowsKnown`), and that a number
found by address on such rows is the position of the disk asked for as long as the guest has
not renumbered since (`RequestFits`). It gives `LocationTypeCorrect` and `KeysNeverMislead`
for any number of disks and renumberings. `PartitionNumbersMatch` is false, see finding 3.

Only model-checked: everything temporal beyond that (`JobSettles`, `EveryCallEnds`,
`RunnerEnds`, `IdleTabTimesOut`, `AccessEnds`, `EveryCallAnswered`, `AbandonedThreadEnds`,
`EveryDownloadEnds`, `NothingLeftBehind`), since the prover does not handle liveness under
fairness or `ENABLED`. Every invariant and every action property a passing run checks is proved.

## 6. Not modelled, and why

- Chunk arithmetic: one ceiling division; the runner's model starts from the number of
  chunks and counts the pieces its source yields.
- The network change of the deployment and the poll loop of the client: section 2, item 7.
- Browsing a guest's directories: reads, of which nothing is kept.
- The cache of drive letters (`_partition_rows_cache`): it only labels the tree.
- Interplay of two restores with the same destination: a command an earlier job gave up on
  may write under a later one. The model has one job per guest destination.
- Certificate generation, configuration parsing, version: run once, at start, on input only.
- The rest of the client and of the deployment tooling, the release script: presentation and
  interactive shell around external tools.
- Wording, logs, progress figures, quoting of guest commands, parsing of their output.
