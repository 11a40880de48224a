# TimeTraveller: a verification project

TLA+ models, TLC runs and TLAPS proofs for TimeTraveller 1.7.1, a desktop
backup tool that archives a user's or a system's files with `tar` into
zstd-framed, seekable, optionally sharded archives, full or incremental,
started by cron or from a GTK user interface. Paths below are relative to the
repository; `worker.py` and the like are in `src/timetraveller/`.

1. [The system](#1-the-system)
2. [The modules](#2-the-modules)
3. [The runs](#3-the-runs)
4. [The proofs](#4-the-proofs)
5. [What the code does differently from what it says](#5-what-the-code-does-differently-from-what-it-says)
6. [What is not modelled](#6-what-is-not-modelled)
7. [The plan](#7-the-plan)

How to run, in this directory:

    tlc -workers 2 -config MCShardWriter.cfg ShardWriter
    tlapm ShardWriterProofs.tla

    tlc -workers 2 -config MCArchiveView.cfg MCArchiveView

`PROJECT.json` lists the runs, the mutation that each property catches, the
source lines that each definition translates, the findings, the hazards and the
theorems. An operator whose comment calls it a *faulty variant* is such a
mutation; no specification uses it.

## 1. The system

### 1.1 Components

| component | source | state it keeps | operations |
|---|---|---|---|
| shard writer | `pax.py`, `framewriter.py`, `index.py` | the archive, `.frames.json` and its `.partial`, `.idx.zst` and its `.tmp`; in memory the frame list, the index queue, the captured diagnostics | `run_with_file_list`: feed names to tar, cut its output into frames, index the frames, read its diagnostics, decide the status |
| plan history | `manifest.py`, `retention.py`, `worker.py` | the rows of `manifest.json`, one per shard archive | `backup` (full, incremental, empty), retention, `--delete-cycle`, `--delete-set`, `--verify`, `--recover-failed`, `--finalize-archive` |
| manifest store | `manifest.py`, `worker.py` | `manifest.json` beside the archives, its copy in the user's state directory, a `.meta.json` per archive, the plan's lock file | load, save, mirror, rebuild from the sidecars, lock |
| plan selection and schedules | `schedule.py`, `worker.py`, `libexec/` | a block of the user's or root's crontab | write, remove, suspend and resume the block; decide whether today's run is full or incremental |
| frame verification and healing | `heal.py`, `framewriter.py`, `worker.py` | a row's status, corrupt-frame count and verify state | check each frame's checksum, re-read, find the files a bad frame touches, restore them from other cycles |
| extraction | `extract.py`, `restore_source.py`, `restore_bootstrap.py` | none | pre-flight; from a member's offset to frames to byte ranges; the fallback through `zstdcat` and `tar` |
| archive reading and search | `archive.py`, `search.py` | an in-memory cache of listings | read an index, list, search |
| plan configuration | `config.py` | plan files | parse, validate, write |
| mount filtering, launchers | `mounts.py`, `launchers.py` | none | parse `/proc/self/mountinfo`, desktop files |
| privileged helpers | `libexec/`, `polkit/` | none | check arguments, run the worker as root |
| GUI job tracking | `gui/reindex_tracker.py`, `gui/worker_runner.py` | a pid file and a done file per job | start, poll, adopt after a restart, report |
| GUI panels | `gui/*.py` | the plan and the backup selected, unsaved edits, the tree, the search and the threads behind them | show, edit, save, start commands |
| packaging | `install.sh`, `debian/`, `tools/`, `prototype/` | none | install, build |

### 1.2 How they interact

A backup (`worker.action_backup`) takes the plan's lock, loads the manifest,
picks the window of an incremental from its rows, saves an `in-progress` row
per shard, and starts one thread per shard. Each thread is one run of the
*shard writer*: the thread that called `run_with_file_list` feeds names to
`tar`, a frame thread reads tar's output, and an index thread reads the frames,
while a pump reads the diagnostics. When all shards have ended the worker
verifies the frames it wrote, records each shard's outcome, saves the manifest
and, if every shard is clean, applies the plan's retention, which groups the
rows into *shard sets* and the sets into *cycles* (a full with the incrementals
after it) and removes whole cycles.

Every other command (reindex, verify, recover, finalize, prune, delete) is a
process of its own which loads the manifest, works, and saves it whole. Only a
backup takes the lock. The GUI starts such commands in the background, one per
archive file, and reads a mirror of the manifest when the manifest itself
belongs to root.

### 1.3 What is hard, and what makes each component correct

*Shard writer.* Four threads and a process around four bounded buffers; any of
them may fail on its own (a full disk, a broken index, a log that cannot be
written, a tar that is killed) while the others must go on or unwind. It is
correct if the index describes what is in the archive, the frame list describes
the archive's frames, a crash leaves a usable partial frame list, the reported
status is not better than the archive, and the run always ends.

*Plan history.* A long sequence of legal commands, each with a guard of its
own, over rows whose meaning shifts: a verification turns a complete full into
a corrupt one, which moves incrementals between cycles, makes another cycle the
newest complete one and changes what retention may remove. It is correct if
there is always something to restore, if an incremental is never separated
from the full it builds on, if damage that can be healed is not thrown away,
and if the windows of a chain leave no gap.

*Manifest store.* Concurrent read-modify-write of a whole file, files removed
before the rows that name them, and crashes in between. It is correct if every
good row has its archive, every archive its row, and no command undoes another.

*Schedules and plans.* One plan is told in three places, the controls of the
window, the plan's file and the crontab, and the last is shared with its owner.
It is correct if the controls show the file, cron runs what the file says on
each day, and no line of the owner's is touched.

*Verification.* Reads that lie, now and then, through two layers of caches. It
is correct if a sound frame is never called corrupt, a damaged one never passes,
and a heal that reports success has brought back every file.

*Extraction.* Arithmetic over frames, and two exit codes and a text to be
understood. It is correct if a member's bytes are found exactly, and success is
reported only when everything asked for was written.

*GUI.* Results of threads and of processes that arrive after the user has
turned to something else, or the window has been closed and opened again. It is
correct if what is displayed belongs to what is selected, a job is not started
twice, and each job's outcome is told, and told as it was.

`PROJECT.json` lists, under `hazards`, each of these at the line where it
bites, with the properties that watch it.

## 2. The modules

### 2.1 `ShardWriter`

One call of `pax.run_with_file_list` on the framed path, from the start of tar
to the return or the exception.

| in the module | in the code |
|---|---|
| `main` and `MainFeed`, `MainCloseStdin`, `MainBrokenPipe`, `MainJoin` | the body of `run_with_file_list` |
| `tarRun`, `out`, `diags`, `rc`, `ended` and `Tar...` | the tar process (external): members in one or two units, diagnostics, end marker, record padding, exit, death by a signal |
| `names`, `stdout`, `stderr` | tar's three pipes, each of `PipeCap` |
| `pumpRun`, `kept`, `overflow` and `Pump...` | `_StderrCapture`: a bounded prefix is kept, the rest only noted |
| `frame`, `buf`, `frames`, `failed`, `built` and `Frame...` | `framewriter.write_framed` and `_read_full`, run by `_frame_thread` |
| `archive`, `partial`, `final`, `framed` | the archive, `.frames.json.partial`, `.frames.json` |
| `queue`, `ix`, `taken`, `ixError`, `eof`, `tmp`, `indexed`, `sidecar` and `Index...` | `index.InlineIndexWriter` with its `_QueueReader`, `.idx.zst.tmp` and `.idx.zst` |
| `Status` | `RunResult.status` |

The data are abstracted to *units* of the tar stream. `part` ends inside a
member and `whole` at a member's end, so that "the stream was cut inside a
member" and "between two members" differ, as they do to `tarfile`; `end` holds
the end-of-archive marker, `pad` is what tar writes after it. A frame is up to
`FrameSize` units. A diagnostic is benign (`changed`, `vanished`) or an
`error`. Compression, checksums, names and sizes are left out: no decision
depends on them.

A fault is an action's second outcome and uses one of `MaxFaults`: an open, a
write or an fsync that raises, an index that cannot be parsed or written, a
pump that cannot write its log, a tar that is killed. A tar that writes to a
pipe nobody reads dies of SIGPIPE without using one.

### 2.2 `PlanHistory`

The rows of one plan's manifest and every command that changes them. Commands
run one at a time; a backup takes two steps, since its `in-progress` rows are
saved before the archives are written, and it may die in between.

| in the module | in the code |
|---|---|
| `archives`, a set of `Row` | `Manifest.archives`, `ArchiveEntry` |
| `Stamp`, `Filename`, `GroupId` | the timestamp in an archive's name, the name, `group_id_for` |
| `Groups`, `Members`, `Representative`, `IsRestorable`, `IsComplete` | `group_into_sets`, `ShardSet` |
| `Opens`, `Heads`, `CycleSets`, `Complete` | `cycles`, `Cycle` |
| `SortsAfter`, `NewestComplete`, `Excess`, `WithinSize`, `Doomed`, `Pruned` | `retention.apply`, `_delete_cycles` |
| `WindowStart` | `_incremental_window` |
| `StartFull`, `StartIncremental`, `EmptyIncremental`, `FinishBackup`, `CrashBackup` | `action_backup` up to the save of the in-progress rows, its empty incremental, its end with `_finalize_one`, `_mark_corrupt_shards` and the retention that follows, a death in between |
| `Prune`, `DeleteCycle`, `DeleteSet` | `action_prune`, `action_delete_cycle`, `action_delete_set` without `--force` |
| `VerifySet`, `RecoverFailed`, `FinalizeArchive` | `_reconcile_after_verify`, `action_recover_failed`, `action_finalize_archive` |
| `run`, `busy` | the running backup; the clock readings during a run |

Details that matter and are kept:

- A scheduled run is named by its date, a manual one by date and time, and both
  are compared as strings. `Stamp` gives numbers in the same order: a manual
  full sorts after a scheduled full of its day whatever their order in time.
- `update_status` and the loops like it change the *first* row with a file name
  (`IsFirst`); `--verify` changes every row with the name (`VerifySet`).
- A row found corrupt by a backup gets `corrupt_frames > 0` (`flagged`) and keeps
  it; one found corrupt by `--verify` does not, and is not marked again while it
  is flagged.
- A row that a dead backup left `in-progress` may get a verdict from `--verify`
  when all its frames were written, and a failed row if its archive could not
  be quarantined; these verdicts are the switch `verify-unfinished` of
  `Commands`.
- Every deletion goes through the groups and cycles computed at that moment.

`ok` stands for `ok` and `ok-with-warnings`. A day is `Day` clock readings; the
policy and its limit are chosen anew at each retention, which covers a plan
edited between runs. A run may be full on any day, so the deferral of an
incremental on a full's day does not appear. Changes to files while a backup is
running may or may not be in it (`busy`); the window properties speak of the
other times only.

### 2.3 `ManifestStore`

What `PlanHistory` takes as one step, taken apart: the manifest, the files on
the mount and the processes that work on both. Every command loads
`manifest.json`, works on files, and saves the manifest it loaded, whole; other
processes may work in between, and it may die in between.

| in the module | in the code |
|---|---|
| `rows` | `manifest.json` |
| `disk` | the archive under its own name (`bare`) or as `.failed`, its `.idx.zst` (`idx`), its `.meta.json` (`meta`) |
| `meta` | the contents of each `.meta.json` |
| `job` | per process: the step it is at, the manifest it has loaded (`mine`), the archives it works on and those still to do |
| `lock` | holders of the plan's lock file; root's file is another one |
| `StartBackup`, `LoadBackup`, `SaveBegun`, `WriteShard`, `SettleShard`, `MarkCorrupt`, `Record`, `LoadPrune` | `action_backup` in its order: lock, load, save the in-progress rows, write, `_finalize_one` per shard, verify, save, `action_prune` |
| `StartDelete`, `Remove`, `Unlink`, `Drop` | the deletes, `_delete_sets`, `_delete_entry_files` |
| `StartRecover`, `Unquarantine`, `Recheck` | `action_recover_failed` |
| `StartReindex`, `Reindex` | `action_reindex` on one archive |
| `StartFinalize`, `StartVerify`, `StartRefresh`, `Save` | `action_finalize_archive`, `_reconcile_after_verify`, `--refresh-from-mount` with `manifest_from_meta`, and the save that ends each |
| `Die`, `Lose` | a process that is killed or meets an error it does not catch; a manifest that is lost |

What is deleted is any set of rows here: which rows a delete may choose is
`PlanHistory`'s matter. `doomed` is not state of the program: it names the rows
whose deletion has begun and not ended, which is when their files may be gone
already. A rename to `.failed` and a write of `.meta.json` that fail are passed
over by the code; each such step uses one of `MaxFaults`, as a death does. Frame
lists are left out, being removed and written with the archive, and so is the
user's mirror of the manifest.

### 2.4 `AtomicSave` and `SavedFile`

`ManifestStore` has a save as one step. `AtomicSave` is that step: open
`manifest.json.tmp`, write it, rename it. Names refer to inodes, since the
temporary name is shared by all processes: opening it truncates whatever is
there, a process writes to the inode it opened whatever that is called by now,
and a rename takes whatever has the name. `SavedFile` is what `save` promises:
a reader finds the whole of one saved manifest, each save takes effect at one
moment or never. `AtomicSave` implements it with `value <- content[manifest]`,
as long as no two saves overlap (`OneAtATime`).

### 2.5 `Extraction`

One `--extract` of some paths from a backup of several shards, from the
pre-flight to the exit code. A byte of a shard is its position in the stream,
so that what is written can be compared with the member, byte by byte.

| in the module | in the code |
|---|---|
| `layout`, `Packed` | the members of each shard, one behind the other, larger files first; chosen at the start, every layout of the instance |
| `PassPreflight`, `EscalateToHelper`, `Refuse` | `dest_needs_root` and `_restore_via_pkexec` |
| `StartFast`, `Matches`, `FramesNeeded`, `Ranges`, `ReadFrames` | `extract_files`, `_match_records`, `_frames_needed`, `_coalesce_to_ranges`, `_read_and_decompress_frames` |
| `SliceFirst`, `SliceMiddle`, `SliceLast`, `WriteFile` | `_slice_file_body` and the write |
| `WriteDirectory`, `WriteLink`, `SkipHardLink` | the other branches of `_write_records` |
| `ExtractNaive`, `Deliveries`, `FromTar`, `TarFails` | `_extract_naive`: what `zstdcat` delivers of a damaged archive, what `tar` writes of it, what the two exit codes and tar's diagnostics are taken for |
| `Raise`, `Finish` | an exception nobody catches; the exit code by the count |

Index and frame list are taken to describe the archive, which is what
`ShardWriter` shows of them. Modes, times and owners are left out, but for a
read-only directory (`locked`), which stops an unprivileged run from writing
below it.

### 2.6 `FrameVerify` and `Integrity`

`FrameVerify` is `heal.verify_frame_checksums` over one archive, and the three
places a read can be served from: the page cache (`client`), the store's memory
(`store`), what is stored (`media`). A fault is a frame that rots, a copy that
flips in the store's memory, or a read that returns rubbish; each uses up one
element of `Noise`, and rubbish is never the same twice.

| in the module | in the code |
|---|---|
| `Begin`, `Sweep`, `Retry`, `Classified` | the sweep over the frames with its immediate re-reads, the page cache dropped or evicted before (`posix_fadvise`) |
| `Pause`, `Recheck` | the pause and the deferred pass over the suspects |
| `check.bad`, `.recovered`, `.unstable` | the lists of `VerifyResult` |

`Integrity` is what becomes of a check: `CheckShard`, `PassOver` (an archive
without digests), `EndCheck` and `ReadError` for each shard;
`RecordBackup` (`_record_verify_states`, `_mark_corrupt_shards`), `Reconcile`
(`_reconcile_after_verify`) and, for `action_heal`, `StartHeal` with `ToCheck`,
`FramesToFiles` (`frames_to_files`), `Seek`, `PassCandidate`, `TakeCopy`,
`CopyFails`, `GiveUp` and `EndHeal` (`heal_files`, `_member_is_clean`, the exit
code). A member is of one kind in each archive and lies in a set of frames.
`rotten` is no state of the code: it names the frames that were damaged in the
store when a check began. Commands run one at a time; disks change at any
moment.

### 2.7 `Crontab` and `PlanEditor`

`Crontab` has the plan files (`config`), the crontabs of the user and of root
(`tab`) and a schedule command at work (`job`), which reads a crontab and later
writes what it made of it.

| in the module | in the code |
|---|---|
| `Valid` | `PlanConfig.validate`, of schedule and policy |
| `Rendered`, `IncrEntries`, `Block` | `schedule.render_entries`, `render_block` |
| `Walk`, `Replace`, `Removed`, `Toggle`, `Find`, `Status` | `replace_block`, `remove_block`, `suspend_block` and `resume_block`, `find_block`, `is_block_suspended` |
| `Read`, `Write`, `Fail`, `Moot` | the schedule actions of `worker.py` and of the privileged helper |
| `IsFullDay`, `IsIncrDay`, `Planned`, `Taken` | `_is_full_day`, `_is_incr_day`, the kind of `--kind auto`, and what cron's entries lead to with the deferral of `action_backup` |
| `EditTab` | the owner edits lines or comments entries out |

The three loops over the lines of a crontab are one, `Walk`, which differs in
what it makes of the markers and of the lines inside. It and `Only`, the lines
that are in a set, are recursive functions, so that they can be proved about.

`PlanEditor` is the window in front of it: the plans it has loaded, the one
selected, the controls (`form`), the unsaved-changes flag, the question on the
screen, and what the schedule tab shows.

| in the module | in the code |
|---|---|
| `Loaded`, `PlanLoaded`, `Shown` | `SchedulePanel.load_plan`, `PlanPanel.load_plan`, the two `to_plan` and their merge |
| `Edit` | the controls that a page shows |
| `Select`, `Answer`, `Save` | `_on_plan_selected` with "Discard changes?", `_save_current_plan` |
| `Press`, `SaveAndWork`, `Cancel`, `Done` | `_on_install_request`, `_on_suspend_request` with "Save first?", the end of the worker |
| `SwitchType`, `RemovePlan`, `NewPlan`, `Reopen` | `action_switch_to_archive` and `_to_active`, `action_remove_plan`, `_new_plan`, the window closed and opened |
| `Terminal`, `Owner` | a schedule command, or an edit of a crontab, from outside |

A dialog is modal and the window waits for its worker, so the actions of the
user need `Idle`. Times of day, sources, excludes and destination are one value
(`rest`), since no decision modelled here depends on them.

### 2.8 `JobTracker` and `ArchiveView`

`JobTracker` is `gui/reindex_tracker.py`: jobs that make a missing index or
recover an archive, each a wrapper shell around a worker that outlives the
window. `handle` is the tracker's, `pid` and `done` are the files, `running`
counts wrappers and `result` is how the last one ended.

| in the module | in the code |
|---|---|
| `Launch`, `LaunchFails` | `WorkerJobTracker.start` |
| `JobEnds` | the worker ends and the wrapper writes its code; or it is killed and writes none |
| `Report` | `_poll` when the process is gone |
| `Adopt` | `adopt`, when a plan is shown |
| `WindowEnds` | the window is closed, or dies, also between the two removals of `_poll` and, with `DiesAtLaunch`, between a launch and its pid file |

`ArchiveView` is the panel that shows backups: the list (`rows`, as old as the
last refresh), the selection, the tree and the thread that reads it, the search
and its threads, the label and the buttons (`note`), the restore dialog.

| in the module | in the code |
|---|---|
| `Choose` | `_on_archive_selection` with `_show_no_sidecar` |
| `Refresh`, `RefreshKeeping` | `refresh`, `_select_set` |
| `TreeLoaded`, `TreeFailed`, `Awaited` | `_on_sidecar_loaded`, `_on_sidecar_failed` and their test of `_pending_group` |
| `Kick`, `Type`, `SearchEnds` | `SearchWidget._kick`, its entry, the end of a thread |
| `Press`, `JobReported` | `_on_reindex_clicked`, `_on_recover_clicked`, `_on_job_finished` |
| `Extract`, `ExtractFound`, `Activate`, `CloseRestore` | `_on_extract`, `_on_search_extract`, `_on_search_result_activated`, the dialog |
| `SelectPlan`, `OpenTab`, `Command`, `WindowCloses` | what makes the panel list anew |
| `Backup` | cron makes a backup behind the window's back |

Files are left out: a tree or a hit stands for the files of the backup it was
read from. Two threads that read the same are one, since either may arrive
first and their results are equal.

### 2.9 The proof modules

`ShardWriterProofs`, `PlanHistoryProofs`, `ManifestStoreProofs`,
`AtomicSaveProofs`, `IntegrityProofs`, `ArchiveViewProofs`, `ExtractionProofs`
and `PlanEditorProofs` hold the theorems about each module and their lemmas; see
section 4. The `MC...` modules give the
constants of `Extraction`, `Integrity`, `PlanEditor` and `ArchiveView` their
values.

## 3. The runs

### 3.1 Shard writer

| run | what it shows |
|---|---|
| `shard_run` | `TypeOK`; `BuiltIndexIsComplete`: an index reported as built lists exactly the archive's members; `FinalDescribesArchive`: `.frames.json` describes the archive frame for frame and only the last frame is short; `PartialCoversFlushed`: what a crash leaves in the partial list is on disk, and lags by at most one flush; `OkIsWhole`: a run that reports an exit code has the end marker on disk; `RunEnds`: every run ends, whatever fails, except when the index thread waits for a second sentinel |

Bounds: three names, pipes of one unit, an index queue
of two frames, frames of two units, a flush every second frame, one diagnostic
kept, two faults. With three names of up to two units and
one or two units at the end there are up to four frames: the queue fills, a
second flush happens, the last frame may be short or full, and the end marker
may share a frame with members or padding or neither. A pipe of one unit makes
each write block in each order. One diagnostic kept makes the second one overflow.
Two faults let a failure meet a failure (a dead pump and a failed frame write,
say); a third one finds every thread already gone. The threads are not
symmetric, so no symmetry is used.

Fairness (`FairSpec`): weak fairness of each thread and of tar, that is, the
operating system schedules each of them and a blocked read or write returns
when the pipe allows it. Nothing is assumed about faults, and a fault cannot
stand in for a step for ever, since there are `MaxFaults` of them. Nothing is
assumed about order or speed.

`CHECK_DEADLOCK FALSE`: a run that has ended stops. That it does not stop
earlier is what `RunEnds` says.

### 3.2 Plan history

| run | what it shows |
|---|---|
| `plan_retention` | `KeepsACompleteCycle`: only a verify that finds it corrupt takes away the last complete cycle; `NeverReparents`: no backup, retention or unforced delete moves a set to another cycle; `RetentionSparesDamaged`: only the user deletes a damaged full that could be healed |
| `plan_sharded` | the last of these when only some shards of a full are damaged |
| `plan_window` | `NoChangeMissed`: along the chain of the latest complete full, every moment up to the last successful incremental lies in the window of a readable one |

Bounds: the clock reads `0 .. MaxTime`, and every command is one reading, or two for
a backup. Eight readings are four backups, or two backups with four commands
between and after them: enough for a full, an incremental on it, a second full, and
the verify, repair or deletion that sets one against the other. Two readings a
day let a scheduled and a manual run meet on one day, and let `max_age_days`
expire a cycle. `Limits` has 0, which every policy treats at its edge
(`max_cycles` 0 counts as 1, a size of 0 keeps only the newest), and 2 in
`plan_retention`, which keeps some and drops some. Two shards are enough for
"some but not all" and are explored over six readings, with days of three, so
that two runs of a kind meet under one name (`rerun`). `plan_window` needs a
chain of three windows, hence eight readings, and only the commands that take
rows out of the chain or turn them bad.

`NoChangeMissed` is checked with unsharded backups and without the two repairs,
because it fails with them: observations 3 and 4 of section 5.

`CHECK_DEADLOCK FALSE`: the clock bound stops the model.

### 3.3 Manifest store

| run | what it shows |
|---|---|
| `store_commands` | `TypeOK`; `FilesAreTracked`: no file is left that the manifest does not know; `RowsAreStored`: the archive of a good or corrupt row is there under its own name, that of a failed one under exactly one of its names, and an index where the row claims one, unless the row is being deleted. All commands of two processes, no command beside another, but for backups, which nothing but the lock keeps apart |
| `store_rebuild` | `RowsAreStored` when the manifest is lost and rebuilt from the sidecars |
| `save_atomic` | `SavesAreAtomic`, the refinement of `SavedFile`, for saves that do not overlap |

Bounds: two archive names are two unsharded backups or one of two shards, so a
command meets both another row of its own set and one of another set; each name
is used once, as a file name is. Two processes meet at the lock in every order.
Two faults are a death in a command and another one in the command that repairs
what the first left, or a rename passed over and then a death. `store_rebuild`
leaves out `--verify` and `--finalize-archive`, which change rows and not the
`.meta.json` that a lost manifest is rebuilt from (section 5, observation d).
`save_atomic` has two writers, three manifests and four inodes: one more inode
than are in use at any moment, so that a fresh one is always there.

These modules have no fairness: a command may stop anywhere, and nothing in
the code resumes it. `CHECK_DEADLOCK FALSE`: when the names are used up and no
command applies, the model stops.

`OneAtATime` is the assumption that no command runs beside another, unless both
are backups. The code enforces nothing of it: with `OneAtATime = FALSE` TLC
finds both `RowsAreStored` and `SavesAreAtomic` violated (section 5).

### 3.4 Extraction

| run | what it shows |
|---|---|
| `extract_run` | `WrittenIsMember`: what the fast path writes is the member, byte for byte; `FramesAreRead`: no slice takes a frame that was not read; `SuccessIsWhole`: exit code 0 means that every member asked for is there, whole, by whichever path, with two exceptions it names |

Bounds: frames of two bytes, streams of five (so three frames, the last one
short), headers of one or two bytes, two shards. A directory, a member below it
that is a file, a symbolic link or a hard link, and a file beside it, in every
layout: a file may be empty, lie within a frame, end with it, span two or three,
and share one with its neighbours. The four requests are a subtree, a file, a
subtree with a file (two ranges of frames with a gap, or one), and a directory
alone with a file, which `tar` takes for the subtree and the fast path does not.
Every frame may be the damaged one.

The two exceptions are what the code does: hard links are counted and not
written on the fast path, and a shard whose `zstdcat` failed is passed over
(`ignored`) if tar's only complaint is that a pattern was not found in it
(observation l).

### 3.5 Verification and healing

| run | what it shows |
|---|---|
| `integrity_run` | `CorruptIsDamaged`: a row marked corrupt has a damaged frame on the disk; `DamageIsFound`: a frame that is damaged when a check with a dropped page cache begins ends up bad or unstable; `HealEndsTrue`: a heal that returns 0 has recovered every file with data in a frame whose damage it could confirm |

Bounds: three shards, one without digests, two frames each, one re-read, two
faults, two other archives, of which one holds a hard link where the other has
the file, so that a candidate is passed over, taken or the last one. Two faults
suffice for one to be mistaken for the other: the same spot struck twice, in
the store's memory and on the way, or damage on the disk with a stale copy of
the sound bytes in a cache. Every command follows every other, without a bound.

`SweepClears = TRUE` says that reading the whole archive and the pause of some
seconds push a frame out of the store's memory, as the comment before the
deferred pass has it (`heal.py`). With `FALSE` a flipped copy that stays in the
store's memory is read three times alike and condemns a sound archive. With
`Retries = 0` a single bad read does.

`DamageIsFound` excludes `--verify`, which does not drop the page cache
(observation k).

### 3.6 Plans and schedules

| run | what it shows |
|---|---|
| `plan_editor` | `ShownIsSaved`: without unsaved changes the controls say what the file says; `CronFollowsPlan`: the entries of an up-to-date block take, on each day, what `--kind auto` would; `OwnerLinesKept`: whatever is done to a block, all other lines stay, in order; `SuspendStops`: after a suspend nothing of the plan fires; `RemovedIsUnscheduled`: a plan that was removed without an error has no line left |

Bounds: two plans of the user and one of root's, a week of two days and a month
of three, which let every set of weekdays, every mode and `*/n` with `n` 2 and
3 occur; one line of each owner; two steps among edits, commands from a
terminal, edits of a crontab and new plans, while all other actions are
unbounded. The start has a weekly and a monthly plan, and a switch makes an
archive plan, so that loading one kind after another happens with two edits
between them.

`Shift = 0` says that the day in UTC and cron's day are one when an entry fires,
and `Overlap = FALSE` that nobody edits a crontab between a command's reading
and writing it; without either TLC finds a violation (observation g).

### 3.7 The archive panel and its jobs

| run | what it shows |
|---|---|
| `archive_view` | `ShownIsSelected`: the tree on display is of the backup selected; `SelectedIsShown`: what is selected is displayed, awaited, or the label says why not; `ButtonsFollowJobs`: a job's button is offered only while none of its jobs is tracked; `OneJobEach`; `ReportIsTrue`: a success is reported exactly if the worker ended well and its wrapper wrote so; `LoadsEnd` and `JobsAreReported`: what is awaited arrives |
| `archive_picked` | expected violation, section 5 |

Bounds: two plans with a backup of one name, since names are dates and kinds;
one of them of two shards, of which one lacks its index, so that a tree, a job
and a mixture of both occur; a second backup that cron adds and that is not
mirrored yet. Two threads that read trees and one search may be under way when
the user acts next (`MaxLoads`, `MaxSearches`: bounds on the user's haste, not
on the panel). Two threads are enough for a late result to meet a newer
selection; that a third makes no difference is what the proof of
`ShownIsSelected` says for all bounds. Jobs, windows and selections are
unbounded.

Fairness (`Fairness`): each thread that reads a tree ends, one way or the other;
each archive's worker ends, and a window that is open polls (the tracker's GLib
timer). Both are weak: a thread stays enabled until it ends. Nothing is assumed
about the user, who may turn to another backup for ever; `LoadsEnd` says that
what is awaited stops being awaited in any case. Closing the window drops its
handles, which also ends the wait of `JobsAreReported`.

`DiesAtLaunch = FALSE` excludes a window that dies between the launch of a job
and the write of its pid file; with `TRUE` a second job is started beside the
first (observation q).

## 4. The proofs

All of it is checked by TLAPS for every value of the constants that satisfies
the module's assumption.

### 4.1 `ShardWriterProofs`

From `ShardWriterAssumption` (positive capacities, an index queue of at least
two), for any number of names, faults, and any sizes:

| theorem | statement |
|---|---|
| `ShardWriterTypes` | `Spec => []TypeOK` |
| `ShardWriterInvariant` | `Spec => []IInv` |
| `BuiltIndexTheorem` | `Spec => []BuiltIndexIsComplete` |
| `FinalDescribesTheorem` | `Spec => []FinalDescribesArchive` |
| `OkIsWholeTheorem` | `Spec => []OkIsWhole` |
| `PartialFlushedTheorem` | `Spec => []PartialCoversFlushed` |

The properties speak of what is on disk at the end; why they hold lies in what
is still under way. `IInv` says so, in five parts besides the types:

- `EndIsLast`: along archive, frame buffer, pipe and tar, nothing but padding
  follows the end marker. Without it an index that stops at the marker could
  miss members behind it.
- `QueueInOrder`: while the index thread reads, the queue holds the frames
  written and not yet taken, in order and without a gap, then the sentinel.
- `IndexCovers`: an index thread that closes without an error has taken the frame
  with the end marker, or every frame. With `EndIsLast`, the members it has seen
  are all the members.
- `FramesMatch`: the list in memory describes the archive, and a short frame
  is the last because the stream has ended behind it.
- `EndKept`: the end marker that a tar which was not killed has generated is in
  one of tar, pipe, buffer or archive, unless the frame thread has given up;
  and the frame thread has seen the end of the stream before it finishes.

`PartialCoversFlushed` needs one thing more, `Lag`: the partial list ends at a
flush boundary and is less than an interval behind while the next frame is
read, since a flush is due exactly at a boundary.

### 4.2 `PlanHistoryProofs`

From `PlanHistoryAssumption` (a day has a reading, at least one shard), for any
clock bound, number of shards, limits and set of commands:

| theorem | statement | assuming |
|---|---|---|
| `PlanInvariant` | `Spec => []PInv` | |
| `PlanTypes` | `Spec => []TypeOK` | |
| `RetentionSparesTheorem` | `Spec => RetentionSparesDamaged` | |
| `KeepsTheorem` | `Spec => KeepsACompleteCycle` | `"rerun" \notin Commands` |
| `NeverReparentsTheorem` | `Spec => NeverReparents` | `"rerun" \notin Commands` |
| `NoChangeMissedTheorem` | `Spec => []NoChangeMissed` | `Unsplit`: `MaxShards = 1` and `Commands \subseteq {"delete-cycle", "verify"}` |

`PInv` has, beside the types, `WellFormed` (rows that started at one time belong
to one set, so sets and cycles are ordered by time; clocks and ids are bounded)
and `RunForm` (the rows of the running backup are the latest and unsettled).
`NeverReparentsTheorem` adds `RunAlone`: the running backup's set has no other
rows. That is where two runs of one name must be excluded: a second run adds
rows to a set that is complete already, and the step that does so makes it
incomplete (observation c).

The arguments: a non-empty finite set of start times has a greatest element
(`GreatestInt`), so a manifest with complete cycles has a newest one
(`SomeNewest`), which no policy dooms (`DoomedFacts`) and whose rows a prune
leaves alone (`PruneKeepsNewest`). Removing *whole* cycles, or a set that opens
none, leaves the full that every other set is based on where it was
(`CutBased`), and rows added later than all others do as well (`LaterBased`).
`_delete_cycles` and the guards of the deletes are what make each deletion one
of these two forms.

`NoChangeMissedTheorem` adds `WindowInv`. `NoChangeMissed` speaks of the latest
complete cycle only and is not inductive: which cycle that is changes with every
full, prune and verify. `Chained` says of *every* incremental, whatever its
cycle and outcome, that what is too old for its window is in an earlier usable
backup, an incremental whose window it lies in or any later full. A window that
starts where the last success ended (`WindowFacts`) extends the chain by one
(`JoinedChained`, which needs `Ended`: between a backup's start and its end the
clock was `busy`), outcomes that stay usable keep it (`RenewedChained`), and a
deletion that takes a link of it takes a whole cycle, so that the full which
starts the incremental's own cycle stays and is later than the link
(`CutReaches`). `Unsplit` is needed: each of the other commands, and a second
shard, has a counterexample (observation 4) or takes one set out of a chain,
which is what `--delete-set` is for.

### 4.3 `ManifestStoreProofs`

From `ManifestStoreAssumption` and `Serial` (one user, who runs no command
beside another unless both are backups; no manifest is lost), for any number of
names, processes and faults:

| theorem | statement |
|---|---|
| `ManifestStoreInvariant` | `Spec => []MInv` |
| `ManifestStoreTypes` | `Spec => []TypeOK` |
| `FilesAreTrackedTheorem` | `Spec => []FilesAreTracked` |
| `RowsAreStoredTheorem` | `Spec => []RowsAreStored` |

`FilesAreTracked` is not inductive: a process about to save may have loaded a
manifest that lacks a row. `MInv` adds `OneBusy` (at most one process is at
work) and `Known` (the manifest that it has loaded knows every file on disk,
and the one on disk knows the names it works on, except where a save is due
before or after the files). `DoInv` reduces each action to what the one busy
process leaves; that a second backup does not start beside the first is the
lock's doing, in `StartBackupInv`.

For `RowsAreStored` the files themselves matter. `Promises` says that no archive
has both names (`OneName`), that the rows on disk and those a job has loaded
keep their promise unless they are being deleted (`Honest`), and what a job
relies on at each step (`Prepared`): a shard to be written has no files, one to
be settled is there and its row on disk still says `in-progress`, a repair
holds the manifest as it is on disk, and a deletion's rows are all doomed.
`MovePromises` again reduces each action to the one busy process. A rename or a
death between the change of a file and the save of its row is harmless because
at that moment the row on disk claims less than the files have, or its one name
of two is there.

### 4.4 `AtomicSaveProofs`

`SavesAreAtomicTheorem`: from `AtomicSaveAssumption` and `OneAtATime = TRUE`,
`Spec => SavesAreAtomic`, for any sets of writers, manifests and inodes. The
invariant says that the one writer at work has the inode of the temporary name,
which is not that of the manifest, and that it holds the whole of what is saved
once it is written; opening, writing and dying are stutters or `Begin` and
`Abandon`, the rename is `Commit`.

### 4.5 `IntegrityProofs`

From `FrameVerifyAssumption` and `IntegrityAssumption`, for any shards, frames,
candidates, indexes, re-reads and faults:

| theorem | statement | assuming |
|---|---|---|
| `IInvAlways` | `Spec => []IInv` | |
| `IntegrityTypes` | `Spec => []TypeOK` | |
| `NoFalseAlarm` | `Spec => []CorruptIsDamaged` | `Retries > 0`, `SweepClears = TRUE` |
| `DamageFound` | `Spec => []DamageIsFound` | |
| `HealIsTrue` | `Spec => []HealEndsTrue` | |

`IInv` has, beside types (`Commands`, `Copies`):

- `DiskOK`: no cache holds a fault that has not happened yet. This is what makes
  two bytes that are equal and not good evidence of damage: a fault that is
  seen again comes from a copy, or from the disk.
- `CheckOK`: a check has each frame in one list, those settled lie behind it,
  and it has seen no fault still to come.
- `Confirmed`, if `Careful`: what is held to be bad is damaged in the store, and
  the store's memory no longer holds what a suspect was seen with. A suspect
  read a third time with the same wrong bytes, the page cache evicted and the
  store's memory empty, got them from the disk.
- `Caught`: a frame rotten at the outset is in a list that is not `recovered`, or
  still ahead; no cache holds good bytes of it (`Hopeless`), so that no read of
  it can succeed. That needs the page cache dropped, hence `cmd # "verify"`.
- `Healing`: the files in bad frames are on the list of a heal, and at its end
  each is dealt with.

### 4.6 `ArchiveViewProofs`

From `ArchiveViewAssumption`, for any archives, plans and backups, any bounds on
threads, and any order in which their results arrive:

| theorem | statement | assuming |
|---|---|---|
| `VInvAlways` | `Spec => []VInv` | |
| `PanelTypes` | `Spec => []TypeOK` | |
| `TreeIsOfSelected` | `Spec => []ShownIsSelected` | |
| `SelectedHasTree` | `Spec => []SelectedIsShown` | |
| `ButtonsTellJobs` | `Spec => []ButtonsFollowJobs` | |
| `NoSecondJob` | `Spec => []OneJobEach` | `DiesAtLaunch = FALSE` |
| `ReportsAreTrue` | `Spec => ReportIsTrue` | `DiesAtLaunch = FALSE` |

`VInv` adds to the properties what makes them inductive: a tree is on display
exactly when the panel remembers its backup, and then none is awaited
(`Viewing`). `ChooseFacts`, `RefreshFacts` and `RefreshKeepingFacts` say what
the three operators behind most actions establish, whatever was there before.
`Tracked` relates a job to its files: one that runs has a pid file, no done
file and, if its plan is shown, a handle; one that has ended and is still
tracked left a done file that tells how. Adoption before the list is offered is
what maintains it when a window opens.

### 4.7 `ExtractionProofs`

From `ExtractionAssumption`, for any frame size, stream, members, layout over any
number of shards, and any request:

| theorem | statement |
|---|---|
| `Invariant` | `Spec => []EInv` |
| `ExtractionTypes` | `Spec => []TypeOK` |
| `SlicesAreMembers` | `Spec => []WrittenIsMember` |
| `NeededFramesRead` | `Spec => []FramesAreRead` |
| `SuccessTheorem` | `Spec => []SuccessIsWhole` |

Half of it is arithmetic. A run of bytes is determined by its first and its
length (`RunSlice`, `RunConcat`); a member's first and last frame enclose it and
all but the last are full (`Spans`, `FullFrame`, `EndInFrame`); so each of the
four slices of `_slice_file_body` continues the member's bytes from where the
one before left off (`SliceWithin`, `SliceFromFirst`, `SliceOn`, `SliceToEnd`).
`RangesCover` says that the maximal ranges miss no needed frame: around any
number in a finite set there is a run that ends on both sides.

`EInv` says how far a run has got: the file under way is what it is up to the
next frame (`Sliced`), nothing is written before its shard's turn
(`Untouched`), and of the shards done with everything asked for is there
(`Progress`). TLC finds `EInv` to hold on the instance of `extract_run`.

### 4.8 `PlanEditorProofs`

From `CrontabAssumption` and `PlanEditorAssumption`, for any plans, weeks,
months, owners and crontabs of any length:

| theorem | statement |
|---|---|
| `ShownIsSavedTheorem` | `FilesAreGood => (Spec => []ShownIsSaved)` |
| `TypeOKTheorem` | `FilesAreGood => (Spec => []TypeOK)` |
| `RemovedIsUnscheduledTheorem` | `FilesAreGood => (Spec => []RemovedIsUnscheduled)` |
| `SuspendStopsTheorem` | `FilesAreGood => (Spec => SuspendStops)` |
| `CronFollowsPlanTheorem` | `FilesAreGood /\ Shift = 0 => (Spec => []CronFollowsPlan)` |
| `OwnerLinesKeptTheorem` | `FilesAreGood /\ Overlap = FALSE => (Spec => OwnerLinesKept)` |

The last two are false without their second assumption (observation g): what an
owner writes between a command's reading and writing is lost, and cron's day may
not be the program's. The others hold with `Overlap` and with any `Shift`.

`FilesAreGood` says of the files at the start what the program itself keeps to:
each is valid, has `keep_all` exactly if it is an archive plan, and has days for
full backups if it is a monthly one. Of another file the tabs would save a
different plan (observation i).

The controls hold more than any plan: a page for each mode, of which one is
read, and values left over from the plan shown before. `TabsSave` says field by
field what would be saved; `LoadedTabs` that right after a load this is the plan
loaded, whatever the controls held. `EditInv` therefore needs no more than that
the controls and the plan under edit have their types, that all files are good
(`SavedIsGood`, `SwitchedIsGood` and `DefaultsAreGood` are why they stay so), and
that the window's list is what the files give. `AskInv` is about the dialogs:
"Save first?" is asked only with a plan selected, so that a save has a file to
go to.

The crontabs are proved about in four steps.

1. What the recursive definitions compute. `Least` (a set of naturals that is
   not empty has a least member, from the well-foundedness of `<`) gives
   `Induction` on an interval, without an operator as a parameter, and
   `RecursionExists` that a recursive definition has a solution; `OnlyIs` and
   `WalkIs` spell out those of `Only` and `Walk`. By induction on the lines,
   `OnlyConcat` distributes what is kept over two texts in a row, and the walk
   over a text is found in three pieces: before a block (`WalkBefore`), inside
   it (`WalkInside`) and after it (`WalkBlock`).
2. The crontabs there are. A text is `Neat` for a plan if the plan has no line
   in it (`Clear`) or its lines are one block (`IsBlock`). `Splice` replaces the
   lines from one place to another; `RewriteOwn`, `RewriteOther` and
   `RewriteOthers` say what becomes of the plan's lines, of another plan's block
   and of all lines that are not the plan's.
3. The commands. `ReplaceReworks`, `RemovedReworks` and `ToggleReworks` show
   that each of them is such a replacement (`Reworked`), that what is left after
   a removal is `Clear`, and that after a suspend every entry is off; a command
   that finds nothing to do leaves nothing that fires either (`MootStops`). The
   owner's edits leave each block in one piece (`OwnerAppends`, `OwnerRemoves`,
   `OwnerComments`). `BlockIsWhole` and `RenderedShape` are about what is
   installed: at most two entries, of which the first fires on the days of full
   backups and the other on those of incrementals; hence `TakenIsPlanned`.
4. The invariant. `TabInv` says that the crontabs are neat and that a plan
   removed without an error is in none. It is not inductive alone: a command
   writes a text that it made from an older crontab. `JobInv` says of that text
   what `TabInv` says of the crontabs, for the plans removed meanwhile too, that
   a plan with a command at work still has its file, that the text to be written
   by a suspend has nothing that fires and, without `Overlap`, the lines of the
   others as they are in the crontab.

### 4.9 Model-checked only

`RunEnds`, `LoadsEnd` and `JobsAreReported` are liveness, which the prover does
not reach; their fairness is described above. Of `WithinSize`, a recursive
function over sets of cycles, it is proved only that it leaves the newest cycle
alone (`Doomed` removes it in any case).

## 5. What the code does differently from what it says

`archive_picked` is a run that TLC must find violated. Backups are named by date
and kind, so two plans have backups of one name, and the panel recognises a
late tree by that name alone (`archive_panel.py:420`: "Drop the result if the
user selected another backup while this one was loading."). The tree of one
plan's backup is shown for the other plan's, and a restore takes the paths
picked from it out of the wrong backup.

What follows was met while modelling; each is reproduced by a change of a cfg or
of one definition, named with it.

1. An index thread that meets the end of a cut stream consumes the sentinel,
   raises, and then drains the queue *until the sentinel* (`index.py:301`).
   Nobody puts a second one: `abort()` and `finish()` (`index.py:256`: "Unblock +
   join the builder without raising") wait for ever, and so does the backup:
   `RunEnds` without its exception `SentinelSpent`.
2. A negative return code (tar killed by a signal) is judged by the captured
   diagnostics; if all of them are benign the truncated archive is
   `ok-with-warnings` (`pax.py:484`), although `pax.py:483` speaks of codes of
   two and more: `OkIsWhole` for a negative code.
3. Retention orders cycles by the string of their id (`retention.py:49`), and a
   manual full's id sorts after that of a scheduled full later on the same day:
   the prune after the scheduled full deletes it, although `retention.py:6-8`
   says that the newest cycle is always kept.
4. One good shard of a failed backup moves the next incremental's window past
   what the failed shards did not archive (`worker.py:298`). A recovered or
   finalized archive, stamped with the time of the repair, does the same:
   `NoChangeMissed` in `PlanWindow.cfg` with `MaxShards = 2`, or with
   `"recover-failed"` among its commands.
5. A reindex, or any other command without the lock, saves the manifest it
   loaded before a backup began (`worker.py:874-886`): the backup's rows are
   lost. `RowsAreStored` in `StoreCommands.cfg` with `OneAtATime = FALSE`.

- a. All processes save through one temporary name (`manifest.py:367`), so two
  saves at once can put a cut manifest in place: `AtomicSave.cfg` with
  `OneAtATime = FALSE`.
- b. The lock files of root and of the user are two files
  (`worker.py:2156-2163`): with `Root = {p2}` in `StoreCommands.cfg` a backup
  undoes the rows of another one.
- c. Two runs of a kind under one file name: `update_status` changes the first
  row of that name, and the second one stays `in-progress` for ever
  (`manifest.py:73-77`).
- d. `--recover-failed`, `--finalize-archive` and `--verify` change the row and
  not its `.meta.json`, so that a manifest rebuilt from these brings back the
  old status. After `--finalize-archive --status failed` and a failed recovery
  an `ok` row comes back for an archive that is named `.failed`: `RowsAreStored`
  with `"lose"` among the commands of `StoreCommands.cfg`.
- e. `--finalize-archive --status failed` does not quarantine the archive,
  although `worker.py:947` speaks of a failed-status, `.failed`-on-disk
  invariant.
- f. After a full found corrupt, the next incremental's window starts before
  that full (`worker.py:298`), although `manifest.py:305-306` says that such an
  incremental is computed against it.
- g. A crontab is read, changed and written without a lock: with `Overlap = TRUE`
  an edit in between is lost (`OwnerLinesKept`). cron fires by the local day and
  the worker asks for the day in UTC: with `Shift # 0` an incremental is put off
  on the wrong day (`CronFollowsPlan`). A block without its end marker takes the
  rest of the crontab with it (`Walk`); the user's commands then see no block
  and do nothing, while root's helper removes to the end.
- h. Switching a plan to archive leaves its cron entries in place
  (`worker.py:1810-1839`) and the window then offers no way to remove them,
  although `main_window.py:506` says "The plan will not be scheduled (no cron
  entries)."
- i. "Discard changes?" answered with Cancel selects the current plan again,
  which loads it again: the edits are lost all the same (`Answer`). An active
  plan with `keep_all`, written by hand, is saved with another policy. A saved
  schedule is not installed anew, so cron fires the old entries while the
  worker defers by the new plan. Removing a plan deletes its file even if its
  schedule could not be removed (`left`).
- j. `--heal` counts a member whose copy is a hard link as recovered, though the
  extraction leaves it out (`TakeCopy`). It checks only the shards a backup
  flagged if there are any (`ToCheck`), so damage found by `--verify` in another
  shard is left. Without frame list or index it finds nothing damaged and
  returns 0, which is why `HealEndsTrue` excludes such shards.
- k. `--verify` does not drop the page cache, so damage under a cached copy
  passes (`DropsCache`; `DamageIsFound` without `cmd # "verify"`). A check that
  finds only unstable frames clears a corrupt row.
- l. The naive path passes over a failed `zstdcat` if tar's only diagnostics say
  that a pattern was not found (`TarFails`): a shard that could not be read,
  with a pattern that another shard holds, ends as a success.
- m. The fast path never writes hard links, and sets a directory's mode before
  what is below it is written, so that a read-only directory blocks its own
  contents (`Blocked`). An exact directory pattern means the directory alone on
  the fast path and its whole subtree on the naive one.
- n. `restore_bootstrap.cycles_from` groups a corrupt full otherwise than
  `manifest.cycles` does.
- o. `any()` in `_on_reindex_clicked` and `_on_recover_clicked` starts the job of
  the first shard only, although the docstring says that they act on whichever
  shards need it (`Press`).
- p. In the panel: a search that was not cancelled in time overwrites a newer
  one's results, or shows some with an empty term (`SearchEnds`); a job that
  ends for another backup of the plan clears the user's selection
  (`JobReported`); failed jobs of other plans are not told.
- q. A window that dies between a launch and its pid file leaves a job that
  nobody adopts: `OneJobEach` with `DiesAtLaunch = TRUE`. A job that ended while
  no window was open is dropped without a word (`Adopt`).

## 6. What is not modelled

- In `ShardWriter`: the unframed `tar | zstd` pipe (`pax.run`), the second pass
  that rebuilds an index (`index.write_sidecar`), zstd, and the death of the
  worker process itself; `PartialCoversFlushed`, `FinalDescribesArchive` and
  `BuiltIndexIsComplete` hold at every moment and so describe what such a death
  leaves.
- In `PlanHistory`: `--force`, which overrides the guards on purpose; reindex
  and heal, which change nothing these decisions read; the deferral of an
  incremental, which is `Crontab`'s; commands that overlap, which are
  `ManifestStore`'s.
- In `ManifestStore`: the mirror of the manifest, `--force`, export (which
  copies and changes nothing), a reindex of several archives in one command,
  the restore descriptor; a file that appears while `_delete_entry_files` is at
  work is removed with the others, though the code lists the files first.
- In `Extraction`: modes, times and owners; a backup found without its
  configuration (`restore_source.py`, `restore_bootstrap.py`); the report on
  launchers.
- In `Integrity`: what tar says of an archive without digests; several commands
  at once.
- In `Crontab` and `PlanEditor`: times of day, the parsing of YAML in its older
  forms, sources and destination; the deletion of cycles that goes with a switch
  to archive, which is `PlanHistory`'s.
- In `JobTracker`: a pid that is given to another process after a job was
  adopted; the poll by pid does not notice. In `ArchiveView`: the contents of
  indexes and of results, backups in a foreign directory, the restore itself,
  which is `Extraction`'s.
- Mount and desktop-file parsing are pure functions over tables, and packaging
  has no logic of the running system.

## 7. The plan

Done: all modules of section 2, with the proofs of section 4.

Left, in this order:

1. The mirror of the manifest, as a part of `ManifestStore`: what the window
   reads after a privileged command that failed or was not made.
2. `ManifestStore` with one command at a time refines the single steps of
   `PlanHistory`, for the rows the two have in common.
   What `WithinSize` removes, for all cycles, by the induction of
   `PlanEditorProofs`.
3. The shard threads of one backup over an abstract shard writer, which
   `ShardWriter` is shown to implement; the disk-space guard.
