--------------------------- MODULE ManifestStore ---------------------------
(***************************************************************************)
(* What one plan keeps on the backup mount: the rows of manifest.json and, *)
(* per row, the archive under its own name or quarantined as .failed, its  *)
(* index and its .meta.json.  Every command is a process of its own that   *)
(* loads the manifest, works on the files, and saves the manifest whole.   *)
(* Only a backup takes the plan's lock.                                    *)
(*                                                                         *)
(* Sets and cycles, which decide what is deleted, are PlanHistory's: here  *)
(* a deletion takes any rows.  A save is one step (see AtomicSave).  "ok"  *)
(* stands for ok and ok-with-warnings.                                     *)
(***************************************************************************)
EXTENDS Integers, FiniteSets, Functions

CONSTANTS
    Name,       \* archive file names, each taken by one backup at most
    Proc,       \* processes
    Root,       \* those that run as root
    Commands,   \* commands issued besides backups
    OneAtATime, \* no command but a backup starts while another runs, and
                \* no backup while a command that is not a backup runs
    MaxFaults   \* bound on deaths, writes and renames that fail, and losses

ASSUME ManifestStoreAssumption ==
    /\ Root \subseteq Proc
    /\ Commands \subseteq {"delete", "recover-failed", "reindex", "verify",
                           "finalize-archive", "refresh", "lose"}
    /\ OneAtATime \in BOOLEAN
    /\ MaxFaults \in Nat

Statuses == {"in-progress", "ok", "corrupt", "failed", "empty"}
Rows == [status : Statuses, index : BOOLEAN]

Steps == {"idle", "load", "begin", "write", "settle", "mark", "record",
          "prune", "unlink", "drop", "rename", "check", "index", "save"}

\* The files of a row and the order _delete_entry_files removes them in.
Files == {"bare", "failed", "idx", "meta"}
Rank == [bare |-> 1, failed |-> 2, idx |-> 3, meta |-> 4]

VARIABLES
    rows,   \* manifest.json, from names to rows
    disk,   \* the files of each name
    meta,   \* what each .meta.json holds, if it is there
    unused, \* names that no backup has taken yet
    lock,   \* processes that hold the plan's lock
    job,    \* what each process is doing
    doomed, \* names whose deletion has begun and not ended
    faults  \* faults left

vars == <<rows, disk, meta, unused, lock, job, doomed, faults>>

Row(status, index) == [status |-> status, index |-> index]

\* Manifest m with row r for each name of S.
With(m, S, r) == [n \in DOMAIN m \cup S |-> IF n \in S THEN r ELSE m[n]]

\* A process at step `at`, with the manifest it has loaded, the names it works
\* on and those it has not done yet.
Job(at, mine, target, todo) ==
    [at |-> at, mine |-> mine, target |-> target, todo |-> todo]
NoRows == [n \in {} |-> Row("ok", FALSE)]
NoJob == Job("idle", NoRows, {}, {})

Do(p, at, mine, target, todo) ==
    job' = [job EXCEPT ![p] = Job(at, mine, target, todo)]

\* Faulty variant of DoNext: the name is taken from the wrong list.
DoNextWrongList(p, n, mine, then) ==
    LET j == job[p]
    IN  IF j.todo = {n} THEN Do(p, then, mine, j.target, j.target)
        ELSE Do(p, j.at, mine, j.target \ {n}, j.todo)

\* Step `at` is done for name n: the same for the next name, or on to `then`.
DoNext(p, n, mine, then) ==
    LET j == job[p]
    IN  IF j.todo = {n} THEN Do(p, then, mine, j.target, j.target)
        ELSE Do(p, j.at, mine, j.target, j.todo \ {n})

\* The process ends, and its lock goes with it.
End(p) ==
    /\ job' = [job EXCEPT ![p] = NoJob]
    /\ lock' = lock \ {p}

AllIdle == \A p \in Proc : job[p].at = "idle"
Free(p) == job[p].at = "idle" /\ (OneAtATime => AllIdle)

Fault == faults > 0 /\ faults' = faults - 1

\* The files of an archive that is renamed to .failed.
Quarantined(files) ==
    IF "bare" \in files THEN (files \ {"bare"}) \cup {"failed"} ELSE files

Init ==
    /\ rows = NoRows
    /\ disk = [n \in Name |-> {}]
    /\ meta = [n \in Name |-> Row("ok", FALSE)]
    /\ unused = Name
    /\ lock = {}
    /\ job = [p \in Proc |-> NoJob]
    /\ doomed = {}
    /\ faults = MaxFaults

-----------------------------------------------------------------------------
(* action_backup *)

\* No command that is not a backup is running.
OnlyBackupsRun == \A p \in Proc \ lock : job[p].at = "idle"

\* Faulty variant of StartBackup: a lock that is taken is not minded.
StartBackupUnlocked(p) ==
    /\ job[p].at = "idle" /\ (OneAtATime => OnlyBackupsRun)
    /\ lock' = lock \cup {p}
    /\ Do(p, "load", NoRows, {}, {})
    /\ UNCHANGED <<rows, disk, meta, unused, doomed, faults>>

\* _acquire_plan_lock; a process that finds the lock taken exits.
StartBackup(p) ==
    /\ job[p].at = "idle" /\ (OneAtATime => OnlyBackupsRun)
    /\ \A q \in lock : (q \in Root) # (p \in Root)
    /\ lock' = lock \cup {p}
    /\ Do(p, "load", NoRows, {}, {})
    /\ UNCHANGED <<rows, disk, meta, unused, doomed, faults>>

\* Load, and append a row per shard, or one for an empty incremental; an
\* incremental without a full ends.
LoadBackup(p) ==
    /\ job[p].at = "load"
    /\ \/ /\ \E S \in SUBSET unused \ {{}} :
              /\ unused' = unused \ S
              /\ \/ Do(p, "begin",
                       With(rows, S, Row("in-progress", FALSE)), S, S)
                 \/ /\ Cardinality(S) = 1
                    /\ Do(p, "record",
                          With(rows, S, Row("empty", FALSE)), S, S)
          /\ UNCHANGED lock
       \/ End(p) /\ UNCHANGED unused
    /\ UNCHANGED <<rows, disk, meta, doomed, faults>>

\* Faulty variant of SaveBegun: the rows are saved at the end only.
SaveBegunLate(p) ==
    /\ job[p].at = "begin"
    /\ Do(p, "write", job[p].mine, job[p].target, job[p].target)
    /\ UNCHANGED <<rows, disk, meta, unused, lock, doomed, faults>>

\* The in-progress rows are saved before any archive is written.
SaveBegun(p) ==
    /\ job[p].at = "begin"
    /\ rows' = job[p].mine
    /\ Do(p, "write", job[p].mine, job[p].target, job[p].target)
    /\ UNCHANGED <<disk, meta, unused, lock, doomed, faults>>

\* A shard is written, with its inline index if that works.
WriteShard(p) ==
    /\ job[p].at = "write"
    /\ \E n \in job[p].todo, built \in SUBSET {"idx"} :
        /\ disk' = [disk EXCEPT ![n] = @ \cup {"bare"} \cup built]
        /\ DoNext(p, n, job[p].mine, "settle")
    /\ UNCHANGED <<rows, meta, unused, lock, doomed, faults>>

\* _finalize_one: a failed archive is quarantined, any other is indexed if it
\* is not yet; .meta.json is written.  A rename or a .meta.json that fails is
\* passed over.
SettleShard(p) ==
    /\ job[p].at = "settle"
    /\ \E n \in job[p].todo, now \in SUBSET Files, r \in Rows,
          described \in BOOLEAN :
        /\ \/ /\ r = Row("failed", FALSE)
              /\ now \in {disk[n], Quarantined(disk[n])}
           \/ /\ r = Row("ok", "idx" \in now)
              /\ \/ now = disk[n]
                 \/ "bare" \in disk[n] /\ now = disk[n] \cup {"idx"}
        /\ IF described /\ (r.status = "failed" => "bare" \notin now)
           THEN UNCHANGED faults ELSE Fault
        /\ disk' = [disk EXCEPT ![n] =
                       IF described THEN now \cup {"meta"} ELSE now]
        /\ meta' = [meta EXCEPT ![n] = IF described THEN r ELSE @]
        /\ DoNext(p, n, With(job[p].mine, {n}, r), "mark")
    /\ UNCHANGED <<rows, unused, lock, doomed>>

\* _record_verify_states and _mark_corrupt_shards.
MarkCorrupt(p) ==
    /\ job[p].at = "mark"
    /\ LET mine == job[p].mine
           good == {n \in job[p].target : mine[n].status = "ok"}
       IN  \E bad \in SUBSET good, described \in SUBSET good :
            LET m == [n \in DOMAIN mine |->
                         IF n \in bad THEN Row("corrupt", mine[n].index)
                         ELSE mine[n]]
            IN  /\ IF described = good THEN UNCHANGED faults ELSE Fault
                /\ disk' = [n \in Name |->
                               IF n \in described THEN disk[n] \cup {"meta"}
                               ELSE disk[n]]
                /\ meta' = [n \in Name |->
                               IF n \in described THEN m[n] ELSE meta[n]]
                /\ Do(p, "record", m, job[p].target, job[p].target)
    /\ UNCHANGED <<rows, unused, lock, doomed>>

\* The outcome is saved; a clean backup goes on to the prune.
Record(p) ==
    /\ job[p].at = "record"
    /\ rows' = job[p].mine
    /\ \/ /\ \A n \in job[p].target : rows'[n].status \in {"ok", "empty"}
          /\ Do(p, "prune", NoRows, {}, {})
          /\ UNCHANGED lock
       \/ End(p)
    /\ UNCHANGED <<disk, meta, unused, doomed, faults>>

-----------------------------------------------------------------------------
(* Deletions: _delete_sets *)

Remove(p, S) ==
    /\ Do(p, "unlink", rows, S, S)
    /\ doomed' = doomed \cup S
    /\ UNCHANGED <<rows, disk, meta, unused, lock, faults>>

\* The manifest is loaded again for the retention that follows a backup.
LoadPrune(p) ==
    /\ job[p].at = "prune"
    /\ \/ \E S \in SUBSET DOMAIN rows \ {{}} : Remove(p, S)
       \/ End(p) /\ UNCHANGED <<rows, disk, meta, unused, doomed, faults>>

\* --prune, --delete-cycle, --delete-set.
StartDelete(p) ==
    /\ "delete" \in Commands /\ Free(p)
    /\ \E S \in SUBSET DOMAIN rows \ {{}} : Remove(p, S)

\* _delete_entry_files, one file at a time; then the row is dropped.  A file
\* that appears in the meantime is removed as well.
Unlink(p) ==
    /\ job[p].at = "unlink"
    /\ \E n \in job[p].todo :
       \/ /\ \E f \in disk[n] :
              /\ \A g \in disk[n] : Rank[f] <= Rank[g]
              /\ disk' = [disk EXCEPT ![n] = @ \ {f}]
          /\ UNCHANGED job
       \/ /\ disk[n] = {}
          /\ DoNext(p, n, Restrict(job[p].mine, DOMAIN job[p].mine \ {n}),
                    "drop")
          /\ UNCHANGED disk
    /\ UNCHANGED <<rows, meta, unused, lock, doomed, faults>>

Drop(p) ==
    /\ job[p].at = "drop"
    /\ rows' = job[p].mine
    /\ doomed' = doomed \ job[p].target
    /\ End(p)
    /\ UNCHANGED <<disk, meta, unused, faults>>

-----------------------------------------------------------------------------
(* The repairs *)

StartRecover(p) ==
    /\ "recover-failed" \in Commands /\ Free(p)
    /\ \E n \in DOMAIN rows :
        /\ rows[n].status = "failed"
        /\ Do(p, "rename", rows, {n}, {n})
    /\ UNCHANGED <<rows, disk, meta, unused, lock, doomed, faults>>

\* The archive gets its bare name back, which it may have already.
Unquarantine(p) ==
    /\ job[p].at = "rename"
    /\ \E n \in job[p].target :
       \/ /\ "failed" \in disk[n]
          /\ disk' = [disk EXCEPT ![n] = (@ \ {"failed"}) \cup {"bare"}]
          /\ Do(p, "check", job[p].mine, {n}, {n})
          /\ UNCHANGED lock
       \/ /\ "failed" \notin disk[n] /\ "bare" \in disk[n]
          /\ Do(p, "check", job[p].mine, {n}, {n})
          /\ UNCHANGED <<disk, lock>>
       \/ /\ disk[n] \cap {"bare", "failed"} = {}
          /\ End(p)
          /\ UNCHANGED disk
    /\ UNCHANGED <<rows, meta, unused, doomed, faults>>

\* write_sidecar reads the whole stream: the row is good, or the archive is
\* quarantined again, if that works.
Recheck(p) ==
    /\ job[p].at = "check"
    /\ \E n \in job[p].target :
       \/ /\ "bare" \in disk[n]
          /\ disk' = [disk EXCEPT ![n] = @ \cup {"idx"}]
          /\ Do(p, "save", With(job[p].mine, {n}, Row("ok", TRUE)), {n}, {n})
          /\ UNCHANGED <<lock, faults>>
       \/ /\ \/ disk' = [disk EXCEPT ![n] = Quarantined(@)] /\ UNCHANGED faults
             \/ "bare" \in disk[n] /\ Fault /\ UNCHANGED disk
          /\ End(p)
    /\ UNCHANGED <<rows, meta, unused, doomed>>

StartReindex(p) ==
    /\ "reindex" \in Commands /\ Free(p)
    /\ \E n \in Name :
        /\ "bare" \in disk[n]
        /\ Do(p, "index", rows, {n}, {n})
    /\ UNCHANGED <<rows, disk, meta, unused, lock, doomed, faults>>

\* The stream is indexed or found unreadable; an archive without a row gets an
\* index and nothing else.  A .meta.json that fails is passed over.
Reindex(p) ==
    /\ job[p].at = "index"
    /\ \E n \in job[p].target, described \in BOOLEAN :
       \/ /\ "bare" \in disk[n] /\ n \in DOMAIN job[p].mine
          /\ LET r == Row(job[p].mine[n].status, TRUE)
             IN  /\ disk' = [disk EXCEPT ![n] = @ \cup {"idx"} \cup
                                IF described THEN {"meta"} ELSE {}]
                 /\ meta' = [meta EXCEPT ![n] = IF described THEN r ELSE @]
                 /\ Do(p, "save", With(job[p].mine, {n}, r), {n}, {n})
          /\ IF described THEN UNCHANGED faults ELSE Fault
          /\ UNCHANGED lock
       \/ /\ "bare" \in disk[n] /\ n \notin DOMAIN job[p].mine
          /\ disk' = [disk EXCEPT ![n] = @ \cup {"idx"}]
          /\ Do(p, "save", job[p].mine, {n}, {n})
          /\ UNCHANGED <<meta, lock, faults>>
       \/ End(p) /\ UNCHANGED <<disk, meta, faults>>
    /\ UNCHANGED <<rows, unused, doomed>>

\* --finalize-archive, without --force.
StartFinalize(p) ==
    /\ "finalize-archive" \in Commands /\ Free(p)
    /\ \E n \in DOMAIN rows, status \in {"ok", "failed"} :
        /\ "bare" \in disk[n]
        /\ rows[n].status \in {"in-progress", "corrupt"}
        /\ Do(p, "save", With(rows, {n}, Row(status, "idx" \in disk[n])), {n},
              {n})
    /\ UNCHANGED <<rows, disk, meta, unused, lock, doomed, faults>>

\* --verify, once it has read the archive: it says that the archive is sound,
\* or that it is corrupt.
StartVerify(p) ==
    /\ "verify" \in Commands /\ Free(p)
    /\ \E n \in DOMAIN rows :
       \E status \in IF rows[n].status = "corrupt" THEN {"ok"}
                     ELSE {rows[n].status, "corrupt"} :
        /\ "bare" \in disk[n]
        /\ Do(p, "save", With(rows, {n}, Row(status, rows[n].index)), {n}, {n})
    /\ UNCHANGED <<rows, disk, meta, unused, lock, doomed, faults>>

\* Faulty variant of Rebuilt: whatever has an index is taken to be good.
RebuiltFromIndexes ==
    [n \in {k \in Name : "idx" \in disk[k]} |-> Row("ok", TRUE)]

\* manifest_from_meta.
Rebuilt == [n \in {k \in Name : "meta" \in disk[k]} |-> meta[n]]

\* --refresh-from-mount: a manifest without rows is rebuilt; the index flags
\* follow the disk.
StartRefresh(p) ==
    /\ "refresh" \in Commands /\ Free(p)
    /\ LET m == IF rows = NoRows THEN Rebuilt ELSE rows
       IN  Do(p, "save",
              [n \in DOMAIN m |-> Row(m[n].status, "idx" \in disk[n])], {}, {})
    /\ UNCHANGED <<rows, disk, meta, unused, lock, doomed, faults>>

Save(p) ==
    /\ job[p].at = "save"
    /\ rows' = job[p].mine
    /\ End(p)
    /\ UNCHANGED <<disk, meta, unused, doomed, faults>>

-----------------------------------------------------------------------------
(* Faults *)

\* A process is killed, or cannot write, remove or rename a file it must.
Die(p) ==
    /\ job[p].at # "idle" /\ Fault
    /\ End(p)
    /\ UNCHANGED <<rows, disk, meta, unused, doomed>>

\* manifest.json is lost, or the archives are moved without it.
Lose ==
    /\ "lose" \in Commands /\ AllIdle /\ Fault
    /\ rows' = NoRows
    /\ UNCHANGED <<disk, meta, unused, lock, job, doomed>>

-----------------------------------------------------------------------------
Backup(p) ==
    \/ StartBackup(p) \/ LoadBackup(p) \/ SaveBegun(p) \/ WriteShard(p)
    \/ SettleShard(p) \/ MarkCorrupt(p) \/ Record(p)
Deletion(p) == LoadPrune(p) \/ StartDelete(p) \/ Unlink(p) \/ Drop(p)
Repair(p) ==
    \/ StartRecover(p) \/ Unquarantine(p) \/ Recheck(p)
    \/ StartReindex(p) \/ Reindex(p)
    \/ StartFinalize(p) \/ StartVerify(p) \/ StartRefresh(p) \/ Save(p)

Next ==
    \/ \E p \in Proc : Backup(p) \/ Deletion(p) \/ Repair(p) \/ Die(p)
    \/ Lose

Spec == Init /\ [][Next]_vars

-----------------------------------------------------------------------------
IsManifest(m) ==
    /\ DOMAIN m \subseteq Name
    /\ \A n \in DOMAIN m : m[n] \in Rows

TypeOK ==
    /\ IsManifest(rows)
    /\ disk \in [Name -> SUBSET Files]
    /\ meta \in [Name -> Rows]
    /\ unused \subseteq Name /\ doomed \subseteq Name /\ lock \subseteq Proc
    /\ DOMAIN job = Proc
    /\ \A p \in Proc :
        /\ job[p] = Job(job[p].at, job[p].mine, job[p].target, job[p].todo)
        /\ job[p].at \in Steps
        /\ IsManifest(job[p].mine)
        /\ job[p].target \subseteq Name /\ job[p].todo \subseteq job[p].target
    /\ faults \in 0..MaxFaults

\* No file is ever left that the manifest does not know: rows are saved before
\* their archives are written and dropped after the files are gone, wherever a
\* process dies (_delete_sets, action_backup).
FilesAreTracked == \A n \in Name : disk[n] # {} => n \in DOMAIN rows

\* What a row promises is on disk, unless the row is being deleted: the archive
\* of a good or corrupt row under its bare name, that of a failed one under
\* exactly one of its two names, and the index where the row claims one.
RowsAreStored ==
    \A n \in DOMAIN rows \ doomed :
        /\ rows[n].status \in {"ok", "corrupt"} => "bare" \in disk[n]
        /\ rows[n].status = "failed" =>
             ("bare" \in disk[n]) # ("failed" \in disk[n])
        /\ rows[n].index => "idx" \in disk[n]

=============================================================================
