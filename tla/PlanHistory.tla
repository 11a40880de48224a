---------------------------- MODULE PlanHistory ----------------------------
(***************************************************************************)
(* The history of one plan: the rows of its manifest, how they group into  *)
(* shard sets and cycles (manifest.py), what retention and the delete      *)
(* commands remove (retention.py, worker.py), and where the next           *)
(* incremental's window starts (worker._incremental_window).               *)
(*                                                                         *)
(* Commands run one after the other here.  A backup takes two steps, its   *)
(* in-progress rows being saved before the archives are written, and it    *)
(* may die in between.  Every step reads a later clock; a row's `from` and *)
(* `started` are the bounds of the window it archived.                     *)
(*                                                                         *)
(* "ok" stands for ok and ok-with-warnings, which no decision taken here   *)
(* tells apart; sizes are counted in written archives.                     *)
(***************************************************************************)
EXTENDS Integers, FiniteSets, FiniteSetsExt

CONSTANTS
    Day,        \* clock readings in a day
    MaxTime,    \* bound on the clock
    MaxShards,  \* plan.configured_shards()
    Limits,     \* max_cycles, max_age_days and max_size_gb the plan may set
    Commands    \* commands issued besides backups and prunes

ASSUME PlanHistoryAssumption ==
    /\ Day \in Nat \ {0}
    /\ MaxTime \in Nat
    /\ MaxShards \in Nat \ {0}
    /\ Limits \subseteq Nat
    /\ Commands \subseteq {"delete-cycle", "delete-set", "verify",
                           "verify-unfinished", "recover-failed",
                           "finalize-archive", "rerun"}

Kinds == {"full", "incr"}
Statuses == {"in-progress", "ok", "failed", "corrupt", "empty"}
Policies == {"keep_all", "max_cycles", "max_age_days", "max_size_gb"}

VARIABLES
    now,      \* the last clock reading
    archives, \* the manifest's rows
    run,      \* date_started of the running backup, or 0
    busy      \* the clock readings taken while a backup was running

vars == <<now, archives, run, busy>>

\* The timestamp in an archive's name, a date, or a date and a time if the
\* run is manual, as a number that orders like the string.
Stamp(t, manual) ==
    (t \div Day) * (Day + 1) + (IF manual THEN 1 + (t % Day) ELSE 0)

Row(id, kind, shard, count, cycle, from, started, finished, status, flagged) ==
    [id |-> id, kind |-> kind, shard |-> shard, count |-> count,
     cycle |-> cycle, from |-> from, started |-> started,
     finished |-> finished, status |-> status,
     flagged |-> flagged] \* corrupt_frames > 0

\* Row e with a new outcome.
Marked(e, finished, status, flagged) ==
    Row(e.id, e.kind, e.shard, e.count, e.cycle, e.from, e.started, finished,
        status, flagged)

Filename(e) == <<e.id, e.kind, e.shard, e.count>>

\* group_id_for: the file name without its shard suffix.
GroupId(e) == <<e.id, e.kind>>

-----------------------------------------------------------------------------
(* Shard sets and cycles of a manifest m *)

Groups(m) == {GroupId(e) : e \in m}
Members(m, g) == {e \in m : GroupId(e) = g}
Started(m, g) == Min({e.started : e \in Members(m, g)})

\* members[0]: the lowest shard, the row appended first.
Representative(m, g) ==
    CHOOSE e \in Members(m, g) :
        \A f \in Members(m, g) :
            e.shard < f.shard \/ (e.shard = f.shard /\ e.started <= f.started)

CycleId(m, g) == Representative(m, g).cycle

IsRestorable(m, g) == \A e \in Members(m, g) : e.status \in {"ok", "corrupt"}

\* Faulty variant of IsComplete: one clean shard is enough.
IsCompleteIfAny(m, g) ==
    \E e \in Members(m, g) : e.status = "ok" /\ ~e.flagged

IsComplete(m, g) ==
    \A e \in Members(m, g) : e.status = "ok" /\ ~e.flagged

\* Faulty variant of Opens: a full with a corrupt frame opens no cycle.
OpensIfComplete(m, g) == g[2] = "full" /\ IsComplete(m, g)

\* A restorable full opens a cycle.
Opens(m, g) == g[2] = "full" /\ IsRestorable(m, g)

\* What comes before any such full goes to a stub cycle, headed here by its
\* first set.
Heads(m) ==
    {g \in Groups(m) :
        \/ Opens(m, g)
        \/ \A h \in Groups(m) : Started(m, g) <= Started(m, h)}

\* cycles(): the sets of the cycle that h heads, those from h up to the next
\* head.
CycleSets(m, h) ==
    LET from == Started(m, h)
        until == {Started(m, k) : k \in Heads(m)}
    IN  {g \in Groups(m) :
            /\ from <= Started(m, g)
            /\ \A t \in until : t <= from \/ Started(m, g) < t}

\* Each set with the full that its cycle starts with.
BasedOn(m) ==
    UNION {{<<g, h>> : g \in CycleSets(m, h)} : h \in {k \in Heads(m) : Opens(m, k)}}

\* The heads of the complete cycles.
Complete(m) == {h \in Heads(m) : Opens(m, h) /\ IsComplete(m, h)}

\* The complete cycle of the latest full, if there is any.
LatestComplete(m) ==
    {h \in Complete(m) : \A k \in Complete(m) : Started(m, k) <= Started(m, h)}

-----------------------------------------------------------------------------
(* Retention *)

\* complete.sort(key=cycle_id): a stable sort of cycles in start order.
SortsAfter(m, h, k) ==
    \/ CycleId(m, k) < CycleId(m, h)
    \/ CycleId(m, k) = CycleId(m, h) /\ Started(m, k) < Started(m, h)

\* newest_complete, complete[-1], if there is any.
NewestComplete(m) ==
    {h \in Complete(m) : \A k \in Complete(m) : ~SortsAfter(m, k, h)}

IsNewestCycle(m, id) == \E h \in NewestComplete(m) : CycleId(m, h) = id

\* The archives written by the cycles in C.
Size(m, C) ==
    LET sets == UNION {CycleSets(m, h) : h \in C}
    IN  Cardinality({e \in m : /\ GroupId(e) \in sets
                               /\ e.status \notin {"in-progress", "empty"}})

\* max_size_gb: greedily from the newest, which stays whatever its size.
WithinSize(m, cap) ==
    LET keep[C \in SUBSET Complete(m)] ==
            IF C = {} THEN {}
            ELSE LET h == CHOOSE h \in C : \A k \in C : ~SortsAfter(m, h, k)
                     newer == keep[C \ {h}]
                 IN  IF newer = {} \/ Size(m, newer \cup {h}) <= cap
                     THEN newer \cup {h} ELSE newer
    IN  keep[Complete(m)]

\* The complete cycles beyond the limit of the policy, at time t.
Excess(m, t, policy, limit) ==
    CASE policy = "keep_all" -> {}
      [] policy = "max_cycles" ->
           {h \in Complete(m) :
               Cardinality({k \in Complete(m) : SortsAfter(m, k, h)})
                   >= Max({limit, 1})}
      [] policy = "max_age_days" ->
           {h \in Complete(m) :
               Representative(m, h).started < t - limit * Day}
      [] policy = "max_size_gb" -> Complete(m) \ WithinSize(m, limit)

\* Faulty variant of Doomed: no floor, and max_cycles may be zero.
DoomedWithoutFloor(m, t, policy, limit) ==
    IF policy = "max_cycles"
    THEN {h \in Complete(m) :
             Cardinality({k \in Complete(m) : SortsAfter(m, k, h)}) >= limit}
    ELSE Excess(m, t, policy, limit)

\* retention.apply: never the newest complete cycle.
Doomed(m, t, policy, limit) ==
    Excess(m, t, policy, limit) \ NewestComplete(m)

\* What action_prune leaves of m: _delete_cycles drops every row of the sets
\* of the doomed cycles.
Pruned(m, t, policy, limit) ==
    LET gone == UNION {CycleSets(m, h) : h \in Doomed(m, t, policy, limit)}
    IN  {e \in m : GroupId(e) \notin gone}

-----------------------------------------------------------------------------
(* Incremental windows *)

\* Faulty variant of WindowStart: a failed run counts as well.
WindowStartAnyRun(m, t) ==
    LET ends == {e.finished : e \in m} \ {0}
    IN  IF ends # {} THEN Max(ends) ELSE (t \div Day - 1) * Day

\* _incremental_window: the end of the last successful row, or the midnight
\* before today's.
WindowStart(m, t) ==
    LET ends == {e.finished : e \in {f \in m : f.status \in {"ok", "empty"}}}
                    \ {0}
    IN  IF ends # {} THEN Max(ends) ELSE (t \div Day - 1) * Day

-----------------------------------------------------------------------------
(* action_backup *)

Init ==
    /\ now = 0 /\ archives = {} /\ run = 0 /\ busy = {}

\* Two runs of a kind share a name if both are scheduled on one day (or
\* manual within a second): the second adds rows with the same file names.
NameIsFree(id, kind) ==
    "rerun" \in Commands \/ <<id, kind>> \notin Groups(archives)

\* Faulty variant of NewRows: shard_index counts from zero.
NewRowsFromZero(id, kind, n, cycle, from, t) ==
    {Row(id, kind, i, n, cycle, from, t, 0, "in-progress", FALSE) : i \in 0..(n - 1)}

NewRows(id, kind, n, cycle, from, t) ==
    {Row(id, kind, i, n, cycle, from, t, 0, "in-progress", FALSE) : i \in 1..n}

Begin(id, kind, cycle, from) ==
    /\ run = 0 /\ now < MaxTime
    /\ NameIsFree(id, kind)
    /\ \E n \in 1..MaxShards :
           archives' = archives \cup NewRows(id, kind, n, cycle, from, now + 1)
    /\ now' = now + 1
    /\ run' = now + 1
    /\ UNCHANGED busy

StartFull ==
    \E manual \in BOOLEAN :
        LET id == Stamp(now + 1, manual) IN Begin(id, "full", id, 0)

\* Refused when no cycle is complete; some file changed in the window.
StartIncremental ==
    \E manual \in BOOLEAN, h \in LatestComplete(archives) :
        Begin(Stamp(now + 1, manual), "incr", CycleId(archives, h),
              WindowStart(archives, now + 1))

\* No file changed in the window: a row without an archive, then the prune.
EmptyIncremental ==
    /\ run = 0 /\ now + 1 < MaxTime
    /\ \E manual \in BOOLEAN, h \in LatestComplete(archives),
          policy \in Policies, limit \in Limits :
           LET id == Stamp(now + 1, manual)
               empty == Row(id, "incr", 1, 1, CycleId(archives, h),
                            WindowStart(archives, now + 1), now + 1, now + 2,
                            "empty", FALSE)
           IN  /\ NameIsFree(id, "incr")
               /\ archives' = Pruned(archives \cup {empty}, now + 2, policy,
                                     limit)
    /\ now' = now + 2
    /\ busy' = busy \cup {now + 2}
    /\ UNCHANGED run

\* update_status and its kin change the first row with the file name.
IsFirst(m, e) ==
    \A f \in m : Filename(f) = Filename(e) => e.started <= f.started

\* _finalize_one and _mark_corrupt_shards: shard i of the running backup ends
\* as result[i] says.
Settled(result, t) ==
    {LET mine == /\ IsFirst(archives, e)
                 /\ \E f \in archives :
                        f.started = run /\ Filename(f) = Filename(e)
     IN  IF ~mine THEN e
         ELSE Marked(e, t, result[e.shard],
                     e.flagged \/ result[e.shard] = "corrupt")
     : e \in archives}

\* Every shard is written, checked and recorded; retention follows if all of
\* them are clean (keep_all is --no-retention too).
FinishBackup ==
    /\ run # 0 /\ now < MaxTime
    /\ \E result \in [1..MaxShards -> {"ok", "failed", "corrupt"}] :
           LET m == Settled(result, now + 1)
               clean == \A e \in archives :
                            e.started = run => result[e.shard] = "ok"
           IN  \/ /\ ~clean
                  /\ archives' = m
               \/ /\ clean
                  /\ \E policy \in Policies, limit \in Limits :
                         archives' = Pruned(m, now + 1, policy, limit)
    /\ now' = now + 1
    /\ run' = 0
    /\ busy' = busy \cup (run + 1)..(now + 1)

\* The process dies, or a shard thread's exception is raised again.
CrashBackup ==
    /\ run # 0 /\ now < MaxTime
    /\ now' = now + 1
    /\ run' = 0
    /\ busy' = busy \cup (run + 1)..(now + 1)
    /\ UNCHANGED archives

-----------------------------------------------------------------------------
(* The other commands *)

Command(m) ==
    /\ run = 0 /\ now < MaxTime
    /\ m # archives
    /\ archives' = m
    /\ now' = now + 1
    /\ UNCHANGED <<run, busy>>

\* action_prune, and prune_to_newest_cycle with max_cycles = 1.
Prune ==
    \E policy \in Policies, limit \in Limits :
        Command(Pruned(archives, now + 1, policy, limit))

Without(gone) == {e \in archives : GroupId(e) \notin gone}

\* --delete-cycle, without --force: the first cycle with the id, unless the
\* newest complete one has it.
DeleteCycle ==
    /\ "delete-cycle" \in Commands
    /\ \E h \in Heads(archives) :
           /\ \A k \in Heads(archives) :
                  CycleId(archives, k) = CycleId(archives, h)
                      => Started(archives, h) <= Started(archives, k)
           /\ ~IsNewestCycle(archives, CycleId(archives, h))
           /\ Command(Without(CycleSets(archives, h)))

\* Faulty variant of DeleteSet: a full is deleted under its incrementals.
DeleteSetUnguarded ==
    /\ "delete-set" \in Commands
    /\ \E g \in Groups(archives) :
           /\ Opens(archives, g)
                  => ~IsNewestCycle(archives, CycleId(archives, g))
           /\ Command(Without({g}))

\* --delete-set, without --force.
DeleteSet ==
    /\ "delete-set" \in Commands
    /\ \E g \in Groups(archives) :
           /\ Opens(archives, g) =>
                  /\ CycleSets(archives, g) = {g}
                  /\ ~IsNewestCycle(archives, CycleId(archives, g))
           /\ Command(Without({g}))

\* --verify: a verdict per archive file of a set; a quarantined or empty one
\* never gets any.  What a crash left in progress gets one if its frames were
\* all written, and a failed one if it could not be quarantined, or was
\* finalized as failed.
Verifiable(g) ==
    {Filename(e) : e \in
        {f \in Members(archives, g) :
            \/ f.status \in {"ok", "corrupt"}
            \/ /\ f.status \in {"in-progress", "failed"}
               /\ "verify-unfinished" \in Commands}}

VerifySet ==
    /\ "verify" \in Commands
    /\ \E g \in Groups(archives) :
       \E bad \in SUBSET Verifiable(g), clean \in SUBSET Verifiable(g) :
           /\ bad \cap clean = {}
           /\ Command(
                {IF Filename(e) \in clean
                 THEN Marked(e, e.finished,
                             IF e.status = "corrupt" THEN "ok" ELSE e.status,
                             FALSE)
                 ELSE IF Filename(e) \in bad /\ ~e.flagged
                 THEN Marked(e, e.finished, "corrupt", FALSE)
                 ELSE e : e \in archives})

\* --recover-failed: the stream of a failed archive reads to its end.
RecoverFailed ==
    /\ "recover-failed" \in Commands
    /\ \E e \in archives :
           /\ IsFirst(archives, e) /\ e.status = "failed"
           /\ Command((archives \ {e})
                          \cup {Marked(e, now + 1, "ok", e.flagged)})

\* --finalize-archive, without --force.
FinalizeArchive ==
    /\ "finalize-archive" \in Commands
    /\ \E e \in archives, status \in {"ok", "failed"} :
           /\ IsFirst(archives, e) /\ e.status \in {"in-progress", "corrupt"}
           /\ Command((archives \ {e})
                          \cup {Marked(e, now + 1, status, e.flagged)})

-----------------------------------------------------------------------------
Backup == StartFull \/ StartIncremental \/ EmptyIncremental \/ FinishBackup
              \/ CrashBackup
Deletion == Prune \/ DeleteCycle \/ DeleteSet
Repair == VerifySet \/ RecoverFailed \/ FinalizeArchive

Next == Backup \/ Deletion \/ Repair

Spec == Init /\ [][Next]_vars

-----------------------------------------------------------------------------
IsRow(e) ==
    /\ e = Marked(e, e.finished, e.status, e.flagged)
    /\ e.id \in Int /\ e.cycle \in Int /\ e.kind \in Kinds
    /\ e.count \in 1..MaxShards /\ e.shard \in 1..e.count
    /\ e.from \in Int
    /\ e.started \in 1..now /\ e.finished \in 0..now
    /\ e.status \in Statuses /\ e.flagged \in BOOLEAN

TypeOK ==
    /\ now \in 0..MaxTime /\ run \in 0..now /\ busy \subseteq 1..now
    /\ \A e \in archives : IsRow(e)

\* Once a full has succeeded there is always a complete cycle to restore
\* from: no backup, prune or unforced delete takes the last one (retention.py
\* "there is always at least one complete cycle on disk after retention
\* runs").  Only a verify that finds it corrupt does.
KeepsACompleteCycle ==
    [][Complete(archives) # {} /\ Complete(archives') = {} => VerifySet]_vars

\* The sets that exist before and after a step, but for the running backup's.
Standing ==
    (Groups(archives) \cap Groups(archives'))
        \ {GroupId(e) : e \in {f \in archives : f.started = run}}

StandingMoves ==
    {p \in BasedOn(archives) : p[1] \in Standing}
        # {p \in BasedOn(archives') : p[1] \in Standing}

\* No backup, prune or unforced delete moves an existing set to another
\* cycle, so that an incremental is never left to be restored on a full it
\* was not taken after; only a repair that changes which fulls are usable
\* does.
NeverReparents == [][StandingMoves => Repair]_vars

\* Fulls with a shard that failed its verification, the others being fine.
Damaged(m) ==
    {g \in Groups(m) :
        /\ g[2] = "full" /\ IsRestorable(m, g)
        /\ \E e \in Members(m, g) : e.status = "corrupt" \/ e.flagged}

\* A damaged full that can still be read or healed, each shard being ok or
\* corrupt, is removed by nothing but a user's delete (manifest.cycles, on why
\* a corrupt full opens a cycle of its own).
RetentionSparesDamaged ==
    [][Damaged(archives) \subseteq Groups(archives')
           \/ DeleteCycle \/ DeleteSet]_vars

\* The chain of the latest complete full misses nothing that changed while no
\* backup was running: up to its last successful incremental, every clock
\* reading lies in the window of a readable one.
NoChangeMissed ==
    \A h \in LatestComplete(archives) :
        LET sets == CycleSets(archives, h)
            chain == {e \in archives :
                         /\ GroupId(e) \in sets /\ e.kind = "incr"
                         /\ e.status \in {"ok", "corrupt", "empty"}}
        IN  \A e \in chain, t \in (Started(archives, h) + 1)..now :
                t <= e.started /\ t \notin busy =>
                    \E f \in chain : f.from < t /\ t <= f.started

=============================================================================
