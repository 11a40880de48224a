------------------------ MODULE ManifestStoreProofs ------------------------
(***************************************************************************)
(* Commands that exclude one another leave no untracked file and keep what *)
(* their rows promise, for any number of names and processes and any       *)
(* number of deaths.                                                       *)
(*                                                                         *)
(* The first part knows of files only whether a name has any (MInv); the   *)
(* second one which they are, and what a job relies on at each step before *)
(* it saves the rows it has changed (Promises).                            *)
(***************************************************************************)
EXTENDS ManifestStore, TLAPS

\* All commands are run by one user, who starts none beside another unless
\* both are backups, which the lock keeps apart; no manifest is lost.
Serial ==
    /\ OneAtATime = TRUE
    /\ Root = {} \/ Root = Proc
    /\ "lose" \notin Commands

Busy(p) == job[p].at # "idle"

\* Steps at which a process has not loaded the manifest.
Blank == {"idle", "load", "prune"}

\* One process works at a time.
OneBusy == \A p, q \in Proc : Busy(p) /\ Busy(q) => p = q

\* The manifest it has loaded knows every file there is, and so does the one
\* on disk of the names it works on.
Known ==
    \A p \in Proc : job[p].at \notin Blank =>
        /\ \A n \in Name : disk[n] # {} => n \in DOMAIN job[p].mine
        /\ job[p].at \notin {"begin", "record", "drop"} =>
             job[p].target \subseteq DOMAIN rows
        /\ job[p].at \notin {"unlink", "drop"} =>
             job[p].target \subseteq DOMAIN job[p].mine

MInv == TypeOK /\ OneBusy /\ Known /\ FilesAreTracked

Saving == {"begin", "record", "drop"}

\* The files and rows are well typed.
StoreTypes ==
    /\ IsManifest(rows)
    /\ disk \in [Name -> SUBSET Files]
    /\ meta \in [Name -> Rows]
    /\ unused \subseteq Name /\ doomed \subseteq Name /\ lock \subseteq Proc
    /\ faults \in 0..MaxFaults

-----------------------------------------------------------------------------
(* The operators *)

LEMMA WithFacts ==
  ASSUME NEW m, IsManifest(m), NEW S \in SUBSET Name, NEW r \in Rows
  PROVE  IsManifest(With(m, S, r)) /\ DOMAIN With(m, S, r) = DOMAIN m \cup S
  BY DEF With, IsManifest

LEMMA WithOneFacts ==
  ASSUME NEW m, IsManifest(m), NEW n \in Name, NEW r \in Rows
  PROVE  /\ IsManifest(With(m, {n}, r))
         /\ DOMAIN With(m, {n}, r) = DOMAIN m \cup {n}
<1>1. {n} \in SUBSET Name
  OBVIOUS
<1> QED BY <1>1, WithFacts

LEMMA RowFacts ==
  /\ \A status \in Statuses, index \in BOOLEAN : Row(status, index) \in Rows
  /\ \A r \in Rows : r.status \in Statuses /\ r.index \in BOOLEAN
  BY DEF Row, Rows

\* A row whose index flag follows the disk.
LEMMA IndexedRowFacts ==
  ASSUME NEW status \in Statuses, NEW files
  PROVE  Row(status, "idx" \in files) \in Rows
<1>1. CASE "idx" \in files
  <2>1. Row(status, "idx" \in files) = Row(status, TRUE)
    BY <1>1 DEF Row
  <2> QED BY <2>1, RowFacts
<1>2. CASE "idx" \notin files
  <2>1. ("idx" \in files) = FALSE
    BY <1>2
  <2>2. Row(status, "idx" \in files) = Row(status, FALSE)
    BY <2>1, Zenon
  <2> QED BY <2>2, RowFacts
<1> QED BY <1>1, <1>2

LEMMA NoRowsFacts == IsManifest(NoRows) /\ DOMAIN NoRows = {}
  BY DEF NoRows, IsManifest

LEMMA JobFacts ==
  \A at, mine, target, todo :
    /\ Job(at, mine, target, todo).at = at
    /\ Job(at, mine, target, todo).mine = mine
    /\ Job(at, mine, target, todo).target = target
    /\ Job(at, mine, target, todo).todo = todo
  BY DEF Job

\* A process that moves is at the step, and with the names, it moves to; the
\* others stay where they are.
LEMMA DoFacts ==
  ASSUME TypeOK, NEW p \in Proc, NEW at, NEW mine, NEW target, NEW todo,
         Do(p, at, mine, target, todo)
  PROVE  /\ DOMAIN job' = Proc
         /\ job'[p] = Job(at, mine, target, todo)
         /\ \A q \in Proc : q # p => job'[q] = job[q]
  BY DEF TypeOK, Do

LEMMA EndFacts ==
  ASSUME TypeOK, NEW p \in Proc, End(p)
  PROVE  Do(p, "idle", NoRows, {}, {})
  BY DEF End, Do, NoJob

\* The next name, or the next step.
LEMMA DoNextFacts ==
  ASSUME TypeOK, NEW p \in Proc, NEW n, NEW mine, NEW then,
         DoNext(p, n, mine, then)
  PROVE  \E at \in {job[p].at, then}, todo \in SUBSET job[p].target :
             Do(p, at, mine, job[p].target, todo)
<1>1. job[p].todo \subseteq job[p].target
  BY DEF TypeOK
<1>2. CASE job[p].todo = {n}
  BY <1>2 DEF DoNext
<1>3. CASE job[p].todo # {n}
  <2>1. Do(p, job[p].at, mine, job[p].target, job[p].todo \ {n})
    BY <1>3 DEF DoNext
  <2> QED BY <2>1, <1>1
<1> QED BY <1>2, <1>3

-----------------------------------------------------------------------------
(* The invariant *)

LEMMA InitMInv == Init => MInv
<1> SUFFICES ASSUME Init PROVE MInv
  OBVIOUS
<1> USE DEF Init
<1>1. TypeOK
  <2>1. Row("ok", FALSE) \in Rows
    BY RowFacts DEF Statuses
  <2>2. /\ IsManifest(rows) /\ disk \in [Name -> SUBSET Files]
        /\ meta \in [Name -> Rows] /\ faults \in 0..MaxFaults
    <3>1. disk \in [Name -> SUBSET Files] /\ faults \in 0..MaxFaults
      BY ManifestStoreAssumption
    <3>2. meta \in [Name -> Rows]
      BY <2>1
    <3> QED BY <3>1, <3>2, NoRowsFacts
  <2>3. \A p \in Proc : job[p] = Job("idle", NoRows, {}, {})
    BY DEF NoJob
  <2> HIDE DEF Init
  <2>4. DOMAIN job = Proc /\ unused = Name /\ doomed = {} /\ lock = {}
    BY DEF Init
  <2>5. ASSUME NEW p \in Proc
        PROVE  /\ job[p] = Job(job[p].at, job[p].mine, job[p].target,
                               job[p].todo)
               /\ job[p].at \in Steps /\ IsManifest(job[p].mine)
               /\ job[p].target \subseteq Name
               /\ job[p].todo \subseteq job[p].target
    BY <2>3, JobFacts, NoRowsFacts DEF Steps
  <2> QED BY <2>2, <2>4, <2>5 DEF TypeOK
<1> USE NoRowsFacts, JobFacts DEF NoJob
<1>2. OneBusy /\ Known /\ FilesAreTracked
  BY DEF OneBusy, Busy, Known, FilesAreTracked, Blank
<1> QED BY <1>1, <1>2 DEF MInv

\* What is left to show for a step in which the only busy process moves.
LEMMA DoInv ==
  ASSUME MInv, NEW p \in Proc, \A q \in Proc : Busy(q) => q = p,
         NEW at \in Steps, NEW mine, IsManifest(mine),
         NEW target \in SUBSET Name, NEW todo \in SUBSET target,
         Do(p, at, mine, target, todo),
         StoreTypes', FilesAreTracked',
         at \notin Blank =>
           /\ \A n \in Name : disk'[n] # {} => n \in DOMAIN mine
           /\ at \notin Saving => target \subseteq DOMAIN rows'
           /\ at \notin {"unlink", "drop"} => target \subseteq DOMAIN mine
  PROVE  MInv'
<1> DEFINE new == Job(at, mine, target, todo)
<1>1. /\ DOMAIN job' = Proc
      /\ job'[p] = new
      /\ \A q \in Proc : q # p => job'[q] = job[q]
  BY DoFacts DEF MInv
<1>2. new.at = at /\ new.mine = mine /\ new.target = target /\ new.todo = todo
  BY JobFacts
<1> HIDE DEF new
<1>3. \A q \in Proc : q # p => job'[q].at = "idle"
  BY <1>1 DEF Busy
<1>4. TypeOK'
  <2> SUFFICES ASSUME NEW q \in Proc
               PROVE  /\ job'[q] = Job(job'[q].at, job'[q].mine,
                                       job'[q].target, job'[q].todo)
                      /\ job'[q].at \in Steps
                      /\ IsManifest(job'[q].mine)
                      /\ job'[q].target \subseteq Name
                      /\ job'[q].todo \subseteq job'[q].target
    BY <1>1 DEF StoreTypes, TypeOK, IsManifest
  <2>1. CASE q = p
    <3>1. new = Job(new.at, new.mine, new.target, new.todo)
      BY <1>2 DEF new
    <3> QED BY <2>1, <1>1, <1>2, <3>1
  <2>2. CASE q # p
    BY <2>2, <1>1 DEF MInv, TypeOK
  <2> QED BY <2>1, <2>2
<1>5. OneBusy'
  <2>1. \A q \in Proc : Busy(q)' => q = p
    BY <1>3 DEF Busy
  <2> QED BY <2>1 DEF OneBusy
<1>6. Known'
  <2> SUFFICES ASSUME NEW q \in Proc, job'[q].at \notin Blank
               PROVE  /\ \A n \in Name : disk'[n] # {} =>
                             n \in DOMAIN job'[q].mine
                      /\ job'[q].at \notin Saving =>
                           job'[q].target \subseteq DOMAIN rows'
                      /\ job'[q].at \notin {"unlink", "drop"} =>
                           job'[q].target \subseteq DOMAIN job'[q].mine
    BY DEF Known, Saving
  <2>1. q = p
    BY <1>3 DEF Blank
  <2> QED BY <2>1, <1>1, <1>2
<1> QED BY <1>4, <1>5, <1>6 DEF MInv

LEMMA EndInv ==
  ASSUME MInv, NEW p \in Proc, \A q \in Proc : Busy(q) => q = p,
         End(p), StoreTypes', FilesAreTracked'
  PROVE  MInv'
<1>1. Do(p, "idle", NoRows, {}, {})
  BY EndFacts DEF MInv
<1> QED BY <1>1, DoInv, NoRowsFacts DEF Steps, Blank

\* The same, as facts about the process that is at work.
LEMMA BusyFacts ==
  ASSUME MInv, NEW p \in Proc, job[p].at \notin Blank
  PROVE  /\ \A q \in Proc : Busy(q) => q = p
         /\ IsManifest(job[p].mine)
         /\ job[p].target \subseteq Name /\ job[p].todo \subseteq job[p].target
         /\ \A n \in Name : disk[n] # {} => n \in DOMAIN job[p].mine
         /\ job[p].at \notin Saving => job[p].target \subseteq DOMAIN rows
         /\ job[p].at \notin {"unlink", "drop"} =>
              job[p].target \subseteq DOMAIN job[p].mine
<1>1. Busy(p)
  BY DEF Busy, Blank
<1> QED BY <1>1 DEF MInv, TypeOK, OneBusy, Known, Saving

LEMMA TypesOfStores == MInv => StoreTypes
  BY DEF MInv, TypeOK, StoreTypes

LEMMA FaultFacts ==
  ASSUME MInv, Fault \/ UNCHANGED faults
  PROVE  faults' \in 0..MaxFaults
BY TypesOfStores, ManifestStoreAssumption DEF StoreTypes, Fault

LEMMA QuarantinedFacts ==
  \A files \in SUBSET Files : Quarantined(files) \in SUBSET Files
BY DEF Quarantined, Files

\* A process that starts a command other than a backup is alone.
LEMMA StartFacts ==
  ASSUME Serial, MInv, NEW p \in Proc, Free(p)
  PROVE  \A q \in Proc : Busy(q) => q = p
  BY DEF Serial, Free, AllIdle, Busy

-----------------------------------------------------------------------------
(* Backups *)

LEMMA StartBackupInv ==
  ASSUME Serial, MInv, NEW p \in Proc, StartBackup(p)
  PROVE  MInv'
<1> USE DEF StartBackup
<1>1. ASSUME NEW q \in Proc PROVE (q \in Root) <=> (p \in Root)
  <2>1. Root = {} \/ Root = Proc
    BY DEF Serial
  <2> QED BY <2>1
<1>2. lock \cap Proc = {}
  BY <1>1
<1>3. \A q \in Proc : ~ Busy(q)
  BY <1>2 DEF Serial, OnlyBackupsRun, Busy
<1>4. StoreTypes' /\ FilesAreTracked'
  BY TypesOfStores DEF StoreTypes, MInv, FilesAreTracked, IsManifest
<1> QED BY <1>3, <1>4, DoInv, NoRowsFacts DEF Steps, Blank

LEMMA LoadBackupInv ==
  ASSUME MInv, NEW p \in Proc, LoadBackup(p)
  PROVE  MInv'
<1>1. PICK S \in SUBSET unused :
        \/ /\ \/ Do(p, "begin", With(rows, S, Row("in-progress", FALSE)), S, S)
              \/ Do(p, "record", With(rows, S, Row("empty", FALSE)), S, S)
           /\ UNCHANGED lock
        \/ End(p)
  BY DEF LoadBackup
<1>2. /\ \A q \in Proc : Busy(q) => q = p
  BY DEF LoadBackup, MInv, OneBusy, Busy
<1>3. /\ UNCHANGED <<rows, disk, meta, doomed, faults>>
      /\ unused' \subseteq unused /\ lock' \subseteq lock
  BY DEF LoadBackup, End
<1>4. StoreTypes' /\ FilesAreTracked'
  BY <1>3, TypesOfStores DEF StoreTypes, MInv, FilesAreTracked, IsManifest
<1>5. S \in SUBSET Name /\ IsManifest(rows)
  BY TypesOfStores DEF StoreTypes
<1>6. \A r \in Rows : /\ IsManifest(With(rows, S, r))
                     /\ DOMAIN With(rows, S, r) = DOMAIN rows \cup S
  BY <1>5, WithFacts
<1>7. Row("in-progress", FALSE) \in Rows /\ Row("empty", FALSE) \in Rows
  BY RowFacts DEF Statuses
<1>8. \A n \in Name : disk'[n] # {} => n \in DOMAIN rows
  BY <1>3 DEF MInv, FilesAreTracked
<1>9. CASE /\ Do(p, "begin", With(rows, S, Row("in-progress", FALSE)), S, S)
           /\ UNCHANGED lock
  <2> DEFINE m == With(rows, S, Row("in-progress", FALSE))
  <2>1. IsManifest(m) /\ DOMAIN m = DOMAIN rows \cup S
    BY <1>6, <1>7
  <2>2. Do(p, "begin", m, S, S) /\ UNCHANGED lock
    BY <1>9
  <2> HIDE DEF m
  <2> QED BY <1>2, <1>3, <1>4, <1>5, <1>8, <2>1, <2>2, DoInv
             DEF Steps, Blank, Saving
<1>10. CASE /\ Do(p, "record", With(rows, S, Row("empty", FALSE)), S, S)
            /\ UNCHANGED lock
  <2> DEFINE m == With(rows, S, Row("empty", FALSE))
  <2>1. IsManifest(m) /\ DOMAIN m = DOMAIN rows \cup S
    BY <1>6, <1>7
  <2>2. Do(p, "record", m, S, S) /\ UNCHANGED lock
    BY <1>10
  <2> HIDE DEF m
  <2> QED BY <1>2, <1>3, <1>4, <1>5, <1>8, <2>1, <2>2, DoInv
             DEF Steps, Blank, Saving
<1>11. CASE End(p)
  BY <1>2, <1>4, <1>11, EndInv
<1> QED BY <1>1, <1>9, <1>10, <1>11

LEMMA SaveBegunInv ==
  ASSUME MInv, NEW p \in Proc, SaveBegun(p)
  PROVE  MInv'
<1> DEFINE j == job[p]
<1>1. j.at = "begin"
  BY DEF SaveBegun
<1>2. Do(p, "write", j.mine, j.target, j.target)
  BY DEF SaveBegun
<1>3. rows' = j.mine /\ UNCHANGED <<disk, meta, unused, lock, doomed, faults>>
  BY DEF SaveBegun
<1>4. /\ \A q \in Proc : Busy(q) => q = p
      /\ IsManifest(j.mine) /\ j.target \subseteq Name
      /\ \A n \in Name : disk[n] # {} => n \in DOMAIN j.mine
      /\ j.target \subseteq DOMAIN j.mine
  BY <1>1, BusyFacts DEF Blank
<1> HIDE DEF j
<1>5. StoreTypes' /\ FilesAreTracked'
  BY <1>3, <1>4, TypesOfStores DEF StoreTypes, FilesAreTracked, IsManifest
<1> QED BY <1>2, <1>3, <1>4, <1>5, DoInv DEF Steps, Blank, Saving

\* The files of one of its names may change at a step that leaves the rows
\* alone, and none of the other names.
LEMMA FilesStep ==
  ASSUME MInv, NEW p \in Proc, job[p].at \notin Blank \cup Saving,
         rows' = rows, disk' \in [Name -> SUBSET Files],
         \A n \in Name : disk'[n] = {} \/ disk[n] # {} \/ n \in job[p].target
  PROVE  /\ FilesAreTracked'
         /\ job[p].at # "unlink" =>
              \A n \in Name : disk'[n] # {} => n \in DOMAIN job[p].mine
<1>1. /\ \A n \in Name : disk[n] # {} => n \in DOMAIN job[p].mine
      /\ job[p].target \subseteq DOMAIN rows
      /\ job[p].at # "unlink" => job[p].target \subseteq DOMAIN job[p].mine
  BY BusyFacts DEF Saving
<1> QED BY <1>1 DEF MInv, FilesAreTracked

LEMMA WriteShardInv ==
  ASSUME MInv, NEW p \in Proc, WriteShard(p)
  PROVE  MInv'
<1> DEFINE j == job[p]
<1>1. j.at = "write"
  BY DEF WriteShard
<1>2. PICK n \in j.todo, built \in SUBSET {"idx"} :
        /\ disk' = [disk EXCEPT ![n] = @ \cup {"bare"} \cup built]
        /\ DoNext(p, n, j.mine, "settle")
  BY DEF WriteShard
<1>3. UNCHANGED <<rows, meta, unused, lock, doomed, faults>>
  BY DEF WriteShard
<1>4. /\ \A q \in Proc : Busy(q) => q = p
      /\ IsManifest(j.mine) /\ j.target \subseteq Name
      /\ j.todo \subseteq j.target
      /\ j.target \subseteq DOMAIN rows /\ j.target \subseteq DOMAIN j.mine
  BY <1>1, BusyFacts DEF Blank, Saving
<1>5. disk' \in [Name -> SUBSET Files]
      /\ \A k \in Name : disk'[k] = {} \/ disk[k] # {} \/ k \in j.target
  BY <1>2, <1>4, TypesOfStores DEF StoreTypes, Files
<1>6. /\ FilesAreTracked'
      /\ \A k \in Name : disk'[k] # {} => k \in DOMAIN j.mine
  BY <1>1, <1>3, <1>5, FilesStep DEF Blank, Saving
<1>7. StoreTypes'
  BY <1>3, <1>5, TypesOfStores DEF StoreTypes, IsManifest
<1>8. PICK at \in {"write", "settle"}, todo \in SUBSET j.target :
        Do(p, at, j.mine, j.target, todo)
  BY <1>1, <1>2, DoNextFacts DEF MInv
<1> HIDE DEF j
<1> QED BY <1>3, <1>4, <1>6, <1>7, <1>8, DoInv DEF Steps, Blank, Saving

LEMMA SettleShardInv ==
  ASSUME MInv, NEW p \in Proc, SettleShard(p)
  PROVE  MInv'
<1> DEFINE j == job[p]
<1>1. j.at = "settle"
  BY DEF SettleShard
<1>2. PICK n \in j.todo, now \in SUBSET Files, r \in Rows,
          described \in BOOLEAN :
        /\ Fault \/ UNCHANGED faults
        /\ disk' = [disk EXCEPT ![n] =
                       IF described THEN now \cup {"meta"} ELSE now]
        /\ meta' = [meta EXCEPT ![n] = IF described THEN r ELSE @]
        /\ DoNext(p, n, With(j.mine, {n}, r), "mark")
  <2>1. PICK n \in j.todo, now \in SUBSET Files, r \in Rows,
            described \in BOOLEAN :
          /\ \/ r = Row("failed", FALSE)
                /\ now \in {disk[n], Quarantined(disk[n])}
             \/ /\ r = Row("ok", "idx" \in now)
                /\ \/ now = disk[n]
                   \/ "bare" \in disk[n] /\ now = disk[n] \cup {"idx"}
          /\ IF described /\ (r.status = "failed" => "bare" \notin now)
             THEN UNCHANGED faults ELSE Fault
          /\ disk' = [disk EXCEPT ![n] =
                         IF described THEN now \cup {"meta"} ELSE now]
          /\ meta' = [meta EXCEPT ![n] = IF described THEN r ELSE @]
          /\ DoNext(p, n, With(j.mine, {n}, r), "mark")
    BY DEF SettleShard
  <2> QED BY <2>1
<1>3. UNCHANGED <<rows, unused, lock, doomed>>
  BY DEF SettleShard
<1>4. /\ \A q \in Proc : Busy(q) => q = p
      /\ IsManifest(j.mine) /\ j.target \subseteq Name
      /\ j.todo \subseteq j.target
      /\ j.target \subseteq DOMAIN rows /\ j.target \subseteq DOMAIN j.mine
  BY <1>1, BusyFacts DEF Blank, Saving
<1>5. /\ disk' \in [Name -> SUBSET Files]
      /\ \A k \in Name : disk'[k] = {} \/ disk[k] # {} \/ k \in j.target
  BY <1>2, <1>4, TypesOfStores DEF StoreTypes, Files
<1>6. /\ FilesAreTracked'
      /\ \A k \in Name : disk'[k] # {} => k \in DOMAIN j.mine
  BY <1>1, <1>3, <1>5, FilesStep DEF Blank, Saving
<1>7. StoreTypes'
  <2>1. meta' \in [Name -> Rows]
    BY <1>2, <1>4, TypesOfStores DEF StoreTypes
  <2>2. faults' \in 0..MaxFaults
    BY <1>2, FaultFacts
  <2> QED BY <1>3, <1>5, <2>1, <2>2, TypesOfStores DEF StoreTypes, IsManifest
<1> DEFINE m == With(j.mine, {n}, r)
<1>8. PICK at \in {"settle", "mark"}, todo \in SUBSET j.target :
        Do(p, at, m, j.target, todo)
  <2>1. DoNext(p, n, m, "mark")
    BY <1>2
  <2> HIDE DEF m
  <2>2. TypeOK
    BY DEF MInv
  <2> QED BY <1>1, <2>1, <2>2, DoNextFacts
<1>9. n \in Name
  BY <1>2, <1>4
<1>10. /\ IsManifest(With(j.mine, {n}, r))
       /\ DOMAIN With(j.mine, {n}, r) = DOMAIN j.mine \cup {n}
  BY <1>2, <1>4, <1>9, WithOneFacts
<1>11. /\ at \in Steps /\ at # "idle" /\ lock' = lock /\ rows' = rows
       /\ j.target \in SUBSET Name
  BY <1>3, <1>4, <1>8 DEF Steps
<1>12. /\ Do(p, at, m, j.target, todo) /\ IsManifest(m)
       /\ DOMAIN j.mine \subseteq DOMAIN m
  BY <1>8, <1>10
<1> HIDE DEF j, m
<1> QED BY <1>4, <1>6, <1>7, <1>8, <1>11, <1>12, DoInv

LEMMA MarkCorruptInv ==
  ASSUME MInv, NEW p \in Proc, MarkCorrupt(p)
  PROVE  MInv'
<1> DEFINE j == job[p]
           good == {n \in j.target : j.mine[n].status = "ok"}
           Marked(bad) == [n \in DOMAIN j.mine |->
                             IF n \in bad THEN Row("corrupt", j.mine[n].index)
                             ELSE j.mine[n]]
<1>1. j.at = "mark"
  BY DEF MarkCorrupt
<1>2. PICK bad \in SUBSET good, described \in SUBSET good :
        /\ Fault \/ UNCHANGED faults
        /\ disk' = [n \in Name |->
                       IF n \in described THEN disk[n] \cup {"meta"}
                       ELSE disk[n]]
        /\ meta' = [n \in Name |->
                       IF n \in described THEN Marked(bad)[n] ELSE meta[n]]
        /\ Do(p, "record", Marked(bad), j.target, j.target)
  BY DEF MarkCorrupt
<1>3. UNCHANGED <<rows, unused, lock, doomed>>
  BY DEF MarkCorrupt
<1>4. /\ \A q \in Proc : Busy(q) => q = p
      /\ IsManifest(j.mine) /\ j.target \subseteq Name
      /\ j.target \subseteq DOMAIN j.mine
  BY <1>1, BusyFacts DEF Blank, Saving
<1> DEFINE m == Marked(bad)
<1>5. DOMAIN m = DOMAIN j.mine
  OBVIOUS
<1>6. \A n \in DOMAIN m : m[n] \in Rows
  <2> SUFFICES ASSUME NEW n \in DOMAIN m
               PROVE  m[n] \in Rows
    OBVIOUS
  <2>1. j.mine[n] \in Rows
    BY <1>4 DEF IsManifest
  <2>2. Row("corrupt", j.mine[n].index) \in Rows
    BY <2>1, RowFacts DEF Statuses
  <2> QED BY <2>1, <2>2
<1>7. IsManifest(m)
  BY <1>4, <1>5, <1>6 DEF IsManifest
<1> HIDE DEF m
<1>8. disk' = [n \in Name |-> IF n \in described THEN disk[n] \cup {"meta"}
                              ELSE disk[n]]
  BY <1>2
<1>9. meta' = [n \in Name |-> IF n \in described THEN m[n] ELSE meta[n]]
  BY <1>2 DEF m
<1>10. Do(p, "record", m, j.target, j.target)
  BY <1>2 DEF m
<1>11. described \subseteq j.target
  BY <1>2
<1> HIDE DEF good
<1>12. /\ disk' \in [Name -> SUBSET Files]
       /\ \A k \in Name : disk'[k] = {} \/ disk[k] # {} \/ k \in j.target
  BY <1>8, <1>11, TypesOfStores DEF StoreTypes, Files
<1>13. meta' \in [Name -> Rows]
  BY <1>4, <1>5, <1>6, <1>9, <1>11, TypesOfStores DEF StoreTypes
<1>14. /\ FilesAreTracked'
       /\ \A k \in Name : disk'[k] # {} => k \in DOMAIN j.mine
  BY <1>1, <1>3, <1>12, FilesStep DEF Blank, Saving
<1>15. StoreTypes'
  <2>1. faults' \in 0..MaxFaults
    BY <1>2, FaultFacts
  <2> QED BY <1>3, <1>12, <1>13, <2>1, TypesOfStores DEF StoreTypes, IsManifest
<1> HIDE DEF j
<1> QED BY <1>3, <1>4, <1>5, <1>7, <1>10, <1>14, <1>15, DoInv
           DEF Steps, Blank, Saving

\* A step that puts the loaded manifest on disk.
LEMMA SavedFacts ==
  ASSUME MInv, NEW p \in Proc, job[p].at \notin Blank,
         rows' = job[p].mine, UNCHANGED <<disk, meta, unused, faults>>,
         doomed' \subseteq doomed, lock' \subseteq lock
  PROVE  StoreTypes' /\ FilesAreTracked'
<1>1. /\ IsManifest(job[p].mine)
      /\ \A n \in Name : disk[n] # {} => n \in DOMAIN job[p].mine
  BY BusyFacts
<1> QED BY <1>1, TypesOfStores DEF StoreTypes, FilesAreTracked, IsManifest

LEMMA RecordInv ==
  ASSUME MInv, NEW p \in Proc, Record(p)
  PROVE  MInv'
<1>1. job[p].at = "record" /\ rows' = job[p].mine
  BY DEF Record
<1>2. UNCHANGED <<disk, meta, unused, doomed, faults>> /\ lock' \subseteq lock
  BY DEF Record, End
<1>3. /\ \A q \in Proc : Busy(q) => q = p
  BY <1>1, BusyFacts DEF Blank
<1>4. StoreTypes' /\ FilesAreTracked'
  BY <1>1, <1>2, SavedFacts DEF Blank
<1>5. CASE Do(p, "prune", NoRows, {}, {}) /\ UNCHANGED lock
  BY <1>3, <1>4, <1>5, NoRowsFacts, DoInv DEF Steps, Blank
<1>6. CASE End(p)
  BY <1>3, <1>4, <1>6, EndInv
<1> QED BY <1>5, <1>6 DEF Record

-----------------------------------------------------------------------------
(* Deletions *)

\* A process that loads the manifest, adds no file and sets to work.
LEMMA LoadedInv ==
  ASSUME MInv, NEW p \in Proc, \A q \in Proc : Busy(q) => q = p,
         NEW at \in Steps \ (Blank \cup Saving), NEW mine, IsManifest(mine),
         DOMAIN rows \subseteq DOMAIN mine, NEW target \in SUBSET DOMAIN rows,
         Do(p, at, mine, target, target),
         UNCHANGED <<rows, disk, meta, unused, lock, faults>>,
         doomed' \subseteq Name
  PROVE  MInv'
<1>1. StoreTypes' /\ FilesAreTracked'
  BY TypesOfStores DEF StoreTypes, MInv, FilesAreTracked, IsManifest
<1>2. \A n \in Name : disk'[n] # {} => n \in DOMAIN mine
  BY DEF MInv, FilesAreTracked
<1>3. target \in SUBSET Name /\ target \subseteq DOMAIN mine
  BY TypesOfStores DEF StoreTypes, IsManifest
<1> QED BY <1>1, <1>2, <1>3, DoInv DEF Blank

LEMMA RemoveInv ==
  ASSUME MInv, NEW p \in Proc, \A q \in Proc : Busy(q) => q = p,
         NEW S \in SUBSET DOMAIN rows, Remove(p, S)
  PROVE  MInv'
<1>1. /\ Do(p, "unlink", rows, S, S) /\ doomed' = doomed \cup S
      /\ UNCHANGED <<rows, disk, meta, unused, lock, faults>>
  BY DEF Remove
<1>2. IsManifest(rows) /\ doomed' \subseteq Name
  BY <1>1, TypesOfStores DEF StoreTypes, IsManifest
<1>3. "unlink" \in Steps \ (Blank \cup Saving)
  BY DEF Steps, Blank, Saving
<1> QED BY <1>1, <1>2, <1>3, LoadedInv

LEMMA LoadPruneInv ==
  ASSUME MInv, NEW p \in Proc, LoadPrune(p)
  PROVE  MInv'
<1>1. /\ \A q \in Proc : Busy(q) => q = p
  BY DEF LoadPrune, MInv, OneBusy, Busy
<1>2. ASSUME NEW S \in SUBSET DOMAIN rows \ {{}}, Remove(p, S)
      PROVE  MInv'
  BY <1>1, <1>2, RemoveInv
<1>3. CASE End(p) /\ UNCHANGED <<rows, disk, meta, unused, doomed, faults>>
  <2>1. lock' \subseteq lock
    BY <1>3 DEF End
  <2>2. StoreTypes' /\ FilesAreTracked'
    BY <1>3, <2>1, TypesOfStores DEF StoreTypes, MInv, FilesAreTracked,
                                     IsManifest
  <2> QED BY <1>1, <1>3, <2>2, EndInv
<1> QED BY <1>2, <1>3 DEF LoadPrune

LEMMA StartDeleteInv ==
  ASSUME Serial, MInv, NEW p \in Proc, StartDelete(p)
  PROVE  MInv'
<1>1. Free(p)
  BY DEF StartDelete
<1>2. PICK S \in SUBSET DOMAIN rows \ {{}} : Remove(p, S)
  BY DEF StartDelete
<1> QED BY <1>1, <1>2, StartFacts, RemoveInv

LEMMA UnlinkInv ==
  ASSUME MInv, NEW p \in Proc, Unlink(p)
  PROVE  MInv'
<1> DEFINE j == job[p]
<1>1. j.at = "unlink"
  BY DEF Unlink
<1>2. PICK n \in j.todo :
        \/ /\ \E f \in disk[n] : disk' = [disk EXCEPT ![n] = @ \ {f}]
           /\ UNCHANGED job
        \/ /\ disk[n] = {} /\ UNCHANGED disk
           /\ DoNext(p, n, Restrict(j.mine, DOMAIN j.mine \ {n}), "drop")
  BY DEF Unlink
<1>3. UNCHANGED <<rows, meta, unused, lock, doomed, faults>>
  BY DEF Unlink
<1>4. /\ \A q \in Proc : Busy(q) => q = p
      /\ IsManifest(j.mine) /\ j.target \subseteq Name
      /\ j.todo \subseteq j.target
      /\ j.target \subseteq DOMAIN rows
      /\ \A k \in Name : disk[k] # {} => k \in DOMAIN j.mine
  BY <1>1, BusyFacts DEF Blank, Saving
<1>5. CASE /\ \E f \in disk[n] : disk' = [disk EXCEPT ![n] = @ \ {f}]
           /\ UNCHANGED job
  <2>1. /\ disk' \in [Name -> SUBSET Files]
        /\ \A k \in Name : disk'[k] # {} => disk[k] # {}
    BY <1>2, <1>4, <1>5, TypesOfStores DEF StoreTypes
  <2>2. TypeOK'
    BY <1>3, <1>5, <2>1 DEF MInv, TypeOK, IsManifest
  <2>3. OneBusy'
    BY <1>3, <1>5 DEF MInv, OneBusy, Busy
  <2>4. Known'
    BY <1>3, <1>5, <2>1 DEF MInv, Known
  <2>5. FilesAreTracked'
    BY <1>3, <2>1 DEF MInv, FilesAreTracked
  <2> QED BY <2>2, <2>3, <2>4, <2>5 DEF MInv
<1>6. CASE /\ disk[n] = {} /\ UNCHANGED disk
           /\ DoNext(p, n, Restrict(j.mine, DOMAIN j.mine \ {n}), "drop")
  <2> DEFINE m == Restrict(j.mine, DOMAIN j.mine \ {n})
  <2>1. IsManifest(m) /\ DOMAIN m = DOMAIN j.mine \ {n}
    BY <1>4 DEF Restrict, IsManifest
  <2>2. PICK at \in {"unlink", "drop"}, todo \in SUBSET j.target :
          Do(p, at, m, j.target, todo)
    <3>1. DoNext(p, n, m, "drop")
      BY <1>6
    <3> HIDE DEF m
    <3>2. TypeOK
      BY DEF MInv
    <3> QED BY <1>1, <3>1, <3>2, DoNextFacts
  <2>3. \A k \in Name : disk'[k] # {} => k \in DOMAIN m
    BY <1>4, <1>6, <2>1
  <2>4. StoreTypes' /\ FilesAreTracked'
    BY <1>3, <1>6, TypesOfStores DEF StoreTypes, MInv, FilesAreTracked,
                                     IsManifest
  <2>5. /\ at \in Steps /\ at # "idle" /\ lock' = lock /\ rows' = rows
        /\ j.target \in SUBSET Name
    BY <1>3, <1>4, <2>2 DEF Steps
  <2> HIDE DEF m, j
  <2>6. Do(p, at, m, j.target, todo) /\ IsManifest(m)
    BY <2>1, <2>2
  <2> QED BY <1>4, <2>2, <2>3, <2>4, <2>5, <2>6, DoInv
<1> QED BY <1>2, <1>5, <1>6

LEMMA DropInv ==
  ASSUME MInv, NEW p \in Proc, Drop(p)
  PROVE  MInv'
<1>1. /\ job[p].at = "drop" /\ rows' = job[p].mine /\ End(p)
      /\ UNCHANGED <<disk, meta, unused, faults>>
  BY DEF Drop
<1>2. doomed' \subseteq doomed /\ lock' \subseteq lock
  BY DEF Drop, End
<1>3. StoreTypes' /\ FilesAreTracked'
  BY <1>1, <1>2, SavedFacts DEF Blank
<1>4. \A q \in Proc : Busy(q) => q = p
  BY <1>1, BusyFacts DEF Blank
<1> QED BY <1>1, <1>3, <1>4, EndInv

-----------------------------------------------------------------------------
(* The repairs *)

\* A repair moves on with its one name, whose files it may have changed.
LEMMA RepairInv ==
  ASSUME MInv, NEW p \in Proc, job[p].at \in {"rename", "check", "index"},
         NEW n \in job[p].target, NEW files \in SUBSET Files,
         disk' = [disk EXCEPT ![n] = files], meta' \in [Name -> Rows],
         UNCHANGED <<rows, unused, lock, doomed>>, Fault \/ UNCHANGED faults,
         NEW at \in {"check", "save"}, NEW mine, IsManifest(mine),
         DOMAIN job[p].mine \subseteq DOMAIN mine, Do(p, at, mine, {n}, {n})
  PROVE  MInv'
<1> DEFINE j == job[p]
<1>1. /\ \A q \in Proc : Busy(q) => q = p
      /\ j.target \subseteq Name
      /\ j.target \subseteq DOMAIN rows /\ j.target \subseteq DOMAIN j.mine
  BY BusyFacts DEF Blank, Saving
<1>2. /\ disk' \in [Name -> SUBSET Files]
      /\ \A k \in Name : disk'[k] = {} \/ disk[k] # {} \/ k \in j.target
  BY <1>1, TypesOfStores DEF StoreTypes
<1>3. /\ FilesAreTracked'
      /\ \A k \in Name : disk'[k] # {} => k \in DOMAIN j.mine
  BY <1>2, FilesStep DEF Blank, Saving
<1>4. StoreTypes'
  BY <1>2, FaultFacts, TypesOfStores DEF StoreTypes, IsManifest
<1>5. /\ at \in Steps /\ at # "idle" /\ {n} \in SUBSET Name
      /\ {n} \subseteq DOMAIN rows' /\ {n} \subseteq DOMAIN mine
  BY <1>1 DEF Steps
<1>6. \A k \in Name : disk'[k] # {} => k \in DOMAIN mine
  BY <1>3
<1> QED BY <1>1, <1>3, <1>4, <1>5, <1>6, DoInv

\* A repair gives up.
LEMMA RepairEnds ==
  ASSUME MInv, NEW p \in Proc, job[p].at \in {"rename", "check", "index"},
         NEW n \in job[p].target, NEW files \in SUBSET Files,
         disk' = [disk EXCEPT ![n] = files],
         UNCHANGED <<rows, meta, unused, doomed>>, Fault \/ UNCHANGED faults,
         End(p)
  PROVE  MInv'
<1>1. /\ \A q \in Proc : Busy(q) => q = p
      /\ job[p].target \subseteq Name
  BY BusyFacts DEF Blank
<1>2. /\ disk' \in [Name -> SUBSET Files]
      /\ \A k \in Name : \/ disk'[k] = {} \/ disk[k] # {}
                         \/ k \in job[p].target
  BY <1>1, TypesOfStores DEF StoreTypes
<1>3. FilesAreTracked'
  BY <1>2, FilesStep DEF Blank, Saving
<1>4. lock' \subseteq lock
  BY DEF End
<1>5. StoreTypes'
  BY <1>2, <1>4, FaultFacts, TypesOfStores DEF StoreTypes, IsManifest
<1> QED BY <1>1, <1>3, <1>5, EndInv

\* No files change.
LEMMA SameDisk ==
  ASSUME MInv, NEW n \in Name, UNCHANGED disk
  PROVE  disk[n] \in SUBSET Files /\ disk' = [disk EXCEPT ![n] = disk[n]]
  BY TypesOfStores DEF StoreTypes

LEMMA StartRecoverInv ==
  ASSUME Serial, MInv, NEW p \in Proc, StartRecover(p)
  PROVE  MInv'
<1>1. Free(p)
  BY DEF StartRecover
<1>2. PICK n \in DOMAIN rows : Do(p, "rename", rows, {n}, {n})
  BY DEF StartRecover
<1>3. UNCHANGED <<rows, disk, meta, unused, lock, doomed, faults>>
  BY DEF StartRecover
<1>4. "rename" \in Steps \ (Blank \cup Saving)
  BY DEF Steps, Blank, Saving
<1>5. IsManifest(rows) /\ doomed' \subseteq Name /\ {n} \in SUBSET DOMAIN rows
  BY <1>3, TypesOfStores DEF StoreTypes
<1> QED BY <1>1, <1>2, <1>3, <1>4, <1>5, StartFacts, LoadedInv

LEMMA UnquarantineInv ==
  ASSUME MInv, NEW p \in Proc, Unquarantine(p)
  PROVE  MInv'
<1>1. job[p].at = "rename"
  BY DEF Unquarantine
<1>2. UNCHANGED <<rows, meta, unused, doomed, faults>>
  BY DEF Unquarantine
<1>3. PICK n \in job[p].target :
        \/ /\ disk' = [disk EXCEPT ![n] = (@ \ {"failed"}) \cup {"bare"}]
           /\ Do(p, "check", job[p].mine, {n}, {n}) /\ UNCHANGED lock
        \/ Do(p, "check", job[p].mine, {n}, {n}) /\ UNCHANGED <<disk, lock>>
        \/ End(p) /\ UNCHANGED disk
  BY DEF Unquarantine
<1>4. n \in Name /\ IsManifest(job[p].mine) /\ meta' \in [Name -> Rows]
  BY <1>1, <1>2, BusyFacts, TypesOfStores DEF Blank, StoreTypes
<1>5. CASE /\ disk' = [disk EXCEPT ![n] = (@ \ {"failed"}) \cup {"bare"}]
           /\ Do(p, "check", job[p].mine, {n}, {n}) /\ UNCHANGED lock
  <2> DEFINE files == (disk[n] \ {"failed"}) \cup {"bare"}
  <2>1. files \in SUBSET Files
    BY <1>4, TypesOfStores DEF StoreTypes, Files
  <2>2. disk' = [disk EXCEPT ![n] = files]
    BY <1>5
  <2> HIDE DEF files
  <2> QED BY <1>1, <1>2, <1>4, <1>5, <2>1, <2>2, RepairInv
<1>6. CASE Do(p, "check", job[p].mine, {n}, {n}) /\ UNCHANGED <<disk, lock>>
  <2>1. disk[n] \in SUBSET Files /\ disk' = [disk EXCEPT ![n] = disk[n]]
    BY <1>4, <1>6, SameDisk
  <2> QED BY <1>1, <1>2, <1>4, <1>6, <2>1, RepairInv
<1>7. CASE End(p) /\ UNCHANGED disk
  <2>1. disk[n] \in SUBSET Files /\ disk' = [disk EXCEPT ![n] = disk[n]]
    BY <1>4, <1>7, SameDisk
  <2> QED BY <1>1, <1>2, <1>7, <2>1, RepairEnds
<1> QED BY <1>3, <1>5, <1>6, <1>7

LEMMA RecheckInv ==
  ASSUME MInv, NEW p \in Proc, Recheck(p)
  PROVE  MInv'
<1> DEFINE m(n) == With(job[p].mine, {n}, Row("ok", TRUE))
<1>1. job[p].at = "check"
  BY DEF Recheck
<1>2. UNCHANGED <<rows, meta, unused, doomed>>
  BY DEF Recheck
<1>3. PICK n \in job[p].target :
        \/ /\ disk' = [disk EXCEPT ![n] = @ \cup {"idx"}]
           /\ Do(p, "save", m(n), {n}, {n}) /\ UNCHANGED <<lock, faults>>
        \/ /\ disk' = [disk EXCEPT ![n] = Quarantined(@)] /\ UNCHANGED faults
           /\ End(p)
        \/ Fault /\ UNCHANGED disk /\ End(p)
  BY DEF Recheck
<1>4. n \in Name /\ IsManifest(job[p].mine) /\ meta' \in [Name -> Rows]
  BY <1>1, <1>2, BusyFacts, TypesOfStores DEF Blank, StoreTypes
<1>5. CASE /\ disk' = [disk EXCEPT ![n] = @ \cup {"idx"}]
           /\ Do(p, "save", m(n), {n}, {n}) /\ UNCHANGED <<lock, faults>>
  <2> DEFINE files == disk[n] \cup {"idx"}
  <2>1. files \in SUBSET Files
    BY <1>4, TypesOfStores DEF StoreTypes, Files
  <2>2. disk' = [disk EXCEPT ![n] = files]
    BY <1>5
  <2>3. Row("ok", TRUE) \in Rows
    BY RowFacts DEF Statuses
  <2>4. IsManifest(m(n)) /\ DOMAIN job[p].mine \subseteq DOMAIN m(n)
    <3> DEFINE mine == job[p].mine
               r == Row("ok", TRUE)
    <3>1. IsManifest(mine) /\ n \in Name /\ r \in Rows
      BY <1>4, <2>3
    <3> HIDE DEF mine, r
    <3>2. /\ IsManifest(With(mine, {n}, r))
          /\ DOMAIN With(mine, {n}, r) = DOMAIN mine \cup {n}
      BY <3>1, WithOneFacts
    <3> QED BY <3>2 DEF mine, r
  <2> HIDE DEF files, m
  <2> QED BY <1>1, <1>2, <1>4, <1>5, <2>1, <2>2, <2>4, RepairInv
<1>6. CASE /\ disk' = [disk EXCEPT ![n] = Quarantined(@)] /\ UNCHANGED faults
           /\ End(p)
  <2> DEFINE files == Quarantined(disk[n])
  <2>1. files \in SUBSET Files
    BY <1>4, TypesOfStores, QuarantinedFacts DEF StoreTypes
  <2>2. disk' = [disk EXCEPT ![n] = files]
    BY <1>6
  <2> HIDE DEF files
  <2> QED BY <1>1, <1>2, <1>6, <2>1, <2>2, RepairEnds
<1>7. CASE Fault /\ UNCHANGED disk /\ End(p)
  <2>1. disk[n] \in SUBSET Files /\ disk' = [disk EXCEPT ![n] = disk[n]]
    BY <1>4, <1>7, SameDisk
  <2> QED BY <1>1, <1>2, <1>7, <2>1, RepairEnds
<1> QED BY <1>3, <1>5, <1>6, <1>7

LEMMA StartReindexInv ==
  ASSUME Serial, MInv, NEW p \in Proc, StartReindex(p)
  PROVE  MInv'
<1>1. Free(p)
  BY DEF StartReindex
<1>2. PICK n \in Name : "bare" \in disk[n] /\ Do(p, "index", rows, {n}, {n})
  BY DEF StartReindex
<1>3. UNCHANGED <<rows, disk, meta, unused, lock, doomed, faults>>
  BY DEF StartReindex
<1>4. "index" \in Steps \ (Blank \cup Saving)
  BY DEF Steps, Blank, Saving
<1>5. IsManifest(rows) /\ doomed' \subseteq Name /\ {n} \in SUBSET DOMAIN rows
  BY <1>2, <1>3, TypesOfStores DEF StoreTypes, MInv, FilesAreTracked
<1>6. Do(p, "index", rows, {n}, {n})
  BY <1>2
<1> QED BY <1>1, <1>3, <1>4, <1>5, <1>6, StartFacts, LoadedInv

LEMMA ReindexInv ==
  ASSUME MInv, NEW p \in Proc, Reindex(p)
  PROVE  MInv'
<1> DEFINE mine == job[p].mine
           r(n) == Row(mine[n].status, TRUE)
<1>1. job[p].at = "index"
  BY DEF Reindex
<1>2. UNCHANGED <<rows, unused, doomed>>
  BY DEF Reindex
<1>3. PICK n \in job[p].target, described \in BOOLEAN :
        \/ /\ n \in DOMAIN mine
           /\ disk' = [disk EXCEPT ![n] = @ \cup {"idx"} \cup
                          IF described THEN {"meta"} ELSE {}]
           /\ meta' = [meta EXCEPT ![n] = IF described THEN r(n) ELSE @]
           /\ Do(p, "save", With(mine, {n}, r(n)), {n}, {n})
           /\ UNCHANGED lock /\ (Fault \/ UNCHANGED faults)
        \/ /\ disk' = [disk EXCEPT ![n] = @ \cup {"idx"}]
           /\ Do(p, "save", mine, {n}, {n})
           /\ UNCHANGED <<meta, lock, faults>>
        \/ End(p) /\ UNCHANGED <<disk, meta, faults>>
  BY DEF Reindex
<1>4. n \in Name /\ IsManifest(mine) /\ meta \in [Name -> Rows]
  BY <1>1, BusyFacts, TypesOfStores DEF Blank, StoreTypes
<1>5. CASE /\ n \in DOMAIN mine
           /\ disk' = [disk EXCEPT ![n] = @ \cup {"idx"} \cup
                          IF described THEN {"meta"} ELSE {}]
           /\ meta' = [meta EXCEPT ![n] = IF described THEN r(n) ELSE @]
           /\ Do(p, "save", With(mine, {n}, r(n)), {n}, {n})
           /\ UNCHANGED lock /\ (Fault \/ UNCHANGED faults)
  <2> DEFINE files == disk[n] \cup {"idx"} \cup
                        IF described THEN {"meta"} ELSE {}
             m == With(mine, {n}, r(n))
  <2>1. files \in SUBSET Files
    BY <1>4, TypesOfStores DEF StoreTypes, Files
  <2>2. disk' = [disk EXCEPT ![n] = files]
    BY <1>5
  <2>3. mine[n] \in Rows
    BY <1>4, <1>5 DEF IsManifest
  <2>4. r(n) \in Rows
    BY <2>3, RowFacts
  <2>5. meta' \in [Name -> Rows]
    BY <1>4, <1>5, <2>4
  <2>6. IsManifest(m) /\ DOMAIN mine \subseteq DOMAIN m
    <3> HIDE DEF mine, r
    <3>1. IsManifest(mine) /\ n \in Name /\ r(n) \in Rows
      BY <1>4, <2>4
    <3>2. /\ IsManifest(With(mine, {n}, r(n)))
          /\ DOMAIN With(mine, {n}, r(n)) = DOMAIN mine \cup {n}
      BY <3>1, WithOneFacts
    <3> QED BY <3>2
  <2>7. /\ Do(p, "save", m, {n}, {n}) /\ UNCHANGED lock
        /\ Fault \/ UNCHANGED faults
    BY <1>5
  <2> HIDE DEF files, m
  <2> QED BY <1>1, <1>2, <2>1, <2>2, <2>5, <2>6, <2>7, RepairInv
<1>6. CASE /\ disk' = [disk EXCEPT ![n] = @ \cup {"idx"}]
           /\ Do(p, "save", mine, {n}, {n})
           /\ UNCHANGED <<meta, lock, faults>>
  <2> DEFINE files == disk[n] \cup {"idx"}
  <2>1. files \in SUBSET Files
    BY <1>4, TypesOfStores DEF StoreTypes, Files
  <2>2. disk' = [disk EXCEPT ![n] = files]
    BY <1>6
  <2>3. meta' \in [Name -> Rows]
    BY <1>4, <1>6
  <2> HIDE DEF files
  <2> QED BY <1>1, <1>2, <1>4, <1>6, <2>1, <2>2, <2>3, RepairInv
<1>7. CASE End(p) /\ UNCHANGED <<disk, meta, faults>>
  <2>1. disk[n] \in SUBSET Files /\ disk' = [disk EXCEPT ![n] = disk[n]]
    BY <1>4, <1>7, SameDisk
  <2> QED BY <1>1, <1>2, <1>7, <2>1, RepairEnds
<1> QED BY <1>3, <1>5, <1>6, <1>7

\* finalize-archive and verify give one row another status.
LEMMA VerdictInv ==
  ASSUME Serial, MInv, NEW p \in Proc, Free(p),
         NEW n \in DOMAIN rows, NEW r \in Rows,
         Do(p, "save", With(rows, {n}, r), {n}, {n}),
         UNCHANGED <<rows, disk, meta, unused, lock, doomed, faults>>
  PROVE  MInv'
<1> DEFINE m == With(rows, {n}, r)
<1>1. /\ IsManifest(rows) /\ doomed' \subseteq Name
      /\ {n} \in SUBSET DOMAIN rows /\ n \in Name
  BY TypesOfStores DEF StoreTypes, IsManifest
<1>2. IsManifest(m) /\ DOMAIN rows \subseteq DOMAIN m
  <2>1. IsManifest(m) /\ DOMAIN m = DOMAIN rows \cup {n}
    BY <1>1, WithOneFacts
  <2> HIDE DEF m
  <2> QED BY <2>1
<1>3. Do(p, "save", m, {n}, {n})
  OBVIOUS
<1>4. "save" \in Steps \ (Blank \cup Saving)
  BY DEF Steps, Blank, Saving
<1> HIDE DEF m
<1> QED BY <1>1, <1>2, <1>3, <1>4, StartFacts, LoadedInv

LEMMA StartFinalizeInv ==
  ASSUME Serial, MInv, NEW p \in Proc, StartFinalize(p)
  PROVE  MInv'
<1>1. Free(p)
  BY DEF StartFinalize
<1>2. PICK n \in DOMAIN rows, status \in {"ok", "failed"} :
        Do(p, "save", With(rows, {n}, Row(status, "idx" \in disk[n])), {n},
           {n})
  BY DEF StartFinalize
<1>3. UNCHANGED <<rows, disk, meta, unused, lock, doomed, faults>>
  BY DEF StartFinalize
<1> DEFINE r == Row(status, "idx" \in disk[n])
<1>4. status \in Statuses
  BY DEF Statuses
<1>5. r \in Rows
  BY <1>4, IndexedRowFacts
<1>6. Do(p, "save", With(rows, {n}, r), {n}, {n})
  BY <1>2
<1> HIDE DEF r
<1> QED BY <1>1, <1>3, <1>5, <1>6, VerdictInv

LEMMA StartVerifyInv ==
  ASSUME Serial, MInv, NEW p \in Proc, StartVerify(p)
  PROVE  MInv'
<1>1. Free(p)
  BY DEF StartVerify
<1>2. PICK n \in DOMAIN rows :
        \E status \in {"ok", "corrupt", rows[n].status} :
          Do(p, "save", With(rows, {n}, Row(status, rows[n].index)), {n}, {n})
  BY DEF StartVerify
<1>3. PICK status \in {"ok", "corrupt", rows[n].status} :
        Do(p, "save", With(rows, {n}, Row(status, rows[n].index)), {n}, {n})
  BY <1>2
<1>4. UNCHANGED <<rows, disk, meta, unused, lock, doomed, faults>>
  BY DEF StartVerify
<1>5. rows[n].status \in Statuses /\ rows[n].index \in BOOLEAN
  BY TypesOfStores, RowFacts DEF StoreTypes, IsManifest
<1>6. Row(status, rows[n].index) \in Rows
  BY <1>5, RowFacts DEF Statuses
<1> QED BY <1>1, <1>3, <1>4, <1>6, VerdictInv

LEMMA StartRefreshInv ==
  ASSUME Serial, MInv, NEW p \in Proc, StartRefresh(p)
  PROVE  MInv'
<1> DEFINE m == IF rows = NoRows THEN Rebuilt ELSE rows
           mine == [n \in DOMAIN m |-> Row(m[n].status, "idx" \in disk[n])]
<1>1. Free(p)
  BY DEF StartRefresh
<1>2. Do(p, "save", mine, {}, {})
  BY DEF StartRefresh
<1>3. UNCHANGED <<rows, disk, meta, unused, lock, doomed, faults>>
  BY DEF StartRefresh
<1>4. IsManifest(m)
  <2>1. IsManifest(rows) /\ meta \in [Name -> Rows]
    BY TypesOfStores DEF StoreTypes
  <2>2. IsManifest(Rebuilt)
    BY <2>1 DEF Rebuilt, IsManifest
  <2> QED BY <2>1, <2>2
<1>5. DOMAIN rows \subseteq DOMAIN m
  BY NoRowsFacts
<1> HIDE DEF m
<1>6. ASSUME NEW n \in DOMAIN m PROVE mine[n] \in Rows
  <2>1. m[n].status \in Statuses
    BY <1>4, RowFacts DEF IsManifest
  <2>2. Row(m[n].status, "idx" \in disk[n]) \in Rows
    BY <2>1, IndexedRowFacts
  <2> QED BY <2>2
<1>7. DOMAIN mine = DOMAIN m
  OBVIOUS
<1> HIDE DEF mine
<1>8. IsManifest(mine) /\ DOMAIN rows \subseteq DOMAIN mine
  BY <1>4, <1>5, <1>6, <1>7 DEF IsManifest
<1>9. doomed' \subseteq Name
  BY <1>3, TypesOfStores DEF StoreTypes
<1>10. "save" \in Steps \ (Blank \cup Saving)
  BY DEF Steps, Blank, Saving
<1>11. {} \in SUBSET DOMAIN rows
  OBVIOUS
<1> QED BY <1>1, <1>2, <1>3, <1>8, <1>9, <1>10, <1>11, StartFacts, LoadedInv

LEMMA SaveInv ==
  ASSUME MInv, NEW p \in Proc, Save(p)
  PROVE  MInv'
<1>1. /\ job[p].at = "save" /\ rows' = job[p].mine /\ End(p)
      /\ UNCHANGED <<disk, meta, unused, doomed, faults>>
  BY DEF Save
<1>2. doomed' \subseteq doomed /\ lock' \subseteq lock
  BY DEF Save, End
<1>3. StoreTypes' /\ FilesAreTracked'
  BY <1>1, <1>2, SavedFacts DEF Blank
<1>4. \A q \in Proc : Busy(q) => q = p
  BY <1>1, BusyFacts DEF Blank
<1> QED BY <1>1, <1>3, <1>4, EndInv

-----------------------------------------------------------------------------
(* Faults, and the theorem *)

LEMMA DieInv ==
  ASSUME MInv, NEW p \in Proc, Die(p)
  PROVE  MInv'
<1>1. /\ Busy(p) /\ End(p) /\ faults > 0 /\ faults' = faults - 1
      /\ UNCHANGED <<rows, disk, meta, unused, doomed>>
  BY DEF Die, Fault, Busy
<1>2. \A q \in Proc : Busy(q) => q = p
  BY <1>1 DEF MInv, OneBusy
<1>3. faults' \in 0..MaxFaults
  BY <1>1, TypesOfStores, ManifestStoreAssumption DEF StoreTypes
<1>4. lock' \subseteq lock
  BY <1>1 DEF End
<1>5. StoreTypes' /\ FilesAreTracked'
  BY <1>1, <1>3, <1>4, TypesOfStores DEF StoreTypes, MInv, FilesAreTracked,
                                         IsManifest
<1> QED BY <1>1, <1>2, <1>5, EndInv

LEMMA StutterInv ==
  ASSUME MInv, UNCHANGED vars
  PROVE  MInv'
<1>1. TypeOK'
  BY DEF vars, MInv, TypeOK, IsManifest
<1>2. OneBusy'
  BY DEF vars, MInv, OneBusy, Busy
<1>3. Known'
  BY DEF vars, MInv, Known
<1>4. FilesAreTracked'
  BY DEF vars, MInv, FilesAreTracked
<1> QED BY <1>1, <1>2, <1>3, <1>4 DEF MInv

LEMMA BackupInv ==
  ASSUME Serial, MInv, NEW p \in Proc, Backup(p)
  PROVE  MInv'
BY StartBackupInv, LoadBackupInv, SaveBegunInv, WriteShardInv, SettleShardInv,
   MarkCorruptInv, RecordInv DEF Backup

LEMMA DeletionInv ==
  ASSUME Serial, MInv, NEW p \in Proc, Deletion(p)
  PROVE  MInv'
BY LoadPruneInv, StartDeleteInv, UnlinkInv, DropInv DEF Deletion

LEMMA RepairsInv ==
  ASSUME Serial, MInv, NEW p \in Proc, Repair(p)
  PROVE  MInv'
BY StartRecoverInv, UnquarantineInv, RecheckInv, StartReindexInv, ReindexInv,
   StartFinalizeInv, StartVerifyInv, StartRefreshInv, SaveInv DEF Repair

LEMMA NextInv ==
  ASSUME Serial, MInv, [Next]_vars
  PROVE  MInv'
<1>1. ASSUME NEW p \in Proc, Backup(p) \/ Deletion(p) \/ Repair(p) \/ Die(p)
      PROVE  MInv'
  BY <1>1, BackupInv, DeletionInv, RepairsInv, DieInv
<1>2. ~ Lose
  BY DEF Lose, Serial
<1> QED BY <1>1, <1>2, StutterInv DEF Next

\* MInv is inductive.
THEOREM ManifestStoreInvariant ==
  ASSUME Serial
  PROVE  Spec => []MInv
BY InitMInv, NextInv, PTL DEF Spec

\* Every manifest, saved or loaded, every set of files and every job is well
\* typed (ManifestStore!TypeOK).
THEOREM ManifestStoreTypes ==
  ASSUME Serial
  PROVE  Spec => []TypeOK
<1>1. MInv => TypeOK
  BY DEF MInv
<1> QED BY <1>1, ManifestStoreInvariant, PTL

\* However many names, processes and deaths there are: while commands exclude
\* one another no file is left that the manifest does not know
\* (action_backup, _delete_sets and the repairs).
THEOREM FilesAreTrackedTheorem ==
  ASSUME Serial
  PROVE  Spec => []FilesAreTracked
<1>1. MInv => FilesAreTracked
  BY DEF MInv
<1> QED BY <1>1, ManifestStoreInvariant, PTL

-----------------------------------------------------------------------------
(* What rows promise *)

\* Files keep what a row promises.
Kept(r, files) ==
    /\ r.status \in {"ok", "corrupt"} => "bare" \in files
    /\ r.status = "failed" => "bare" \in files \/ "failed" \in files
    /\ r.index => "idx" \in files

\* An archive has one name at a time.
OneName == \A n \in Name : ~ {"bare", "failed"} \subseteq disk[n]

\* The rows of a manifest are of names in use and, but for those being deleted,
\* keep their promise.
Honest(m) ==
    \A n \in DOMAIN m : n \notin unused /\ (n \notin doomed => Kept(m[n], disk[n]))

\* What a job at work on its names relies on.
Prepared(j) ==
    /\ j.at = "begin" =>
         \A n \in j.target : j.mine[n].status = "in-progress" /\ disk[n] = {}
    /\ j.at = "write" =>
         \A n \in j.target :
            /\ rows[n].status = "in-progress" /\ "failed" \notin disk[n]
            /\ n \notin j.todo => "bare" \in disk[n]
    /\ j.at = "settle" =>
         \A n \in j.target : /\ rows[n].status = "in-progress"
                             /\ n \in j.todo => "bare" \in disk[n]
    /\ j.at \in {"rename", "check", "index"} => j.mine = rows
    /\ j.at \in {"rename", "check"} =>
         \A n \in j.target : rows[n].status = "failed"
    /\ j.at = "unlink" =>
         j.target \subseteq doomed /\ DOMAIN j.mine \cap j.target \subseteq j.todo
    /\ j.at = "drop" => DOMAIN j.mine \cap j.target = {}

Promises ==
    /\ OneName /\ Honest(rows)
    /\ \A p \in Proc : job[p].at \notin Blank =>
                         Honest(job[p].mine) /\ Prepared(job[p])

-----------------------------------------------------------------------------
(* The step of a job *)

LEMMA KeptMore ==
  ASSUME NEW r, NEW a, NEW b, a \subseteq b, Kept(r, a)
  PROVE  Kept(r, b)
BY DEF Kept

LEMMA RowFields ==
  ASSUME NEW s, NEW i
  PROVE  Row(s, i).status = s /\ Row(s, i).index = i
BY DEF Row

\* What is left to show for a step in which the only busy process moves.
LEMMA MovePromises ==
  ASSUME MInv, MInv', NEW p \in Proc, \A q \in Proc : Busy(q) => q = p,
         NEW at, NEW mine, NEW target, NEW todo, Do(p, at, mine, target, todo),
         OneName', Honest(rows)',
         at \notin Blank =>
            /\ \A n \in DOMAIN mine :
                 n \notin unused' /\ (n \notin doomed' => Kept(mine[n], disk'[n]))
            /\ Prepared(job[p])'
  PROVE  Promises'
<1>1. /\ job'[p] = Job(at, mine, target, todo)
      /\ \A q \in Proc : q # p => job'[q] = job[q]
  BY DoFacts DEF MInv
<1>2. job'[p].at = at /\ job'[p].mine = mine
  BY <1>1, JobFacts
<1>3. \A q \in Proc : q # p => job'[q].at \in Blank
  BY <1>1 DEF Busy, Blank
<1>4. ASSUME NEW q \in Proc, job'[q].at \notin Blank
      PROVE  Honest(job[q].mine)' /\ Prepared(job[q])'
  <2>1. q = p
    BY <1>3, <1>4
  <2> QED BY <1>2, <1>4, <2>1 DEF Honest
<1> QED BY <1>4 DEF Promises

LEMMA EndPromises ==
  ASSUME MInv, MInv', NEW p \in Proc, \A q \in Proc : Busy(q) => q = p, End(p),
         OneName', Honest(rows)'
  PROVE  Promises'
<1>1. Do(p, "idle", NoRows, {}, {})
  BY EndFacts DEF MInv
<1> QED BY <1>1, MovePromises DEF Blank

\* The job after the step, as the lemmas below need it.
LEMMA Moved ==
  ASSUME MInv, NEW p \in Proc, NEW at, NEW mine, NEW target, NEW todo,
         Do(p, at, mine, target, todo)
  PROVE  /\ job'[p].at = at /\ job'[p].mine = mine
         /\ job'[p].target = target /\ job'[p].todo = todo
<1>1. job'[p] = Job(at, mine, target, todo)
  BY DoFacts DEF MInv
<1> QED BY <1>1, JobFacts

\* The next name, or on to the next step with all of them.
LEMMA DoNextCases ==
  ASSUME MInv, NEW p \in Proc, NEW n \in job[p].todo, NEW mine, NEW then,
         DoNext(p, n, mine, then)
  PROVE  \/ /\ job[p].todo = {n}
            /\ Do(p, then, mine, job[p].target, job[p].target)
         \/ Do(p, job[p].at, mine, job[p].target, job[p].todo \ {n})
BY DEF DoNext

\* What a job that is at work has.
LEMMA AtWork ==
  ASSUME MInv, Promises, NEW p \in Proc, job[p].at \notin Blank
  PROVE  /\ \A q \in Proc : Busy(q) => q = p
         /\ Honest(job[p].mine) /\ Prepared(job[p]) /\ OneName /\ Honest(rows)
         /\ IsManifest(job[p].mine) /\ IsManifest(rows)
         /\ job[p].target \subseteq Name /\ job[p].todo \subseteq job[p].target
         /\ job[p].at \notin Saving => job[p].target \subseteq DOMAIN rows
         /\ job[p].at \notin {"unlink", "drop"} =>
              job[p].target \subseteq DOMAIN job[p].mine
         /\ disk \in [Name -> SUBSET Files]
BY BusyFacts, TypesOfStores DEF Promises, StoreTypes

LEMMA InitPromises == Init => Promises
<1> SUFFICES ASSUME Init PROVE Promises
  OBVIOUS
<1>1. \A p \in Proc : job[p].at \in Blank
  BY JobFacts DEF Init, NoJob, Blank
<1>2. OneName
  BY DEF Init, OneName
<1>3. Honest(rows)
  BY NoRowsFacts DEF Init, Honest
<1> QED BY <1>1, <1>2, <1>3 DEF Promises

\* A step that leaves the files and the rows alone.
LEMMA QuietStore ==
  ASSUME Promises, UNCHANGED <<rows, disk>>, unused' \subseteq unused,
         doomed \subseteq doomed'
  PROVE  OneName' /\ Honest(rows)'
BY DEF Promises, OneName, Honest

-----------------------------------------------------------------------------
(* Backups keep promises *)

LEMMA StartBackupKeeps ==
  ASSUME Serial, MInv, Promises, NEW p \in Proc, StartBackup(p)
  PROVE  Promises'
<1>1. MInv'
  BY StartBackupInv
<1>2. Do(p, "load", NoRows, {}, {}) /\ UNCHANGED <<rows, disk, unused, doomed>>
  BY DEF StartBackup
<1>3. \A q \in Proc : Busy(q) => q = p
  <2>1. \A q \in Proc : (q \in Root) <=> (p \in Root)
    BY DEF Serial
  <2>2. lock \cap Proc = {}
    BY <2>1 DEF StartBackup
  <2> QED BY <2>2 DEF StartBackup, Serial, OnlyBackupsRun, Busy
<1> QED BY <1>1, <1>2, <1>3, QuietStore, MovePromises DEF Blank

LEMMA LoadBackupKeeps ==
  ASSUME Serial, MInv, Promises, NEW p \in Proc, LoadBackup(p)
  PROVE  Promises'
<1>1. MInv'
  BY LoadBackupInv
<1>2. \A q \in Proc : Busy(q) => q = p
  BY DEF LoadBackup, MInv, OneBusy, Busy
<1>3. UNCHANGED <<rows, disk, doomed>> /\ unused' \subseteq unused
  BY DEF LoadBackup
<1>4. OneName' /\ Honest(rows)'
  BY <1>3, QuietStore
<1>5. CASE End(p)
  BY <1>1, <1>2, <1>4, <1>5, EndPromises
<1>6. ASSUME NEW S \in SUBSET unused, unused' = unused \ S,
             NEW at \in {"begin", "record"}, NEW status \in {"in-progress", "empty"},
             at = "begin" => status = "in-progress",
             Do(p, at, With(rows, S, Row(status, FALSE)), S, S)
      PROVE  Promises'
  <2> DEFINE m == With(rows, S, Row(status, FALSE))
  <2>1. /\ DOMAIN m = DOMAIN rows \cup S
        /\ \A n \in S : m[n] = Row(status, FALSE)
        /\ \A n \in DOMAIN rows \ S : m[n] = rows[n]
    BY DEF With
  <2>2. Do(p, at, m, S, S)
    BY <1>6
  <2> HIDE DEF m
  <2>3. \A n \in S : n \notin DOMAIN rows /\ disk[n] = {}
    BY <1>6, TypesOfStores
    DEF Promises, Honest, MInv, FilesAreTracked, StoreTypes
  <2>4. \A files : Kept(Row(status, FALSE), files)
    BY RowFields DEF Kept
  <2>5. ASSUME NEW n \in DOMAIN m
        PROVE  n \notin unused' /\ (n \notin doomed' => Kept(m[n], disk'[n]))
    <3>1. CASE n \in S
      BY <1>6, <2>1, <2>4, <3>1
    <3>2. CASE n \notin S
      BY <1>3, <2>1, <3>2 DEF Promises, Honest
    <3> QED BY <3>1, <3>2
  <2>6. Prepared(job[p])'
    <3>1. /\ job'[p].at = at /\ job'[p].mine = m /\ job'[p].target = S
      BY <2>2, Moved
    <3>2. CASE at = "begin"
      <4>1. status = "in-progress" /\ Row(status, FALSE).status = status
        BY <1>6, <3>2, RowFields, Zenon
      <4>2. \A n \in S : m[n].status = "in-progress"
        BY <2>1, <4>1, Zenon
      <4>3. \A n \in S : disk'[n] = {}
        BY <1>3, <2>3
      <4> QED BY <3>1, <3>2, <4>2, <4>3 DEF Prepared
    <3>3. CASE at = "record"
      BY <3>1, <3>3 DEF Prepared
    <3> QED BY <1>6, <3>2, <3>3
  <2> QED BY <1>1, <1>2, <1>4, <2>2, <2>5, <2>6, MovePromises
<1>7. PICK S \in SUBSET unused :
         \/ /\ unused' = unused \ S
            /\ \/ Do(p, "begin", With(rows, S, Row("in-progress", FALSE)), S, S)
               \/ Do(p, "record", With(rows, S, Row("empty", FALSE)), S, S)
         \/ End(p)
  BY DEF LoadBackup
<1> QED BY <1>5, <1>6, <1>7

LEMMA SaveBegunKeeps ==
  ASSUME MInv, Promises, NEW p \in Proc, SaveBegun(p)
  PROVE  Promises'
<1> DEFINE j == job[p]
<1>1. /\ MInv' /\ j.at = "begin" /\ rows' = j.mine
      /\ Do(p, "write", j.mine, j.target, j.target)
      /\ UNCHANGED <<disk, unused, doomed>>
  BY SaveBegunInv DEF SaveBegun
<1>2. /\ \A q \in Proc : Busy(q) => q = p
      /\ Honest(j.mine) /\ OneName
      /\ \A n \in j.target : j.mine[n].status = "in-progress" /\ disk[n] = {}
  BY <1>1, AtWork DEF Prepared, Blank
<1>3. OneName' /\ Honest(rows)'
  BY <1>1, <1>2 DEF OneName, Honest
<1>4. /\ job'[p].at = "write" /\ job'[p].target = j.target
      /\ job'[p].todo = j.target
  BY <1>1, Moved
<1>5. Prepared(job[p])'
  BY <1>1, <1>2, <1>4 DEF Prepared
<1>6. \A n \in DOMAIN j.mine :
         n \notin unused' /\ (n \notin doomed' => Kept(j.mine[n], disk'[n]))
  BY <1>1, <1>2 DEF Honest
<1> HIDE DEF j
<1> QED BY <1>1, <1>2, <1>3, <1>5, <1>6, MovePromises

LEMMA WriteShardKeeps ==
  ASSUME MInv, Promises, NEW p \in Proc, WriteShard(p)
  PROVE  Promises'
<1> DEFINE j == job[p]
<1>1. /\ MInv' /\ j.at = "write" /\ UNCHANGED <<rows, unused, doomed>>
  BY WriteShardInv DEF WriteShard
<1>2. PICK n \in j.todo, built \in SUBSET {"idx"} :
         /\ disk' = [disk EXCEPT ![n] = @ \cup {"bare"} \cup built]
         /\ DoNext(p, n, j.mine, "settle")
  BY DEF WriteShard
<1>3. /\ \A q \in Proc : Busy(q) => q = p
      /\ Honest(j.mine) /\ Honest(rows) /\ OneName
      /\ j.target \subseteq Name /\ j.todo \subseteq j.target
      /\ IsManifest(j.mine) /\ IsManifest(rows) /\ disk \in [Name -> SUBSET Files]
      /\ \A k \in j.target :
           /\ rows[k].status = "in-progress" /\ "failed" \notin disk[k]
           /\ k \notin j.todo => "bare" \in disk[k]
  BY <1>1, AtWork DEF Prepared, Blank
<1>4. /\ \A k \in Name : disk[k] \subseteq disk'[k]
      /\ \A k \in Name \ {n} : disk'[k] = disk[k]
      /\ "bare" \in disk'[n] /\ "failed" \notin disk'[n]
  BY <1>2, <1>3
<1>5. OneName'
  BY <1>3, <1>4 DEF OneName
<1>6. Honest(rows)'
  BY <1>1, <1>3, <1>4, KeptMore DEF Honest, IsManifest
<1>7. \A k \in DOMAIN j.mine :
         k \notin unused' /\ (k \notin doomed' => Kept(j.mine[k], disk'[k]))
  BY <1>1, <1>3, <1>4, KeptMore DEF Honest, IsManifest
<1>8. CASE /\ j.todo = {n} /\ Do(p, "settle", j.mine, j.target, j.target)
  <2>1. /\ job'[p].at = "settle" /\ job'[p].target = j.target
        /\ job'[p].todo = j.target
    BY <1>8, Moved
  <2>2. Prepared(job[p])'
    BY <1>1, <1>3, <1>4, <1>8, <2>1 DEF Prepared
  <2> HIDE DEF j
  <2> QED BY <1>1, <1>3, <1>5, <1>6, <1>7, <1>8, <2>2, MovePromises
<1>9. CASE Do(p, "write", j.mine, j.target, j.todo \ {n})
  <2>1. /\ job'[p].at = "write" /\ job'[p].target = j.target
        /\ job'[p].todo = j.todo \ {n}
    BY <1>9, Moved
  <2>2. Prepared(job[p])'
    BY <1>1, <1>3, <1>4, <2>1 DEF Prepared
  <2> HIDE DEF j
  <2> QED BY <1>1, <1>3, <1>5, <1>6, <1>7, <1>9, <2>2, MovePromises
<1> QED BY <1>1, <1>2, <1>8, <1>9, DoNextCases

LEMMA SettleShardKeeps ==
  ASSUME MInv, Promises, NEW p \in Proc, SettleShard(p)
  PROVE  Promises'
<1> DEFINE j == job[p]
<1>1. /\ MInv' /\ j.at = "settle" /\ UNCHANGED <<rows, unused, doomed>>
  BY SettleShardInv DEF SettleShard
<1>2. PICK n \in j.todo, now \in SUBSET Files, r \in Rows,
          described \in BOOLEAN :
         /\ \/ /\ r = Row("failed", FALSE)
               /\ now \in {disk[n], Quarantined(disk[n])}
            \/ /\ r = Row("ok", "idx" \in now)
               /\ \/ now = disk[n]
                  \/ "bare" \in disk[n] /\ now = disk[n] \cup {"idx"}
         /\ disk' = [disk EXCEPT ![n] =
                        IF described THEN now \cup {"meta"} ELSE now]
         /\ DoNext(p, n, With(j.mine, {n}, r), "mark")
  BY DEF SettleShard
<1>3. /\ \A q \in Proc : Busy(q) => q = p
      /\ Honest(j.mine) /\ Honest(rows) /\ OneName
      /\ j.target \subseteq Name /\ j.todo \subseteq j.target
      /\ j.target \subseteq DOMAIN rows /\ j.target \subseteq DOMAIN j.mine
      /\ IsManifest(j.mine) /\ IsManifest(rows) /\ disk \in [Name -> SUBSET Files]
      /\ \A k \in j.target : /\ rows[k].status = "in-progress"
                             /\ k \in j.todo => "bare" \in disk[k]
  BY <1>1, AtWork DEF Prepared, Blank, Saving
<1> DEFINE files == IF described THEN now \cup {"meta"} ELSE now
<1>4. /\ disk'[n] = files /\ \A k \in Name \ {n} : disk'[k] = disk[k]
      /\ now \subseteq files /\ files \subseteq now \cup {"meta"}
  BY <1>2, <1>3
<1>5. /\ ~ {"bare", "failed"} \subseteq now /\ disk[n] \cap {"idx"} \subseteq now
      /\ Kept(r, now)
  <2>1. "bare" \in disk[n] /\ "failed" \notin disk[n]
    BY <1>3 DEF OneName
  <2>2. CASE /\ r = Row("failed", FALSE)
             /\ now \in {disk[n], Quarantined(disk[n])}
    <3>1. r.status = "failed" /\ r.index = FALSE
      BY <2>2, RowFields
    <3>2. Quarantined(disk[n]) = (disk[n] \ {"bare"}) \cup {"failed"}
      BY <2>1 DEF Quarantined
    <3>3. /\ "bare" \in now \/ "failed" \in now
          /\ ~ {"bare", "failed"} \subseteq now
          /\ disk[n] \cap {"idx"} \subseteq now
      BY <2>1, <2>2, <3>2
    <3> QED BY <3>1, <3>3 DEF Kept
  <2>3. CASE /\ r = Row("ok", "idx" \in now)
             /\ \/ now = disk[n]
                \/ "bare" \in disk[n] /\ now = disk[n] \cup {"idx"}
    <3>1. r.status = "ok" /\ r.index = ("idx" \in now)
      BY <2>3, RowFields
    <3>2. /\ "bare" \in now /\ "failed" \notin now
          /\ disk[n] \cap {"idx"} \subseteq now
      BY <2>1, <2>3
    <3>3. r.index => "idx" \in now
      BY <3>1
    <3> QED BY <3>1, <3>2, <3>3 DEF Kept
  <2> QED BY <1>2, <2>2, <2>3
<1> HIDE DEF files
<1>6. OneName'
  <2>1. ~ {"bare", "failed"} \subseteq disk'[n]
    BY <1>4, <1>5
  <2> QED BY <1>3, <1>4, <2>1 DEF OneName
<1>7. Honest(rows)'
  <2> SUFFICES ASSUME NEW k \in DOMAIN rows
               PROVE  k \notin unused /\ (k \notin doomed => Kept(rows[k], disk'[k]))
    BY <1>1 DEF Honest
  <2>1. CASE k = n
    BY <1>3, <1>4, <1>5, <2>1 DEF Honest, Kept
  <2>2. CASE k # n
    BY <1>3, <1>4, <2>2 DEF Honest, IsManifest
  <2> QED BY <2>1, <2>2
<1> DEFINE m == With(j.mine, {n}, r)
<1>8. \A k \in DOMAIN m :
         k \notin unused' /\ (k \notin doomed' => Kept(m[k], disk'[k]))
  <2>1. /\ DOMAIN m = DOMAIN j.mine \cup {n} /\ m[n] = r
        /\ \A k \in DOMAIN j.mine \ {n} : m[k] = j.mine[k]
    BY DEF With
  <2> HIDE DEF m
  <2>2. Kept(r, disk'[n])
    BY <1>4, <1>5, KeptMore
  <2> QED BY <1>1, <1>3, <1>4, <2>1, <2>2 DEF Honest, IsManifest
<1>9. CASE j.todo = {n} /\ Do(p, "mark", m, j.target, j.target)
  <2> HIDE DEF m
  <2>1. job'[p].at = "mark"
    BY <1>9, Moved
  <2>2. Prepared(job[p])'
    BY <2>1 DEF Prepared
  <2> HIDE DEF j
  <2> QED BY <1>1, <1>3, <1>6, <1>7, <1>8, <1>9, <2>2, MovePromises
<1>10. CASE Do(p, "settle", m, j.target, j.todo \ {n})
  <2> HIDE DEF m
  <2>1. /\ job'[p].at = "settle" /\ job'[p].target = j.target
        /\ job'[p].todo = j.todo \ {n}
    BY <1>10, Moved
  <2>2. Prepared(job[p])'
    BY <1>1, <1>3, <1>4, <2>1 DEF Prepared
  <2> HIDE DEF j
  <2> QED BY <1>1, <1>3, <1>6, <1>7, <1>8, <1>10, <2>2, MovePromises
<1>11. DoNext(p, n, m, "mark")
  BY <1>2
<1> HIDE DEF m
<1> QED BY <1>1, <1>9, <1>10, <1>11, DoNextCases

LEMMA MarkCorruptKeeps ==
  ASSUME MInv, Promises, NEW p \in Proc, MarkCorrupt(p)
  PROVE  Promises'
<1> DEFINE j == job[p]
           good == {n \in j.target : j.mine[n].status = "ok"}
           Marked(bad) == [n \in DOMAIN j.mine |->
                             IF n \in bad THEN Row("corrupt", j.mine[n].index)
                             ELSE j.mine[n]]
<1>1. /\ MInv' /\ j.at = "mark" /\ UNCHANGED <<rows, unused, doomed>>
  BY MarkCorruptInv DEF MarkCorrupt
<1>2. PICK bad \in SUBSET good, described \in SUBSET good :
         /\ disk' = [n \in Name |->
                        IF n \in described THEN disk[n] \cup {"meta"}
                        ELSE disk[n]]
         /\ Do(p, "record", Marked(bad), j.target, j.target)
  BY DEF MarkCorrupt
<1>3. /\ \A q \in Proc : Busy(q) => q = p
      /\ Honest(j.mine) /\ Honest(rows) /\ OneName
      /\ IsManifest(j.mine) /\ IsManifest(rows)
  BY <1>1, AtWork DEF Blank
<1>4. \A k \in Name : /\ disk[k] \subseteq disk'[k]
                       /\ disk'[k] \subseteq disk[k] \cup {"meta"}
  BY <1>2
<1>5. OneName'
  BY <1>3, <1>4 DEF OneName
<1>6. Honest(rows)'
  BY <1>1, <1>3, <1>4, KeptMore DEF Honest, IsManifest
<1> DEFINE m == Marked(bad)
<1>7. \A k \in DOMAIN m :
         k \notin unused' /\ (k \notin doomed' => Kept(m[k], disk'[k]))
  <2> SUFFICES ASSUME NEW k \in DOMAIN j.mine
               PROVE  /\ k \notin unused
                      /\ k \notin doomed => Kept(m[k], disk'[k])
    BY <1>1
  <2>1. /\ k \notin unused
        /\ k \notin doomed => Kept(j.mine[k], disk'[k])
    BY <1>3, <1>4, KeptMore DEF Honest, IsManifest
  <2>2. \/ m[k] = j.mine[k]
        \/ j.mine[k].status = "ok" /\ m[k] = Row("corrupt", j.mine[k].index)
    OBVIOUS
  <2> HIDE DEF m
  <2>3. Kept(j.mine[k], disk'[k]) => Kept(m[k], disk'[k])
    BY <2>2, RowFields DEF Kept
  <2> QED BY <2>1, <2>3
<1> HIDE DEF m
<1>8. Do(p, "record", m, j.target, j.target)
  BY <1>2 DEF m
<1>9. job'[p].at = "record"
  BY <1>8, Moved
<1>10. Prepared(job[p])'
  BY <1>9 DEF Prepared
<1> HIDE DEF j
<1> QED BY <1>1, <1>3, <1>5, <1>6, <1>7, <1>8, <1>10, MovePromises

\* A job that saves its manifest and moves on to a step that has none.
LEMMA SavedPromises ==
  ASSUME MInv, MInv', Promises, NEW p \in Proc, job[p].at \notin Blank,
         rows' = job[p].mine, UNCHANGED <<disk, unused>>,
         \/ doomed' = doomed
         \/ /\ doomed' = doomed \ job[p].target
            /\ DOMAIN job[p].mine \cap job[p].target = {},
         Do(p, "prune", NoRows, {}, {}) \/ End(p)
  PROVE  Promises'
<1>1. /\ \A q \in Proc : Busy(q) => q = p
      /\ Honest(job[p].mine) /\ OneName
  BY AtWork
<1>2. OneName' /\ Honest(rows)'
  BY <1>1 DEF OneName, Honest
<1>3. CASE Do(p, "prune", NoRows, {}, {})
  BY <1>1, <1>2, <1>3, MovePromises DEF Blank
<1>4. CASE End(p)
  BY <1>1, <1>2, <1>4, EndPromises
<1> QED BY <1>3, <1>4

LEMMA RecordKeeps ==
  ASSUME MInv, Promises, NEW p \in Proc, Record(p)
  PROVE  Promises'
<1>1. /\ MInv' /\ job[p].at = "record" /\ rows' = job[p].mine
      /\ UNCHANGED <<disk, unused, doomed>>
      /\ Do(p, "prune", NoRows, {}, {}) \/ End(p)
  BY RecordInv DEF Record
<1> QED BY <1>1, SavedPromises DEF Blank

-----------------------------------------------------------------------------
(* So do deletions *)

\* A process that loads the manifest and sets to work on some of its names.
LEMMA LoadedPromises ==
  ASSUME MInv, MInv', Promises, NEW p \in Proc, \A q \in Proc : Busy(q) => q = p,
         NEW at, NEW mine, NEW target, Do(p, at, mine, target, target),
         UNCHANGED <<rows, disk, unused>>, doomed \subseteq doomed',
         mine = rows \/ \A n \in DOMAIN mine :
                          n \in DOMAIN rows /\ Kept(mine[n], disk[n]),
         \/ at = "save"
         \/ at \in {"rename", "index"} /\ mine = rows
            /\ (at = "rename" => \A n \in target : rows[n].status = "failed")
         \/ at = "unlink" /\ target \subseteq doomed'
  PROVE  Promises'
<1>1. OneName' /\ Honest(rows)'
  BY QuietStore
<1>2. \A n \in DOMAIN mine :
         n \notin unused' /\ (n \notin doomed' => Kept(mine[n], disk'[n]))
  BY <1>1 DEF Honest
<1>3. /\ job'[p].at = at /\ job'[p].mine = mine /\ job'[p].target = target
      /\ job'[p].todo = target
  BY Moved
<1>4. Prepared(job[p])'
  BY <1>3 DEF Prepared
<1> QED BY <1>1, <1>2, <1>4, MovePromises

LEMMA RemoveKeeps ==
  ASSUME MInv, Promises, NEW p \in Proc, \A q \in Proc : Busy(q) => q = p,
         NEW S \in SUBSET DOMAIN rows, Remove(p, S)
  PROVE  Promises'
<1>1. /\ MInv' /\ Do(p, "unlink", rows, S, S) /\ doomed' = doomed \cup S
      /\ UNCHANGED <<rows, disk, unused>>
  BY RemoveInv DEF Remove
<1> QED BY <1>1, LoadedPromises

LEMMA LoadPruneKeeps ==
  ASSUME MInv, Promises, NEW p \in Proc, LoadPrune(p)
  PROVE  Promises'
<1>1. MInv' /\ \A q \in Proc : Busy(q) => q = p
  BY LoadPruneInv DEF LoadPrune, MInv, OneBusy, Busy
<1>2. ASSUME NEW S \in SUBSET DOMAIN rows \ {{}}, Remove(p, S)
      PROVE  Promises'
  BY <1>1, <1>2, RemoveKeeps
<1>3. CASE End(p) /\ UNCHANGED <<rows, disk, meta, unused, doomed, faults>>
  BY <1>1, <1>3, QuietStore, EndPromises
<1> QED BY <1>2, <1>3 DEF LoadPrune

LEMMA StartDeleteKeeps ==
  ASSUME Serial, MInv, Promises, NEW p \in Proc, StartDelete(p)
  PROVE  Promises'
BY StartFacts, RemoveKeeps DEF StartDelete

LEMMA UnlinkKeeps ==
  ASSUME MInv, Promises, NEW p \in Proc, Unlink(p)
  PROVE  Promises'
<1> DEFINE j == job[p]
<1>1. /\ MInv' /\ j.at = "unlink" /\ UNCHANGED <<rows, unused, doomed>>
  BY UnlinkInv DEF Unlink
<1>2. PICK n \in j.todo :
        \/ /\ \E f \in disk[n] : disk' = [disk EXCEPT ![n] = @ \ {f}]
           /\ UNCHANGED job
        \/ /\ UNCHANGED disk
           /\ DoNext(p, n, Restrict(j.mine, DOMAIN j.mine \ {n}), "drop")
  BY DEF Unlink
<1>3. /\ \A q \in Proc : Busy(q) => q = p
      /\ Honest(j.mine) /\ Honest(rows) /\ OneName
      /\ j.target \subseteq Name /\ j.todo \subseteq j.target
      /\ IsManifest(j.mine) /\ IsManifest(rows) /\ disk \in [Name -> SUBSET Files]
      /\ j.target \subseteq doomed /\ DOMAIN j.mine \cap j.target \subseteq j.todo
  BY <1>1, AtWork DEF Prepared, Blank
<1>4. CASE /\ \E f \in disk[n] : disk' = [disk EXCEPT ![n] = @ \ {f}]
           /\ UNCHANGED job
  <2>1. /\ n \in doomed /\ \A k \in Name : disk'[k] \subseteq disk[k]
        /\ \A k \in Name \ {n} : disk'[k] = disk[k]
    BY <1>3, <1>4
  <2>2. OneName'
    BY <1>3, <2>1 DEF OneName
  <2>3. Honest(rows)' /\ Honest(j.mine)'
    BY <1>1, <1>3, <1>4, <2>1 DEF Honest, IsManifest
  <2>4. Prepared(j)'
    BY <1>1, <1>3, <1>4 DEF Prepared
  <2>5. \A q \in Proc : job[q].at \notin Blank => q = p
    BY <1>3 DEF Busy, Blank
  <2> QED BY <1>4, <2>2, <2>3, <2>4, <2>5 DEF Promises
<1>5. CASE /\ UNCHANGED disk
           /\ DoNext(p, n, Restrict(j.mine, DOMAIN j.mine \ {n}), "drop")
  <2> DEFINE m == Restrict(j.mine, DOMAIN j.mine \ {n})
  <2>1. /\ DOMAIN m = DOMAIN j.mine \ {n}
        /\ \A k \in DOMAIN m : m[k] = j.mine[k]
    BY DEF Restrict
  <2>2. DoNext(p, n, m, "drop")
    BY <1>5
  <2> HIDE DEF m
  <2>3. OneName' /\ Honest(rows)'
    BY <1>1, <1>5, QuietStore
  <2>4. \A k \in DOMAIN m :
           k \notin unused' /\ (k \notin doomed' => Kept(m[k], disk'[k]))
    BY <1>1, <1>3, <1>5, <2>1 DEF Honest
  <2>5. CASE j.todo = {n} /\ Do(p, "drop", m, j.target, j.target)
    <3>1. /\ job'[p].at = "drop" /\ job'[p].mine = m
          /\ job'[p].target = j.target
      BY <2>5, Moved
    <3>2. Prepared(job[p])'
      BY <1>3, <2>1, <2>5, <3>1 DEF Prepared
    <3> HIDE DEF j
    <3> QED BY <1>1, <1>3, <2>3, <2>4, <2>5, <3>2, MovePromises
  <2>6. CASE Do(p, "unlink", m, j.target, j.todo \ {n})
    <3>1. /\ job'[p].at = "unlink" /\ job'[p].mine = m
          /\ job'[p].target = j.target /\ job'[p].todo = j.todo \ {n}
      BY <2>6, Moved
    <3>2. Prepared(job[p])'
      BY <1>1, <1>3, <2>1, <3>1 DEF Prepared
    <3> HIDE DEF j
    <3> QED BY <1>1, <1>3, <2>3, <2>4, <2>6, <3>2, MovePromises
  <2> QED BY <1>1, <2>2, <2>5, <2>6, DoNextCases
<1> QED BY <1>2, <1>4, <1>5

LEMMA DropKeeps ==
  ASSUME MInv, Promises, NEW p \in Proc, Drop(p)
  PROVE  Promises'
<1>1. /\ MInv' /\ job[p].at = "drop" /\ rows' = job[p].mine /\ End(p)
      /\ doomed' = doomed \ job[p].target /\ UNCHANGED <<disk, unused>>
  BY DropInv DEF Drop
<1>2. DOMAIN job[p].mine \cap job[p].target = {}
  BY <1>1, AtWork DEF Prepared, Blank
<1> QED BY <1>1, <1>2, SavedPromises DEF Blank

-----------------------------------------------------------------------------
(* And repairs *)

LEMMA StartRecoverKeeps ==
  ASSUME Serial, MInv, Promises, NEW p \in Proc, StartRecover(p)
  PROVE  Promises'
<1>1. MInv' /\ Free(p) /\ UNCHANGED <<rows, disk, unused, doomed>>
  BY StartRecoverInv DEF StartRecover
<1>2. PICK n \in DOMAIN rows : /\ rows[n].status = "failed"
                               /\ Do(p, "rename", rows, {n}, {n})
  BY DEF StartRecover
<1>3. \A k \in {n} : rows[k].status = "failed"
  BY <1>2
<1> QED BY <1>1, <1>2, <1>3, StartFacts, LoadedPromises

\* What a repair does to the files of its one name, before the rows change.
LEMMA RepairedStore ==
  ASSUME MInv, Promises, NEW p \in Proc, job[p].at \in {"rename", "check", "index"},
         NEW n \in job[p].target, NEW files, disk' = [disk EXCEPT ![n] = files],
         UNCHANGED <<rows, unused, doomed>>,
         ~ {"bare", "failed"} \subseteq files, disk[n] \cap {"idx"} \subseteq files,
         \/ disk[n] \cap {"bare", "failed"} \subseteq files
         \/ /\ job[p].at # "index"
            /\ disk[n] \cap {"bare", "failed"} # {} =>
                 {"bare", "failed"} \cap files # {}
  PROVE  OneName' /\ Honest(rows)'
<1>1. /\ Honest(rows) /\ OneName /\ IsManifest(rows)
      /\ job[p].target \subseteq Name /\ disk \in [Name -> SUBSET Files]
      /\ job[p].at # "index" => rows[n].status = "failed"
  BY AtWork DEF Prepared, Blank
<1>2. disk'[n] = files /\ \A k \in Name \ {n} : disk'[k] = disk[k]
  BY <1>1
<1>3. OneName'
  BY <1>1, <1>2 DEF OneName
<1>4. n \in DOMAIN rows /\ Kept(rows[n], disk[n]) => Kept(rows[n], disk'[n])
  BY <1>1, <1>2 DEF Kept
<1>5. Honest(rows)'
  BY <1>1, <1>2, <1>4 DEF Honest, IsManifest
<1> QED BY <1>3, <1>5

LEMMA UnquarantineKeeps ==
  ASSUME MInv, Promises, NEW p \in Proc, Unquarantine(p)
  PROVE  Promises'
<1>1. /\ MInv' /\ job[p].at = "rename" /\ UNCHANGED <<rows, unused, doomed>>
  BY UnquarantineInv DEF Unquarantine
<1>2. PICK n \in job[p].target :
        \/ /\ "failed" \in disk[n]
           /\ disk' = [disk EXCEPT ![n] = (@ \ {"failed"}) \cup {"bare"}]
           /\ Do(p, "check", job[p].mine, {n}, {n})
        \/ Do(p, "check", job[p].mine, {n}, {n}) /\ UNCHANGED disk
        \/ End(p) /\ UNCHANGED disk
  BY DEF Unquarantine
<1>3. /\ \A q \in Proc : Busy(q) => q = p
      /\ job[p].mine = rows /\ rows[n].status = "failed"
  BY <1>1, AtWork DEF Prepared, Blank
<1>4. OneName' /\ Honest(rows)'
  <2>1. CASE UNCHANGED disk
    BY <1>1, <2>1, QuietStore
  <2>2. CASE disk' = [disk EXCEPT ![n] = (@ \ {"failed"}) \cup {"bare"}]
    <3> DEFINE files == (disk[n] \ {"failed"}) \cup {"bare"}
    <3>1. /\ ~ {"bare", "failed"} \subseteq files
          /\ disk[n] \cap {"idx"} \subseteq files
          /\ {"bare", "failed"} \cap files # {}
      OBVIOUS
    <3>2. disk' = [disk EXCEPT ![n] = files]
      BY <2>2
    <3> HIDE DEF files
    <3> QED BY <1>1, <3>1, <3>2, RepairedStore
  <2> QED BY <1>2, <2>1, <2>2
<1>5. CASE Do(p, "check", job[p].mine, {n}, {n})
  <2>1. /\ job'[p].at = "check" /\ job'[p].mine = rows
        /\ job'[p].target = {n}
    BY <1>3, <1>5, Moved
  <2>2. Prepared(job[p])'
    BY <1>1, <1>3, <2>1 DEF Prepared
  <2>3. Do(p, "check", rows, {n}, {n})
    BY <1>3, <1>5
  <2>4. \A k \in DOMAIN rows :
           k \notin unused' /\ (k \notin doomed' => Kept(rows[k], disk'[k]))
    BY <1>1, <1>4 DEF Honest
  <2> QED BY <1>1, <1>3, <1>4, <2>2, <2>3, <2>4, MovePromises
<1>6. CASE End(p)
  BY <1>1, <1>3, <1>4, <1>6, EndPromises
<1> QED BY <1>2, <1>5, <1>6

\* A repair goes on to save its manifest.
LEMMA RepairedPromises ==
  ASSUME MInv, MInv', Promises, NEW p \in Proc,
         job[p].at \in {"check", "index"}, NEW n \in job[p].target,
         OneName', Honest(rows)', UNCHANGED <<rows, unused, doomed>>,
         NEW mine, mine = rows \/ \E r : mine = With(rows, {n}, r)
                                         /\ Kept(r, disk'[n]),
         n \in DOMAIN rows, Do(p, "save", mine, {n}, {n})
  PROVE  Promises'
<1>1. \A q \in Proc : Busy(q) => q = p
  BY AtWork DEF Blank
<1>2. \A k \in DOMAIN mine :
         k \notin unused' /\ (k \notin doomed' => Kept(mine[k], disk'[k]))
  <2>1. CASE mine = rows
    BY <2>1 DEF Honest
  <2>2. ASSUME NEW r, mine = With(rows, {n}, r), Kept(r, disk'[n])
        PROVE  \A k \in DOMAIN mine :
                  k \notin unused' /\ (k \notin doomed' => Kept(mine[k], disk'[k]))
    <3>1. /\ DOMAIN mine = DOMAIN rows \cup {n} /\ mine[n] = r
          /\ \A k \in DOMAIN rows \ {n} : mine[k] = rows[k]
      BY <2>2 DEF With
    <3> QED BY <2>2, <3>1 DEF Honest
  <2> QED BY <2>1, <2>2
<1>3. job'[p].at = "save"
  BY Moved
<1>4. Prepared(job[p])'
  BY <1>3 DEF Prepared
<1> QED BY <1>1, <1>2, <1>4, MovePromises

LEMMA RecheckKeeps ==
  ASSUME MInv, Promises, NEW p \in Proc, Recheck(p)
  PROVE  Promises'
<1>1. /\ MInv' /\ job[p].at = "check" /\ UNCHANGED <<rows, unused, doomed>>
  BY RecheckInv DEF Recheck
<1>2. PICK n \in job[p].target :
        \/ /\ "bare" \in disk[n] /\ disk' = [disk EXCEPT ![n] = @ \cup {"idx"}]
           /\ Do(p, "save", With(job[p].mine, {n}, Row("ok", TRUE)), {n}, {n})
        \/ disk' = [disk EXCEPT ![n] = Quarantined(@)] /\ End(p)
        \/ UNCHANGED disk /\ End(p)
  BY DEF Recheck
<1>3. /\ \A q \in Proc : Busy(q) => q = p
      /\ job[p].mine = rows /\ OneName /\ n \in Name /\ n \in DOMAIN rows
      /\ disk \in [Name -> SUBSET Files]
  BY <1>1, AtWork DEF Prepared, Blank, Saving
<1>4. ~ {"bare", "failed"} \subseteq disk[n]
  BY <1>3 DEF OneName
<1>5. CASE /\ "bare" \in disk[n] /\ disk' = [disk EXCEPT ![n] = @ \cup {"idx"}]
           /\ Do(p, "save", With(job[p].mine, {n}, Row("ok", TRUE)), {n}, {n})
  <2> DEFINE files == disk[n] \cup {"idx"}
  <2>1. /\ ~ {"bare", "failed"} \subseteq files
        /\ disk[n] \cap {"idx"} \subseteq files
        /\ disk[n] \cap {"bare", "failed"} \subseteq files
        /\ "bare" \in files /\ "idx" \in files
    BY <1>4, <1>5
  <2>2. disk' = [disk EXCEPT ![n] = files] /\ disk'[n] = files
    BY <1>3, <1>5
  <2> HIDE DEF files
  <2>3. OneName' /\ Honest(rows)'
    BY <1>1, <2>1, <2>2, RepairedStore
  <2>4. Kept(Row("ok", TRUE), disk'[n])
    BY <2>1, <2>2, RowFields DEF Kept
  <2> DEFINE m == With(rows, {n}, Row("ok", TRUE))
  <2>5. /\ Do(p, "save", m, {n}, {n})
        /\ \E r : m = With(rows, {n}, r) /\ Kept(r, disk'[n])
    BY <1>3, <1>5, <2>4
  <2> HIDE DEF m
  <2> QED BY <1>1, <1>3, <2>3, <2>5, RepairedPromises
<1>6. CASE disk' = [disk EXCEPT ![n] = Quarantined(@)] /\ End(p)
  <2> DEFINE files == Quarantined(disk[n])
  <2>1. /\ ~ {"bare", "failed"} \subseteq files
        /\ disk[n] \cap {"idx"} \subseteq files
        /\ disk[n] \cap {"bare", "failed"} # {} =>
             {"bare", "failed"} \cap files # {}
    BY <1>4 DEF Quarantined
  <2>2. disk' = [disk EXCEPT ![n] = files]
    BY <1>6
  <2> HIDE DEF files
  <2>3. OneName' /\ Honest(rows)'
    BY <1>1, <2>1, <2>2, RepairedStore
  <2> QED BY <1>1, <1>3, <1>6, <2>3, EndPromises
<1>7. CASE UNCHANGED disk /\ End(p)
  BY <1>1, <1>3, <1>7, QuietStore, EndPromises
<1> QED BY <1>2, <1>5, <1>6, <1>7

LEMMA StartReindexKeeps ==
  ASSUME Serial, MInv, Promises, NEW p \in Proc, StartReindex(p)
  PROVE  Promises'
<1>1. MInv' /\ Free(p) /\ UNCHANGED <<rows, disk, unused, doomed>>
  BY StartReindexInv DEF StartReindex
<1>2. PICK n \in Name : Do(p, "index", rows, {n}, {n})
  BY DEF StartReindex
<1> QED BY <1>1, <1>2, StartFacts, LoadedPromises

LEMMA ReindexKeeps ==
  ASSUME MInv, Promises, NEW p \in Proc, Reindex(p)
  PROVE  Promises'
<1>1. /\ MInv' /\ job[p].at = "index" /\ UNCHANGED <<rows, unused, doomed>>
  BY ReindexInv DEF Reindex
<1>2. PICK n \in job[p].target, described \in BOOLEAN :
        \/ /\ "bare" \in disk[n] /\ n \in DOMAIN job[p].mine
           /\ disk' = [disk EXCEPT ![n] = @ \cup {"idx"} \cup
                          IF described THEN {"meta"} ELSE {}]
           /\ Do(p, "save", With(job[p].mine, {n},
                                 Row(job[p].mine[n].status, TRUE)), {n}, {n})
        \/ /\ n \notin DOMAIN job[p].mine
           /\ disk' = [disk EXCEPT ![n] = @ \cup {"idx"}]
           /\ Do(p, "save", job[p].mine, {n}, {n})
        \/ End(p) /\ UNCHANGED disk
  BY DEF Reindex
<1>3. /\ \A q \in Proc : Busy(q) => q = p
      /\ job[p].mine = rows /\ OneName /\ n \in Name /\ n \in DOMAIN rows
      /\ Honest(rows) /\ disk \in [Name -> SUBSET Files]
  BY <1>1, AtWork DEF Prepared, Blank, Saving
<1>4. ~ {"bare", "failed"} \subseteq disk[n]
  BY <1>3 DEF OneName
<1>5. CASE /\ "bare" \in disk[n] /\ n \in DOMAIN job[p].mine
           /\ disk' = [disk EXCEPT ![n] = @ \cup {"idx"} \cup
                          IF described THEN {"meta"} ELSE {}]
           /\ Do(p, "save", With(job[p].mine, {n},
                                 Row(job[p].mine[n].status, TRUE)), {n}, {n})
  <2> DEFINE files == disk[n] \cup {"idx"} \cup
                        IF described THEN {"meta"} ELSE {}
             r == Row(rows[n].status, TRUE)
  <2>1. /\ ~ {"bare", "failed"} \subseteq files
        /\ disk[n] \cap {"idx"} \subseteq files
        /\ disk[n] \cap {"bare", "failed"} \subseteq files
        /\ "bare" \in files /\ "idx" \in files
    BY <1>4, <1>5
  <2>2. disk' = [disk EXCEPT ![n] = files] /\ disk'[n] = files
    BY <1>3, <1>5
  <2> HIDE DEF files
  <2>3. OneName' /\ Honest(rows)'
    BY <1>1, <2>1, <2>2, RepairedStore
  <2>4. Kept(r, disk'[n])
    BY <2>1, <2>2, RowFields DEF Kept
  <2> DEFINE m == With(rows, {n}, r)
  <2>5. Do(p, "save", m, {n}, {n})
    BY <1>3, <1>5
  <2>6. \E s : m = With(rows, {n}, s) /\ Kept(s, disk'[n])
    BY <2>4
  <2> HIDE DEF m
  <2> QED BY <1>1, <1>3, <2>3, <2>5, <2>6, RepairedPromises
<1>6. CASE End(p) /\ UNCHANGED disk
  BY <1>1, <1>3, <1>6, QuietStore, EndPromises
<1> QED BY <1>2, <1>3, <1>5, <1>6

\* finalize-archive and verify give one row another status.
LEMMA VerdictKeeps ==
  ASSUME Serial, MInv, MInv', Promises, NEW p \in Proc, Free(p),
         NEW n \in DOMAIN rows, NEW r,
         n \in doomed \/ Kept(r, disk[n]),
         Do(p, "save", With(rows, {n}, r), {n}, {n}),
         UNCHANGED <<rows, disk, unused, doomed>>
  PROVE  Promises'
<1> DEFINE m == With(rows, {n}, r)
<1>1. /\ DOMAIN m = DOMAIN rows \cup {n} /\ m[n] = r
      /\ \A k \in DOMAIN rows \ {n} : m[k] = rows[k]
  BY DEF With
<1>2. Do(p, "save", m, {n}, {n})
  OBVIOUS
<1> HIDE DEF m
<1>3. OneName' /\ Honest(rows)'
  BY QuietStore
<1>4. \A k \in DOMAIN m :
         k \notin unused' /\ (k \notin doomed' => Kept(m[k], disk'[k]))
  BY <1>1, <1>3 DEF Honest
<1>5. job'[p].at = "save"
  BY <1>2, Moved
<1>6. Prepared(job[p])'
  BY <1>5 DEF Prepared
<1> QED BY <1>2, <1>3, <1>4, <1>6, StartFacts, MovePromises

LEMMA StartFinalizeKeeps ==
  ASSUME Serial, MInv, Promises, NEW p \in Proc, StartFinalize(p)
  PROVE  Promises'
<1>1. MInv' /\ Free(p) /\ UNCHANGED <<rows, disk, unused, doomed>>
  BY StartFinalizeInv DEF StartFinalize
<1>2. PICK n \in DOMAIN rows, status \in {"ok", "failed"} :
        /\ "bare" \in disk[n]
        /\ Do(p, "save", With(rows, {n}, Row(status, "idx" \in disk[n])), {n},
              {n})
  BY DEF StartFinalize
<1> DEFINE r == Row(status, "idx" \in disk[n])
<1>3. r.status = status /\ r.index = ("idx" \in disk[n])
  BY RowFields
<1>4. Do(p, "save", With(rows, {n}, r), {n}, {n})
  BY <1>2
<1> HIDE DEF r
<1>5. Kept(r, disk[n])
  BY <1>2, <1>3 DEF Kept
<1> QED BY <1>1, <1>4, <1>5, VerdictKeeps

LEMMA StartVerifyKeeps ==
  ASSUME Serial, MInv, Promises, NEW p \in Proc, StartVerify(p)
  PROVE  Promises'
<1>1. MInv' /\ Free(p) /\ UNCHANGED <<rows, disk, unused, doomed>>
  BY StartVerifyInv DEF StartVerify
<1>2. PICK n \in DOMAIN rows :
        \E status : /\ "bare" \in disk[n]
                    /\ Do(p, "save", With(rows, {n}, Row(status, rows[n].index)),
                          {n}, {n})
  BY DEF StartVerify
<1>3. PICK status :
        /\ "bare" \in disk[n]
        /\ Do(p, "save", With(rows, {n}, Row(status, rows[n].index)), {n}, {n})
  BY <1>2
<1> DEFINE r == Row(status, rows[n].index)
<1>4. r.status = status /\ r.index = rows[n].index
  BY RowFields
<1>5. Do(p, "save", With(rows, {n}, r), {n}, {n})
  BY <1>3
<1> HIDE DEF r
<1>6. n \in doomed \/ Kept(r, disk[n])
  BY <1>3, <1>4 DEF Promises, Honest, Kept
<1> QED BY <1>1, <1>5, <1>6, VerdictKeeps

LEMMA StartRefreshKeeps ==
  ASSUME Serial, MInv, Promises, NEW p \in Proc, StartRefresh(p)
  PROVE  Promises'
<1>1. MInv' /\ Free(p) /\ UNCHANGED <<rows, disk, unused, doomed>>
  BY StartRefreshInv DEF StartRefresh
<1> DEFINE src == IF rows = NoRows THEN Rebuilt ELSE rows
           m == [n \in DOMAIN src |-> Row(src[n].status, "idx" \in disk[n])]
<1>2. Do(p, "save", m, {}, {})
  BY DEF StartRefresh
<1>3. DOMAIN src = DOMAIN rows
      /\ \A n \in DOMAIN rows : src[n] = rows[n]
  <2>1. CASE rows = NoRows
    <3>1. \A n \in Name : disk[n] = {}
      BY <2>1, NoRowsFacts DEF MInv, FilesAreTracked
    <3>2. DOMAIN Rebuilt = {}
      BY <3>1 DEF Rebuilt
    <3> QED BY <2>1, <3>2, NoRowsFacts
  <2>2. CASE rows # NoRows
    BY <2>2
  <2> QED BY <2>1, <2>2
<1> HIDE DEF src
<1>4. /\ DOMAIN m = DOMAIN rows
      /\ \A n \in DOMAIN rows : m[n] = Row(rows[n].status, "idx" \in disk[n])
  BY <1>3
<1> HIDE DEF m
<1>5. OneName' /\ Honest(rows)'
  BY <1>1, QuietStore
<1>6. ASSUME NEW n \in DOMAIN m
      PROVE  n \notin unused' /\ (n \notin doomed' => Kept(m[n], disk'[n]))
  <2>1. m[n].status = rows[n].status /\ m[n].index = ("idx" \in disk[n])
    BY <1>4, RowFields
  <2>2. Kept(rows[n], disk[n]) => Kept(m[n], disk[n])
    BY <2>1 DEF Kept
  <2> QED BY <1>1, <1>4, <1>5, <2>2 DEF Honest
<1>7. job'[p].at = "save"
  BY <1>2, Moved
<1>8. Prepared(job[p])'
  BY <1>7 DEF Prepared
<1> QED BY <1>1, <1>2, <1>5, <1>6, <1>8, StartFacts, MovePromises

LEMMA SaveKeeps ==
  ASSUME MInv, Promises, NEW p \in Proc, Save(p)
  PROVE  Promises'
<1>1. /\ MInv' /\ job[p].at = "save" /\ rows' = job[p].mine /\ End(p)
      /\ UNCHANGED <<disk, unused, doomed>>
  BY SaveInv DEF Save
<1> QED BY <1>1, SavedPromises DEF Blank

LEMMA DieKeeps ==
  ASSUME MInv, Promises, NEW p \in Proc, Die(p)
  PROVE  Promises'
<1>1. /\ MInv' /\ Busy(p) /\ End(p) /\ UNCHANGED <<rows, disk, unused, doomed>>
  BY DieInv DEF Die, Busy
<1>2. \A q \in Proc : Busy(q) => q = p
  BY <1>1 DEF MInv, OneBusy
<1> QED BY <1>1, <1>2, QuietStore, EndPromises

LEMMA NextPromises ==
  ASSUME Serial, MInv, Promises, [Next]_vars
  PROVE  Promises'
<1>1. ASSUME NEW p \in Proc, Backup(p)
      PROVE  Promises'
  BY <1>1, StartBackupKeeps, LoadBackupKeeps, SaveBegunKeeps, WriteShardKeeps,
     SettleShardKeeps, MarkCorruptKeeps, RecordKeeps DEF Backup
<1>2. ASSUME NEW p \in Proc, Deletion(p)
      PROVE  Promises'
  BY <1>2, LoadPruneKeeps, StartDeleteKeeps, UnlinkKeeps, DropKeeps
  DEF Deletion
<1>3. ASSUME NEW p \in Proc, Repair(p)
      PROVE  Promises'
  BY <1>3, StartRecoverKeeps, UnquarantineKeeps, RecheckKeeps,
     StartReindexKeeps, ReindexKeeps, StartFinalizeKeeps, StartVerifyKeeps,
     StartRefreshKeeps, SaveKeeps DEF Repair
<1>4. ASSUME NEW p \in Proc, Die(p)
      PROVE  Promises'
  BY <1>4, DieKeeps
<1>5. ~ Lose
  BY DEF Lose, Serial
<1>6. CASE UNCHANGED vars
  BY <1>6 DEF vars, Promises, OneName, Honest, Prepared
<1> QED BY <1>1, <1>2, <1>3, <1>4, <1>5, <1>6 DEF Next

\* While commands exclude one another, the archive of a good or corrupt row is
\* there under its bare name, that of a failed one under exactly one of its two
\* names, and every index a row claims, however many names, processes and
\* deaths there are (_finalize_one, _recover_failed_one, _reindex_one and the
\* rest).
THEOREM RowsAreStoredTheorem ==
  ASSUME Serial
  PROVE  Spec => []RowsAreStored
<1>1. Init => MInv /\ Promises
  BY InitMInv, InitPromises
<1>2. MInv /\ Promises /\ [Next]_vars => MInv' /\ Promises'
  BY NextInv, NextPromises
<1>3. MInv /\ Promises => RowsAreStored
  <2> SUFFICES ASSUME MInv, Promises, NEW n \in DOMAIN rows \ doomed
               PROVE  /\ rows[n].status \in {"ok", "corrupt"} => "bare" \in disk[n]
                      /\ rows[n].status = "failed" =>
                           ("bare" \in disk[n]) # ("failed" \in disk[n])
                      /\ rows[n].index => "idx" \in disk[n]
    BY DEF RowsAreStored
  <2>1. Kept(rows[n], disk[n]) /\ n \in Name
    BY TypesOfStores DEF Promises, Honest, StoreTypes, IsManifest
  <2>2. ~ {"bare", "failed"} \subseteq disk[n]
    BY <2>1 DEF Promises, OneName
  <2> QED BY <2>1, <2>2 DEF Kept
<1> QED BY <1>1, <1>2, <1>3, PTL DEF Spec

=============================================================================
