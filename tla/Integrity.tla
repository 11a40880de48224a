------------------------------ MODULE Integrity ------------------------------
(***************************************************************************)
(* What TimeTraveller knows about the damage of one backup, and what it    *)
(* does about it: the check of each shard after it was written, --verify   *)
(* with what it records in the manifest, and --heal, which looks for a     *)
(* clean copy of each damaged member in the other archives.  Commands run  *)
(* one at a time; the disks change at any moment.                          *)
(***************************************************************************)
EXTENDS FrameVerify, Sequences, FiniteSetsExt

CONSTANTS
    Target,     \* the shards of the backup
    Candidates, \* the other archives, a sequence, the newest first
    Kind,       \* for each archive and member: f, d, l, h, or none
    Spread,     \* for each archive and member: the frames of its data
    Legacy,     \* archives without a frame list that has checksums
    NoIndex     \* archives without a usable index

Member == UNION {DOMAIN Kind[a] : a \in Archive}

ASSUME IntegrityAssumption ==
    /\ Target \subseteq Archive /\ Target # {}
    /\ Candidates \in Seq(Archive \ Target)
    /\ Kind \in [Archive -> [Member -> {"f", "d", "l", "h", "none"}]]
    /\ Spread \in [Archive -> [Member -> SUBSET Frame]]
    /\ \A a \in Archive, m \in Member : Kind[a][m] # "f" => Spread[a][m] = {}
    /\ Legacy \subseteq Archive /\ NoIndex \subseteq Archive

VARIABLES
    row,     \* the manifest's row of each shard
    cmd,     \* the command that runs: backup, verify, heal, copy, or none
    todo,    \* shards it has still to check
    found,   \* what it has found in each shard
    damaged, \* heal: members damaged in a bad frame
    from,    \* heal: the archive a member was recovered from
    out,     \* heal: what is at the destination
    turn,    \* heal: the candidate to try next
    rc       \* exit code of the last heal

vars == <<disks, check, row, cmd, todo, found, damaged, from, out, turn, rc>>

Row(status, flagged, verify) ==
    [status |-> status, flagged |-> flagged, verify |-> verify]
Nothing == [state |-> "none", bad |-> {}, unstable |-> {}, rotten |-> {}]
NoFind == [t \in Target |-> Nothing]
Verdict(state) == [Nothing EXCEPT !.state = state]
None == [m \in {} |-> "none"]

healing == <<damaged, from, out, turn, rc>>

\* A backup has just been written.
Init ==
    /\ DiskInit /\ check = NoCheck
    /\ row = [t \in Target |-> Row("ok", FALSE, "")]
    /\ cmd = "backup" /\ todo = Target /\ found = NoFind
    /\ damaged = {} /\ from = None /\ out = None /\ turn = 1 /\ rc = 0

Finish == cmd' = "none" /\ todo' = {} /\ found' = NoFind

-----------------------------------------------------------------------------
(* Checking one shard, for whichever command *)

\* Faulty variant of DropsCache: heal trusts the page cache.
DropsCacheOnBackup == cmd = "backup"

\* --verify leaves the page cache as it is.
DropsCache == cmd \in {"backup", "heal"}

CheckShard(t) ==
    /\ t \in todo /\ t \notin Legacy
    /\ Begin(t, DropsCache)
    /\ UNCHANGED <<row, cmd, todo, found, healing>>

\* There is no checksum to compare with: a backup says so, --verify reads the
\* archive with tar and records nothing, --heal finds nothing.
PassOver(t) ==
    /\ t \in todo /\ t \in Legacy /\ check.at = "idle"
    /\ todo' = todo \ {t}
    /\ found' = [found EXCEPT ![t] = Verdict("unverified")]
    /\ UNCHANGED <<disks, check, row, cmd, healing>>

\* Faulty variant of FramesToFiles: a member lies where it begins.
FramesToFilesAtStart(t, bad) ==
    IF t \in NoIndex THEN {}
    ELSE {m \in Member : /\ Kind[t][m] = "f" /\ Spread[t][m] # {}
                         /\ Min(Spread[t][m]) \in bad}

\* frames_to_files: the members whose data overlaps a bad frame.
FramesToFiles(t, bad) ==
    IF t \in NoIndex THEN {}
    ELSE {m \in Member : Kind[t][m] = "f" /\ Spread[t][m] \cap bad # {}}

EndCheck ==
    /\ check.at = "done"
    /\ LET t == check.archive
       IN  /\ todo' = todo \ {t}
           /\ found' = [found EXCEPT ![t] =
                          [state |-> "verified", bad |-> check.bad,
                           unstable |-> check.unstable,
                           rotten |-> check.rotten]]
           /\ damaged' = IF cmd = "heal"
                         THEN damaged \cup FramesToFiles(t, check.bad)
                         ELSE damaged
    /\ check' = NoCheck
    /\ UNCHANGED <<disks, row, cmd, from, out, turn, rc>>

\* A read raises: a backup goes on, the other commands end.
ReadError ==
    /\ Reading
    /\ check' = NoCheck
    /\ IF cmd = "backup"
       THEN /\ todo' = todo \ {check.archive}
            /\ found' = [found EXCEPT ![check.archive] = Verdict("error")]
            /\ UNCHANGED <<cmd, rc>>
       ELSE Finish /\ rc' = 1
    /\ UNCHANGED <<disks, row, damaged, from, out, turn>>

-----------------------------------------------------------------------------
(* The check after a backup *)

SkipVerify ==
    /\ cmd = "backup" /\ todo = Target /\ check.at = "idle"
    /\ todo' = {}
    /\ found' = [t \in Target |-> Verdict("disabled")]
    /\ UNCHANGED <<disks, check, row, cmd, healing>>

\* _record_verify_states and _mark_corrupt_shards.
RecordBackup ==
    /\ cmd = "backup" /\ todo = {}
    /\ row' = [t \in Target |->
                 IF found[t].bad = {}
                 THEN [row[t] EXCEPT !.verify = found[t].state]
                 ELSE Row("corrupt", TRUE, found[t].state)]
    /\ Finish
    /\ UNCHANGED <<disks, check, healing>>

-----------------------------------------------------------------------------
(* --verify *)

StartVerify ==
    /\ cmd = "none"
    /\ cmd' = "verify" /\ todo' = Target
    /\ UNCHANGED <<disks, check, row, found, healing>>

\* What a verdict makes of a row.
Reconciled(r, clean) ==
    IF clean THEN Row("ok", FALSE, "verified")
    ELSE IF r.flagged \/ r.status = "corrupt" THEN r
    ELSE Row("corrupt", FALSE, "verified")

\* _reconcile_after_verify.
Reconcile ==
    /\ cmd = "verify" /\ todo = {}
    /\ row' = [t \in Target |-> IF found[t].state # "verified" THEN row[t]
                                ELSE Reconciled(row[t], found[t].bad = {})]
    /\ Finish
    /\ UNCHANGED <<disks, check, healing>>

-----------------------------------------------------------------------------
(* --heal *)

\* The shards flagged by a backup's check, or all if none is.
ToCheck ==
    LET flagged == {t \in Target : row[t].flagged}
    IN  IF flagged = {} THEN Target ELSE flagged

StartHeal ==
    /\ cmd = "none"
    /\ cmd' = "heal" /\ todo' = ToCheck
    /\ damaged' = {} /\ from' = None /\ out' = None /\ turn' = 1 /\ rc' = 0
    /\ UNCHANGED <<disks, check, row, found>>

\* All shards are checked: on to the damaged members.
Seek ==
    /\ cmd = "heal" /\ todo = {}
    /\ cmd' = "copy"
    /\ UNCHANGED <<disks, check, row, todo, found, healing>>

Lost == {m \in damaged : m \notin DOMAIN from}
Tried == turn <= Len(Candidates)

\* A read of all the frames of member m in archive c gives the digests.
ReadsGood(c, m) ==
    \A f \in Spread[c][m] :
       LET s == <<c, f>>
       IN  (IF client[s] # "same" THEN client[s] ELSE Served(s)) = "good"

Usable(c, m) ==
    /\ c \notin NoIndex /\ Kind[c][m] # "none"
    /\ Kind[c][m] = "f" => c \notin Legacy

\* _member_is_clean says no: there is no such member, or a read of it fails.
PassCandidate(m) ==
    /\ cmd = "copy" /\ m \in Lost /\ Tried
    /\ LET c == Candidates[turn]
       IN  \/ ~Usable(c, m) /\ UNCHANGED noise
           \/ Usable(c, m) /\ ~ReadsGood(c, m) /\ UNCHANGED noise
           \/ /\ Usable(c, m) /\ Spread[c][m] # {}
              /\ \E n \in noise : noise' = noise \ {n}
    /\ turn' = turn + 1
    /\ UNCHANGED <<media, store, client, check, row, cmd, todo, found, damaged,
                   from, out, rc>>

\* _member_is_clean says yes, and extract_files writes the member; a hard link
\* it leaves out.
TakeCopy(m) ==
    /\ cmd = "copy" /\ m \in Lost /\ Tried
    /\ LET c == Candidates[turn]
       IN  /\ Usable(c, m) /\ ReadsGood(c, m)
           /\ from' = [x \in DOMAIN from \cup {m} |-> IF x = m THEN c ELSE from[x]]
           /\ out' = IF Kind[c][m] = "h" THEN out
                     ELSE [x \in DOMAIN out \cup {m} |->
                             IF x = m THEN Kind[c][m] ELSE out[x]]
    /\ turn' = 1
    /\ UNCHANGED <<disks, check, row, cmd, todo, found, damaged, rc>>

\* The extraction raises.
CopyFails(m) ==
    /\ cmd = "copy" /\ m \in Lost /\ Tried
    /\ Kind[Candidates[turn]][m] # "none"
    /\ Finish /\ rc' = 1
    /\ UNCHANGED <<disks, check, row, damaged, from, out, turn>>

\* No candidate has a clean copy.
GiveUp(m) ==
    /\ cmd = "copy" /\ m \in Lost /\ ~Tried
    /\ from' = [x \in DOMAIN from \cup {m} |-> IF x = m THEN "none" ELSE from[x]]
    /\ turn' = 1
    /\ UNCHANGED <<disks, check, row, cmd, todo, found, damaged, out, rc>>

EndHeal ==
    /\ cmd = "copy" /\ Lost = {}
    /\ rc' = IF \E m \in damaged : from[m] = "none" THEN 2 ELSE 0
    /\ cmd' = "healed"
    /\ UNCHANGED <<disks, check, row, todo, found, damaged, from, out, turn>>

Leave ==
    /\ cmd = "healed"
    /\ Finish /\ damaged' = {} /\ from' = None /\ out' = None /\ turn' = 1
    /\ UNCHANGED <<disks, check, row, rc>>

Next ==
    \/ (Sweep \/ Retry \/ Pause \/ Recheck)
         /\ UNCHANGED <<row, cmd, todo, found, healing>>
    \/ (\E s \in Spot : Rot(s) \/ Flip(s) \/ Forget(s))
         /\ UNCHANGED <<row, cmd, todo, found, healing>>
    \/ \E t \in Target : CheckShard(t) \/ PassOver(t)
    \/ EndCheck \/ ReadError \/ SkipVerify \/ RecordBackup
    \/ StartVerify \/ Reconcile \/ StartHeal \/ Seek \/ EndHeal \/ Leave
    \/ \E m \in Member : \/ PassCandidate(m) \/ TakeCopy(m) \/ CopyFails(m)
                         \/ GiveUp(m)

Spec == Init /\ [][Next]_vars

-----------------------------------------------------------------------------
(* Properties *)

Verified == [at : {"idle", "sweep", "retry", "deferred", "suspects", "done"},
             archive : Archive \cup {"none"}, frame : 0 .. Frames,
             tries : 0 .. Retries, seen : SUBSET Bytes,
             bad : SUBSET Frame, recovered : SUBSET Frame,
             unstable : SUBSET Frame, suspects : SUBSET (Frame \X SUBSET Bytes),
             rotten : SUBSET Frame]

\* Where everything is.  A frame is settled once: no frame is at the same time
\* bad and good, or suspect and settled (heal.py sorts each into one list).
TypeOK ==
    /\ media \in [Spot -> {"good", "bad"}] /\ noise \subseteq Noise
    /\ {store, client} \subseteq [Spot -> Bytes \cup {"same"}]
    /\ check \in Verified
    /\ check.bad \cap (check.recovered \cup check.unstable) = {}
    /\ check.recovered \cap check.unstable = {}
    /\ \A q \in check.suspects :
          q[1] \notin check.bad \cup check.recovered \cup check.unstable
    /\ row \in [Target -> [status : {"ok", "corrupt"}, flagged : BOOLEAN,
                          verify : {"", "verified", "unverified", "disabled",
                                    "error"}]]
    /\ cmd \in {"none", "backup", "verify", "heal", "copy", "healed"}
    /\ todo \subseteq Target /\ DOMAIN found = Target
    /\ check.at # "idle" => check.archive \in todo
    /\ damaged \subseteq Member /\ DOMAIN from \subseteq damaged
    /\ DOMAIN out \subseteq DOMAIN from
    /\ turn \in 1 .. Len(Candidates) + 1 /\ rc \in 0 .. 2

\* A shard that the manifest calls corrupt is damaged on the disk: neither a
\* fault of the link, nor a copy that went bad in the store's memory or in the
\* page cache, ever flags a healthy archive (verify_frame_checksums: "A frame
\* is never condemned on a single read").
CorruptIsDamaged ==
    \A t \in Target : row[t].status = "corrupt" =>
       \E f \in Frame : media[<<t, f>>] = "bad"

\* A frame that is damaged in the store when the check after a backup, or the
\* one of --heal, begins does not pass: it ends up bad, or as one that was read
\* differently each time, whatever the page cache held and whatever faults
\* came on top (posix_fadvise in verify_frame_checksums).
DamageIsFound ==
    check.at = "done" /\ cmd # "verify" =>
       check.rotten \subseteq check.bad \cup check.unstable

\* When --heal says that all is well, every file with data in a frame that was
\* damaged in a shard it checked has been recovered from another archive, or
\* lay in a frame whose damage it could not confirm (action_heal returns 0).
HealEndsTrue ==
    cmd = "healed" /\ rc = 0 =>
       \A t \in Target \ NoIndex, m \in Member :
          Spread[t][m] \cap (found[t].rotten \ found[t].unstable) # {}
             => m \in DOMAIN from /\ from[m] # "none"

=============================================================================
