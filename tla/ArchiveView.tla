---------------------------- MODULE ArchiveView ----------------------------
(***************************************************************************)
(* gui/archive_panel.py and gui/search_widget.py: the list of a plan's     *)
(* backups, the file tree of the one selected, which is read from its      *)
(* shards' indexes on a thread, the search over all of them, on another,   *)
(* the jobs that make missing indexes, and the restore that is opened from *)
(* a row of the tree or of the search's results.                           *)
(*                                                                         *)
(* Backups are named by date and kind, so two plans have backups of one    *)
(* name.  Files are left out: a tree or a search hit stands for the files  *)
(* of the backup it was read from.  Threads that read the same are one.    *)
(***************************************************************************)
EXTENDS JobTracker

CONSTANTS
    Stored,     \* the archives at the start
    FirstNeed,  \* what each archive needs when it is new
    MaxLoads,   \* bound on the threads that read trees
    MaxSearches \* bound on those that search

ASSUME ArchiveViewAssumption ==
    /\ "none" \notin {a.plan : a \in Archive} \cup {a.backup : a \in Archive}
    /\ Stored \subseteq Archive /\ FirstNeed \in [Archive -> Needs]
    /\ DiesAtLaunch \in BOOLEAN /\ {MaxLoads, MaxSearches} \subseteq Nat

VARIABLES
    stored,   \* the archives in the mirrored manifests
    plan,     \* the plan the panel shows; "none" while the window is closed
    rows,     \* the archives listed, with what each lacked then
    selected, \* the backup selected in the list, or "none"
    shown,    \* _current_set: the backup whose tree is on display
    tree,     \* what the tree was read from
    pending,  \* _pending_group: the backup whose tree is awaited
    note,     \* what the label and the buttons say, and of which backup
    loads,    \* the threads that read trees, by what they read
    term,     \* there is a term in the search field
    searches, \* the search threads
    found,    \* the search results on display: archives with hits
    restore   \* the restore dialog: whose files are asked for and from which
              \* backup they will be taken

view == <<rows, selected, shown, tree, pending, note>>
search == <<term, searches, found>>
vars == <<need, jobs, stored, plan, view, loads, search, restore>>

Plans == {a.plan : a \in Archive}
Backups == {a.backup : a \in Archive}
Nothing == [plan |-> "none", backup |-> "none"]
Quiet == [of |-> "none", says |-> "nothing"]
Closed == [of |-> Nothing, from |-> Nothing]

Open == plan # "none"

\* The user can act: no modal dialog is in the way.  The bounds on threads are
\* bounds on the user's haste.
Free ==
    /\ Open /\ restore = Closed
    /\ Cardinality(loads) < MaxLoads /\ Cardinality(searches) < MaxSearches
Of(p) == {a \in Archive : a.plan = p}
Members(list, b) == {a \in DOMAIN list : a.backup = b}

-----------------------------------------------------------------------------
(* Searching *)

\* The archives whose index file is there when a search of plan p starts.
Scannable(p) == {a \in stored' \cap Of(p) : need'[a] = "none"}

Now(old, new) ==
    {[hits |-> s.hits, is |-> IF s.is = old THEN new ELSE s.is] : s \in searches}

\* Faulty variant of Kick: the search that is awaited goes on.
KickAlso(p, t) ==
    /\ found' = {}
    /\ searches' = IF t /\ Scannable(p) # {}
                   THEN searches \cup {[hits |-> Scannable(p), is |-> "awaited"]}
                   ELSE searches

\* _kick: the search that is awaited is cancelled; a thread starts if there is
\* something to look for and to look through.
Kick(p, t) ==
    /\ found' = {}
    /\ IF t /\ Scannable(p) # {}
       THEN searches' = Now("awaited", "cancelled") \cup
                          {[hits |-> Scannable(p), is |-> "awaited"]}
       ELSE searches' = Now("awaited", "cancelled")

\* The term is typed, changed or cleared.
Type ==
    /\ Free /\ term' \in BOOLEAN
    /\ UNCHANGED <<need, jobs, stored, plan, view, loads, restore>>
    /\ Kick(plan, term')

\* A thread's results are shown: those of a cancelled search too, as far as it
\* had come, and then the one that is awaited can be cancelled no more.
SearchEnds(s) ==
    /\ s \in searches
    /\ searches' = (IF s.is = "awaited" THEN searches ELSE Now("awaited", "orphan"))
                   \ {s}
    /\ found' \in IF s.is = "cancelled" THEN SUBSET s.hits ELSE {s.hits}
    /\ UNCHANGED <<need, jobs, stored, plan, view, loads, term, restore>>

-----------------------------------------------------------------------------
(* The list and the tree *)

\* Faulty variant of Told: jobs make no difference.
ToldIdle(list, b) ==
    [of |-> b, says |-> IF \E a \in Members(list, b) : list[a] = "recover"
                        THEN "recover" ELSE "reindex"]

\* _show_no_sidecar: a job that runs hides the buttons that would start it.
Told(list, b) ==
    LET ms == Members(list, b)
    IN  [of |-> b,
         says |-> IF \E a \in ms : handle'[a] # "none" THEN "working"
                  ELSE IF \E a \in ms : list[a] = "recover" THEN "recover"
                  ELSE "reindex"]

\* Faulty variant of Blank: the backup on display is remembered.
BlankOf == tree' = Nothing /\ shown' = shown

\* _set_file_tree(None)
Blank == tree' = Nothing /\ shown' = "none"

\* _on_archive_selection, of backup b in the list, with the backup cur on
\* display.
Choose(p, list, b, cur) ==
    /\ selected' = b
    /\ IF b = "none"
       THEN Blank /\ pending' = "none" /\ UNCHANGED <<note, loads>>
       ELSE IF cur = b
       THEN UNCHANGED <<shown, tree, pending, note, loads>>
       ELSE IF \E a \in Members(list, b) : list[a] \in {"recover", "reindex"}
       THEN Blank /\ pending' = "none" /\ note' = Told(list, b) /\ UNCHANGED loads
       ELSE IF \E a \in Members(list, b) : need'[a] = "mirror"
       THEN /\ Blank /\ pending' = "none" /\ UNCHANGED loads
            /\ note' = [of |-> b, says |-> "refresh from mount"]
       ELSE /\ Blank /\ pending' = b
            /\ note' = [of |-> b, says |-> "loading"]
            /\ loads' = loads \cup {[plan |-> p, backup |-> b]}

\* refresh: the list is read again, with nothing selected, and the search run
\* again.
Listed(p) == [a \in stored' \cap Of(p) |-> need'[a]]
Refresh(p) ==
    /\ rows' = Listed(p) /\ Choose(p, Listed(p), "none", "none")
    /\ UNCHANGED term /\ IF term THEN Kick(p, term) ELSE UNCHANGED <<searches, found>>

\* refresh, and _select_set of what was selected if that is listed.
RefreshKeeping(p, b) ==
    /\ rows' = Listed(p)
    /\ Choose(p, Listed(p), IF Members(Listed(p), b) = {} THEN "none" ELSE b, "none")
    /\ UNCHANGED term /\ IF term THEN Kick(p, term) ELSE UNCHANGED <<searches, found>>

Select(b) ==
    /\ Free /\ b # selected /\ (b = "none" \/ Members(rows, b) # {})
    /\ UNCHANGED <<need, jobs, stored, plan, rows, search, restore>>
    /\ Choose(plan, rows, b, shown)

\* Faulty variant of Awaited: the first tree to arrive will do.
AwaitedAny(l) == pending # "none"

\* What _on_sidecar_loaded and _on_sidecar_failed check of a thread's result.
Awaited(l) == l.backup = pending

\* _on_sidecar_loaded
TreeLoaded(l) ==
    /\ l \in loads /\ loads' = loads \ {l}
    /\ IF Awaited(l)
       THEN /\ tree' = l /\ shown' = pending /\ pending' = "none"
            /\ note' = [of |-> pending, says |-> "tree"]
       ELSE UNCHANGED <<tree, shown, pending, note>>
    /\ UNCHANGED <<need, jobs, stored, plan, rows, selected, search, restore>>

\* Faulty variant of TreeFailed: the tree is awaited still.
TreeFailedAwaited(l) ==
    /\ l \in loads /\ loads' = loads \ {l}
    /\ IF Awaited(l)
       THEN /\ Blank /\ note' = [of |-> pending, says |-> "error"]
            /\ UNCHANGED pending
       ELSE UNCHANGED <<tree, shown, pending, note>>
    /\ UNCHANGED <<need, jobs, stored, plan, rows, selected, search, restore>>

\* _on_sidecar_failed
TreeFailed(l) ==
    /\ l \in loads /\ loads' = loads \ {l}
    /\ IF Awaited(l)
       THEN /\ Blank /\ note' = [of |-> pending, says |-> "error"]
            /\ pending' = "none"
       ELSE UNCHANGED <<tree, shown, pending, note>>
    /\ UNCHANGED <<need, jobs, stored, plan, rows, selected, search, restore>>

-----------------------------------------------------------------------------
(* The window *)

\* The window opens, or the user selects a plan: its jobs are adopted, then
\* its backups listed.
SelectPlan(p) ==
    /\ ~Open \/ Free
    /\ Adopt(Of(p)) /\ plan' = p
    /\ UNCHANGED <<stored, restore>>
    /\ Refresh(p)

\* The Archives tab is opened.
OpenTab ==
    /\ Free
    /\ UNCHANGED <<need, jobs, stored, plan, restore>>
    /\ Refresh(plan)

\* A command of the context menu, run to its end: a backup is deleted, or the
\* mirror is rebuilt from the mount.
Command ==
    /\ Free
    /\ \/ \E b \in Backups :
            /\ Members(rows, b) # {}
            /\ stored' = stored \ Members(rows, b) /\ UNCHANGED need
       \/ /\ need' = [a \in Archive |-> IF a.plan = plan /\ need[a] = "mirror"
                                         THEN "none" ELSE need[a]]
          /\ UNCHANGED stored
    /\ UNCHANGED <<jobs, plan, restore>>
    /\ Refresh(plan)

\* cron makes a backup.
Backup(p, b) ==
    LET new == {a \in Of(p) : a.backup = b}
    IN  /\ new # {} /\ new \cap stored = {}
        /\ \A a \in new : handle[a] = "none" /\ running[a] = 0
        /\ stored' = stored \cup new
        /\ need' = [a \in Archive |-> IF a \in new THEN FirstNeed[a] ELSE need[a]]
        /\ UNCHANGED <<jobs, plan, view, loads, search, restore>>

WindowCloses ==
    /\ ~Open \/ Free
    /\ WindowEnds
    /\ plan' = "none" /\ rows' = << >> /\ selected' = "none" /\ shown' = "none"
    /\ tree' = Nothing /\ pending' = "none" /\ note' = Quiet /\ loads' = {}
    /\ term' = FALSE /\ searches' = {} /\ found' = {}
    /\ UNCHANGED <<stored, restore>>

-----------------------------------------------------------------------------
(* The jobs *)

Targets == {a \in Members(rows, selected) : rows[a] \in {"recover", "reindex"}}

\* _on_reindex_clicked and _on_recover_clicked: any() stops at the first job
\* that runs; those before it could not be launched.
Press ==
    /\ Free /\ Targets # {}
    /\ UNCHANGED <<stored, plan, rows, selected, shown, tree, pending, loads, search,
                   restore>>
    /\ \/ \E a \in Targets : Launch(a) /\ note' = Told(rows, selected)
       \/ \E a \in Targets : handle[a] # "none" /\ UNCHANGED <<need, jobs>>
                             /\ note' = Told(rows, selected)
       \/ \E a \in Targets : LaunchFails(a) /\ UNCHANGED note

\* A job's end is noticed and, if it is of the plan shown, told: a failure by
\* a message, a success by a new list with the selection kept if it is the
\* job's backup.
JobReported(a) ==
    /\ Open /\ Report(a)
    /\ UNCHANGED <<stored, plan, restore>>
    /\ LET mine == a \in Members(rows, selected)
       IN  IF a.plan # plan
           THEN UNCHANGED <<view, loads, search>>
           ELSE IF done[a] = "ok"
           THEN RefreshKeeping(plan, IF mine THEN selected ELSE "none")
           ELSE /\ note' = IF mine THEN Told(rows, selected) ELSE note
                /\ UNCHANGED <<rows, selected, shown, tree, pending, loads, search>>

-----------------------------------------------------------------------------
(* Restoring *)

\* _on_extract: rows of the tree.
Extract ==
    /\ Free /\ tree # Nothing /\ shown # "none"
    /\ restore' = [of |-> tree, from |-> [plan |-> plan, backup |-> shown]]
    /\ UNCHANGED <<need, jobs, stored, plan, view, loads, search>>

\* _on_search_extract: results, of the backup of their name in the list as it
\* is now.
ExtractFound ==
    /\ Free
    /\ \E a \in found :
         /\ \E m \in stored \cap Of(plan) : m.backup = a.backup
         /\ restore' = [of |-> [plan |-> a.plan, backup |-> a.backup],
                        from |-> [plan |-> plan, backup |-> a.backup]]
    /\ UNCHANGED <<need, jobs, stored, plan, view, loads, search>>

\* _on_search_result_activated: the tree of the result's backup is brought up.
Activate ==
    /\ Free
    /\ \E a \in found :
         /\ a.backup \notin {shown, selected} /\ Members(rows, a.backup) # {}
         /\ UNCHANGED <<need, jobs, stored, plan, rows, search, restore>>
         /\ Choose(plan, rows, a.backup, "none")

CloseRestore ==
    /\ restore # Closed /\ restore' = Closed
    /\ UNCHANGED <<need, jobs, stored, plan, view, loads, search>>

Init ==
    /\ stored = Stored /\ need = FirstNeed /\ JobsInit
    /\ plan = "none" /\ rows = << >> /\ selected = "none" /\ shown = "none"
    /\ tree = Nothing /\ pending = "none" /\ note = Quiet /\ loads = {}
    /\ term = FALSE /\ searches = {} /\ found = {} /\ restore = Closed

WorkerEnds(a) ==
    /\ JobEnds(a)
    /\ UNCHANGED <<stored, plan, view, loads, search, restore>>

Thread == [plan : Plans, backup : Backups]
Searches == [hits : SUBSET Archive, is : {"awaited", "cancelled", "orphan"}]

Next ==
    \/ Type \/ OpenTab \/ Command \/ WindowCloses \/ Press
    \/ Extract \/ ExtractFound \/ Activate \/ CloseRestore
    \/ \E s \in searches : SearchEnds(s)
    \/ \E b \in Backups \cup {"none"} : Select(b)
    \/ \E l \in loads : TreeLoaded(l) \/ TreeFailed(l)
    \/ \E p \in Plans : SelectPlan(p)
    \/ \E p \in Plans, b \in Backups : Backup(p, b)
    \/ \E a \in Archive : WorkerEnds(a) \/ JobReported(a)

\* Threads and workers end, and the window's timer polls.
Fairness ==
    /\ \A l \in Thread : WF_vars(TreeLoaded(l) \/ TreeFailed(l))
    /\ \A a \in Archive : WF_vars(WorkerEnds(a) \/ JobReported(a))

Spec == Init /\ [][Next]_vars /\ Fairness

-----------------------------------------------------------------------------
(* Properties *)

\* A plan is shown with rows of its own, what is selected is listed, and the
\* bounds are kept.
TypeOK ==
    /\ JobsTypeOK /\ stored \subseteq Archive /\ plan \in Plans \cup {"none"}
    /\ DOMAIN rows \subseteq Of(plan)
    /\ selected = "none" \/ Members(rows, selected) # {}
    /\ pending \in {"none", selected} /\ tree \in Thread \cup {Nothing}
    /\ loads \subseteq Thread /\ searches \subseteq Searches /\ found \subseteq Archive
    /\ Cardinality({s \in searches : s.is = "awaited"}) <= 1

\* The tree on display is of the backup that is selected and that a restore
\* would read, whatever was selected while it loaded: a late result of another
\* selection is dropped.
ShownIsSelected ==
    tree # Nothing => shown = selected /\ tree.backup = selected

\* A backup that is selected is on display or awaited, or the label says of
\* this backup why not: selecting it never leaves the tree blank for good.
SelectedIsShown ==
    selected # "none" =>
      \/ tree # Nothing \/ pending = selected
      \/ note.of = selected /\ note.says \notin {"loading", "tree"}

\* The button that starts a job is offered for the selected backup when none
\* of its jobs is tracked, and withdrawn while one is.
ButtonsFollowJobs ==
    selected # "none" /\ note.of = selected /\ tree = Nothing =>
      LET busy == \E a \in Members(rows, selected) : handle[a] # "none"
      IN  /\ note.says = "working" => busy
          /\ note.says \in {"recover", "reindex"} => ~busy

\* An archive is never worked on by two jobs: a window opened later adopts the
\* one that runs before it offers to start one.
OneJobEach == \A a \in Archive : running[a] <= 1

\* A job is reported a success when its worker ended well and wrote so, and
\* only then: a code left by an earlier job does not count.
ReportIsTrue ==
    [][\A a \in Archive :
         handle[a] # "none" /\ handle'[a] = "none" /\ plan' # "none"
         => (done[a] = "ok" <=> result[a] = "ok")]_vars

\* A tree that is awaited arrives, or a message does, unless the user turns to
\* another backup.
LoadsEnd == \A b \in Backups : pending = b ~> pending # b

\* A job that the window tracks is reported, also when it was killed.
JobsAreReported ==
    \A a \in {b \in Archive : FirstNeed[b] \in {"recover", "reindex"}} :
      handle[a] # "none" ~> handle[a] = "none"

\* What a restore takes out of a backup is what the user picked from it, in
\* the tree or among the search's results.
PickedIsRestored == restore.of = restore.from

=============================================================================
