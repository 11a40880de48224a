------------------------- MODULE ArchiveViewProofs -------------------------
(***************************************************************************)
(* The panel shows what is selected and starts no second job, for any      *)
(* plans, backups and archives, any number of threads and any order in     *)
(* which their results arrive.                                             *)
(*                                                                         *)
(* The inductive invariant has four parts: the types of what is stored and *)
(* of the jobs (Types), that at most one search is awaited (Searching),    *)
(* that label, tree and what is awaited belong to the backup selected      *)
(* (Viewing), and what the files of a job say about it (Tracked).          *)
(***************************************************************************)
EXTENDS ArchiveView, TLAPS, FiniteSetTheorems

Types ==
    /\ JobsTypeOK /\ stored \subseteq Archive /\ plan \in Plans \cup {"none"}

Searching ==
    /\ searches \subseteq Searches /\ found \subseteq Archive
    /\ \E x : {s \in searches : s.is = "awaited"} \subseteq {x}

\* A tree is on display exactly when the panel remembers its backup, and then
\* none is awaited.
Viewing ==
    /\ DOMAIN rows \subseteq Of(plan)
    /\ selected = "none" \/ Members(rows, selected) # {}
    /\ pending \in {"none", selected}
    /\ tree \in Thread \cup {Nothing} /\ loads \subseteq Thread
    /\ shown # "none" <=> tree # Nothing
    /\ shown # "none" => pending = "none"
    /\ ShownIsSelected /\ SelectedIsShown

\* A job that runs has a pid file, no done file, and a handle when its plan is
\* shown; one that has ended left a done file that tells how.
Tracked ==
    \A a \in Archive :
       /\ running[a] <= 1
       /\ running[a] > 0 => a \in pid /\ done[a] = "none" /\ result[a] = "none"
       /\ running[a] > 0 /\ a.plan = plan => handle[a] # "none"
       /\ handle[a] # "none" /\ running[a] = 0 =>
            (done[a] = "ok" <=> result[a] = "ok")

VInv == Types /\ Searching /\ Viewing /\ ButtonsFollowJobs

-----------------------------------------------------------------------------
(* The operators of the panel *)

\* What the label says when the list shows that jobs are needed.
LEMMA ToldFacts ==
  ASSUME NEW list, NEW b
  PROVE  /\ Told(list, b).of = b
         /\ Told(list, b).says \in {"working", "recover", "reindex"}
         /\ Told(list, b).says = "working"
              <=> \E a \in Members(list, b) : handle'[a] # "none"
<1> DEFINE w == IF \E a \in Members(list, b) : handle'[a] # "none"
                THEN "working"
                ELSE IF \E a \in Members(list, b) : list[a] = "recover"
                THEN "recover" ELSE "reindex"
<1>1. Told(list, b) = [of |-> b, says |-> w]
  BY DEF Told
<1>2. /\ w \in {"working", "recover", "reindex"}
      /\ w = "working" <=> \E a \in Members(list, b) : handle'[a] # "none"
  BY DEF w
<1> HIDE DEF w
<1> QED BY <1>1, <1>2

\* With the tree blank and the label about the backup selected, the panel is
\* consistent.
LEMMA BlankFacts ==
  ASSUME Viewing, NEW list, DOMAIN list \subseteq Of(plan)', rows' = list,
         NEW b, b # "none", Members(list, b) # {}, selected' = b,
         Blank, pending' = "none", loads' = loads, note'.of = b,
         note'.says \notin {"loading", "tree"}
  PROVE  Viewing'
<1>1. DOMAIN rows' \subseteq Of(plan)' /\ Members(rows, selected)' # {}
  BY DEF Members
<1>2. ShownIsSelected' /\ SelectedIsShown'
  BY DEF Blank, ShownIsSelected, SelectedIsShown
<1>3. Nothing' = Nothing /\ Thread' = Thread
  BY DEF Nothing, Thread
<1> QED BY <1>1, <1>2, <1>3 DEF Viewing, Blank

\* Selecting a backup of the list keeps the panel consistent, whatever was on
\* display.
LEMMA ChooseFacts ==
  ASSUME Viewing, NEW p \in Plans, NEW list, DOMAIN list \subseteq Of(p),
         NEW b, b = "none" \/ Members(list, b) # {},
         NEW cur \in {shown, "none"}, Choose(p, list, b, cur),
         plan' = p, rows' = list
  PROVE  Viewing' /\ ButtonsFollowJobs'
<1>0. DOMAIN list \subseteq Of(plan)'
  BY DEF Of
<1>1. b # "none" => b \in Backups
  BY DEF Members, Of, Backups
<1>2. CASE b = "none"
  BY ArchiveViewAssumption, <1>2
  DEF Viewing, Choose, Blank, ShownIsSelected, SelectedIsShown, ButtonsFollowJobs, Nothing
<1>3. CASE b # "none" /\ cur = b
  BY ArchiveViewAssumption, <1>3
  DEF Viewing, Choose, ShownIsSelected, SelectedIsShown, ButtonsFollowJobs
<1>4. CASE /\ b # "none" /\ cur # b
           /\ \E a \in Members(list, b) : list[a] \in {"recover", "reindex"}
  <2>1. /\ selected' = b /\ Blank /\ pending' = "none" /\ loads' = loads
        /\ note' = Told(list, b)
    BY <1>4 DEF Choose
  <2>2. Viewing'
    BY <1>0, <1>4, <2>1, BlankFacts, ToldFacts
  <2>3. Members(rows, selected)' = Members(list, b)
    BY <2>1 DEF Members
  <2>4. ButtonsFollowJobs'
    BY <2>1, <2>3, ToldFacts DEF ButtonsFollowJobs
  <2> QED BY <2>2, <2>4
<1>5. CASE /\ b # "none" /\ cur # b
           /\ ~ \E a \in Members(list, b) : list[a] \in {"recover", "reindex"}
           /\ \E a \in Members(list, b) : need'[a] = "mirror"
  <2>1. /\ selected' = b /\ Blank /\ pending' = "none" /\ loads' = loads
        /\ note' = [of |-> b, says |-> "refresh from mount"]
    BY <1>5 DEF Choose
  <2>2. Viewing'
    BY <1>0, <1>5, <2>1, BlankFacts
  <2>3. ButtonsFollowJobs'
    BY <2>1 DEF ButtonsFollowJobs
  <2> QED BY <2>2, <2>3
<1>6. CASE /\ b # "none" /\ cur # b
           /\ ~ \E a \in Members(list, b) : list[a] \in {"recover", "reindex"}
           /\ ~ \E a \in Members(list, b) : need'[a] = "mirror"
  BY ArchiveViewAssumption, <1>1, <1>6
  DEF Viewing, Choose, Blank, ShownIsSelected, SelectedIsShown, ButtonsFollowJobs, Thread
<1> QED BY <1>2, <1>3, <1>4, <1>5, <1>6

LEMMA NowFacts ==
  ASSUME Searching, NEW new \in {"cancelled", "orphan"}
  PROVE  /\ Now("awaited", new) \subseteq Searches
         /\ \A s \in Now("awaited", new) : s.is # "awaited"
BY DEF Searching, Searches, Now

\* A new search is the only one that is awaited.
LEMMA KickFacts ==
  ASSUME Searching, stored' \subseteq Archive, NEW p, NEW t, Kick(p, t)
  PROVE  Searching'
<1> DEFINE s1 == [hits |-> Scannable(p), is |-> "awaited"]
<1>1. s1 \in Searches
  BY DEF Scannable, Of, Searches
<1>2. searches' \subseteq Now("awaited", "cancelled") \cup {s1}
  BY DEF Kick
<1>3. {s \in searches' : s.is = "awaited"} \subseteq {s1}
  BY <1>2, NowFacts
<1> QED BY <1>1, <1>2, <1>3, NowFacts DEF Kick, Searching

LEMMA RefreshFacts ==
  ASSUME VInv, NEW p \in Plans, plan' = p, stored' \subseteq Archive, Refresh(p)
  PROVE  Searching' /\ Viewing' /\ ButtonsFollowJobs'
<1>1. DOMAIN Listed(p) \subseteq Of(p)
  BY DEF Listed
<1>2. Viewing' /\ ButtonsFollowJobs'
  BY <1>1, ChooseFacts DEF VInv, Refresh
<1>3. Searching'
  BY KickFacts DEF VInv, Refresh, Searching
<1> QED BY <1>2, <1>3

LEMMA RefreshKeepingFacts ==
  ASSUME VInv, NEW p \in Plans, plan' = p, stored' \subseteq Archive, NEW b,
         RefreshKeeping(p, b)
  PROVE  Searching' /\ Viewing' /\ ButtonsFollowJobs'
<1> DEFINE c == IF Members(Listed(p), b) = {} THEN "none" ELSE b
<1>1. DOMAIN Listed(p) \subseteq Of(p)
  BY DEF Listed
<1>2. c = "none" \/ Members(Listed(p), c) # {}
  OBVIOUS
<1>3. rows' = Listed(p) /\ Choose(p, Listed(p), c, "none")
  BY DEF RefreshKeeping
<1> HIDE DEF c
<1>4. Viewing' /\ ButtonsFollowJobs'
  BY <1>1, <1>2, <1>3, ChooseFacts DEF VInv
<1>5. Searching'
  BY KickFacts DEF VInv, RefreshKeeping, Searching
<1> QED BY <1>4, <1>5

-----------------------------------------------------------------------------
(* What a step leaves alone *)

\* Neither jobs nor archives change.
LEMMA SameTypes ==
  ASSUME Types, UNCHANGED <<need, jobs, stored>>, plan' = plan
  PROVE  Types'
BY DEF Types, JobsTypeOK, jobs

LEMMA SameSearching ==
  ASSUME Searching, UNCHANGED <<searches, found>>
  PROVE  Searching'
BY DEF Searching

\* The panel does not change, and no job of the backup selected does.
LEMMA SameViewing ==
  ASSUME Viewing, ButtonsFollowJobs, UNCHANGED <<plan, view, loads>>,
         \A a \in Members(rows, selected) : handle'[a] = handle[a]
  PROVE  Viewing' /\ ButtonsFollowJobs'
<1> USE DEF view
<1>1. Members(rows, selected)' = Members(rows, selected)
  BY DEF Members
<1>2. ShownIsSelected' /\ SelectedIsShown'
  BY DEF Viewing, ShownIsSelected, SelectedIsShown
<1>3. Of(plan)' = Of(plan) /\ Thread' = Thread /\ Nothing' = Nothing
  BY DEF Of, Thread, Nothing
<1>4. Viewing'
  BY <1>1, <1>2, <1>3 DEF Viewing
<1>5. ButtonsFollowJobs'
  BY <1>1 DEF ButtonsFollowJobs
<1> QED BY <1>4, <1>5

-----------------------------------------------------------------------------
(* Each action *)

LEMMA TypeStep ==
  ASSUME VInv, Type
  PROVE  VInv'
<1> USE DEF VInv, Type
<1>1. Types'
  BY SameTypes
<1>2. Searching'
  <2>1. stored' \subseteq Archive
    BY DEF Types
  <2>2. Kick(plan, term')
    BY DEF Type
  <2> QED BY <2>1, <2>2, KickFacts
<1>3. Viewing' /\ ButtonsFollowJobs'
  BY SameViewing DEF jobs
<1> QED BY <1>1, <1>2, <1>3

LEMMA OpenTabStep ==
  ASSUME VInv, OpenTab
  PROVE  VInv'
<1> USE DEF VInv, OpenTab
<1>1. Types'
  BY SameTypes
<1>2. plan \in Plans /\ stored' \subseteq Archive
  BY DEF Types, Free, Open
<1> QED BY <1>1, <1>2, RefreshFacts

LEMMA CommandStep ==
  ASSUME VInv, Command
  PROVE  VInv'
<1> USE DEF VInv, Command
<1>1. plan \in Plans /\ stored' \subseteq Archive
  BY DEF Types, Free, Open
<1>2. need' \in [Archive -> Needs]
  BY DEF Types, JobsTypeOK, Needs
<1>3. Types'
  BY <1>1, <1>2 DEF Types, JobsTypeOK, jobs
<1> QED BY <1>1, <1>3, RefreshFacts

LEMMA WindowClosesStep ==
  ASSUME VInv, WindowCloses
  PROVE  VInv'
<1> USE DEF VInv, WindowCloses
<1>a. handle' \in [Archive -> Handles] /\ need' = need /\ result' = result
  BY DEF WindowEnds, Handles
<1>b. /\ running' \in [Archive -> Nat] /\ pid' \subseteq Archive
      /\ done' \in [Archive -> Codes]
  <2>1. CASE UNCHANGED <<running, pid, done>>
    BY <2>1 DEF Types, JobsTypeOK
  <2>2. CASE /\ \E a \in Archive : Ended(a) /\ pid' = pid \ {a}
             /\ UNCHANGED <<running, done>>
    BY <2>2 DEF Types, JobsTypeOK
  <2>3. CASE /\ DiesAtLaunch
             /\ \E a \in Archive :
                  /\ handle[a] = "none"
                  /\ running' = [running EXCEPT ![a] = @ + 1]
                  /\ done' = [done EXCEPT ![a] = "none"]
             /\ UNCHANGED pid
    BY <2>3 DEF Types, JobsTypeOK, Codes
  <2> QED BY <2>1, <2>2, <2>3 DEF WindowEnds
<1>1. Types'
  BY <1>a, <1>b DEF Types, JobsTypeOK
<1>2. Searching'
  BY DEF Searching
<1>3. DOMAIN rows' \subseteq Of(plan)'
  OBVIOUS
<1>4. Viewing'
  BY <1>3 DEF Viewing, ShownIsSelected, SelectedIsShown
<1>5. ButtonsFollowJobs'
  BY DEF ButtonsFollowJobs
<1> QED BY <1>1, <1>2, <1>4, <1>5

\* The label tells of the jobs as they are after the step.
LEMMA ToldStep ==
  ASSUME VInv, note' = Told(rows, selected),
         UNCHANGED <<plan, rows, selected, shown, tree, pending, loads>>
  PROVE  Viewing' /\ ButtonsFollowJobs'
<1>1. Members(rows, selected)' = Members(rows, selected)
  BY DEF Members
<1>2. ShownIsSelected' /\ SelectedIsShown'
  BY ToldFacts DEF VInv, Viewing, ShownIsSelected, SelectedIsShown
<1>3. Of(plan)' = Of(plan) /\ Thread' = Thread /\ Nothing' = Nothing
  BY DEF Of, Thread, Nothing
<1>4. Viewing'
  BY <1>1, <1>2, <1>3 DEF VInv, Viewing
<1>5. ButtonsFollowJobs'
  BY <1>1, ToldFacts DEF ButtonsFollowJobs
<1> QED BY <1>4, <1>5

LEMMA PressStep ==
  ASSUME VInv, Press
  PROVE  VInv'
<1>1. Searching'
  BY SameSearching DEF VInv, Press, search
<1>2. Targets \subseteq Archive
  BY DEF Targets, Members, VInv, Viewing, Of
<1>3. UNCHANGED <<stored, plan, rows, selected, shown, tree, pending, loads>>
  BY DEF Press
<1>4. CASE \E a \in Targets : Launch(a) /\ note' = Told(rows, selected)
  <2>0. PICK a \in Archive : Launch(a)
    BY <1>2, <1>4
  <2>1. Types'
    BY <1>3, <2>0 DEF VInv, Types, JobsTypeOK, Launch, Handles, Codes
  <2> QED BY <1>1, <1>3, <1>4, <2>1, ToldStep DEF VInv
<1>5. CASE \E a \in Targets : handle[a] # "none" /\ UNCHANGED <<need, jobs>>
                              /\ note' = Told(rows, selected)
  <2>1. Types'
    BY <1>3, <1>5, SameTypes DEF VInv
  <2> QED BY <1>1, <1>3, <1>5, <2>1, ToldStep DEF VInv
<1>6. CASE \E a \in Targets : LaunchFails(a) /\ UNCHANGED note
  <2>1. Types'
    BY <1>2, <1>3, <1>6 DEF VInv, Types, JobsTypeOK, LaunchFails, Codes
  <2>2. handle' = handle /\ UNCHANGED <<plan, view, loads>>
    BY <1>3, <1>6 DEF LaunchFails, view
  <2> QED BY <1>1, <2>1, <2>2, SameViewing DEF VInv
<1> QED BY <1>4, <1>5, <1>6 DEF Press

\* The restore dialog comes or goes.
LEMMA RestoreStep ==
  ASSUME VInv, UNCHANGED <<need, jobs, stored, plan, view, loads, search>>
  PROVE  VInv'
<1>1. Types'
  BY SameTypes DEF VInv
<1>2. Searching'
  BY SameSearching DEF VInv, search
<1>3. Viewing' /\ ButtonsFollowJobs'
  BY SameViewing DEF VInv, jobs
<1> QED BY <1>1, <1>2, <1>3 DEF VInv

LEMMA ActivateStep ==
  ASSUME VInv, Activate
  PROVE  VInv'
<1>1. Types'
  BY SameTypes DEF VInv, Activate
<1>2. Searching'
  BY SameSearching DEF VInv, Activate, search
<1>3. plan \in Plans /\ DOMAIN rows \subseteq Of(plan)
  BY DEF VInv, Types, Viewing, Activate, Free, Open
<1>4. PICK a \in found : Members(rows, a.backup) # {}
                         /\ Choose(plan, rows, a.backup, "none")
  BY DEF Activate
<1>5. plan' = plan /\ rows' = rows
  BY DEF Activate
<1>6. Viewing' /\ ButtonsFollowJobs'
  BY <1>3, <1>4, <1>5, ChooseFacts DEF VInv
<1> QED BY <1>1, <1>2, <1>6 DEF VInv

LEMMA SelectStep ==
  ASSUME VInv, NEW b, Select(b)
  PROVE  VInv'
<1>1. Types'
  BY SameTypes DEF VInv, Select
<1>2. Searching'
  BY SameSearching DEF VInv, Select, search
<1>3. plan \in Plans /\ DOMAIN rows \subseteq Of(plan)
  BY DEF VInv, Types, Viewing, Select, Free, Open
<1>4. /\ b = "none" \/ Members(rows, b) # {}
      /\ Choose(plan, rows, b, shown) /\ plan' = plan /\ rows' = rows
  BY DEF Select
<1>5. Viewing' /\ ButtonsFollowJobs'
  BY <1>3, <1>4, ChooseFacts DEF VInv
<1> QED BY <1>1, <1>2, <1>5 DEF VInv

LEMMA SearchEndsStep ==
  ASSUME VInv, NEW s, SearchEnds(s)
  PROVE  VInv'
<1>1. Types'
  BY SameTypes DEF VInv, SearchEnds
<1>2. Viewing' /\ ButtonsFollowJobs'
  BY SameViewing DEF VInv, SearchEnds, jobs
<1>3. s \in Searches
  BY DEF VInv, Searching, SearchEnds
<1>4. found' \subseteq Archive
  BY <1>3 DEF SearchEnds, Searches
<1>5. \/ searches' \subseteq searches
      \/ searches' \subseteq Now("awaited", "orphan")
  BY DEF SearchEnds
<1>6. Searching'
  <2>1. CASE searches' \subseteq searches
    BY <1>4, <2>1 DEF VInv, Searching
  <2>2. CASE searches' \subseteq Now("awaited", "orphan")
    BY <1>4, <2>2, NowFacts DEF VInv, Searching
  <2> QED BY <1>5, <2>1, <2>2
<1> QED BY <1>1, <1>2, <1>6 DEF VInv

LEMMA TreeLoadedStep ==
  ASSUME VInv, NEW l, TreeLoaded(l)
  PROVE  VInv'
<1>1. Types'
  BY SameTypes DEF VInv, TreeLoaded
<1>2. Searching'
  BY SameSearching DEF VInv, TreeLoaded, search
<1>3. /\ l \in Thread /\ l \in loads /\ loads' \subseteq Thread
      /\ UNCHANGED <<plan, rows, selected, handle>>
  BY DEF VInv, Viewing, TreeLoaded, jobs
<1>4. Members(rows, selected)' = Members(rows, selected) /\ Of(plan)' = Of(plan)
      /\ Thread' = Thread /\ Nothing' = Nothing
  BY <1>3 DEF Members, Of, Thread, Nothing
<1>5. l.backup # "none" /\ l # Nothing
  BY <1>3, ArchiveViewAssumption DEF Thread, Nothing, Backups
<1>6. CASE Awaited(l)
  <2>1. /\ tree' = l /\ shown' = pending /\ pending' = "none"
        /\ pending = l.backup /\ pending = selected
    BY <1>5, <1>6 DEF TreeLoaded, Awaited, VInv, Viewing
  <2>2. ShownIsSelected' /\ SelectedIsShown' /\ ButtonsFollowJobs'
    BY <1>3, <1>4, <1>5, <2>1 DEF ShownIsSelected, SelectedIsShown, ButtonsFollowJobs
  <2>3. Viewing'
    BY <1>3, <1>4, <1>5, <2>1, <2>2 DEF VInv, Viewing
  <2> QED BY <1>1, <1>2, <2>2, <2>3 DEF VInv
<1>7. CASE ~Awaited(l)
  <2>1. UNCHANGED <<tree, shown, pending, note>>
    BY <1>7 DEF TreeLoaded
  <2>2. ShownIsSelected' /\ SelectedIsShown' /\ ButtonsFollowJobs'
    BY <1>3, <1>4, <2>1
    DEF VInv, Viewing, ShownIsSelected, SelectedIsShown, ButtonsFollowJobs
  <2>3. Viewing'
    BY <1>3, <1>4, <2>1, <2>2 DEF VInv, Viewing
  <2> QED BY <1>1, <1>2, <2>2, <2>3 DEF VInv
<1> QED BY <1>6, <1>7

LEMMA TreeFailedStep ==
  ASSUME VInv, NEW l, TreeFailed(l)
  PROVE  VInv'
<1>1. Types'
  BY SameTypes DEF VInv, TreeFailed
<1>2. Searching'
  BY SameSearching DEF VInv, TreeFailed, search
<1>3. loads' \subseteq Thread /\ UNCHANGED <<plan, rows, selected, handle>>
  BY DEF VInv, Viewing, TreeFailed, jobs
<1>4. Members(rows, selected)' = Members(rows, selected) /\ Of(plan)' = Of(plan)
      /\ Thread' = Thread /\ Nothing' = Nothing
  BY <1>3 DEF Members, Of, Thread, Nothing
<1>5. CASE Awaited(l)
  <2>1. /\ Blank /\ note' = [of |-> pending, says |-> "error"] /\ pending' = "none"
    BY <1>5 DEF TreeFailed
  <2>2. pending = "none" \/ pending = selected
    BY DEF VInv, Viewing
  <2>3. l.backup # "none"
    BY ArchiveViewAssumption DEF TreeFailed, VInv, Viewing, Thread, Backups
  <2>4. pending = selected
    BY <1>5, <2>2, <2>3 DEF Awaited
  <2>5. ShownIsSelected' /\ SelectedIsShown' /\ ButtonsFollowJobs'
    BY <1>3, <1>4, <2>1, <2>4
    DEF Blank, ShownIsSelected, SelectedIsShown, ButtonsFollowJobs
  <2>6. Viewing'
    BY <1>3, <1>4, <2>1, <2>5 DEF VInv, Viewing, Blank
  <2> QED BY <1>1, <1>2, <2>5, <2>6 DEF VInv
<1>6. CASE ~Awaited(l)
  <2>1. UNCHANGED <<tree, shown, pending, note>>
    BY <1>6 DEF TreeFailed
  <2>2. ShownIsSelected' /\ SelectedIsShown' /\ ButtonsFollowJobs'
    BY <1>3, <1>4, <2>1
    DEF VInv, Viewing, ShownIsSelected, SelectedIsShown, ButtonsFollowJobs
  <2>3. Viewing'
    BY <1>3, <1>4, <2>1, <2>2 DEF VInv, Viewing
  <2> QED BY <1>1, <1>2, <2>2, <2>3 DEF VInv
<1> QED BY <1>5, <1>6

LEMMA SelectPlanStep ==
  ASSUME VInv, NEW p \in Plans, SelectPlan(p)
  PROVE  VInv'
<1>1. JobsTypeOK'
  BY DEF VInv, Types, JobsTypeOK, SelectPlan, Adopt, Handles, Codes
<1>2. stored' \subseteq Archive /\ plan' = p
  BY DEF VInv, Types, SelectPlan
<1>3. Types'
  BY <1>1, <1>2 DEF Types, Plans
<1>4. Searching' /\ Viewing' /\ ButtonsFollowJobs'
  BY <1>2, RefreshFacts DEF SelectPlan
<1> QED BY <1>3, <1>4 DEF VInv

LEMMA BackupStep ==
  ASSUME VInv, NEW p, NEW b, Backup(p, b)
  PROVE  VInv'
<1>1. Types'
  BY ArchiveViewAssumption DEF VInv, Types, JobsTypeOK, Backup, Of, jobs
<1>2. Searching'
  BY SameSearching DEF VInv, Backup, search
<1>3. Viewing' /\ ButtonsFollowJobs'
  BY SameViewing DEF VInv, Backup, jobs
<1> QED BY <1>1, <1>2, <1>3 DEF VInv

LEMMA WorkerEndsStep ==
  ASSUME VInv, NEW a \in Archive, WorkerEnds(a)
  PROVE  VInv'
<1>1. JobEnds(a) /\ stored' = stored /\ plan' = plan
  BY DEF WorkerEnds
<1>2. need' \in [Archive -> Needs]
  BY <1>1 DEF VInv, Types, JobsTypeOK, JobEnds, Needs
<1>3. running' \in [Archive -> Nat]
  BY <1>1 DEF VInv, Types, JobsTypeOK, JobEnds
<1>4. done' \in [Archive -> Codes] /\ result' \in [Archive -> Codes \cup {"killed"}]
  BY <1>1 DEF VInv, Types, JobsTypeOK, JobEnds, Codes
<1>5. handle' = handle /\ pid' = pid
  BY <1>1 DEF JobEnds
<1>6. Types'
  BY <1>1, <1>2, <1>3, <1>4, <1>5 DEF VInv, Types, JobsTypeOK
<1>7. Searching'
  BY SameSearching DEF VInv, WorkerEnds, search
<1>8. Viewing' /\ ButtonsFollowJobs'
  BY <1>5, SameViewing DEF VInv, WorkerEnds
<1> QED BY <1>6, <1>7, <1>8 DEF VInv

LEMMA JobReportedStep ==
  ASSUME VInv, NEW a \in Archive, JobReported(a)
  PROVE  VInv'
<1> DEFINE mine == a \in Members(rows, selected)
<1>1. Report(a) /\ stored' = stored /\ plan' = plan /\ plan \in Plans
  BY DEF VInv, Types, JobReported, Open
<1>2. Types'
  BY <1>1 DEF VInv, Types, JobsTypeOK, Report, Handles, Codes
<1>3. \A x \in Archive : x # a => handle'[x] = handle[x]
  BY <1>1 DEF VInv, Types, JobsTypeOK, Report
<1>4. Members(rows, selected) \subseteq Of(plan)
  BY DEF VInv, Viewing, Members
<1>5. CASE a.plan # plan
  <2>1. UNCHANGED <<view, loads, search>>
    BY <1>5 DEF JobReported
  <2>2. Viewing' /\ ButtonsFollowJobs'
    BY <1>1, <1>3, <1>4, <1>5, <2>1, SameViewing DEF VInv, Of
  <2> QED BY <1>2, <2>1, <2>2, SameSearching DEF VInv, search
<1>6. CASE a.plan = plan /\ done[a] = "ok"
  <2>1. RefreshKeeping(plan, IF mine THEN selected ELSE "none")
    BY <1>6 DEF JobReported
  <2>2. stored' \subseteq Archive
    BY <1>1 DEF VInv, Types
  <2> HIDE DEF mine
  <2> QED BY <1>1, <1>2, <2>1, <2>2, RefreshKeepingFacts DEF VInv
<1>7. CASE a.plan = plan /\ done[a] # "ok"
  <2>1. /\ note' = IF mine THEN Told(rows, selected) ELSE note
        /\ UNCHANGED <<rows, selected, shown, tree, pending, loads, search>>
    BY <1>7 DEF JobReported
  <2>2. Searching'
    BY <2>1, SameSearching DEF VInv, search
  <2>3. CASE mine
    BY <1>1, <1>2, <2>1, <2>2, <2>3, ToldStep DEF VInv
  <2>4. CASE ~mine
    <3>1. UNCHANGED <<plan, view, loads>>
      BY <1>1, <2>1, <2>4 DEF view
    <3>2. \A x \in Members(rows, selected) : handle'[x] = handle[x]
      BY <1>3, <1>4, <2>4 DEF Of
    <3> QED BY <1>2, <2>2, <3>1, <3>2, SameViewing DEF VInv
  <2> QED BY <2>3, <2>4
<1> QED BY <1>5, <1>6, <1>7

-----------------------------------------------------------------------------
(* The panel *)

LEMMA VInvInit == Init => VInv
<1> SUFFICES ASSUME Init PROVE VInv
  OBVIOUS
<1> USE ArchiveViewAssumption DEF Init
<1>1. Types
  BY DEF Types, JobsTypeOK, JobsInit, Handles, Codes
<1>2. Searching
  BY DEF Searching
<1>3. Viewing
  BY DEF Viewing, ShownIsSelected, SelectedIsShown
<1>4. ButtonsFollowJobs
  BY DEF ButtonsFollowJobs
<1> QED BY <1>1, <1>2, <1>3, <1>4 DEF VInv

LEMMA VInvStep == VInv /\ [Next]_vars => VInv'
<1> SUFFICES ASSUME VInv, [Next]_vars PROVE VInv'
  OBVIOUS
<1>1. CASE Type BY <1>1, TypeStep
<1>2. CASE OpenTab BY <1>2, OpenTabStep
<1>3. CASE Command BY <1>3, CommandStep
<1>4. CASE WindowCloses BY <1>4, WindowClosesStep
<1>5. CASE Press BY <1>5, PressStep
<1>6. CASE Extract BY <1>6, RestoreStep DEF Extract
<1>7. CASE ExtractFound BY <1>7, RestoreStep DEF ExtractFound
<1>8. CASE Activate BY <1>8, ActivateStep
<1>9. CASE CloseRestore BY <1>9, RestoreStep DEF CloseRestore
<1>10. CASE \E s \in searches : SearchEnds(s) BY <1>10, SearchEndsStep
<1>11. CASE \E b \in Backups \cup {"none"} : Select(b) BY <1>11, SelectStep
<1>12. CASE \E l \in loads : TreeLoaded(l) \/ TreeFailed(l)
  BY <1>12, TreeLoadedStep, TreeFailedStep
<1>13. CASE \E p \in Plans : SelectPlan(p) BY <1>13, SelectPlanStep
<1>14. CASE \E p \in Plans, b \in Backups : Backup(p, b) BY <1>14, BackupStep
<1>15. CASE \E a \in Archive : WorkerEnds(a) \/ JobReported(a)
  BY <1>15, WorkerEndsStep, JobReportedStep
<1>16. CASE UNCHANGED vars BY <1>16, RestoreStep DEF vars
<1> QED BY <1>1, <1>2, <1>3, <1>4, <1>5, <1>6, <1>7, <1>8, <1>9, <1>10, <1>11,
           <1>12, <1>13, <1>14, <1>15, <1>16 DEF Next

\* The part of the invariant that does not depend on how windows die.
THEOREM VInvAlways == Spec => []VInv
BY VInvInit, VInvStep, PTL DEF Spec

\* The panel's variables keep their types, the plan shown has only rows of its
\* own, what is selected is listed and at most one search is awaited, however
\* many threads run.
THEOREM PanelTypes == Spec => []TypeOK
<1>1. VInv => TypeOK
  <2> SUFFICES ASSUME VInv PROVE TypeOK
    OBVIOUS
  <2> DEFINE aw == {s \in searches : s.is = "awaited"}
  <2>1. PICK x : aw \subseteq {x}
    BY DEF VInv, Searching
  <2>2. IsFiniteSet({x}) /\ Cardinality({x}) = 1
    BY FS_Singleton
  <2>3. Cardinality(aw) <= 1
    BY <2>1, <2>2, FS_Subset
  <2> QED BY <2>3 DEF VInv, Types, Searching, Viewing, TypeOK
<1> QED BY <1>1, VInvAlways, PTL

\* _current_set always names the backup selected in the list, and the tree on
\* display is of that name: a thread's late result never replaces it.
THEOREM TreeIsOfSelected == Spec => []ShownIsSelected
<1>1. VInv => ShownIsSelected
  BY DEF VInv, Viewing
<1> QED BY <1>1, VInvAlways, PTL

\* A selected backup has its tree, or waits for it, or the label says of this
\* backup why there is none.
THEOREM SelectedHasTree == Spec => []SelectedIsShown
<1>1. VInv => SelectedIsShown
  BY DEF VInv, Viewing
<1> QED BY <1>1, VInvAlways, PTL

\* The buttons that start jobs are offered for the selected backup exactly
\* while the tracker has none of its jobs.
THEOREM ButtonsTellJobs == Spec => []ButtonsFollowJobs
<1>1. VInv => ButtonsFollowJobs
  BY DEF VInv
<1> QED BY <1>1, VInvAlways, PTL

-----------------------------------------------------------------------------
(* The jobs *)

\* What a step can do to the jobs and to the plan shown.
LEMMA JobMoves ==
  ASSUME VInv, [Next]_vars
  PROVE  \/ UNCHANGED <<jobs, plan>>
         \/ \E a \in Archive : a.plan = plan /\ Launch(a) /\ plan' = plan
         \/ \E a \in Archive : a.plan = plan /\ LaunchFails(a) /\ plan' = plan
         \/ \E p \in Plans : Adopt(Of(p)) /\ plan' = p
         \/ WindowEnds /\ plan' = "none"
         \/ \E a \in Archive : JobEnds(a) /\ plan' = plan
         \/ \E a \in Archive : Report(a) /\ plan' = plan
<1>1. CASE Type BY <1>1 DEF Type
<1>2. CASE OpenTab BY <1>2 DEF OpenTab
<1>3. CASE Command BY <1>3 DEF Command
<1>4. CASE WindowCloses BY <1>4 DEF WindowCloses
<1>5. CASE Press
  <2>1. \A a \in Targets : a \in Archive /\ a.plan = plan
    BY DEF Targets, Members, VInv, Viewing, Of
  <2>2. plan' = plan
    BY <1>5 DEF Press
  <2>3. \/ \E a \in Targets : Launch(a)
        \/ UNCHANGED jobs
        \/ \E a \in Targets : LaunchFails(a)
    BY <1>5 DEF Press
  <2> QED BY <2>1, <2>2, <2>3
<1>6. CASE Extract BY <1>6 DEF Extract
<1>7. CASE ExtractFound BY <1>7 DEF ExtractFound
<1>8. CASE Activate BY <1>8 DEF Activate
<1>9. CASE CloseRestore BY <1>9 DEF CloseRestore
<1>10. CASE \E s \in searches : SearchEnds(s) BY <1>10 DEF SearchEnds
<1>11. CASE \E b \in Backups \cup {"none"} : Select(b) BY <1>11 DEF Select
<1>12. CASE \E l \in loads : TreeLoaded(l) \/ TreeFailed(l)
  BY <1>12 DEF TreeLoaded, TreeFailed
<1>13. CASE \E p \in Plans : SelectPlan(p) BY <1>13 DEF SelectPlan
<1>14. CASE \E p \in Plans, b \in Backups : Backup(p, b) BY <1>14 DEF Backup
<1>15. CASE \E a \in Archive : WorkerEnds(a) \/ JobReported(a)
  BY <1>15 DEF WorkerEnds, JobReported
<1>16. CASE UNCHANGED vars BY <1>16 DEF vars
<1> QED BY <1>1, <1>2, <1>3, <1>4, <1>5, <1>6, <1>7, <1>8, <1>9, <1>10, <1>11,
           <1>12, <1>13, <1>14, <1>15, <1>16 DEF Next

\* What ReportIsTrue says of a step.
ReportedTruly ==
    \A a \in Archive :
      handle[a] # "none" /\ handle'[a] = "none" /\ plan' # "none"
      => (done[a] = "ok" <=> result[a] = "ok")

\* What the files of the jobs say stays true, and each job is reported as it
\* ended, if no window dies between a launch and its pid file.
LEMMA TrackedStep ==
  ASSUME DiesAtLaunch = FALSE, VInv, Tracked, [Next]_vars
  PROVE  Tracked' /\ ReportedTruly
<1> USE DEF Tracked, ReportedTruly
<1>t. JobsTypeOK
  BY DEF VInv, Types
<1>1. CASE UNCHANGED <<jobs, plan>>
  BY <1>1 DEF jobs
<1>2. ASSUME NEW x \in Archive, x.plan = plan, Launch(x), plan' = plan
      PROVE  Tracked' /\ ReportedTruly
  <2>1. running[x] = 0
    BY <1>2, <1>t DEF Launch, JobsTypeOK
  <2>2. /\ running'[x] = 1 /\ handle'[x] = "own" /\ done'[x] = "none"
        /\ result'[x] = "none" /\ x \in pid'
    BY <1>2, <1>t, <2>1 DEF Launch, JobsTypeOK
  <2>3. \A a \in Archive : a # x =>
          /\ running'[a] = running[a] /\ handle'[a] = handle[a] /\ done'[a] = done[a]
          /\ result'[a] = result[a] /\ (a \in pid' <=> a \in pid)
    BY <1>2, <1>t DEF Launch, JobsTypeOK
  <2> QED BY <1>2, <2>2, <2>3
<1>3. ASSUME NEW x \in Archive, x.plan = plan, LaunchFails(x), plan' = plan
      PROVE  Tracked' /\ ReportedTruly
  <2>1. running[x] = 0 /\ handle[x] = "none"
    BY <1>3, <1>t DEF LaunchFails, JobsTypeOK
  <2>2. \A a \in Archive : a # x => done'[a] = done[a]
    BY <1>3, <1>t DEF LaunchFails, JobsTypeOK
  <2>3. UNCHANGED <<handle, running, pid, result>>
    BY <1>3 DEF LaunchFails
  <2> QED BY <1>3, <2>1, <2>2, <2>3
<1>4. ASSUME NEW p \in Plans, Adopt(Of(p)), plan' = p
      PROVE  Tracked' /\ ReportedTruly
  <2>1. \A a \in Archive : handle[a] # "none" => handle'[a] # "none"
    BY <1>4 DEF Adopt, Adopted
  <2>2. \A a \in Archive : running[a] > 0 /\ a.plan = p => handle'[a] # "none"
    BY <1>4, <1>t DEF Adopt, Adopted, Of, JobsTypeOK
  <2>3. \A a \in Archive : running[a] > 0 \/ handle[a] # "none" =>
          done'[a] = done[a] /\ (a \in pid' <=> a \in pid)
    BY <1>4, <1>t DEF Adopt, JobsTypeOK
  <2>4. running' = running /\ result' = result
    BY <1>4 DEF Adopt
  <2>5. \A a \in Archive : handle'[a] # "none" /\ running[a] = 0 => handle[a] # "none"
    BY <1>4 DEF Adopt, Adopted
  <2> QED BY <1>4, <2>1, <2>2, <2>3, <2>4, <2>5
<1>5. CASE WindowEnds /\ plan' = "none"
  <2>1. \A a \in Archive : handle'[a] = "none" /\ a.plan # plan'
    BY <1>5, ArchiveViewAssumption DEF WindowEnds
  <2>2. UNCHANGED <<running, done, result>>
    BY <1>5 DEF WindowEnds
  <2>3. \A a \in Archive : running[a] > 0 => (a \in pid' <=> a \in pid)
    BY <1>5, <1>t DEF WindowEnds, Ended, JobsTypeOK
  <2> QED BY <1>5, <2>1, <2>2, <2>3
<1>6. ASSUME NEW x \in Archive, JobEnds(x), plan' = plan
      PROVE  Tracked' /\ ReportedTruly
  <2>1. running[x] = 1 /\ running'[x] = 0 /\ done[x] = "none"
    BY <1>6, <1>t DEF JobEnds, JobsTypeOK
  <2>2. handle' = handle /\ pid' = pid
    BY <1>6 DEF JobEnds
  <2>3. \A a \in Archive : a # x =>
          running'[a] = running[a] /\ done'[a] = done[a] /\ result'[a] = result[a]
    BY <1>6, <1>t DEF JobEnds, JobsTypeOK
  <2>4. done'[x] = "ok" <=> result'[x] = "ok"
    BY <1>6, <1>t, <2>1 DEF JobEnds, JobsTypeOK
  <2> QED BY <1>6, <2>1, <2>2, <2>3, <2>4
<1>7. ASSUME NEW x \in Archive, Report(x), plan' = plan
      PROVE  Tracked' /\ ReportedTruly
  <2>1. running[x] = 0 /\ handle[x] # "none" /\ handle'[x] = "none"
    BY <1>7, <1>t DEF Report, Ended, JobsTypeOK
  <2>2. running' = running /\ result' = result
    BY <1>7 DEF Report
  <2>3. \A a \in Archive : a # x =>
          /\ handle'[a] = handle[a] /\ done'[a] = done[a]
          /\ (a \in pid' <=> a \in pid)
    BY <1>7, <1>t DEF Report, JobsTypeOK
  <2> QED BY <1>7, <2>1, <2>2, <2>3
<1> QED BY <1>1, <1>2, <1>3, <1>4, <1>5, <1>6, <1>7, JobMoves

LEMMA TrackedInit == Init => Tracked
BY DEF Init, JobsInit, Tracked

LEMMA TrackedAlways ==
  ASSUME DiesAtLaunch = FALSE
  PROVE  Spec => [](VInv /\ Tracked)
<1>1. VInv /\ Tracked /\ [Next]_vars => (VInv /\ Tracked)'
  BY VInvStep, TrackedStep
<1> QED BY <1>1, VInvInit, TrackedInit, PTL DEF Spec

\* No archive has two workers at once, whenever windows are opened and closed:
\* a window adopts every job that runs before it can start one.
THEOREM NoSecondJob ==
  ASSUME DiesAtLaunch = FALSE
  PROVE  Spec => []OneJobEach
<1>1. Tracked => OneJobEach
  BY DEF Tracked, OneJobEach
<1> QED BY <1>1, TrackedAlways, PTL

\* A job is reported a success exactly if its worker ended well and its
\* wrapper wrote so, whichever windows started it, adopted it and reported it.
THEOREM ReportsAreTrue ==
  ASSUME DiesAtLaunch = FALSE
  PROVE  Spec => ReportIsTrue
<1>1. VInv /\ Tracked /\ [Next]_vars => [ReportedTruly]_vars
  BY TrackedStep
<1>2. [ReportedTruly]_vars =>
        [\A a \in Archive :
           handle[a] # "none" /\ handle'[a] = "none" /\ plan' # "none"
           => (done[a] = "ok" <=> result[a] = "ok")]_vars
  BY DEF ReportedTruly
<1> QED BY <1>1, <1>2, TrackedAlways, PTL DEF Spec, ReportIsTrue
=============================================================================
