----------------------------- MODULE PlanEditor -----------------------------
(***************************************************************************)
(* The main window: the list of plans, the plan and schedule tabs that     *)
(* edit one of them, and what becomes of it: saved, scheduled, suspended,  *)
(* switched between active and archive, created, removed.  The window      *)
(* waits for each command it runs; cron's side is module Crontab, which a  *)
(* terminal can use at the same time.                                      *)
(***************************************************************************)
EXTENDS Crontab

CONSTANTS
    Rest,      \* what else a plan has: sources, excludes, destination ...
    FirstFile, \* the plan files at the start
    DefaultRest, \* of a new plan
    MaxSteps   \* bound on edits, commands from a terminal and new plans

ASSUME PlanEditorAssumption ==
    /\ "no sources" \notin Rest /\ DefaultRest \in Rest /\ MaxSteps \in Nat
    /\ FirstFile # << >> /\ DOMAIN FirstFile \subseteq Plan
    /\ \A p \in DOMAIN FirstFile : Valid(FirstFile[p])

VARIABLES
    plans,   \* the plans the window has loaded, as they were then
    current, \* the plan selected, or "none"
    base,    \* the plan that the tabs were loaded with
    form,    \* what the controls of the tabs show
    dirty,   \* there are unsaved changes
    dialog,  \* the question on the screen
    known,   \* the state of the schedule that the schedule tab shows
    left,    \* plans whose removal was reported incomplete
    steps    \* counts the steps that MaxSteps bounds

window == <<plans, current, base, form, dirty, dialog, known>>
vars == <<config, tab, job, window, left, steps>>

Quiet == [ask |-> "none"]
Idle == dialog = Quiet /\ job = NoJob
Count == steps < MaxSteps /\ steps' = steps + 1

-----------------------------------------------------------------------------
(* The tabs *)

Blank == [monthly |-> FALSE, full |-> {}, incrW |-> "except_full", daysW |-> {},
          dom |-> 1, incrM |-> "every_n_days", n |-> 3, daysM |-> {},
          policy |-> "max_cycles", rest |-> DefaultRest]

\* PlanPanel.load_plan: the policy of an archive plan is not in its list.
PlanLoaded(f, c) ==
    [f EXCEPT !.rest = c.rest,
              !.policy = IF c.mode = "archive" THEN @ ELSE c.policy]

\* What each page of SchedulePanel makes of the mode of the incrementals.
WeeklyIncr(c) ==
    IF c.incr \in {"except_full", "disabled"} THEN c.incr
    ELSE IF c.incr = "weekdays" /\ c.mode = "weekly" THEN "weekdays"
    ELSE "except_full"
MonthlyIncr(c) ==
    IF c.incr \in {"every_n_days", "disabled"} THEN c.incr
    ELSE IF c.incr = "weekdays" /\ c.mode = "monthly" THEN "weekdays"
    ELSE "every_n_days"

\* Faulty variant of Loaded: the monthly page keeps its incremental days.
LoadedWeekly(f, c) ==
    IF c.mode = "archive" THEN PlanLoaded(f, c)
    ELSE [PlanLoaded(f, c) EXCEPT
            !.monthly = c.mode = "monthly", !.full = c.full, !.dom = c.dom,
            !.n = c.n, !.daysW = c.days,
            !.incrW = WeeklyIncr(c), !.incrM = MonthlyIncr(c)]

\* SchedulePanel.load_plan: an archive plan leaves the controls it hides as
\* they are.
Loaded(f, c) ==
    IF c.mode = "archive" THEN PlanLoaded(f, c)
    ELSE [PlanLoaded(f, c) EXCEPT
            !.monthly = c.mode = "monthly", !.full = c.full, !.dom = c.dom,
            !.n = c.n, !.daysW = c.days, !.daysM = c.days,
            !.incrW = WeeklyIncr(c), !.incrM = MonthlyIncr(c)]

\* PlanPanel.to_plan, of a plan with the schedule of c.
PlanShown(c) ==
    [c EXCEPT !.rest = form.rest,
              !.policy = IF c.mode = "archive" THEN "keep_all" ELSE form.policy]

\* SchedulePanel.to_plan, merged with it: what would be saved.
Shown ==
    IF base.mode = "archive" THEN PlanShown(base)
    ELSE PlanShown(
         [base EXCEPT
            !.mode = IF form.monthly THEN "monthly" ELSE "weekly",
            !.full = IF form.monthly /\ form.full = {} THEN {0} ELSE form.full,
            !.dom = form.dom, !.n = form.n,
            !.incr = IF form.monthly THEN form.incrM ELSE form.incrW,
            !.days = IF form.monthly THEN form.daysM ELSE form.daysW])

\* The controls of the plan tab.
EditPlan ==
    \/ \E r \in Rest \cup {"no sources"} : form' = [form EXCEPT !.rest = r]
    \/ /\ base.mode # "archive"
       /\ \E p \in Policies \ {"keep_all"} : form' = [form EXCEPT !.policy = p]

\* Those of the weekly and of the monthly page of the schedule tab.
EditWeekly ==
    /\ ~form.monthly
    /\ \/ \E w \in Weekday : form' = [form EXCEPT !.full = SymDiff(@, {w})]
       \/ \E i \in IncrModes \ {"every_n_days"} : form' = [form EXCEPT !.incrW = i]
       \/ /\ form.incrW = "weekdays"
          /\ \E w \in Weekday : form' = [form EXCEPT !.daysW = SymDiff(@, {w})]

EditMonthly ==
    /\ form.monthly
    /\ \/ \E d \in MonthDay : form' = [form EXCEPT !.dom = d]
       \/ \E i \in IncrModes \ {"except_full"} : form' = [form EXCEPT !.incrM = i]
       \/ /\ form.incrM = "every_n_days"
          /\ \E n \in 2 .. MonthDays : form' = [form EXCEPT !.n = n]
       \/ /\ form.incrM = "weekdays"
          /\ \E w \in Weekday : form' = [form EXCEPT !.daysM = SymDiff(@, {w})]

\* The user sets one control.
Edit ==
    /\ Idle /\ current # "none" /\ Count
    /\ \/ EditPlan
       \/ /\ base.mode # "archive"
          /\ \/ \E b \in BOOLEAN : form' = [form EXCEPT !.monthly = b]
             \/ EditWeekly \/ EditMonthly
    /\ form' # form
    /\ dirty' = TRUE
    /\ UNCHANGED <<config, tab, job, plans, current, base, dialog, known, left>>

-----------------------------------------------------------------------------
(* Selecting and saving *)

\* _discover_plans
Discovered(cfg) == [p \in {q \in Plan : cfg[q] # NoPlan} |-> cfg[p]]

\* refresh_status: what the schedule tab knows of a plan's block.
Known(p, c) == IF c.mode = "archive" THEN "archive"
               ELSE IF p \in SystemPlan THEN "unknown"
               ELSE Status(tab'[Account(p)], p)

\* _on_plan_selected, past its question; ps are the plans loaded.
Show(p, ps) ==
    /\ current' = p /\ base' = ps[p]
    /\ form' = Loaded(form, ps[p]) /\ known' = Known(p, ps[p])
    /\ dirty' = FALSE /\ dialog' = Quiet

Ask(what, p) == dialog' = [ask |-> what, plan |-> p]

Init ==
    /\ config = [p \in Plan |-> IF p \in DOMAIN FirstFile THEN FirstFile[p]
                                ELSE NoPlan]
    /\ tab = [a \in {"root", "user"} |-> << >>] /\ job = NoJob
    /\ plans = Discovered(config)
    /\ \E p \in DOMAIN FirstFile :
         /\ current = p /\ base = FirstFile[p] /\ form = Loaded(Blank, FirstFile[p])
         /\ known = IF p \in SystemPlan THEN "unknown" ELSE "none"
    /\ dirty = FALSE /\ dialog = Quiet /\ left = {} /\ steps = 0

Select(p) ==
    /\ Idle /\ p \in DOMAIN plans \ {current}
    /\ UNCHANGED <<config, tab, job, plans, left, steps>>
    /\ IF dirty /\ current # "none"
       THEN Ask("discard", p) /\ UNCHANGED <<current, base, form, dirty, known>>
       ELSE Show(p, plans)

\* The answer to "Discard changes?".  A no selects the current plan again, which
\* loads it again.
Answer ==
    /\ dialog.ask = "discard" /\ job = NoJob
    /\ UNCHANGED <<config, tab, job, plans, left, steps>>
    /\ \E p \in {dialog.plan, current} \cap DOMAIN plans : Show(p, plans)

\* _save_current_plan, when the plan is valid and can be written.
Saved ==
    /\ Valid(Shown)
    /\ config' = [config EXCEPT ![current] = Shown]
    /\ plans' = [plans EXCEPT ![current] = Shown]
    /\ dirty' = FALSE

Save ==
    /\ Idle /\ current # "none"
    /\ Saved
    /\ UNCHANGED <<tab, job, current, base, form, dialog, known, left, steps>>

-----------------------------------------------------------------------------
(* The schedule's buttons *)

Offered(what) ==
    CASE known \in {"unknown", "none"} /\ what = "install" -> TRUE
      [] known = "unknown" -> TRUE
      [] known = "none" -> FALSE
      [] known = "archive" -> FALSE
      [] what = "suspend" -> known = "active"
      [] what = "resume" -> known = "suspended"
      [] OTHER -> TRUE

\* The worker starts, by what is in the plan's file.
Work(what, cfg) ==
    /\ job' = [what |-> what, plan |-> current, moot |-> Moot(what, current),
               text |-> IF Moot(what, current) THEN Text(current)
                        ELSE IF what = "install"
                        THEN Replace(Text(current), current, Block(current, cfg))
                        ELSE Outcome(what, current)]
    /\ dialog' = [ask |-> "worker", plan |-> current]

\* _on_install_request and _on_suspend_request
Press(what) ==
    /\ Idle /\ current # "none" /\ Offered(what)
    /\ IF dirty /\ what \in {"install", "uninstall"}
       THEN Ask(what, current) /\ UNCHANGED job
       ELSE Work(what, config[current])
    /\ UNCHANGED <<config, tab, plans, current, base, form, dirty, known, left, steps>>

\* The answer to "Save first?": yes.
SaveAndWork ==
    /\ dialog.ask \in {"install", "uninstall"} /\ job = NoJob
    /\ Saved
    /\ Work(dialog.ask, Shown)
    /\ UNCHANGED <<tab, current, base, form, known, left, steps>>

\* No, or the plan cannot be saved.
Cancel ==
    /\ dialog.ask \in {"install", "uninstall"} /\ job = NoJob
    /\ dialog' = Quiet
    /\ UNCHANGED <<config, tab, job, plans, current, base, form, dirty, known,
                   left, steps>>

\* The worker is done; the schedule tab looks at the crontab again.
Done ==
    /\ job # NoJob /\ (Write \/ Fail)
    /\ IF dialog.ask = "worker"
       THEN dialog' = Quiet /\ known' = Known(current, base)
       ELSE UNCHANGED <<dialog, known>>
    /\ UNCHANGED <<plans, current, base, form, dirty, left, steps>>

\* A schedule command from a terminal.
Terminal(what, p) ==
    /\ Idle /\ Count /\ Read(what, p)
    /\ UNCHANGED <<window, left>>

Owner(a) ==
    /\ Count /\ EditTab(a)
    /\ UNCHANGED <<window, left>>

-----------------------------------------------------------------------------
(* Switching, creating, removing *)

ActiveDefaults == [mode |-> "weekly", full |-> {0}, dom |-> 1, n |-> 3,
                   incr |-> "except_full", days |-> Weekday \ {0},
                   policy |-> "max_cycles", rest |-> DefaultRest]

With(c, rest) == [c EXCEPT !.rest = rest]

\* action_switch_to_archive and action_switch_to_active
Switched(c) ==
    IF c.mode = "archive" THEN With(ActiveDefaults, c.rest)
    ELSE [With(ActiveDefaults, c.rest) EXCEPT !.mode = "archive",
                                              !.policy = "keep_all"]

\* The worker writes the plan's file, or fails, as it always does for a plan
\* whose file is root's; the window loads what there is.
SwitchType ==
    /\ Idle /\ current # "none" /\ ~dirty
    /\ config' \in {config} \cup
         IF current \in SystemPlan THEN {}
         ELSE {[config EXCEPT ![current] = Switched(@)]}
    /\ plans' = Discovered(config')
    /\ UNCHANGED <<tab, job, left, steps>>
    /\ Show(current, plans')

\* Faulty variant of Unscheduled: a suspended block counts as no block.
UnscheduledActive(p) ==
    IF Status(Text(p), p) # "active" THEN Text(p) ELSE Removed(Text(p), p)

\* What uninstall_schedule_for leaves of the crontab.
Unscheduled(p) ==
    IF Moot("uninstall", p) THEN Text(p) ELSE Removed(Text(p), p)

\* action_remove_plan: the schedule, then the file; what fails is reported and
\* the other step still done.  The window goes to the first plan left.
RemovePlan ==
    /\ Idle /\ current \notin SystemPlan \cup {"none"}
    /\ \E unscheduled, deleted \in BOOLEAN :
         /\ tab' = IF unscheduled
                   THEN [tab EXCEPT !["user"] = Unscheduled(current)] ELSE tab
         /\ config' = IF deleted THEN [config EXCEPT ![current] = NoPlan] ELSE config
         /\ left' = IF unscheduled THEN left \ {current} ELSE left \cup {current}
    /\ plans' = Discovered(config')
    /\ UNCHANGED <<job, steps>>
    /\ IF plans' = << >>
       THEN /\ current' = "none" /\ dirty' = FALSE
            /\ UNCHANGED <<base, form, dialog, known>>
       ELSE \E p \in DOMAIN plans' : Show(p, plans')

\* _new_plan; the write may fail.
NewPlan(p) ==
    /\ Idle /\ p \notin DOMAIN plans /\ Count
    /\ config' = [config EXCEPT ![p] = ActiveDefaults]
    /\ plans' = Discovered(config')
    /\ UNCHANGED <<tab, job, left>>
    /\ IF dirty /\ current # "none"
       THEN Ask("discard", p) /\ UNCHANGED <<current, base, form, dirty, known>>
       ELSE Show(p, plans')

\* The window is closed, its changes discarded, and opened again.
Reopen ==
    /\ Idle
    /\ plans' = Discovered(config)
    /\ UNCHANGED <<config, tab, job, left, steps>>
    /\ IF plans' = << >>
       THEN /\ current' = "none" /\ dirty' = FALSE
            /\ UNCHANGED <<base, form, dialog, known>>
       ELSE \E p \in DOMAIN plans' :
              /\ current' = p /\ base' = plans'[p] /\ form' = Loaded(Blank, plans'[p])
              /\ known' = Known(p, plans'[p]) /\ dirty' = FALSE /\ dialog' = Quiet

Next ==
    \/ Edit \/ Answer \/ Save \/ SaveAndWork \/ Cancel \/ Done \/ SwitchType
    \/ RemovePlan \/ Reopen
    \/ \E p \in Plan : \/ Select(p) \/ NewPlan(p)
                       \/ \E what \in Commands : Terminal(what, p)
    \/ \E what \in Commands : Press(what)
    \/ \E a \in {"root", "user"} : Owner(a)

Spec == Init /\ [][Next]_vars

-----------------------------------------------------------------------------
(* Properties *)

Mine(l, p) == l.is # "owner" /\ l.plan = p
Lines(p) == {l \in ToSet(Text(p)) : Mine(l, p)}
Firing(p) == {l \in Lines(p) : l.is = "entry" /\ ~l.off}

\* The crontab of a plan has at most one block of it, whose markers enclose
\* its entries and nothing else, and the window has loaded the plans there are,
\* all valid.
TypeOK ==
    /\ \A p \in Plan :
         /\ config[p] = NoPlan \/ Valid(config[p])
         /\ LET text == Text(p)
                own == {i \in DOMAIN text : Mine(text[i], p)}
                first == Min(own)
                last == Max(own)
            IN  own # {} => /\ own = first .. last
                            /\ SubSeq(text, first, last) = Find(text, p)
    /\ plans = Discovered(config) /\ current \in DOMAIN plans \cup {"none"}
    /\ dirty \in BOOLEAN /\ left \subseteq Plan /\ steps \in 0 .. MaxSteps
    /\ known \in {"unknown", "archive", "none", "active", "suspended", "no entries"}
    /\ dialog.ask \in {"none", "discard", "install", "uninstall", "worker"}
    /\ job = NoJob \/ job.what \in Commands

\* Whatever a command does to a plan's block, the lines of the owner and the
\* blocks of the other plans stay, in their order (replace_block, remove_block
\* and _transform_block walk over all of them).
Others(text, p) == Only(text, {l \in ToSet(text) : ~Mine(l, p)})
OwnerLinesKept ==
    [][steps' = steps =>
         \A a \in DOMAIN tab : tab'[a] = tab[a] \/
            \E p \in Plan : Others(tab'[a], p) = Others(tab[a], p)]_vars

\* Without unsaved changes, what the tabs would save is what the plan's file
\* says: loading a plan of one kind after one of another leaves nothing behind
\* in the controls, and no control rewrites what the user did not touch.
ShownIsSaved ==
    ~dirty /\ current # "none" /\ dialog = Quiet => Shown = config[current]

\* An installed block that is up to date and not suspended makes cron take, on
\* each day, what a run with --kind auto would: the entries of render_entries
\* and the worker's rule of the day agree, in every mode of a plan.
CronFollowsPlan ==
    \A p \in Plan :
      config[p] # NoPlan /\ Find(Text(p), p) = Block(p, config[p])
      => \A d \in Date : Taken(p, d) = Planned(config[p], d)

\* Once a schedule is reported suspended, none of the plan's entries fires,
\* also when its owner had commented some of them out by hand.
SuspendStops ==
    [][\A p \in Plan :
         /\ job # NoJob /\ job.what = "suspend" /\ job.plan = p /\ job' = NoJob
         /\ tab' = [tab EXCEPT ![Account(p)] = job.text]
         => Firing(p)' = {}]_vars

\* A plan that was removed without an error has no lines left in the crontab.
RemovedIsUnscheduled ==
    \A p \in Plan \ left : config[p] = NoPlan => Lines(p) = {}

=============================================================================
