-------------------------- MODULE PlanEditorProofs --------------------------
(***************************************************************************)
(* Proofs about PlanEditor.                                                *)
(*                                                                         *)
(* The tabs.  What they make of a plan and what they would save go through *)
(* a record of controls that has more in it than any one plan: a page for  *)
(* each mode, of which one is read.  TabsSave says field by field what is  *)
(* saved, and LoadedTabs that this is the plan just loaded, whatever the   *)
(* controls held before: without unsaved changes, what the tabs would save *)
(* is what the plan's file says.                                           *)
(*                                                                         *)
(* The crontabs.  The loop over their lines and the choice of some of them *)
(* are recursive functions; what they compute is proved by induction on    *)
(* the lines, from two lemmas at the start of that part.  A crontab is     *)
(* Neat for a plan when the plan's lines are one block of it, or none.     *)
(* Every command Reworks a crontab: it stays neat for all plans, and the   *)
(* lines of the others stay, in their order.  The owner's edits leave it   *)
(* Undisturbed.  TabInv, JobInv (what the command at work will write) and  *)
(* KindInv are the invariant that the theorems at the end rest on.         *)
(***************************************************************************)
EXTENDS PlanEditor, TLAPS, SequenceTheorems, WellFoundedInduction

Rests == Rest \cup {"no sources"}

PlanRecord ==
    [mode : Modes, full : SUBSET Weekday, dom : Int, n : Int, incr : IncrModes,
     days : SUBSET Weekday, policy : Policies, rest : Rests]

\* Plans as the program writes them: valid, with a policy for their mode, and
\* with the days of full backups that the weekly page asks for.
Good(c) ==
    /\ c \in PlanRecord /\ Valid(c)
    /\ c.mode = "archive" <=> c.policy = "keep_all"
    /\ c.mode = "monthly" => c.full # {}

Controls ==
    [monthly : BOOLEAN, full : SUBSET Weekday, incrW : IncrModes,
     daysW : SUBSET Weekday, dom : Int, incrM : IncrModes, n : Int,
     daysM : SUBSET Weekday, policy : Policies \ {"keep_all"}, rest : Rests]

\* What is saved of the plan b when the controls are as in f.
Saving(f, b) ==
    IF b.mode = "archive"
    THEN [mode |-> "archive", full |-> b.full, dom |-> b.dom, n |-> b.n,
          incr |-> b.incr, days |-> b.days, policy |-> "keep_all",
          rest |-> f.rest]
    ELSE [mode |-> IF f.monthly THEN "monthly" ELSE "weekly",
          full |-> IF f.monthly /\ f.full = {} THEN {0} ELSE f.full,
          dom |-> f.dom, n |-> f.n,
          incr |-> IF f.monthly THEN f.incrM ELSE f.incrW,
          days |-> IF f.monthly THEN f.daysM ELSE f.daysW,
          policy |-> f.policy, rest |-> f.rest]

LEMMA RestSet ==
    ASSUME NEW mode, NEW full, NEW dom, NEW n, NEW incr, NEW days, NEW policy, NEW rest,
           NEW rest2, NEW policy2, NEW c, NEW d,
           c = [mode |-> mode, full |-> full, dom |-> dom, n |-> n, incr |-> incr,
                days |-> days, policy |-> policy, rest |-> rest],
           d = [c EXCEPT !.rest = rest2, !.policy = policy2]
    PROVE  d = [mode |-> mode, full |-> full, dom |-> dom, n |-> n, incr |-> incr,
                days |-> days, policy |-> policy2, rest |-> rest2]
OBVIOUS

\* PlanShown and Shown, of the controls f and a plan b.
TabsOf(f, c) ==
    [c EXCEPT !.rest = f.rest,
              !.policy = IF c.mode = "archive" THEN "keep_all" ELSE f.policy]

Tabs(f, b) ==
    IF b.mode = "archive" THEN TabsOf(f, b)
    ELSE TabsOf(f,
         [b EXCEPT
            !.mode = IF f.monthly THEN "monthly" ELSE "weekly",
            !.full = IF f.monthly /\ f.full = {} THEN {0} ELSE f.full,
            !.dom = f.dom, !.n = f.n,
            !.incr = IF f.monthly THEN f.incrM ELSE f.incrW,
            !.days = IF f.monthly THEN f.daysM ELSE f.daysW])

LEMMA TabsSave ==
    ASSUME NEW f, NEW b \in PlanRecord
    PROVE  Tabs(f, b) = Saving(f, b)
<1>1. b = [mode |-> b.mode, full |-> b.full, dom |-> b.dom, n |-> b.n,
           incr |-> b.incr, days |-> b.days, policy |-> b.policy, rest |-> b.rest]
  BY DEF PlanRecord
<1>2. CASE b.mode = "archive"
  <2> DEFINE policy == IF b.mode = "archive" THEN "keep_all" ELSE f.policy
  <2>1. Tabs(f, b) = [b EXCEPT !.rest = f.rest, !.policy = policy]
    BY <1>2 DEF Tabs, TabsOf
  <2>2. policy = "keep_all"
    BY <1>2
  <2> HIDE DEF policy
  <2>3. Tabs(f, b) = [mode |-> b.mode, full |-> b.full, dom |-> b.dom, n |-> b.n,
                      incr |-> b.incr, days |-> b.days, policy |-> policy,
                      rest |-> f.rest]
    BY <1>1, <2>1, RestSet
  <2> QED
    BY <1>2, <2>2, <2>3 DEF Saving
<1>3. CASE b.mode # "archive"
  <2> DEFINE mode == IF f.monthly THEN "monthly" ELSE "weekly"
             full == IF f.monthly /\ f.full = {} THEN {0} ELSE f.full
             incr == IF f.monthly THEN f.incrM ELSE f.incrW
             days == IF f.monthly THEN f.daysM ELSE f.daysW
             c == [b EXCEPT !.mode = mode, !.full = full, !.dom = f.dom, !.n = f.n,
                            !.incr = incr, !.days = days]
             policy == IF c.mode = "archive" THEN "keep_all" ELSE f.policy
  <2>1. Tabs(f, b) = [c EXCEPT !.rest = f.rest, !.policy = policy]
    BY <1>3 DEF Tabs, TabsOf
  <2>2. mode # "archive"
    OBVIOUS
  <2>3. Saving(f, b) = [mode |-> mode, full |-> full, dom |-> f.dom, n |-> f.n,
                        incr |-> incr, days |-> days, policy |-> f.policy,
                        rest |-> f.rest]
    BY <1>3 DEF Saving
  <2> HIDE DEF mode, full, incr, days
  <2>4. c = [b EXCEPT !.mode = mode, !.full = full, !.dom = f.dom, !.n = f.n,
                      !.incr = incr, !.days = days]
    OBVIOUS
  <2> HIDE DEF c
  <2>5. c = [mode |-> mode, full |-> full, dom |-> f.dom, n |-> f.n, incr |-> incr,
             days |-> days, policy |-> b.policy, rest |-> b.rest]
    BY <2>4 DEF PlanRecord
  <2>6. policy = f.policy
    BY <2>2, <2>5
  <2> HIDE DEF policy
  <2>7. Tabs(f, b) = [mode |-> mode, full |-> full, dom |-> f.dom, n |-> f.n,
                      incr |-> incr, days |-> days, policy |-> policy,
                      rest |-> f.rest]
    BY <2>1, <2>5, RestSet
  <2> QED
    BY <2>3, <2>6, <2>7
<1> QED
  BY <1>2, <1>3

LEMMA SavedIsGood ==
    ASSUME NEW f \in Controls, NEW b \in PlanRecord, Valid(Saving(f, b))
    PROVE  Good(Saving(f, b))
<1>1. 0 \in Weekday
  BY CrontabAssumption DEF Weekday
<1>2. CASE b.mode = "archive"
  BY <1>2 DEF Saving, Good, PlanRecord, Controls, Modes, Policies
<1>3. CASE b.mode # "archive" /\ f.monthly
  BY <1>1, <1>3 DEF Saving, Good, PlanRecord, Controls, Modes, Policies
<1>4. CASE b.mode # "archive" /\ ~f.monthly
  BY <1>4 DEF Saving, Good, PlanRecord, Controls, Modes, Policies
<1> QED
  BY <1>2, <1>3, <1>4

\* Loading a plan sets every control that is read when it is saved.
LEMMA LoadedTabs ==
    ASSUME NEW f \in Controls, NEW c, Good(c)
    PROVE  Loaded(f, c) \in Controls /\ Saving(Loaded(f, c), c) = c
<1>1. c \in PlanRecord /\ Valid(c)
  BY DEF Good
<1>2. CASE c.mode = "archive"
  <2>1. c.policy = "keep_all"
    BY <1>2 DEF Good
  <2>2. Loaded(f, c) = [f EXCEPT !.rest = c.rest]
    BY <1>2 DEF Loaded, PlanLoaded, Controls
  <2> QED
    BY <1>1, <1>2, <2>1, <2>2 DEF Saving, Controls, PlanRecord
<1>3. CASE c.mode = "weekly"
  <2>1. c.policy # "keep_all" /\ c.incr # "every_n_days"
    BY <1>1, <1>3 DEF Good, Valid
  <2>2. WeeklyIncr(c) = c.incr /\ MonthlyIncr(c) \in IncrModes
    BY <1>1, <1>3, <2>1 DEF WeeklyIncr, MonthlyIncr, IncrModes, PlanRecord
  <2> QED
    BY <1>1, <1>3, <2>1, <2>2 DEF Loaded, PlanLoaded, Saving, Controls, PlanRecord
<1>4. CASE c.mode = "monthly"
  <2>1. c.policy # "keep_all" /\ c.incr # "except_full" /\ c.full # {}
    BY <1>1, <1>4 DEF Good, Valid
  <2>2. MonthlyIncr(c) = c.incr /\ WeeklyIncr(c) \in IncrModes
    BY <1>1, <1>4, <2>1 DEF WeeklyIncr, MonthlyIncr, IncrModes, PlanRecord
  <2> QED
    BY <1>1, <1>4, <2>1, <2>2 DEF Loaded, PlanLoaded, Saving, Controls, PlanRecord
<1> QED
  BY <1>1, <1>2, <1>3, <1>4 DEF PlanRecord, Modes

-----------------------------------------------------------------------------
(* The inductive invariant *)

EditInv ==
    /\ config = [p \in Plan |-> config[p]]
    /\ \A p \in Plan : config[p] = NoPlan \/ Good(config[p])
    /\ plans = Discovered(config)
    /\ current \in DOMAIN plans \cup {"none"}
    /\ form \in Controls /\ Good(base)
    /\ ~dirty /\ current # "none" => Shown = config[current]

FilesAreGood == \A p \in DOMAIN FirstFile : Good(FirstFile[p])

LEMMA DiscoveredFacts ==
    ASSUME NEW cfg, NEW p \in DOMAIN Discovered(cfg)
    PROVE  p \in Plan /\ cfg[p] # NoPlan /\ Discovered(cfg)[p] = cfg[p]
BY DEF Discovered

\* The plan files are as good as they were.
FilesKept ==
    /\ config' = [p \in Plan |-> config'[p]]
    /\ \A p \in Plan : config'[p] = NoPlan \/ Good(config'[p])

LEMMA SameFiles == EditInv /\ UNCHANGED config => FilesKept
BY DEF EditInv, FilesKept

LEMMA ChangedFile ==
    ASSUME EditInv, NEW p \in Plan, NEW c, c = NoPlan \/ Good(c),
           config' = [config EXCEPT ![p] = c]
    PROVE  FilesKept
BY DEF EditInv, FilesKept

LEMMA ShowInv ==
    ASSUME EditInv, FilesKept, plans' = Discovered(config'),
           NEW p \in DOMAIN plans', NEW f \in Controls,
           current' = p, base' = plans'[p], form' = Loaded(f, plans'[p])
    PROVE  EditInv'
<1>1. p \in Plan /\ config'[p] # NoPlan /\ plans'[p] = config'[p]
  BY DiscoveredFacts
<1>2. Good(base') /\ base' = config'[p]
  BY <1>1 DEF FilesKept
<1>3. form' \in Controls /\ Saving(form', base') = base'
  BY <1>2, LoadedTabs
<1>4. Shown' = base'
  <2>1. base' \in PlanRecord
    BY <1>2 DEF Good
  <2>2. Shown' = Tabs(form', base')
    BY DEF Shown, PlanShown, Tabs, TabsOf
  <2> QED
    BY <1>3, <2>1, <2>2, TabsSave
<1> QED
  BY <1>1, <1>2, <1>3, <1>4 DEF EditInv, FilesKept

LEMMA ShownTabs ==
    /\ Shown = Tabs(form, base)
    /\ Shown' = Tabs(form', base')
BY DEF Shown, PlanShown, Tabs, TabsOf

LEMMA SavedShown ==
    ASSUME EditInv, Valid(Shown)
    PROVE  Good(Shown)
<1>1. base \in PlanRecord /\ form \in Controls
  BY DEF EditInv, Good
<1>2. Shown = Saving(form, base)
  BY <1>1, ShownTabs, TabsSave
<1> QED
  BY <1>1, <1>2, SavedIsGood

\* A step that leaves the files, the plans loaded and the selected plan alone.
LEMMA StillInv ==
    ASSUME EditInv, UNCHANGED <<config, plans, current, base, form>>,
           dirty' = dirty \/ dirty' = TRUE
    PROVE  EditInv'
<1>1. Shown' = Shown
  BY ShownTabs
<1> QED
  BY <1>1 DEF EditInv

LEMMA BlankControls == Blank \in Controls
<1>1. DefaultRest \in Rests
  BY PlanEditorAssumption DEF Rests
<1>2. FALSE \in BOOLEAN
  BY Zenon
<1> QED
  BY <1>1, <1>2 DEF Blank, Controls, IncrModes, Policies

LEMMA InitEdit == FilesAreGood /\ Init => EditInv
<1> SUFFICES ASSUME FilesAreGood, Init PROVE EditInv
  OBVIOUS
<1>1. /\ config = [p \in Plan |-> IF p \in DOMAIN FirstFile THEN FirstFile[p]
                                  ELSE NoPlan]
      /\ plans = Discovered(config) /\ dirty = FALSE
  BY DEF Init
<1>2. PICK p \in DOMAIN FirstFile :
        current = p /\ base = FirstFile[p] /\ form = Loaded(Blank, FirstFile[p])
  BY DEF Init
<1>3. p \in Plan /\ Good(FirstFile[p]) /\ config[p] = FirstFile[p]
  BY <1>1, <1>2, PlanEditorAssumption DEF FilesAreGood
<1>4. Blank \in Controls
  BY BlankControls
<1>5. form \in Controls /\ Saving(form, base) = base
  BY <1>2, <1>3, <1>4, LoadedTabs
<1>6. Shown = base
  BY <1>2, <1>3, <1>5, ShownTabs, TabsSave DEF Good
<1>7. current \in DOMAIN plans
  <2>1. config[p] # NoPlan
    BY <1>3 DEF Good, PlanRecord, NoPlan, Modes
  <2> QED
    BY <1>1, <1>2, <1>3, <2>1 DEF Discovered
<1> QED
  BY <1>1, <1>2, <1>3, <1>5, <1>6, <1>7 DEF EditInv, FilesAreGood

-----------------------------------------------------------------------------
(* The steps *)

LEMMA EditStep == EditInv /\ Edit => EditInv'
<1> SUFFICES ASSUME EditInv, Edit PROVE EditInv'
  OBVIOUS
<1>1. form' \in Controls
  <2>1. form \in Controls
    BY DEF EditInv
  <2>2. CASE EditPlan
    BY <2>1, <2>2 DEF EditPlan, Controls, Rests
  <2>3. ASSUME NEW b \in BOOLEAN, form' = [form EXCEPT !.monthly = b]
        PROVE  form' \in Controls
    BY <2>1, <2>3 DEF Controls
  <2>4. ASSUME NEW w \in Weekday, NEW S \in SUBSET Weekday
        PROVE  SymDiff(S, {w}) \in SUBSET Weekday
    BY DEF SymDiff
  <2>5. /\ \A w \in Weekday : SymDiff(form.full, {w}) \in SUBSET Weekday
        /\ \A w \in Weekday : SymDiff(form.daysW, {w}) \in SUBSET Weekday
        /\ \A w \in Weekday : SymDiff(form.daysM, {w}) \in SUBSET Weekday
    BY <2>1, <2>4 DEF Controls
  <2>6. CASE EditWeekly
    <3>1. ASSUME NEW S \in SUBSET Weekday, form' = [form EXCEPT !.full = S]
          PROVE  form' \in Controls
      BY <2>1, <3>1 DEF Controls
    <3>2. ASSUME NEW i \in IncrModes, form' = [form EXCEPT !.incrW = i]
          PROVE  form' \in Controls
      BY <2>1, <3>2 DEF Controls
    <3>3. ASSUME NEW S \in SUBSET Weekday, form' = [form EXCEPT !.daysW = S]
          PROVE  form' \in Controls
      BY <2>1, <3>3 DEF Controls
    <3> QED
      BY <2>5, <2>6, <3>1, <3>2, <3>3 DEF EditWeekly
  <2>7. CASE EditMonthly
    <3>1. MonthDay \subseteq Int /\ 2..MonthDays \subseteq Int
      BY CrontabAssumption DEF MonthDay
    <3>2. ASSUME NEW d \in Int, form' = [form EXCEPT !.dom = d]
          PROVE  form' \in Controls
      BY <2>1, <3>2 DEF Controls
    <3>3. ASSUME NEW i \in IncrModes, form' = [form EXCEPT !.incrM = i]
          PROVE  form' \in Controls
      BY <2>1, <3>3 DEF Controls
    <3>4. ASSUME NEW n \in Int, form' = [form EXCEPT !.n = n]
          PROVE  form' \in Controls
      BY <2>1, <3>4 DEF Controls
    <3>5. ASSUME NEW S \in SUBSET Weekday, form' = [form EXCEPT !.daysM = S]
          PROVE  form' \in Controls
      BY <2>1, <3>5 DEF Controls
    <3> QED
      BY <2>5, <2>7, <3>1, <3>2, <3>3, <3>4, <3>5 DEF EditMonthly
  <2> QED
    BY <2>2, <2>3, <2>6, <2>7 DEF Edit
<1> QED
  BY <1>1 DEF Edit, EditInv

LEMMA SaveStep ==
    ASSUME EditInv, Saved, current # "none", UNCHANGED <<current, base, form>>
    PROVE  EditInv'
<1>1. Good(Shown) /\ Shown' = Shown
  BY SavedShown, ShownTabs DEF Saved
<1>2. current \in Plan /\ plans = Discovered(config) /\ config[current] # NoPlan
  BY DiscoveredFacts DEF EditInv
<1>3. FilesKept
  BY <1>1, <1>2, ChangedFile DEF Saved
<1>4. Shown # NoPlan
  BY <1>1 DEF Good, PlanRecord, NoPlan, Modes
<1>5. DOMAIN config = Plan /\ config' = [config EXCEPT ![current] = Shown]
  BY DEF EditInv, Saved
<1>6. config'[current] = Shown
  BY <1>2, <1>5
<1>7. plans' = Discovered(config')
  <2>1. {q \in Plan : config'[q] # NoPlan} = {q \in Plan : config[q] # NoPlan}
    BY <1>2, <1>4, <1>5
  <2>2. plans' = [plans EXCEPT ![current] = Shown]
    BY DEF Saved
  <2> QED
    BY <1>2, <1>5, <2>1, <2>2 DEF Discovered
<1>8. current' \in DOMAIN plans'
  BY <1>2, <1>4, <1>6, <1>7 DEF Discovered
<1> QED
  BY <1>1, <1>3, <1>6, <1>7, <1>8 DEF EditInv, FilesKept

\* The window shows another plan, or the same one again, of those it has.
LEMMA SelectStep ==
    ASSUME EditInv, UNCHANGED <<config, plans>>, NEW p \in DOMAIN plans, Show(p, plans)
    PROVE  EditInv'
<1>1. FilesKept /\ plans' = Discovered(config') /\ form \in Controls
  BY SameFiles DEF EditInv
<1> QED
  BY <1>1, ShowInv DEF Show

\* The window loads the plans there are now and shows one of them, if any.
LEMMA ReloadStep ==
    ASSUME EditInv, FilesKept, plans' = Discovered(config'), NEW f \in Controls,
           \/ current' = "none" /\ UNCHANGED <<base, form>>
           \/ \E p \in DOMAIN plans' :
                 /\ current' = p /\ base' = plans'[p] /\ form' = Loaded(f, plans'[p])
    PROVE  EditInv'
<1>1. CASE current' = "none" /\ UNCHANGED <<base, form>>
  BY <1>1 DEF EditInv, FilesKept
<1>2. CASE \E p \in DOMAIN plans' :
             current' = p /\ base' = plans'[p] /\ form' = Loaded(f, plans'[p])
  BY <1>2, ShowInv
<1> QED
  BY <1>1, <1>2

LEMMA DefaultsAreGood == Good(ActiveDefaults)
<1>1. {0} \in SUBSET Weekday /\ Weekday \ {0} \in SUBSET Weekday
  BY CrontabAssumption DEF Weekday
<1>2. DefaultRest \in Rests
  BY PlanEditorAssumption DEF Rests
<1>3. /\ "weekly" \in Modes /\ "except_full" \in IncrModes
      /\ "max_cycles" \in Policies
  BY DEF Modes, IncrModes, Policies
<1>4. ActiveDefaults \in PlanRecord
  BY <1>1, <1>2, <1>3 DEF ActiveDefaults, PlanRecord
<1> QED
  BY <1>4, PlanEditorAssumption DEF ActiveDefaults, Good, Valid, Modes, Policies

LEMMA SwitchedIsGood ==
    ASSUME NEW c, Good(c)
    PROVE  Good(Switched(c))
<1>1. c.rest \in Rests /\ c.rest # "no sources"
  BY DEF Good, PlanRecord, Valid
<1> DEFINE a == With(ActiveDefaults, c.rest)
<1>2. a \in PlanRecord /\ a.rest = c.rest /\ a.mode = "weekly" /\ a.full = {0}
      /\ a.incr = "except_full" /\ a.policy = "max_cycles"
  BY <1>1, DefaultsAreGood DEF With, Good, PlanRecord, ActiveDefaults
<1> HIDE DEF a
<1>3. Good(a)
  BY <1>1, <1>2 DEF Good, Valid, Modes, Policies
<1> DEFINE b == [a EXCEPT !.mode = "archive", !.policy = "keep_all"]
<1>4. b \in PlanRecord /\ b.rest = c.rest /\ b.mode = "archive" /\ b.policy = "keep_all"
  BY <1>2 DEF PlanRecord, Modes, Policies
<1> HIDE DEF b
<1>5. Good(b)
  BY <1>1, <1>4 DEF Good, Valid, Modes, Policies
<1>6. Switched(c) = a \/ Switched(c) = b
  BY DEF Switched, a, b
<1> QED
  BY <1>3, <1>5, <1>6

LEMMA SwitchStep == EditInv /\ SwitchType => EditInv'
<1> SUFFICES ASSUME EditInv, SwitchType PROVE EditInv'
  OBVIOUS
<1>1. current \in Plan /\ config[current] # NoPlan
  BY DiscoveredFacts DEF EditInv, SwitchType
<1>2. Good(Switched(config[current]))
  BY <1>1, SwitchedIsGood DEF EditInv
<1>3. config' = config \/ config' = [config EXCEPT ![current] = Switched(config[current])]
  BY DEF SwitchType
<1>4. FilesKept
  BY <1>1, <1>2, <1>3, SameFiles, ChangedFile
<1>5. plans' = Discovered(config') /\ form \in Controls
  BY DEF SwitchType, EditInv
<1>6. current \in DOMAIN plans'
  <2>1. config'[current] # NoPlan
    <3>1. Switched(config[current]) # NoPlan
      BY <1>2 DEF Good, PlanRecord, NoPlan, Modes
    <3>2. DOMAIN config = Plan
      BY DEF EditInv
    <3> QED
      BY <1>1, <1>3, <3>1, <3>2
  <2> QED
    BY <1>1, <1>5, <2>1 DEF Discovered
<1> QED
  BY <1>4, <1>5, <1>6, ShowInv DEF SwitchType, Show

LEMMA RemoveStep == EditInv /\ RemovePlan => EditInv'
<1> SUFFICES ASSUME EditInv, RemovePlan PROVE EditInv'
  OBVIOUS
<1>1. current \in Plan
  BY DiscoveredFacts DEF EditInv, RemovePlan
<1>2. config' = config \/ config' = [config EXCEPT ![current] = NoPlan]
  BY DEF RemovePlan
<1>3. FilesKept
  BY <1>1, <1>2, SameFiles, ChangedFile
<1>4. plans' = Discovered(config') /\ form \in Controls
  BY DEF RemovePlan, EditInv
<1>5. \/ current' = "none" /\ UNCHANGED <<base, form>>
      \/ \E p \in DOMAIN plans' :
            /\ current' = p /\ base' = plans'[p] /\ form' = Loaded(form, plans'[p])
  BY DEF RemovePlan, Show
<1> QED
  BY <1>3, <1>4, <1>5, ReloadStep

LEMMA NewStep ==
    ASSUME EditInv, NEW p \in Plan, NewPlan(p)
    PROVE  EditInv'
<1>1. FilesKept /\ plans' = Discovered(config') /\ form \in Controls
  BY DefaultsAreGood, ChangedFile DEF NewPlan, EditInv
<1>2. DOMAIN config = Plan /\ config' = [config EXCEPT ![p] = ActiveDefaults]
  BY DEF NewPlan, EditInv
<1>3. ActiveDefaults # NoPlan
  BY DefaultsAreGood DEF Good, PlanRecord, NoPlan, Modes
<1>4. DOMAIN plans \subseteq DOMAIN plans' /\ p \in DOMAIN plans'
  BY <1>1, <1>2, <1>3 DEF EditInv, Discovered
<1>5. CASE dirty /\ UNCHANGED <<current, base, form, dirty>>
  <2>1. current' \in DOMAIN plans' \cup {"none"}
    BY <1>4, <1>5 DEF EditInv
  <2> QED
    BY <1>1, <1>5, <2>1 DEF EditInv, FilesKept
<1>6. CASE Show(p, plans')
  BY <1>1, <1>4, <1>6, ShowInv DEF Show
<1> QED
  BY <1>5, <1>6 DEF NewPlan

LEMMA ReopenStep == EditInv /\ Reopen => EditInv'
<1> SUFFICES ASSUME EditInv, Reopen PROVE EditInv'
  OBVIOUS
<1>1. Blank \in Controls
  BY BlankControls
<1>2. FilesKept /\ plans' = Discovered(config')
  BY SameFiles DEF Reopen
<1>3. \/ current' = "none" /\ UNCHANGED <<base, form>>
      \/ \E p \in DOMAIN plans' :
            /\ current' = p /\ base' = plans'[p] /\ form' = Loaded(Blank, plans'[p])
  BY DEF Reopen
<1> QED
  BY <1>1, <1>2, <1>3, ReloadStep

\* "Save first?" is asked of a plan that is selected.
AskInv == dialog.ask \in {"install", "uninstall"} => current # "none"

LEMMA NextAsk == AskInv /\ [Next]_vars => AskInv'
<1> SUFFICES ASSUME AskInv, [Next]_vars PROVE AskInv'
  OBVIOUS
<1>1. CASE UNCHANGED <<dialog, current>>
  BY <1>1 DEF AskInv
<1>2. CASE dialog' = Quiet
  BY <1>2 DEF AskInv, Quiet
<1>3. ASSUME NEW p, Ask("discard", p) PROVE AskInv'
  BY <1>3 DEF AskInv, Ask
<1>4. ASSUME NEW what, NEW cfg, Work(what, cfg) PROVE AskInv'
  BY <1>4 DEF AskInv, Work
<1>5. ASSUME NEW what, Press(what) PROVE AskInv'
  <2>1. UNCHANGED current /\ current # "none"
    BY <1>5 DEF Press
  <2> QED
    BY <2>1 DEF AskInv
<1>6. ASSUME Idle PROVE dialog = Quiet
  BY <1>6 DEF Idle
<1>7. CASE Edit \/ Save \/ Cancel \/ Done \/ UNCHANGED vars
  BY <1>1, <1>2, <1>7 DEF Edit, Save, Cancel, Done, vars, window
<1>8. CASE Answer \/ SwitchType
  BY <1>2, <1>8 DEF Answer, SwitchType, Show
<1>9. CASE SaveAndWork
  BY <1>4, <1>9 DEF SaveAndWork
<1>10. CASE RemovePlan \/ Reopen
  BY <1>2, <1>6, <1>10 DEF RemovePlan, Reopen, Show
<1>11. ASSUME NEW p, Select(p) \/ NewPlan(p) PROVE AskInv'
  BY <1>2, <1>3, <1>11 DEF Select, NewPlan, Show
<1>12. ASSUME NEW p, NEW what, Terminal(what, p) PROVE AskInv'
  BY <1>1, <1>12 DEF Terminal, window
<1>13. ASSUME NEW a, Owner(a) PROVE AskInv'
  BY <1>1, <1>13 DEF Owner, window
<1> QED
  BY <1>5, <1>7, <1>8, <1>9, <1>10, <1>11, <1>12, <1>13 DEF Next

LEMMA NextEdit == EditInv /\ AskInv /\ [Next]_vars => EditInv'
<1> SUFFICES ASSUME EditInv, AskInv, [Next]_vars PROVE EditInv'
  OBVIOUS
<1>1. CASE Edit
  BY <1>1, EditStep
<1>2. CASE Answer
  BY <1>2, SelectStep DEF Answer
<1>3. CASE Save
  BY <1>3, SaveStep DEF Save
<1>4. CASE SaveAndWork
  <2>1. current # "none"
    BY <1>4 DEF SaveAndWork, AskInv
  <2> QED
    BY <1>4, <2>1, SaveStep DEF SaveAndWork
<1>5. CASE Cancel
  BY <1>5, StillInv DEF Cancel
<1>6. CASE Done
  BY <1>6, StillInv DEF Done, Write, Fail
<1>7. CASE SwitchType
  BY <1>7, SwitchStep
<1>8. CASE RemovePlan
  BY <1>8, RemoveStep
<1>9. CASE Reopen
  BY <1>9, ReopenStep
<1>10. ASSUME NEW p \in Plan, Select(p) PROVE EditInv'
  <2>1. CASE Show(p, plans)
    BY <1>10, <2>1, SelectStep DEF Select
  <2>2. CASE UNCHANGED <<current, base, form, dirty, known>>
    BY <1>10, <2>2, StillInv DEF Select
  <2> QED
    BY <1>10, <2>1, <2>2 DEF Select
<1>11. ASSUME NEW p \in Plan, NewPlan(p) PROVE EditInv'
  BY <1>11, NewStep
<1>12. ASSUME NEW p \in Plan, NEW what \in Commands, Terminal(what, p) PROVE EditInv'
  BY <1>12, StillInv DEF Terminal, Read, window
<1>13. ASSUME NEW what \in Commands, Press(what) PROVE EditInv'
  BY <1>13, StillInv DEF Press
<1>14. ASSUME NEW a \in {"root", "user"}, Owner(a) PROVE EditInv'
  BY <1>14, StillInv DEF Owner, EditTab, window
<1>15. CASE UNCHANGED vars
  BY <1>15, StillInv DEF vars, window
<1> QED
  BY <1>1, <1>2, <1>3, <1>4, <1>5, <1>6, <1>7, <1>8, <1>9, <1>10, <1>11, <1>12,
     <1>13, <1>14, <1>15 DEF Next

\* Whatever plans are selected, edited, saved, switched, created and removed,
\* and whatever runs beside the window: without unsaved changes, what the tabs
\* would save is what the plan's file says, if the files are good to start with.
THEOREM ShownIsSavedTheorem ==
    ASSUME FilesAreGood
    PROVE  Spec => []ShownIsSaved
<1>1. EditInv => ShownIsSaved
  BY DEF EditInv, ShownIsSaved
<1>2. Init => AskInv
  BY DEF Init, AskInv, Quiet
<1> QED
  BY <1>1, <1>2, InitEdit, NextAsk, NextEdit, PTL DEF Spec

-----------------------------------------------------------------------------
(* Induction and recursion on an interval *)

\* A set of naturals that is not empty has a least member.
LEMMA Least ==
  ASSUME NEW S, S \subseteq Nat, S # {}
  PROVE  \E x \in S : \A y \in S : x <= y
<1>1. PICK x \in S : \A y \in S : ~ (<<y, x>> \in OpToRel(<, Nat))
  BY WFMin, NatLessThanWellFounded, Zenon
<1>2. \A y, z \in Nat : ~ (<<y, z>> \in OpToRel(<, Nat)) => ~(y < z)
  BY Zenon DEF OpToRel
<1>3. \A y \in S : ~(y < x)
  BY <1>1, <1>2, Zenon
<1> QED BY <1>3

\* What holds of 0 and passes from each number to the next holds up to n.
LEMMA Induction ==
  ASSUME NEW S, NEW n \in Nat, 0 \in S, \A i \in 1 .. n : i - 1 \in S => i \in S
  PROVE  \A i \in 0 .. n : i \in S
<1> DEFINE out == {i \in 0 .. n : i \notin S}
<1> SUFFICES ASSUME out # {} PROVE FALSE
  OBVIOUS
<1>1. out \subseteq Nat
  OBVIOUS
<1>2. PICK i \in out : \A j \in out : i <= j
  <2> HIDE DEF out
  <2> QED BY <1>1, Least
<1>3. i # 0 /\ i - 1 \in 0 .. n /\ i - 1 \notin out
  BY <1>2
<1> QED
  BY <1>2, <1>3

\* g is what comes of n steps from first.
Goes(g, n, first, step) ==
    g[0] = first /\ \A i \in 1 .. n : g[i] = step[i][g[i - 1]]

\* Such a function there is, for every first value and all the steps: a recursive
\* definition has a solution.
LEMMA RecursionExists ==
  ASSUME NEW n \in Nat, NEW A, NEW first \in A, NEW step \in [1 .. n -> [A -> A]]
  PROVE  \E g \in [0 .. n -> A] : Goes(g, n, first, step)
<1> USE DEF Goes
<1> DEFINE Can(k) == \E g \in [0 .. k -> A] :
                       g[0] = first /\ \A i \in 1 .. k : g[i] = step[i][g[i - 1]]
           S == {k \in 0 .. n : Can(k)}
<1>1. Can(0)
  <2> DEFINE g == [i \in 0 .. 0 |-> first]
  <2>1. g \in [0 .. 0 -> A] /\ g[0] = first
    OBVIOUS
  <2> HIDE DEF g
  <2> QED BY <2>1
<1>2. ASSUME NEW k \in 1 .. n, Can(k - 1) PROVE Can(k)
  <2>1. PICK g \in [0 .. k - 1 -> A] :
          g[0] = first /\ \A i \in 1 .. k - 1 : g[i] = step[i][g[i - 1]]
    BY <1>2
  <2> DEFINE h == [i \in 0 .. k |-> IF i = k THEN step[k][g[k - 1]] ELSE g[i]]
  <2>2. step[k][g[k - 1]] \in A
    BY <1>2, <2>1
  <2>3. h \in [0 .. k -> A] /\ h[k] = step[k][g[k - 1]]
        /\ \A i \in 0 .. k - 1 : h[i] = g[i]
    BY <1>2, <2>1, <2>2
  <2> HIDE DEF h
  <2>4. \A i \in 1 .. k : h[i] = step[i][h[i - 1]]
    BY <2>1, <2>3
  <2>5. h[0] = first
    BY <2>1, <2>3
  <2> QED BY <2>3, <2>4, <2>5
<1> HIDE DEF Can
<1>3. 0 \in S /\ \A i \in 1 .. n : i - 1 \in S => i \in S
  BY <1>1, <1>2
<1> HIDE DEF S
<1>4. \A i \in 0 .. n : i \in S
  BY <1>3, Induction
<1>5. n \in S
  BY <1>4
<1> QED
  BY <1>5 DEF S, Can

\* Where a function goes that way, its values have the type of the first.
GoesIn(h, n, A, first, step) ==
    h[0] = first /\ \A i \in 1 .. n : h[i - 1] \in A => h[i] = step[i][h[i - 1]]

LEMMA RecursionTyped ==
  ASSUME NEW n \in Nat, NEW A, NEW first \in A, NEW step \in [1 .. n -> [A -> A]],
         NEW h, GoesIn(h, n, A, first, step)
  PROVE  \A i \in 0 .. n : h[i] \in A
<1> DEFINE S == {i \in 0 .. n : h[i] \in A}
<1>1. 0 \in S /\ \A i \in 1 .. n : i - 1 \in S => i \in S
  BY DEF GoesIn
<1>2. \A i \in 0 .. n : i \in S
  <2> HIDE DEF S
  <2> QED BY <1>1, Induction
<1> QED BY <1>2

-----------------------------------------------------------------------------
(* Only *)

OnlyFold(g, text, S) ==
    [i \in 0 .. Len(text) |->
       IF i = 0 THEN << >>
       ELSE IF text[i] \in S THEN Append(g[i - 1], text[i]) ELSE g[i - 1]]

\* g[i] is what is kept of the first i lines of a text of lines in L.
Keeps(g, text, S, L) ==
    /\ text \in Seq(L) /\ g \in [0 .. Len(text) -> Seq(L)] /\ g[0] = << >>
    /\ \A i \in 1 .. Len(text) :
         g[i] = IF text[i] \in S THEN Append(g[i - 1], text[i]) ELSE g[i - 1]

\* What Only defines by recursion, spelled out.
LEMMA OnlyIs ==
  ASSUME NEW L, NEW text \in Seq(L), NEW S
  PROVE  \E g : Keeps(g, text, S, L) /\ Only(text, S) = g[Len(text)]
<1> DEFINE n == Len(text)
           A == Seq(L)
           Put(i, out) == IF text[i] \in S THEN Append(out, text[i]) ELSE out
           F(g) == OnlyFold(g, text, S)
           c == CHOOSE g : g = F(g)
<1>1. n \in Nat /\ << >> \in A /\ \A i \in 1 .. n, out \in A : Put(i, out) \in A
  OBVIOUS
<1>2. \A g : /\ F(g)[0] = << >> /\ \A i \in 1 .. n : F(g)[i] = Put(i, g[i - 1])
             /\ F(g) = [i \in 0 .. n |-> F(g)[i]]
  BY <1>1 DEF OnlyFold
<1>3. Only(text, S) = c[n]
  BY Zenon DEF Only, OnlyFold
<1> SUFFICES \E g \in [0 .. n -> A] :
               /\ Only(text, S) = g[n] /\ g[0] = << >>
               /\ \A i \in 1 .. n : g[i] = Put(i, g[i - 1])
  BY DEF Keeps
<1> DEFINE step == [i \in 1 .. n |-> [out \in A |-> Put(i, out)]]
<1> HIDE DEF n, A, Put, F
<1>4. /\ step \in [1 .. n -> [A -> A]]
      /\ \A i \in 1 .. n, out \in A : step[i][out] = Put(i, out)
  BY <1>1
<1> HIDE DEF step
<1>5. PICK g \in [0 .. n -> A] : Goes(g, n, << >>, step)
  BY <1>1, <1>4, RecursionExists
<1>6. g[0] = << >> /\ \A i \in 1 .. n : g[i] = Put(i, g[i - 1])
  BY <1>1, <1>4, <1>5 DEF Goes
<1>7. g = F(g)
  <2>1. ASSUME NEW i \in 0 .. n PROVE g[i] = F(g)[i]
    <3>1. CASE i = 0
      BY <1>2, <1>6, <3>1
    <3>2. CASE i # 0
      <4>1. i \in 1 .. n
        BY <1>1, <3>2
      <4> QED BY <1>2, <1>6, <4>1
    <3> QED BY <3>1, <3>2
  <2>2. g = [i \in 0 .. n |-> g[i]]
    BY <1>5
  <2> QED BY <1>2, <2>1, <2>2
<1>8. c = F(c)
  BY <1>7, Zenon
<1> HIDE DEF c
<1>9. c[0] = << >> /\ \A i \in 1 .. n : c[i] = Put(i, c[i - 1])
  BY <1>2, <1>8
<1>10. \A i \in 0 .. n : c[i] \in A
  <2>1. GoesIn(c, n, A, << >>, step)
    BY <1>4, <1>9 DEF GoesIn
  <2> QED BY <1>1, <1>4, <2>1, RecursionTyped
<1>11. c \in [0 .. n -> A]
  BY <1>2, <1>8, <1>10
<1> QED
  BY <1>3, <1>9, <1>11

\* Its types, and one step of it.
LEMMA KeepsStep ==
  ASSUME NEW L, NEW text, NEW S, NEW g, Keeps(g, text, S, L)
  PROVE  /\ Len(text) \in Nat /\ g[0] = << >>
         /\ \A i \in 0 .. Len(text) : g[i] \in Seq(L)
         /\ \A i \in 1 .. Len(text) :
              /\ g[i - 1] \in Seq(L) /\ text[i] \in L
              /\ g[i] = IF text[i] \in S THEN Append(g[i - 1], text[i]) ELSE g[i - 1]
<1>1. text \in Seq(L) /\ g \in [0 .. Len(text) -> Seq(L)]
  BY DEF Keeps
<1>2. \A i \in 1 .. Len(text) : i - 1 \in 0 .. Len(text) /\ text[i] \in L
  BY <1>1
<1>3. Len(text) \in Nat
  BY <1>1
<1> QED
  BY <1>1, <1>2, <1>3 DEF Keeps

\* What it keeps of a sequence are lines of it that are in S.
LEMMA OnlyIn ==
  ASSUME NEW L, NEW text \in Seq(L), NEW S
  PROVE  /\ Only(text, S) \in Seq(L)
         /\ \A j \in 1 .. Len(Only(text, S)) :
              \E i \in 1 .. Len(text) : text[i] \in S /\ Only(text, S)[j] = text[i]
<1> DEFINE n == Len(text)
<1>1. PICK g : Keeps(g, text, S, L) /\ Only(text, S) = g[n]
  BY OnlyIs
<1> DEFINE From(k) == \A j \in 1 .. Len(g[k]) :
                        \E i \in 1 .. n : text[i] \in S /\ g[k][j] = text[i]
           T == {k \in 0 .. n : From(k)}
<1>2. n \in Nat /\ g[n] \in Seq(L)
  BY <1>1, KeepsStep
<1>3. From(0)
  BY <1>1 DEF Keeps
<1>4. ASSUME NEW k \in 1 .. n, From(k - 1) PROVE From(k)
  <2>1. /\ g[k - 1] \in Seq(L) /\ text[k] \in L
        /\ g[k] = IF text[k] \in S THEN Append(g[k - 1], text[k]) ELSE g[k - 1]
    BY <1>1, KeepsStep
  <2>2. CASE text[k] \notin S
    BY <1>4, <2>1, <2>2
  <2>3. CASE text[k] \in S
    <3> SUFFICES ASSUME NEW j \in 1 .. Len(g[k])
                 PROVE  \E i \in 1 .. n : text[i] \in S /\ g[k][j] = text[i]
      OBVIOUS
    <3>1. CASE j = Len(g[k - 1]) + 1
      BY <2>1, <2>3, <3>1
    <3>2. CASE j # Len(g[k - 1]) + 1
      <4>1. j \in 1 .. Len(g[k - 1]) /\ g[k][j] = g[k - 1][j]
        BY <2>1, <2>3, <3>2
      <4> QED BY <1>4, <4>1
    <3> QED BY <3>1, <3>2
  <2> QED BY <2>2, <2>3
<1> HIDE DEF From
<1>5. 0 \in T /\ \A k \in 1 .. n : k - 1 \in T => k \in T
  BY <1>2, <1>3, <1>4
<1>6. From(n)
  <2> HIDE DEF T
  <2>1. \A k \in 0 .. n : k \in T
    BY <1>2, <1>5, Induction
  <2>2. n \in T
    BY <1>2, <2>1
  <2> QED BY <2>2 DEF T
<1> QED
  BY <1>1, <1>2, <1>6 DEF From

\* It is the same for sets that agree on the lines there are.
LEMMA OnlySame ==
  ASSUME NEW L, NEW text \in Seq(L), NEW S, NEW S2,
         \A i \in 1 .. Len(text) : text[i] \in S <=> text[i] \in S2
  PROVE  Only(text, S) = Only(text, S2)
<1> DEFINE n == Len(text)
<1>1. PICK g : Keeps(g, text, S, L) /\ Only(text, S) = g[n]
  BY OnlyIs
<1>2. PICK h : Keeps(h, text, S2, L) /\ Only(text, S2) = h[n]
  BY OnlyIs
<1> DEFINE T == {k \in 0 .. n : g[k] = h[k]}
<1>3. n \in Nat
  OBVIOUS
<1>4. 0 \in T
  BY <1>1, <1>2, <1>3 DEF Keeps
<1>5. ASSUME NEW k \in 1 .. n, k - 1 \in T PROVE k \in T
  <2>1. g[k] = IF text[k] \in S THEN Append(g[k - 1], text[k]) ELSE g[k - 1]
    BY <1>1, KeepsStep
  <2>2. h[k] = IF text[k] \in S2 THEN Append(h[k - 1], text[k]) ELSE h[k - 1]
    BY <1>2, KeepsStep
  <2>3. g[k - 1] = h[k - 1]
    BY <1>5
  <2>4. g[k] = h[k]
    BY <2>1, <2>2, <2>3
  <2> QED BY <2>4
<1>6. n \in T
  <2> HIDE DEF T
  <2>1. \A k \in 0 .. n : k \in T
    BY <1>3, <1>4, <1>5, Induction
  <2> QED BY <1>3, <2>1
<1> QED
  BY <1>1, <1>2, <1>6

\* Nothing is kept of a text without a line in S.
LEMMA OnlyNone ==
  ASSUME NEW L, NEW text \in Seq(L), NEW S,
         \A i \in 1 .. Len(text) : text[i] \notin S
  PROVE  Only(text, S) = << >>
<1> DEFINE o == Only(text, S)
<1>1. o \in Seq(L) /\ \A j \in 1 .. Len(o) : \E i \in 1 .. Len(text) : text[i] \in S
  BY OnlyIn
<1> HIDE DEF o
<1>2. Len(o) = 0
  BY <1>1
<1> QED
  BY <1>1, <1>2 DEF o

\* What is kept of the first lines of a text is what is kept of those lines.
Starts(x, z) == Len(x) <= Len(z) /\ \A i \in 1 .. Len(x) : z[i] = x[i]

LEMMA KeepsBefore ==
  ASSUME NEW L, NEW x, NEW z, NEW S, NEW f, NEW h, Starts(x, z),
         Keeps(f, x, S, L), Keeps(h, z, S, L)
  PROVE  h[Len(x)] = f[Len(x)]
<1> DEFINE m == Len(x)
           T == {k \in 0 .. m : h[k] = f[k]}
<1>1. m \in Nat /\ Len(z) \in Nat /\ h[0] = << >> /\ f[0] = << >>
  BY KeepsStep
<1>2. 0 \in T
  BY <1>1
<1>3. ASSUME NEW k \in 1 .. m, k - 1 \in T PROVE k \in T
  <2>1. k \in 1 .. Len(z) /\ z[k] = x[k]
    BY <1>1 DEF Starts
  <2>2. f[k] = IF x[k] \in S THEN Append(f[k - 1], x[k]) ELSE f[k - 1]
    BY KeepsStep
  <2>3. h[k] = IF z[k] \in S THEN Append(h[k - 1], z[k]) ELSE h[k - 1]
    BY <2>1, KeepsStep
  <2>4. h[k - 1] = f[k - 1]
    BY <1>3
  <2>5. h[k] = f[k]
    BY <2>1, <2>2, <2>3, <2>4
  <2> QED BY <2>5
<1> HIDE DEF T
<1>4. \A k \in 0 .. m : k \in T
  BY <1>1, <1>2, <1>3, Induction
<1>5. m \in T
  BY <1>1, <1>4
<1> QED BY <1>5 DEF T

\* And what is kept after them goes on from there.
Glued(a, b) == a \o b
Follows(y, z, m) ==
    /\ m \in Nat /\ Len(z) = m + Len(y) /\ \A i \in 1 .. Len(y) : z[m + i] = y[i]

LEMMA KeepsAfter ==
  ASSUME NEW L, NEW m, NEW y, NEW z, NEW S, NEW g, NEW h, Follows(y, z, m),
         Keeps(g, y, S, L), Keeps(h, z, S, L)
  PROVE  h[Len(z)] = Glued(h[m], g[Len(y)])
<1> DEFINE n == Len(y)
           T == {k \in 0 .. n : h[m + k] = Glued(h[m], g[k])}
<1>1. n \in Nat /\ g[0] = << >>
  BY KeepsStep
<1>2. /\ m \in Nat /\ Len(z) = m + n /\ m \in 0 .. Len(z)
      /\ \A k \in 1 .. n : /\ m + k \in 1 .. Len(z) /\ z[m + k] = y[k]
                           /\ (m + k) - 1 = m + (k - 1)
  BY <1>1 DEF Follows
<1>3. h[m] \in Seq(L)
  BY <1>2, KeepsStep
<1>4. 0 \in T
  <2>1. h[m] \o << >> = h[m] /\ m + 0 = m
    BY <1>2, <1>3
  <2>2. h[m + 0] = Glued(h[m], g[0])
    BY <1>1, <2>1 DEF Glued
  <2> QED BY <1>1, <1>2, <2>2
<1>5. ASSUME NEW k \in 1 .. n, k - 1 \in T PROVE k \in T
  <2>1. g[k] = IF y[k] \in S THEN Append(g[k - 1], y[k]) ELSE g[k - 1]
    BY KeepsStep
  <2>2. g[k - 1] \in Seq(L) /\ y[k] \in L
    BY KeepsStep
  <2>3. h[m + (k - 1)] = Glued(h[m], g[k - 1])
    BY <1>5
  <2>4. m + k \in 1 .. Len(z) /\ z[m + k] = y[k] /\ (m + k) - 1 = m + (k - 1)
    BY <1>2
  <2>5. h[m + k] = IF z[m + k] \in S THEN Append(h[(m + k) - 1], z[m + k])
                   ELSE h[(m + k) - 1]
    BY <2>4, KeepsStep
  <2>6. h[m + k] = IF y[k] \in S THEN Append(Glued(h[m], g[k - 1]), y[k])
                   ELSE Glued(h[m], g[k - 1])
    BY <2>3, <2>4, <2>5
  <2>7. Append(Glued(h[m], g[k - 1]), y[k]) = Glued(h[m], Append(g[k - 1], y[k]))
    <3> DEFINE a == h[m]
               b == g[k - 1]
               l == y[k]
    <3>1. a \in Seq(L) /\ b \in Seq(L) /\ l \in L
      BY <1>3, <2>2
    <3> HIDE DEF a, b, l
    <3>2. Append(Glued(a, b), l) = Glued(a, Append(b, l))
      BY <3>1 DEF Glued
    <3> QED BY <3>2 DEF a, b, l
  <2>8. h[m + k] = Glued(h[m], g[k])
    BY <2>1, <2>6, <2>7
  <2> QED BY <1>1, <1>2, <2>8
<1> HIDE DEF T
<1>6. \A k \in 0 .. n : k \in T
  BY <1>1, <1>4, <1>5, Induction
<1>7. n \in T
  BY <1>1, <1>6
<1> QED BY <1>2, <1>7 DEF T

\* What is kept of two texts in a row.
LEMMA OnlyConcat ==
  ASSUME NEW L, NEW x \in Seq(L), NEW y \in Seq(L), NEW S
  PROVE  Only(x \o y, S) = Only(x, S) \o Only(y, S)
<1> DEFINE z == x \o y
<1>1. z \in Seq(L)
  OBVIOUS
<1>2. Starts(x, z)
  BY DEF Starts
<1>8. Follows(y, z, Len(x))
  BY DEF Follows
<1> HIDE DEF z
<1>3. PICK f : Keeps(f, x, S, L) /\ Only(x, S) = f[Len(x)]
  BY OnlyIs
<1>4. PICK g : Keeps(g, y, S, L) /\ Only(y, S) = g[Len(y)]
  BY OnlyIs
<1>5. PICK h : Keeps(h, z, S, L) /\ Only(z, S) = h[Len(z)]
  BY <1>1, OnlyIs
<1>6. h[Len(x)] = f[Len(x)]
  BY <1>2, <1>3, <1>5, KeepsBefore
<1>7. h[Len(z)] = h[Len(x)] \o g[Len(y)]
  <2>1. Keeps(g, y, S, L)
    BY <1>4
  <2>2. Keeps(h, z, S, L)
    BY <1>5
  <2> DEFINE m == Len(x)
  <2>3. Follows(y, z, m)
    BY <1>8
  <2> HIDE DEF m
  <2>4. h[Len(z)] = Glued(h[m], g[Len(y)])
    BY <2>1, <2>2, <2>3, KeepsAfter
  <2> QED BY <2>4 DEF m, Glued
<1> QED
  BY <1>3, <1>4, <1>5, <1>6, <1>7 DEF z

\* All is kept of a text whose lines are in S.
LEMMA OnlyAll ==
  ASSUME NEW L, NEW text \in Seq(L), NEW S, \A i \in 1 .. Len(text) : text[i] \in S
  PROVE  Only(text, S) = text
<1> DEFINE n == Len(text)
<1>1. PICK g : Keeps(g, text, S, L) /\ Only(text, S) = g[n]
  BY OnlyIs
<1>2. n \in Nat
  OBVIOUS
<1> DEFINE T == {k \in 0 .. n : g[k] = SubSeq(text, 1, k)}
<1>3. 0 \in T
  BY <1>1, <1>2 DEF Keeps
<1>4. ASSUME NEW k \in 1 .. n, k - 1 \in T PROVE k \in T
  <2>1. SubSeq(text, 1, k) = Append(SubSeq(text, 1, k - 1), text[k])
    <3> DEFINE s == SubSeq(text, 1, k)
               t == Append(SubSeq(text, 1, k - 1), text[k])
    <3>1. s \in Seq(L) /\ Len(s) = k /\ \A i \in 1 .. k : s[i] = text[i]
      BY <1>2
    <3>2. t \in Seq(L) /\ Len(t) = k /\ \A i \in 1 .. k : t[i] = text[i]
      BY <1>2
    <3> HIDE DEF s, t
    <3>3. s = t
      BY <1>2, <3>1, <3>2, SeqEqual
    <3> QED BY <3>3 DEF s, t
  <2>2. g[k] = Append(g[k - 1], text[k])
    <3>1. g[k] = IF text[k] \in S THEN Append(g[k - 1], text[k]) ELSE g[k - 1]
      BY <1>1, KeepsStep
    <3> QED BY <3>1
  <2>3. g[k] = SubSeq(text, 1, k)
    BY <1>4, <2>1, <2>2
  <2> QED BY <2>3
<1>5. n \in T
  <2> HIDE DEF T
  <2>1. \A k \in 0 .. n : k \in T
    BY <1>2, <1>3, <1>4, Induction
  <2> QED BY <1>2, <2>1
<1>6. SubSeq(text, 1, n) = text
  OBVIOUS
<1> QED
  BY <1>1, <1>5, <1>6

-----------------------------------------------------------------------------
(* Lines, blocks, and crontabs in which each plan has at most one block *)

OwnerLines == [is : {"owner"}, text : OwnerLine]
Markers == [is : {"start", "end"}, plan : Plan]
Entries == [is : {"entry"}, plan : Plan, kind : {"full", "incr"},
            doms : SUBSET Int, dows : SUBSET Int, off : BOOLEAN]
Line == OwnerLines \cup Markers \cup Entries

Clear(text, p) == \A i \in 1 .. Len(text) : ~Mine(text[i], p)

\* The lines from s to e are plan p's block, and no line of it is elsewhere.
IsBlock(text, p, s, e) ==
    /\ s \in 1 .. Len(text) /\ e \in 1 .. Len(text) /\ s < e
    /\ text[s] = Start(p) /\ text[e] = End(p)
    /\ \A i \in s + 1 .. e - 1 : text[i] \in Entries /\ text[i].plan = p
    /\ \A i \in 1 .. Len(text) : Mine(text[i], p) => i \in s .. e

IsWhole(b, p) == IsBlock(b, p, 1, Len(b))
Neat(text, p) == Clear(text, p) \/ \E s, e \in Int : IsBlock(text, p, s, e)
AllNeat(text) == text \in Seq(Line) /\ \A p \in Plan : Neat(text, p)

\* A marker is a line, and the plan's.
LEMMA MarkerFacts ==
  ASSUME NEW p \in Plan
  PROVE  /\ Start(p) \in Line /\ End(p) \in Line /\ Start(p) # End(p)
         /\ Start(p).is = "start" /\ End(p).is = "end"
         /\ Mine(Start(p), p) /\ Mine(End(p), p)
BY DEF Start, End, Line, Markers, Mine

\* An entry is a line, and no marker.
LEMMA EntryFacts ==
  ASSUME NEW l \in Entries
  PROVE  /\ l \in Line /\ l.is = "entry" /\ l.plan \in Plan /\ Mine(l, l.plan)
         /\ l.off \in BOOLEAN
         /\ \A p : l # Start(p) /\ l # End(p)
BY DEF Start, End, Line, Entries, Mine

\* A line is of one plan at most; an owner's line of none.
LEMMA LineFacts ==
  ASSUME NEW l \in Line
  PROVE  /\ \A p, q : Mine(l, p) /\ Mine(l, q) => p = q
         /\ l.is = "owner" => \A p : ~Mine(l, p)
         /\ l.is = "entry" => l \in Entries
BY DEF Line, Entries, Markers, OwnerLines, Mine

\* Every line of a block is the plan's.
LEMMA BlockLines ==
  ASSUME NEW text \in Seq(Line), NEW p \in Plan, NEW s \in Int, NEW e \in Int,
         IsBlock(text, p, s, e)
  PROVE  /\ \A i \in 1 .. Len(text) : Mine(text[i], p) <=> i \in s .. e
         /\ \A i \in s .. e : i \in 1 .. Len(text)
         /\ \A i \in s .. e : text[i] = Start(p) <=> i = s
         /\ \A i \in s .. e : text[i] = End(p) <=> i = e
<1>1. ASSUME NEW i \in s .. e
      PROVE  /\ Mine(text[i], p) /\ i \in 1 .. Len(text)
             /\ text[i] = Start(p) <=> i = s
             /\ text[i] = End(p) <=> i = e
  <2>1. CASE i = s \/ i = e
    BY <2>1, MarkerFacts DEF IsBlock
  <2>2. CASE i # s /\ i # e
    <3>1. text[i] \in Entries /\ text[i].plan = p /\ i \in 1 .. Len(text)
      BY <2>2 DEF IsBlock
    <3> QED BY <2>2, <3>1, EntryFacts
  <2> QED BY <2>1, <2>2
<1>2. \A i \in 1 .. Len(text) : Mine(text[i], p) => i \in s .. e
  BY DEF IsBlock
<1> QED
  BY <1>1, <1>2

\* Without a line of the plan there is no marker of it.
LEMMA ClearMarkers ==
  ASSUME NEW text \in Seq(Line), NEW p \in Plan, Clear(text, p)
  PROVE  \A i \in 1 .. Len(text) : text[i] # Start(p) /\ text[i] # End(p)
BY MarkerFacts DEF Clear

\* new is text with the lines from s to e replaced by those of m.
Spliced(text, new, s, e, m) ==
    /\ s \in Nat \ {0} /\ e \in Nat /\ s <= e + 1 /\ e <= Len(text)
    /\ Len(new) = (s - 1) + Len(m) + (Len(text) - e)
    /\ \A i \in 1 .. s - 1 : new[i] = text[i]
    /\ \A i \in 1 .. Len(m) : new[s - 1 + i] = m[i]
    /\ \A i \in 1 .. Len(text) - e : new[s - 1 + Len(m) + i] = text[e + i]

\* The lines of two texts in a row, and of three.
LEMMA TwoParts ==
  ASSUME NEW L, NEW x \in Seq(L), NEW y \in Seq(L)
  PROVE  /\ x \o y \in Seq(L) /\ Len(x \o y) = Len(x) + Len(y)
         /\ Len(x) \in Nat /\ Len(y) \in Nat
         /\ \A i \in 1 .. Len(x) : (x \o y)[i] = x[i]
         /\ \A i \in 1 .. Len(y) : (x \o y)[Len(x) + i] = y[i]
OBVIOUS

LEMMA ThreeParts ==
  ASSUME NEW L, NEW x \in Seq(L), NEW m \in Seq(L), NEW y \in Seq(L)
  PROVE  /\ (x \o m) \o y \in Seq(L)
         /\ Len((x \o m) \o y) = Len(x) + Len(m) + Len(y)
         /\ Len(x) \in Nat /\ Len(m) \in Nat /\ Len(y) \in Nat
         /\ \A i \in 1 .. Len(x) : ((x \o m) \o y)[i] = x[i]
         /\ \A i \in 1 .. Len(m) : ((x \o m) \o y)[Len(x) + i] = m[i]
         /\ \A i \in 1 .. Len(y) : ((x \o m) \o y)[Len(x) + Len(m) + i] = y[i]
<1> DEFINE z == x \o m
<1>1. /\ z \in Seq(L) /\ Len(z) = Len(x) + Len(m)
      /\ Len(x) \in Nat /\ Len(m) \in Nat
      /\ \A i \in 1 .. Len(x) : z[i] = x[i]
      /\ \A i \in 1 .. Len(m) : z[Len(x) + i] = m[i]
  BY TwoParts
<1> HIDE DEF z
<1> DEFINE w == z \o y
<1>2. /\ w \in Seq(L) /\ Len(w) = Len(z) + Len(y) /\ Len(y) \in Nat
      /\ \A i \in 1 .. Len(z) : w[i] = z[i]
      /\ \A i \in 1 .. Len(y) : w[Len(z) + i] = y[i]
  <2>1. z \in Seq(L)
    BY <1>1
  <2> QED BY <2>1, TwoParts
<1> HIDE DEF w
<1>3. \A i \in 1 .. Len(x) : w[i] = x[i]
  BY <1>1, <1>2
<1>4. \A i \in 1 .. Len(m) : w[Len(x) + i] = m[i]
  BY <1>1, <1>2
<1>5. \A i \in 1 .. Len(y) : w[Len(x) + Len(m) + i] = y[i]
  BY <1>1, <1>2
<1>6. Len(w) = Len(x) + Len(m) + Len(y)
  BY <1>1, <1>2
<1>7. w = (x \o m) \o y
  BY DEF w, z
<1> QED
  BY <1>1, <1>2, <1>3, <1>4, <1>5, <1>6, <1>7

\* The lines of a part of a text.
LEMMA SubSeqIs ==
  ASSUME NEW L, NEW text \in Seq(L), NEW i \in 1 .. Len(text) + 1,
         NEW j \in i - 1 .. Len(text)
  PROVE  /\ SubSeq(text, i, j) \in Seq(L) /\ Len(SubSeq(text, i, j)) = j - i + 1
         /\ \A k \in 1 .. j - i + 1 : SubSeq(text, i, j)[k] = text[i - 1 + k]
OBVIOUS

\* What replaces the lines from s to e by m.
Splice(text, s, e, m) ==
    (SubSeq(text, 1, s - 1) \o m) \o SubSeq(text, e + 1, Len(text))

\* Splice replaces the lines from s to e.
LEMMA SpliceIs ==
  ASSUME NEW text \in Seq(Line), NEW m \in Seq(Line),
         NEW s \in 1 .. Len(text) + 1, NEW e \in s - 1 .. Len(text)
  PROVE  /\ Splice(text, s, e, m) \in Seq(Line)
         /\ Spliced(text, Splice(text, s, e, m), s, e, m)
         /\ SubSeq(text, 1, s - 1) \in Seq(Line)
         /\ SubSeq(text, e + 1, Len(text)) \in Seq(Line)
<1> DEFINE x == SubSeq(text, 1, s - 1)
           y == SubSeq(text, e + 1, Len(text))
           new == Splice(text, s, e, m)
<1>1. Len(text) \in Nat /\ s \in Nat \ {0} /\ e \in Nat
  OBVIOUS
<1>2. /\ x \in Seq(Line) /\ Len(x) = s - 1
      /\ \A i \in 1 .. s - 1 : x[i] = text[i]
  BY <1>1
<1>3. /\ y \in Seq(Line) /\ Len(y) = Len(text) - e
      /\ \A i \in 1 .. Len(text) - e : y[i] = text[e + i]
  BY <1>1
<1>4. new = (x \o m) \o y
  BY DEF Splice
<1> HIDE DEF x, y, new
<1>5. /\ new \in Seq(Line) /\ Len(new) = Len(x) + Len(m) + Len(y)
      /\ \A i \in 1 .. Len(x) : new[i] = x[i]
      /\ \A i \in 1 .. Len(m) : new[Len(x) + i] = m[i]
      /\ \A i \in 1 .. Len(y) : new[Len(x) + Len(m) + i] = y[i]
  <2>1. x \in Seq(Line)
    BY <1>2
  <2>2. y \in Seq(Line)
    BY <1>3
  <2> DEFINE z == (x \o m) \o y
  <2>3. /\ z \in Seq(Line) /\ Len(z) = Len(x) + Len(m) + Len(y)
        /\ \A i \in 1 .. Len(x) : z[i] = x[i]
        /\ \A i \in 1 .. Len(m) : z[Len(x) + i] = m[i]
        /\ \A i \in 1 .. Len(y) : z[Len(x) + Len(m) + i] = y[i]
    BY <2>1, <2>2, ThreeParts
  <2> HIDE DEF z
  <2>4. new = z
    BY <1>4 DEF z
  <2> QED BY <2>3, <2>4
<1>6. Spliced(text, new, s, e, m)
  BY <1>1, <1>2, <1>3, <1>5 DEF Spliced
<1> QED
  BY <1>2, <1>3, <1>5, <1>6 DEF x, y, new

-----------------------------------------------------------------------------
(* A plan's lines are replaced, and nothing else *)

\* Plan p's lines, which are those from s to e, are replaced by those of m.
Rewrites(text, new, p, s, e, m) ==
    /\ text \in Seq(Line) /\ m \in Seq(Line)
    /\ s \in 1 .. Len(text) + 1 /\ e \in s - 1 .. Len(text)
    /\ s <= e \/ e = Len(text)
    /\ new = Splice(text, s, e, m)
    /\ \A i \in 1 .. Len(text) : Mine(text[i], p) <=> i \in s .. e
    /\ \A i \in 1 .. Len(m) : Mine(m[i], p)

\* What it is that rewriting rewrites.
LEMMA RewriteIs ==
  ASSUME NEW text, NEW new, NEW p, NEW s, NEW e, NEW m,
         Rewrites(text, new, p, s, e, m)
  PROVE  /\ text \in Seq(Line) /\ m \in Seq(Line) /\ new \in Seq(Line)
         /\ Spliced(text, new, s, e, m)
<1>1. text \in Seq(Line)
  BY DEF Rewrites
<1>2. m \in Seq(Line)
  BY DEF Rewrites
<1>3. s \in 1 .. Len(text) + 1 /\ e \in s - 1 .. Len(text)
  BY DEF Rewrites
<1>4. new = Splice(text, s, e, m)
  BY DEF Rewrites
<1> QED BY <1>1, <1>2, <1>3, <1>4, SpliceIs

\* Where a line of the new text comes from.
LEMMA SplicedFrom ==
  ASSUME NEW text \in Seq(Line), NEW m \in Seq(Line), NEW new, NEW s, NEW e,
         Spliced(text, new, s, e, m), NEW i \in 1 .. Len(new)
  PROVE  \/ i \in 1 .. s - 1 /\ new[i] = text[i] /\ i \in 1 .. Len(text)
         \/ i - (s - 1) \in 1 .. Len(m) /\ new[i] = m[i - (s - 1)]
         \/ /\ i - (s - 1) - Len(m) + e \in e + 1 .. Len(text)
            /\ new[i] = text[i - (s - 1) - Len(m) + e]
<1>1. Len(text) \in Nat /\ Len(m) \in Nat
  OBVIOUS
<1>2. /\ s \in Nat \ {0} /\ e \in Nat /\ s <= e + 1 /\ e <= Len(text)
      /\ Len(new) = (s - 1) + Len(m) + (Len(text) - e)
  BY DEF Spliced
<1>3. CASE i <= s - 1
  <2>1. i \in 1 .. s - 1
    BY <1>1, <1>2, <1>3
  <2> QED BY <1>1, <1>2, <2>1 DEF Spliced
<1>4. CASE s - 1 < i /\ i <= s - 1 + Len(m)
  <2> DEFINE j == i - (s - 1)
  <2>1. j \in 1 .. Len(m) /\ i = s - 1 + j
    BY <1>1, <1>2, <1>4
  <2>2. new[s - 1 + j] = m[j]
    BY <2>1 DEF Spliced
  <2> QED BY <2>1, <2>2
<1>5. CASE s - 1 + Len(m) < i
  <2> DEFINE j == i - (s - 1) - Len(m)
  <2>1. /\ j \in 1 .. Len(text) - e /\ i = s - 1 + Len(m) + j
        /\ e + j \in e + 1 .. Len(text) /\ e + j = j + e
    BY <1>1, <1>2, <1>5
  <2>2. new[s - 1 + Len(m) + j] = text[e + j]
    BY <2>1 DEF Spliced
  <2> QED BY <2>1, <2>2
<1> QED
  BY <1>1, <1>2, <1>3, <1>4, <1>5

\* The plan's lines of the new text are those of m.
LEMMA RewriteOwn ==
  ASSUME NEW p \in Plan, NEW text, NEW new, NEW s, NEW e, NEW m,
         Rewrites(text, new, p, s, e, m)
  PROVE  /\ \A i \in 1 .. Len(new) :
              Mine(new[i], p) => /\ i - (s - 1) \in 1 .. Len(m)
                                 /\ new[i] = m[i - (s - 1)]
         /\ m = << >> => Clear(new, p)
         /\ IsWhole(m, p) => IsBlock(new, p, s, s - 1 + Len(m))
<1>1. text \in Seq(Line) /\ m \in Seq(Line)
  BY RewriteIs
<1>2. Spliced(text, new, s, e, m)
  BY RewriteIs
<1>3. /\ s \in Nat \ {0} /\ e \in Nat /\ Len(text) \in Nat /\ Len(m) \in Nat
      /\ e <= Len(text)
      /\ \A i \in 1 .. Len(text) : Mine(text[i], p) <=> i \in s .. e
  BY <1>1 DEF Rewrites
<1>4. ASSUME NEW i \in 1 .. Len(new), Mine(new[i], p)
      PROVE  /\ i - (s - 1) \in 1 .. Len(m)
             /\ new[i] = m[i - (s - 1)]
  <2>1. ~(i \in 1 .. s - 1 /\ new[i] = text[i] /\ i \in 1 .. Len(text))
    BY <1>3, <1>4
  <2>2. ~ /\ i - (s - 1) - Len(m) + e \in e + 1 .. Len(text)
          /\ new[i] = text[i - (s - 1) - Len(m) + e]
    <3> DEFINE k == i - (s - 1) - Len(m) + e
    <3> SUFFICES k \in e + 1 .. Len(text) => new[i] # text[k]
      OBVIOUS
    <3> HIDE DEF k
    <3>1. k \in e + 1 .. Len(text) => k \in 1 .. Len(text) /\ k \notin s .. e
      BY <1>3
    <3> QED BY <1>3, <1>4, <3>1
  <2> QED BY <1>1, <1>2, <2>1, <2>2, SplicedFrom
<1>5. m = << >> => Clear(new, p)
  BY <1>4 DEF Clear
<1>6. ASSUME IsWhole(m, p) PROVE IsBlock(new, p, s, s - 1 + Len(m))
  <2>1. /\ Len(m) >= 2 /\ m[1] = Start(p) /\ m[Len(m)] = End(p)
        /\ \A i \in 2 .. Len(m) - 1 : m[i] \in Entries /\ m[i].plan = p
    BY <1>3, <1>6 DEF IsWhole, IsBlock
  <2>2. /\ Len(new) = (s - 1) + Len(m) + (Len(text) - e)
        /\ \A i \in 1 .. Len(m) : new[s - 1 + i] = m[i]
    BY <1>2 DEF Spliced
  <2>3. /\ new[s] = Start(p) /\ new[s - 1 + Len(m)] = End(p)
    <3>1. 1 \in 1 .. Len(m) /\ Len(m) \in 1 .. Len(m) /\ s - 1 + 1 = s
      BY <1>3, <2>1
    <3> QED BY <2>1, <2>2, <3>1
  <2>4. ASSUME NEW i \in s + 1 .. s - 1 + Len(m) - 1
        PROVE  new[i] \in Entries /\ new[i].plan = p
    <3> DEFINE j == i - (s - 1)
    <3>1. /\ j \in 1 .. Len(m) /\ j \in 2 .. Len(m) - 1 /\ s - 1 + j = i
      BY <1>3, <2>1
    <3>2. new[s - 1 + j] = m[j]
      BY <2>2, <3>1
    <3> QED BY <2>1, <3>1, <3>2
  <2>5. \A i \in 1 .. Len(new) : Mine(new[i], p) => i \in s .. s - 1 + Len(m)
    BY <1>3, <1>4
  <2>6. s \in 1 .. Len(new) /\ s - 1 + Len(m) \in 1 .. Len(new) /\ s < s - 1 + Len(m)
    BY <1>3, <2>1, <2>2
  <2> QED BY <2>3, <2>4, <2>5, <2>6 DEF IsBlock
<1> QED
  BY <1>4, <1>5, <1>6

\* The lines of another plan stay as they are, its block in one piece.
LEMMA RewriteOther ==
  ASSUME NEW p \in Plan, NEW q \in Plan, q # p,
         NEW text, NEW new, NEW s, NEW e, NEW m,
         Rewrites(text, new, p, s, e, m)
  PROVE  /\ Clear(text, q) => Clear(new, q)
         /\ Neat(text, q) => Neat(new, q)
<1>1. text \in Seq(Line) /\ m \in Seq(Line)
  BY RewriteIs
<1>2. Spliced(text, new, s, e, m)
  BY RewriteIs
<1>3. /\ s \in Nat \ {0} /\ e \in Nat /\ Len(text) \in Nat /\ Len(m) \in Nat
      /\ s <= e + 1 /\ e <= Len(text)
      /\ Len(new) = (s - 1) + Len(m) + (Len(text) - e)
  BY <1>1, <1>2 DEF Spliced
<1>4. \A i \in s .. e : ~Mine(text[i], q)
  <2> SUFFICES ASSUME NEW i \in s .. e, Mine(text[i], q) PROVE FALSE
    OBVIOUS
  <2>1. i \in 1 .. Len(text)
    BY <1>3
  <2>2. Mine(text[i], p) /\ text[i] \in Line
    BY <1>1, <2>1 DEF Rewrites
  <2> QED BY <2>2, LineFacts
<1>5. \A i \in 1 .. Len(m) : ~Mine(m[i], q)
  <2> SUFFICES ASSUME NEW i \in 1 .. Len(m), Mine(m[i], q) PROVE FALSE
    OBVIOUS
  <2>1. Mine(m[i], p) /\ m[i] \in Line
    BY <1>1 DEF Rewrites
  <2> QED BY <2>1, LineFacts
<1> DEFINE d == (s - 1) + Len(m) - e
<1>6. ASSUME NEW i \in 1 .. Len(new), Mine(new[i], q)
      PROVE  \/ i \in 1 .. s - 1 /\ i \in 1 .. Len(text) /\ Mine(text[i], q)
             \/ i - d \in e + 1 .. Len(text) /\ Mine(text[i - d], q)
  <2>1. ~(i - (s - 1) \in 1 .. Len(m) /\ new[i] = m[i - (s - 1)])
    BY <1>5, <1>6
  <2>2. i - (s - 1) - Len(m) + e = i - d
    BY <1>3
  <2> QED BY <1>1, <1>2, <1>6, <2>1, <2>2, SplicedFrom
<1>7. Clear(text, q) => Clear(new, q)
  <2>1. \A i : i \in e + 1 .. Len(text) => i \in 1 .. Len(text)
    BY <1>3
  <2> QED BY <1>6, <2>1 DEF Clear
<1>8. ASSUME NEW u \in Int, NEW v \in Int, IsBlock(text, q, u, v)
      PROVE  Neat(new, q)
  <2>1. /\ u \in 1 .. Len(text) /\ v \in 1 .. Len(text) /\ u < v
        /\ text[u] = Start(q) /\ text[v] = End(q)
        /\ \A i \in u + 1 .. v - 1 : text[i] \in Entries /\ text[i].plan = q
        /\ \A i \in 1 .. Len(text) : Mine(text[i], q) => i \in u .. v
    BY <1>8 DEF IsBlock
  <2>2. \A i \in u .. v : Mine(text[i], q)
    BY <1>1, <1>8, BlockLines
  <2>3. v < s \/ e < u
    <3>1. CASE s > e
      <4>1. e = Len(text)
        BY <1>3, <3>1 DEF Rewrites
      <4> QED BY <1>3, <2>1, <3>1, <4>1
    <3>2. CASE s <= e
      <4>1. \A i \in s .. e : i \notin u .. v
        BY <1>4, <2>2
      <4>2. s \in s .. e /\ u \in u .. v
        BY <1>3, <2>1, <3>2
      <4>3. s \notin u .. v /\ u \notin s .. e
        BY <4>1, <4>2
      <4> QED BY <1>3, <2>1, <3>2, <4>3
    <3> QED BY <1>3, <3>1, <3>2
  <2>4. CASE v < s
    <3>1. \A i \in u .. v : new[i] = text[i]
      BY <1>2, <1>3, <2>1, <2>4 DEF Spliced
    <3>2. u \in 1 .. Len(new) /\ v \in 1 .. Len(new)
      BY <1>3, <2>1, <2>4
    <3>3. new[u] = Start(q) /\ new[v] = End(q)
      BY <1>3, <2>1, <3>1
    <3>4. \A i \in u + 1 .. v - 1 : new[i] \in Entries /\ new[i].plan = q
      BY <1>3, <2>1, <3>1
    <3>5. \A i \in 1 .. Len(new) : Mine(new[i], q) => i \in u .. v
      BY <1>3, <1>6, <2>1, <2>4
    <3>6. IsBlock(new, q, u, v)
      BY <2>1, <3>2, <3>3, <3>4, <3>5 DEF IsBlock
    <3> QED BY <3>6 DEF Neat
  <2>5. CASE e < u
    <3>1. \A i \in u .. v : new[i + d] = text[i]
      <4> SUFFICES ASSUME NEW i \in u .. v PROVE new[i + d] = text[i]
        OBVIOUS
      <4> DEFINE j == i - e
      <4>1. j \in 1 .. Len(text) - e /\ i = e + j /\ i + d = s - 1 + Len(m) + j
        BY <1>3, <2>1, <2>5
      <4>2. new[s - 1 + Len(m) + j] = text[e + j]
        BY <1>2, <4>1 DEF Spliced
      <4> QED BY <4>1, <4>2
    <3>2. u + d \in 1 .. Len(new) /\ v + d \in 1 .. Len(new) /\ u + d < v + d
          /\ d \in Int
      BY <1>3, <2>1, <2>5
    <3>3. new[u + d] = Start(q) /\ new[v + d] = End(q)
      BY <1>3, <2>1, <3>1
    <3>4. ASSUME NEW i \in u + d + 1 .. v + d - 1
          PROVE  new[i] \in Entries /\ new[i].plan = q
      <4> DEFINE j == i - d
      <4>1. j \in u + 1 .. v - 1 /\ j \in u .. v /\ j + d = i
        BY <1>3, <2>1
      <4>2. new[j + d] = text[j]
        BY <3>1, <4>1
      <4> QED BY <2>1, <4>1, <4>2
    <3>5. ASSUME NEW i \in 1 .. Len(new), Mine(new[i], q)
          PROVE  i \in u + d .. v + d
      <4>1. i \in 1 .. s - 1 => i \notin u .. v
        BY <1>3, <2>1, <2>5
      <4>2. i - d \in e + 1 .. Len(text) /\ Mine(text[i - d], q)
        BY <1>6, <2>1, <3>5, <4>1
      <4>3. i - d \in u .. v
        BY <1>3, <2>1, <4>2
      <4> QED BY <1>3, <2>1, <4>3
    <3>6. IsBlock(new, q, u + d, v + d)
      BY <3>2, <3>3, <3>4, <3>5 DEF IsBlock
    <3> HIDE DEF d
    <3> QED BY <3>2, <3>6, <2>1 DEF Neat
  <2> QED BY <2>3, <2>4, <2>5
<1> QED
  BY <1>7, <1>8 DEF Neat

-----------------------------------------------------------------------------
(* The lines of the others *)

Alien(p) == {l \in Line : ~Mine(l, p)}

\* The lines that are not a plan's, whatever text they are taken from.
LEMMA OthersIs ==
  ASSUME NEW text \in Seq(Line), NEW p
  PROVE  Others(text, p) = Only(text, Alien(p))
<1> DEFINE S == {l \in ToSet(text) : ~Mine(l, p)}
<1>1. \A i \in 1 .. Len(text) : text[i] \in S <=> text[i] \in Alien(p)
  <2>1. \A i \in 1 .. Len(text) : text[i] \in Line /\ i \in DOMAIN text
    OBVIOUS
  <2> QED BY <2>1 DEF ToSet, Alien
<1> HIDE DEF S
<1>2. Only(text, S) = Only(text, Alien(p))
  BY <1>1, OnlySame
<1> QED BY <1>2 DEF Others, S

\* A text in three parts.
LEMMA Parts ==
  ASSUME NEW text \in Seq(Line), NEW s \in 1 .. Len(text) + 1,
         NEW e \in s - 1 .. Len(text)
  PROVE  text = Splice(text, s, e, SubSeq(text, s, e))
<1> DEFINE m == SubSeq(text, s, e)
           new == Splice(text, s, e, m)
<1>1. m \in Seq(Line)
  BY SubSeqIs
<1>2. Len(m) = e - s + 1 /\ \A k \in 1 .. e - s + 1 : m[k] = text[s - 1 + k]
  BY SubSeqIs
<1>3. Len(text) \in Nat
  OBVIOUS
<1> HIDE DEF m
<1>4. new \in Seq(Line)
  BY <1>1, SpliceIs
<1>5. Spliced(text, new, s, e, m)
  BY <1>1, SpliceIs
<1> HIDE DEF new
<1>6. Len(new) = Len(text)
  BY <1>2, <1>3, <1>5 DEF Spliced
<1>7. ASSUME NEW i \in 1 .. Len(text) PROVE new[i] = text[i]
  <2>1. CASE i \in 1 .. s - 1
    BY <1>5, <2>1 DEF Spliced
  <2>2. CASE i \in s .. e
    <3> DEFINE k == i - (s - 1)
    <3>1. k \in 1 .. e - s + 1 /\ k \in 1 .. Len(m) /\ s - 1 + k = i
      BY <1>2, <1>3, <2>2
    <3>2. new[s - 1 + k] = m[k] /\ m[k] = text[s - 1 + k]
      BY <1>2, <1>5, <3>1 DEF Spliced
    <3> QED BY <3>1, <3>2
  <2>3. CASE i \in e + 1 .. Len(text)
    <3> DEFINE k == i - e
    <3>1. k \in 1 .. Len(text) - e /\ s - 1 + Len(m) + k = i /\ e + k = i
      BY <1>2, <1>3, <2>3
    <3>2. new[s - 1 + Len(m) + k] = text[e + k]
      BY <1>5, <3>1 DEF Spliced
    <3> QED BY <3>1, <3>2
  <2> QED BY <1>3, <2>1, <2>2, <2>3
<1>8. new = text
  BY <1>4, <1>6, <1>7, SeqEqual
<1> QED BY <1>8 DEF new, m

\* What is kept of it.
LEMMA OnlyGlued ==
  ASSUME NEW x \in Seq(Line), NEW y \in Seq(Line), NEW S
  PROVE  Only(Glued(x, y), S) = Glued(Only(x, S), Only(y, S))
<1>1. Only(x \o y, S) = Only(x, S) \o Only(y, S)
  BY OnlyConcat
<1> QED BY <1>1, Zenon DEF Glued

LEMMA GluedLines ==
  ASSUME NEW x \in Seq(Line), NEW y \in Seq(Line)
  PROVE  Glued(x, y) \in Seq(Line)
BY DEF Glued

LEMMA OnlyParts ==
  ASSUME NEW text \in Seq(Line), NEW s \in 1 .. Len(text) + 1,
         NEW e \in s - 1 .. Len(text), NEW m \in Seq(Line), NEW S
  PROVE  Only(Splice(text, s, e, m), S)
         = (Only(SubSeq(text, 1, s - 1), S) \o Only(m, S))
           \o Only(SubSeq(text, e + 1, Len(text)), S)
<1> DEFINE x == SubSeq(text, 1, s - 1)
           y == SubSeq(text, e + 1, Len(text))
           z == Glued(x, m)
<1>1. x \in Seq(Line)
  BY SpliceIs
<1>2. y \in Seq(Line)
  BY SpliceIs
<1> HIDE DEF x, y
<1>3. z \in Seq(Line)
  BY <1>1, GluedLines
<1>4. Only(z, S) = Glued(Only(x, S), Only(m, S))
  BY <1>1, OnlyGlued
<1> HIDE DEF z
<1>5. Only(Glued(z, y), S) = Glued(Only(z, S), Only(y, S))
  BY <1>2, <1>3, OnlyGlued
<1> QED
  BY <1>4, <1>5, Zenon DEF Splice, Glued, x, y, z

\* Of a plan's own lines none is kept.
LEMMA NoneOfBlock ==
  ASSUME NEW b \in Seq(Line), NEW p, \A i \in 1 .. Len(b) : Mine(b[i], p)
  PROVE  Only(b, Alien(p)) = << >>
<1>1. \A i \in 1 .. Len(b) : b[i] \notin Alien(p)
  BY DEF Alien
<1> QED BY <1>1, OnlyNone

\* Rewriting a plan's lines leaves all the others, in their order.
LEMMA RewriteOthers ==
  ASSUME NEW p, NEW text, NEW new, NEW s, NEW e, NEW m,
         Rewrites(text, new, p, s, e, m)
  PROVE  Others(new, p) = Others(text, p)
<1>1. text \in Seq(Line)
  BY RewriteIs
<1>2. m \in Seq(Line)
  BY RewriteIs
<1>3. new \in Seq(Line)
  BY RewriteIs
<1>4. s \in 1 .. Len(text) + 1 /\ e \in s - 1 .. Len(text)
  BY DEF Rewrites
<1> DEFINE b == SubSeq(text, s, e)
<1>5. b \in Seq(Line)
  BY <1>1, <1>4, SubSeqIs
<1>6. Len(b) = e - s + 1 /\ \A k \in 1 .. e - s + 1 : b[k] = text[s - 1 + k]
  BY <1>1, <1>4, SubSeqIs
<1>7. text = Splice(text, s, e, b)
  BY <1>1, <1>4, Parts
<1> HIDE DEF b
<1>8. \A i \in 1 .. Len(b) : Mine(b[i], p)
  <2>1. \A k \in 1 .. e - s + 1 : s - 1 + k \in s .. e /\ s - 1 + k \in 1 .. Len(text)
    BY <1>1, <1>4
  <2> QED BY <1>6, <2>1 DEF Rewrites
<1>9. Only(b, Alien(p)) = << >>
  BY <1>5, <1>8, NoneOfBlock
<1>10. Only(m, Alien(p)) = << >>
  BY <1>2, NoneOfBlock DEF Rewrites
<1>11. Only(Splice(text, s, e, b), Alien(p)) = Only(Splice(text, s, e, m), Alien(p))
  <2> DEFINE x == Only(SubSeq(text, 1, s - 1), Alien(p))
             y == Only(SubSeq(text, e + 1, Len(text)), Alien(p))
  <2>1. s \in 1 .. Len(text) + 1
    BY <1>4
  <2>2. e \in s - 1 .. Len(text)
    BY <1>4
  <2>3. Only(Splice(text, s, e, b), Alien(p)) = (x \o Only(b, Alien(p))) \o y
    BY <1>1, <1>5, <2>1, <2>2, OnlyParts, Zenon
  <2>4. Only(Splice(text, s, e, m), Alien(p)) = (x \o Only(m, Alien(p))) \o y
    BY <1>1, <1>2, <2>1, <2>2, OnlyParts, Zenon
  <2> QED BY <1>9, <1>10, <2>3, <2>4, Zenon
<1>12. new = Splice(text, s, e, m)
  BY DEF Rewrites
<1> QED
  BY <1>1, <1>3, <1>7, <1>11, <1>12, OthersIs

-----------------------------------------------------------------------------
(* What the owner does to a crontab *)

\* Neither a plan's block nor its absence is disturbed.
Undisturbed(text, new) ==
    /\ new \in Seq(Line)
    /\ \A p \in Plan : /\ Neat(text, p) => Neat(new, p)
                       /\ Clear(text, p) => Clear(new, p)

\* The owner appends a line.
LEMMA OwnerAppends ==
  ASSUME NEW text \in Seq(Line), NEW l \in Line, l.is = "owner"
  PROVE  Undisturbed(text, Append(text, l))
<1> DEFINE new == Append(text, l)
<1>1. /\ new \in Seq(Line) /\ Len(new) = Len(text) + 1 /\ Len(text) \in Nat
      /\ \A i \in 1 .. Len(text) : new[i] = text[i]
      /\ new[Len(text) + 1] = l
  OBVIOUS
<1> HIDE DEF new
<1>2. ASSUME NEW p, NEW i \in 1 .. Len(new), Mine(new[i], p)
      PROVE  i \in 1 .. Len(text) /\ Mine(text[i], p)
  <2>1. ~Mine(l, p)
    BY LineFacts
  <2>2. i # Len(text) + 1
    BY <1>1, <1>2, <2>1
  <2>3. i \in 1 .. Len(text)
    BY <1>1, <2>2
  <2> QED BY <1>1, <1>2, <2>3
<1>3. \A p : Clear(text, p) => Clear(new, p)
  BY <1>2 DEF Clear
<1>4. ASSUME NEW p, NEW s \in Int, NEW e \in Int, IsBlock(text, p, s, e)
      PROVE  IsBlock(new, p, s, e)
  <2>1. \A i \in s .. e : i \in 1 .. Len(text) /\ new[i] = text[i]
    BY <1>1, <1>4 DEF IsBlock
  <2>2. s \in s .. e /\ e \in s .. e /\ s < e
    BY <1>1, <1>4 DEF IsBlock
  <2>3. new[s] = Start(p) /\ new[e] = End(p)
    BY <1>4, <2>1, <2>2 DEF IsBlock
  <2>4. s \in 1 .. Len(new) /\ e \in 1 .. Len(new)
    BY <1>1, <2>1, <2>2
  <2>5. \A i \in s + 1 .. e - 1 : i \in s .. e
    OBVIOUS
  <2>6. \A i \in s + 1 .. e - 1 : new[i] \in Entries /\ new[i].plan = p
    BY <1>4, <2>1, <2>5 DEF IsBlock
  <2>7. \A i \in 1 .. Len(new) : Mine(new[i], p) => i \in s .. e
    BY <1>2, <1>4 DEF IsBlock
  <2> QED BY <2>2, <2>3, <2>4, <2>6, <2>7 DEF IsBlock
<1> QED
  BY <1>1, <1>3, <1>4 DEF Undisturbed, Neat, new

\* A line that is no plan's is taken out of a text in three parts.
LEMMA OwnerRemoves ==
  ASSUME NEW text \in Seq(Line), NEW l \in Line, l.is = "owner"
  PROVE  Undisturbed(text, Only(text, ToSet(text) \ {l}))
<1> DEFINE S == ToSet(text) \ {l}
           new == Only(text, S)
<1>1. new \in Seq(Line)
  BY OnlyIn
<1>2. \A p : ~Mine(l, p)
  BY LineFacts
<1>3. \A i \in 1 .. Len(text) : text[i] \in S <=> text[i] # l
  BY DEF ToSet
<1>4. ASSUME NEW p \in Plan, Clear(text, p) PROVE Clear(new, p)
  <2>1. \A j \in 1 .. Len(new) : \E i \in 1 .. Len(text) : new[j] = text[i]
    BY OnlyIn
  <2> HIDE DEF new
  <2> QED BY <1>4, <2>1 DEF Clear
<1>5. ASSUME NEW p \in Plan, NEW s \in Int, NEW e \in Int, IsBlock(text, p, s, e)
      PROVE  Neat(new, p)
  <2> DEFINE x == SubSeq(text, 1, s - 1)
             b == SubSeq(text, s, e)
             y == SubSeq(text, e + 1, Len(text))
             x2 == Only(x, S)
             y2 == Only(y, S)
  <2>1. /\ s \in 1 .. Len(text) /\ e \in 1 .. Len(text) /\ s < e
        /\ s \in 1 .. Len(text) + 1 /\ e \in s - 1 .. Len(text) /\ Len(text) \in Nat
    BY <1>5 DEF IsBlock
  <2>2. text = Splice(text, s, e, b)
    BY <2>1, Parts
  <2>3. b \in Seq(Line) /\ Len(b) = e - s + 1 /\ \A k \in 1 .. e - s + 1 : b[k] = text[s - 1 + k]
    BY <2>1, SubSeqIs
  <2>4. x \in Seq(Line) /\ Len(x) = s - 1 /\ \A k \in 1 .. s - 1 : x[k] = text[k]
    BY <2>1
  <2>5. /\ y \in Seq(Line) /\ Len(y) = Len(text) - e
        /\ \A k \in 1 .. Len(text) - e : y[k] = text[e + k]
    BY <2>1
  <2>6. new = (x2 \o Only(b, S)) \o y2
    <3>1. b \in Seq(Line)
      BY <2>3
    <3> HIDE DEF b
    <3>2. Only(Splice(text, s, e, b), S) = (x2 \o Only(b, S)) \o y2
      BY <2>1, <3>1, OnlyParts
    <3> QED BY <2>2, <3>2
  <2>7. Only(b, S) = b
    <3>1. \A k \in 1 .. Len(b) : b[k] \in S
      <4> SUFFICES ASSUME NEW k \in 1 .. Len(b) PROVE b[k] \in S
        OBVIOUS
      <4>1. s - 1 + k \in s .. e /\ b[k] = text[s - 1 + k]
        BY <2>1, <2>3
      <4>2. Mine(text[s - 1 + k], p) /\ s - 1 + k \in 1 .. Len(text)
        BY <1>5, <4>1, BlockLines
      <4> QED BY <1>2, <1>3, <4>1, <4>2
    <3>2. b \in Seq(Line)
      BY <2>3
    <3> HIDE DEF b, S
    <3> QED BY <3>1, <3>2, OnlyAll
  <2> HIDE DEF S, x, y, b
  <2>8. x2 \in Seq(Line) /\ \A j \in 1 .. Len(x2) : \E i \in 1 .. Len(x) : x2[j] = x[i]
    <3>1. x \in Seq(Line)
      BY <2>4
    <3> QED BY <3>1, OnlyIn
  <2>9. y2 \in Seq(Line) /\ \A j \in 1 .. Len(y2) : \E i \in 1 .. Len(y) : y2[j] = y[i]
    <3>1. y \in Seq(Line)
      BY <2>5
    <3> QED BY <3>1, OnlyIn
  <2> HIDE DEF x2, y2, new
  <2>10. \A i \in 1 .. Len(x2) : ~Mine(x2[i], p)
    <3>1. \A i \in 1 .. Len(x) : ~Mine(x[i], p)
      <4>1. \A i \in 1 .. s - 1 : i \in 1 .. Len(text) /\ i \notin s .. e
        BY <2>1
      <4> QED BY <1>5, <2>4, <4>1, BlockLines
    <3> QED BY <2>8, <3>1
  <2>11. \A i \in 1 .. Len(y2) : ~Mine(y2[i], p)
    <3>1. \A i \in 1 .. Len(y) : ~Mine(y[i], p)
      <4>1. \A i \in 1 .. Len(text) - e : e + i \in 1 .. Len(text) /\ e + i \notin s .. e
        BY <2>1
      <4> QED BY <1>5, <2>5, <4>1, BlockLines
    <3> QED BY <2>9, <3>1
  <2>12. /\ Len(new) = Len(x2) + Len(b) + Len(y2)
         /\ Len(x2) \in Nat /\ Len(b) \in Nat /\ Len(y2) \in Nat
         /\ \A i \in 1 .. Len(x2) : new[i] = x2[i]
         /\ \A i \in 1 .. Len(b) : new[Len(x2) + i] = b[i]
         /\ \A i \in 1 .. Len(y2) : new[Len(x2) + Len(b) + i] = y2[i]
    <3>1. x2 \in Seq(Line)
      BY <2>8
    <3>2. b \in Seq(Line)
      BY <2>3
    <3>3. y2 \in Seq(Line)
      BY <2>9
    <3>4. new = (x2 \o b) \o y2
      BY <2>6, <2>7
    <3> QED BY <3>1, <3>2, <3>3, <3>4, ThreeParts
  <2>13. /\ b[1] = Start(p) /\ b[Len(b)] = End(p) /\ Len(b) >= 2
         /\ \A i \in 2 .. Len(b) - 1 : b[i] \in Entries /\ b[i].plan = p
    <3>1. /\ 1 \in 1 .. Len(b) /\ Len(b) \in 1 .. Len(b) /\ s - 1 + 1 = s
          /\ s - 1 + Len(b) = e /\ Len(b) >= 2
      BY <2>1, <2>3
    <3>2. b[1] = text[s] /\ b[Len(b)] = text[e]
      BY <2>3, <3>1
    <3>3. ASSUME NEW i \in 2 .. Len(b) - 1 PROVE b[i] \in Entries /\ b[i].plan = p
      <4>1. i \in 1 .. e - s + 1 /\ s - 1 + i \in s + 1 .. e - 1
        BY <2>1, <2>3
      <4>2. b[i] = text[s - 1 + i]
        BY <2>3, <4>1
      <4> QED BY <1>5, <4>1, <4>2 DEF IsBlock
    <3> QED BY <1>5, <3>1, <3>2, <3>3 DEF IsBlock
  <2> DEFINE u == Len(x2) + 1
             v == Len(x2) + Len(b)
  <2>14. u \in 1 .. Len(new) /\ v \in 1 .. Len(new) /\ u < v
    BY <2>12, <2>13
  <2>15. new[u] = Start(p) /\ new[v] = End(p)
    <3>1. 1 \in 1 .. Len(b) /\ Len(b) \in 1 .. Len(b)
      BY <2>12, <2>13
    <3> QED BY <2>12, <2>13, <3>1
  <2>16. ASSUME NEW i \in u + 1 .. v - 1 PROVE new[i] \in Entries /\ new[i].plan = p
    <3> DEFINE k == i - Len(x2)
    <3>1. k \in 2 .. Len(b) - 1 /\ k \in 1 .. Len(b) /\ Len(x2) + k = i
      BY <2>12
    <3>2. new[Len(x2) + k] = b[k]
      BY <2>12, <3>1
    <3> QED BY <2>13, <3>1, <3>2
  <2>17. ASSUME NEW i \in 1 .. Len(new), Mine(new[i], p) PROVE i \in u .. v
    <3>1. i \notin 1 .. Len(x2)
      BY <2>10, <2>12, <2>17
    <3>2. i <= v
      <4> SUFFICES ASSUME i > v PROVE FALSE
        BY <2>12
      <4> DEFINE k == i - v
      <4>1. k \in 1 .. Len(y2) /\ Len(x2) + Len(b) + k = i
        BY <2>12
      <4>2. new[Len(x2) + Len(b) + k] = y2[k]
        BY <2>12, <4>1
      <4> QED BY <2>11, <2>17, <4>1, <4>2
    <3> QED BY <2>12, <3>1, <3>2
  <2>18. IsBlock(new, p, u, v)
    BY <2>14, <2>15, <2>16, <2>17 DEF IsBlock
  <2>19. u \in Int /\ v \in Int
    BY <2>12
  <2> HIDE DEF u, v
  <2> QED BY <2>18, <2>19 DEF Neat
<1> HIDE DEF new
<1>6. Undisturbed(text, new)
  BY <1>1, <1>4, <1>5 DEF Undisturbed, Neat
<1> QED BY <1>6 DEF new

\* The owner comments an entry out, or in again.
LEMMA OwnerComments ==
  ASSUME NEW text \in Seq(Line), NEW i \in 1 .. Len(text), text[i].is = "entry"
  PROVE  Undisturbed(text, [text EXCEPT ![i].off = ~@])
<1> DEFINE l == [text[i] EXCEPT !.off = ~@]
           new == [text EXCEPT ![i] = l]
<1>1. text[i] \in Entries
  BY LineFacts
<1>2. l \in Entries /\ l.plan = text[i].plan
  BY <1>1 DEF Entries
<1>3. [text EXCEPT ![i].off = ~@] = new
  OBVIOUS
<1>4. l \in Line
  BY <1>2, EntryFacts
<1> HIDE DEF l
<1>5. /\ new \in Seq(Line) /\ Len(new) = Len(text)
      /\ \A j \in 1 .. Len(text) : new[j] = IF j = i THEN l ELSE text[j]
  BY <1>4, ExceptSeq
<1> HIDE DEF new
<1>6. \A p : Mine(l, p) <=> Mine(text[i], p)
  BY <1>1, <1>2 DEF Mine, Entries
<1>7. \A j \in 1 .. Len(text) : \A p : Mine(new[j], p) <=> Mine(text[j], p)
  BY <1>5, <1>6
<1>8. \A p : Clear(text, p) => Clear(new, p)
  BY <1>5, <1>7 DEF Clear
<1>9. ASSUME NEW p, NEW s \in Int, NEW e \in Int, IsBlock(text, p, s, e)
      PROVE  IsBlock(new, p, s, e)
  <2>1. i # s /\ i # e
    BY <1>1, <1>9, EntryFacts DEF IsBlock
  <2>2. new[s] = Start(p) /\ new[e] = End(p)
    BY <1>5, <1>9, <2>1 DEF IsBlock
  <2>3. \A j \in s + 1 .. e - 1 : j \in 1 .. Len(text)
    BY <1>9 DEF IsBlock
  <2>4. \A j \in s + 1 .. e - 1 : new[j] \in Entries /\ new[j].plan = p
    BY <1>2, <1>5, <1>9, <2>3 DEF IsBlock
  <2> QED BY <1>5, <1>7, <1>9, <2>2, <2>4 DEF IsBlock
<1>10. Undisturbed(text, new)
  BY <1>5, <1>8, <1>9 DEF Undisturbed, Neat
<1> QED BY <1>3, <1>10

-----------------------------------------------------------------------------
(* Walk *)

WalkStep(acc, line, p, start, inner, end) ==
    IF ~acc.inside
    THEN IF line = Start(p)
         THEN Walked(acc.out \o start, TRUE, acc.found)
         ELSE Walked(Append(acc.out, line), FALSE, acc.found)
    ELSE IF line = End(p)
         THEN Walked(acc.out \o end, FALSE, TRUE)
         ELSE Walked(acc.out \o inner[line], TRUE, acc.found)

WalkFold(g, text, p, start, inner, end) ==
    [i \in 0 .. Len(text) |->
       IF i = 0 THEN Walked(<< >>, FALSE, FALSE)
       ELSE WalkStep(g[i - 1], text[i], p, start, inner, end)]

\* g[i] is where the walk is after i lines.
Walks(g, text, p, start, inner, end) ==
    /\ g[0] = Walked(<< >>, FALSE, FALSE)
    /\ \A i \in 1 .. Len(text) :
         g[i] = WalkStep(g[i - 1], text[i], p, start, inner, end)

WalkSet(L) == [out : Seq(L), inside : BOOLEAN, found : BOOLEAN]

Before(o) == Walked(o, FALSE, FALSE)
Inside(o) == Walked(o, TRUE, FALSE)
After(o) == Walked(o, FALSE, TRUE)

\* Where a walk is: before a block, inside it, or after it.
LEMMA WalkedFields ==
  ASSUME NEW o
  PROVE  /\ Before(o).out = o /\ ~Before(o).inside /\ Before(o).found = FALSE
         /\ Inside(o).out = o /\ Inside(o).inside /\ Inside(o).found = FALSE
         /\ After(o).out = o /\ ~After(o).inside /\ After(o).found = TRUE
BY DEF Before, Inside, After, Walked

\* What the loop does of a line in each of these places.
LEMMA WalkSteps ==
  ASSUME NEW o, NEW line, NEW p, NEW start, NEW inner, NEW end
  PROVE  /\ line # Start(p) => WalkStep(Before(o), line, p, start, inner, end)
                                = Before(Append(o, line))
         /\ line = Start(p) => WalkStep(Before(o), line, p, start, inner, end)
                                = Inside(Glued(o, start))
         /\ line # End(p) => WalkStep(Inside(o), line, p, start, inner, end)
                              = Inside(Glued(o, inner[line]))
         /\ line = End(p) => WalkStep(Inside(o), line, p, start, inner, end)
                              = After(Glued(o, end))
         /\ line # Start(p) => WalkStep(After(o), line, p, start, inner, end)
                                = After(Append(o, line))
<1> DEFINE a == Before(o)
           b == Inside(o)
           c == After(o)
<1>1. /\ a.out = o /\ ~a.inside /\ a.found = FALSE
      /\ b.out = o /\ b.inside /\ b.found = FALSE
      /\ c.out = o /\ ~c.inside /\ c.found = TRUE
  BY WalkedFields
<1> HIDE DEF a, b, c
<1>2. /\ line # Start(p) => WalkStep(a, line, p, start, inner, end)
                             = Before(Append(o, line))
      /\ line = Start(p) => WalkStep(a, line, p, start, inner, end)
                             = Inside(Glued(o, start))
  BY <1>1, Zenon DEF WalkStep, Before, Inside, Glued
<1>3. /\ line # End(p) => WalkStep(b, line, p, start, inner, end)
                           = Inside(Glued(o, inner[line]))
      /\ line = End(p) => WalkStep(b, line, p, start, inner, end)
                           = After(Glued(o, end))
  BY <1>1, Zenon DEF WalkStep, Inside, After, Glued
<1>4. line # Start(p) => WalkStep(c, line, p, start, inner, end)
                          = After(Append(o, line))
  BY <1>1, Zenon DEF WalkStep, After
<1> QED
  BY <1>2, <1>3, <1>4, Zenon DEF a, b, c

\* The walk keeps its types.
LEMMA WalkTyped ==
  ASSUME NEW L, NEW acc \in WalkSet(L), NEW line \in L, NEW p,
         NEW start \in Seq(L), NEW inner, inner[line] \in Seq(L), NEW end \in Seq(L)
  PROVE  WalkStep(acc, line, p, start, inner, end) \in WalkSet(L)
<1> DEFINE o == acc.out
<1>1. o \in Seq(L) /\ acc.inside \in BOOLEAN /\ acc.found \in BOOLEAN
  BY DEF WalkSet
<1>2. o \o start \in Seq(L) /\ o \o end \in Seq(L) /\ o \o inner[line] \in Seq(L)
      /\ Append(o, line) \in Seq(L)
  BY <1>1
<1>3. \A u \in Seq(L), i, f \in BOOLEAN : Walked(u, i, f) \in WalkSet(L)
  BY DEF WalkSet, Walked
<1>4. TRUE \in BOOLEAN /\ FALSE \in BOOLEAN
  BY Zenon
<1> QED
  BY <1>1, <1>2, <1>3, <1>4, Zenon DEF WalkStep

\* What Walk defines by recursion, spelled out.
LEMMA WalkIs ==
  ASSUME NEW L, NEW text \in Seq(L), NEW p, NEW start \in Seq(L), NEW inner,
         NEW end \in Seq(L), \A i \in 1 .. Len(text) : inner[text[i]] \in Seq(L)
  PROVE  \E g : /\ Walks(g, text, p, start, inner, end)
                /\ Walk(text, p, start, inner, end) = g[Len(text)]
<1> DEFINE n == Len(text)
           A == WalkSet(L)
           z == Walked(<< >>, FALSE, FALSE)
           Put(i, acc) == WalkStep(acc, text[i], p, start, inner, end)
           F(g) == WalkFold(g, text, p, start, inner, end)
           c == CHOOSE g : g = F(g)
<1>1. n \in Nat /\ z \in A /\ \A i \in 1 .. n, acc \in A : Put(i, acc) \in A
  <2>1. n \in Nat /\ \A i \in 1 .. n : text[i] \in L
    OBVIOUS
  <2>2. z \in A
    BY DEF Walked, WalkSet
  <2>3. ASSUME NEW i \in 1 .. n, NEW acc \in A PROVE Put(i, acc) \in A
    <3> DEFINE l == text[i]
    <3>1. l \in L
      BY <2>1
    <3>2. inner[l] \in Seq(L)
      OBVIOUS
    <3> HIDE DEF l
    <3>3. WalkStep(acc, l, p, start, inner, end) \in A
      BY <3>1, <3>2, WalkTyped
    <3> QED BY <3>3 DEF l
  <2> QED BY <2>1, <2>2, <2>3
<1>2. \A g : /\ F(g)[0] = z /\ \A i \in 1 .. n : F(g)[i] = Put(i, g[i - 1])
             /\ F(g) = [i \in 0 .. n |-> F(g)[i]]
  <2> SUFFICES ASSUME NEW g
               PROVE  /\ F(g)[0] = z /\ \A i \in 1 .. n : F(g)[i] = Put(i, g[i - 1])
                      /\ F(g) = [i \in 0 .. n |-> F(g)[i]]
    OBVIOUS
  <2> DEFINE G(i) == IF i = 0 THEN z ELSE Put(i, g[i - 1])
             h == [i \in 0 .. n |-> G(i)]
  <2>1. F(g) = h
    BY DEF WalkFold
  <2>2. G(0) = z /\ \A i \in 1 .. n : G(i) = Put(i, g[i - 1])
    <3> HIDE DEF Put, n, z
    <3> QED OBVIOUS
  <2> HIDE DEF n, z, Put, F, G
  <2>3. \A i \in 0 .. n : h[i] = G(i)
    OBVIOUS
  <2>4. h = [i \in 0 .. n |-> h[i]]
    OBVIOUS
  <2> HIDE DEF h
  <2>5. 0 \in 0 .. n /\ \A i \in 1 .. n : i \in 0 .. n
    BY <1>1
  <2> QED BY <2>1, <2>2, <2>3, <2>4, <2>5
<1>3. Walk(text, p, start, inner, end) = c[n]
  BY Zenon DEF Walk, WalkFold, WalkStep, Walked
<1> SUFFICES \E g : /\ Walk(text, p, start, inner, end) = g[n] /\ g[0] = z
                    /\ \A i \in 1 .. n : g[i] = Put(i, g[i - 1])
  BY DEF Walks
<1> DEFINE step == [i \in 1 .. n |-> [acc \in A |-> Put(i, acc)]]
<1> HIDE DEF n, A, z, Put, F
<1>4. /\ step \in [1 .. n -> [A -> A]]
      /\ \A i \in 1 .. n, acc \in A : step[i][acc] = Put(i, acc)
  BY <1>1
<1> HIDE DEF step
<1>5. PICK g \in [0 .. n -> A] : Goes(g, n, z, step)
  BY <1>1, <1>4, RecursionExists
<1>6. g[0] = z /\ \A i \in 1 .. n : g[i] = Put(i, g[i - 1])
  BY <1>1, <1>4, <1>5 DEF Goes
<1>7. g = F(g)
  <2>1. ASSUME NEW i \in 0 .. n PROVE g[i] = F(g)[i]
    <3>1. CASE i = 0
      BY <1>2, <1>6, <3>1
    <3>2. CASE i # 0
      <4>1. i \in 1 .. n
        BY <1>1, <3>2
      <4> QED BY <1>2, <1>6, <4>1
    <3> QED BY <3>1, <3>2
  <2>2. g = [i \in 0 .. n |-> g[i]]
    BY <1>5
  <2> QED BY <1>2, <2>1, <2>2
<1>8. c = F(c)
  BY <1>7, Zenon
<1> HIDE DEF c
<1>9. c[0] = z /\ \A i \in 1 .. n : c[i] = Put(i, c[i - 1])
  BY <1>2, <1>8
<1> QED
  BY <1>3, <1>9

-----------------------------------------------------------------------------
(* Walking over a block *)

LEMMA SubSeqAppend ==
  ASSUME NEW L, NEW text \in Seq(L), NEW i \in 1 .. Len(text) + 1, NEW k \in i .. Len(text)
  PROVE  /\ SubSeq(text, i, k) = Append(SubSeq(text, i, k - 1), text[k])
         /\ SubSeq(text, i, k - 1) \in Seq(L) /\ text[k] \in L
<1> DEFINE s == SubSeq(text, i, k)
           t == Append(SubSeq(text, i, k - 1), text[k])
<1>1. Len(text) \in Nat
  OBVIOUS
<1>2. s \in Seq(L) /\ Len(s) = k - i + 1 /\ \A j \in 1 .. k - i + 1 : s[j] = text[i - 1 + j]
  BY <1>1
<1>3. t \in Seq(L) /\ Len(t) = k - i + 1 /\ \A j \in 1 .. k - i + 1 : t[j] = text[i - 1 + j]
  BY <1>1
<1> HIDE DEF s, t
<1>4. s = t
  BY <1>1, <1>2, <1>3, SeqEqual
<1>5. SubSeq(text, i, k - 1) \in Seq(L) /\ text[k] \in L
  BY <1>1
<1> QED BY <1>4, <1>5 DEF s, t

\* A text without a block of the plan is left alone.
LEMMA WalkBefore ==
  ASSUME NEW L, NEW text \in Seq(L), NEW p, NEW start, NEW inner, NEW end, NEW g,
         Walks(g, text, p, start, inner, end), NEW n \in 0 .. Len(text),
         \A i \in 1 .. n : text[i] # Start(p)
  PROVE  g[n] = Before(SubSeq(text, 1, n))
<1> DEFINE T == {k \in 0 .. n : g[k] = Before(SubSeq(text, 1, k))}
<1>1. n \in Nat /\ \A k \in 1 .. n : k \in 1 .. Len(text) /\ k - 1 \in 0 .. n
  OBVIOUS
<1>2. 0 \in T
  <2>1. g[0] = Before(<< >>)
    BY DEF Walks, Before
  <2>2. SubSeq(text, 1, 0) = << >>
    OBVIOUS
  <2>3. g[0] = Before(SubSeq(text, 1, 0))
    BY <2>1, <2>2
  <2> QED BY <1>1, <2>3
<1>3. ASSUME NEW k \in 1 .. n, k - 1 \in T PROVE k \in T
  <2>1. g[k] = WalkStep(g[k - 1], text[k], p, start, inner, end)
    BY <1>1 DEF Walks
  <2>2. g[k - 1] = Before(SubSeq(text, 1, k - 1))
    BY <1>3
  <2>3. text[k] # Start(p)
    OBVIOUS
  <2>4. g[k] = Before(Append(SubSeq(text, 1, k - 1), text[k]))
    BY <2>1, <2>2, <2>3, WalkSteps
  <2>5. SubSeq(text, 1, k) = Append(SubSeq(text, 1, k - 1), text[k])
    BY SubSeqAppend
  <2>6. g[k] = Before(SubSeq(text, 1, k))
    BY <2>4, <2>5
  <2> QED BY <2>6
<1> HIDE DEF T
<1>4. \A k \in 0 .. n : k \in T
  BY <1>1, <1>2, <1>3, Induction
<1>5. n \in T
  BY <1>1, <1>4
<1> QED BY <1>5 DEF T

\* mid[i] is what the lines of the block up to the i-th become.
Middle(mid, text, s, e, start, inner) ==
    /\ mid[s] = start
    /\ \A i \in s + 1 .. e - 1 : mid[i] = Glued(mid[i - 1], inner[text[i]])

\* The lines from s to e are from a start marker of the plan to the next end
\* marker, the first there is.
Enclosed(text, p, s, e) ==
    /\ s \in 1 .. Len(text) /\ e \in s + 1 .. Len(text) /\ text[s] = Start(p)
    /\ \A i \in 1 .. s - 1 : text[i] # Start(p)
    /\ \A i \in s + 1 .. e - 1 : text[i] # End(p)

MidLines(L, mid, text, s, e, inner) ==
    /\ \A i \in s .. e - 1 : mid[i] \in Seq(L)
    /\ \A i \in s + 1 .. e - 1 : inner[text[i]] \in Seq(L)

\* Glued is associative, and appending is gluing.
LEMMA GluedAssoc ==
  ASSUME NEW L, NEW x \in Seq(L), NEW y \in Seq(L), NEW z \in Seq(L)
  PROVE  Glued(Glued(x, y), z) = Glued(x, Glued(y, z)) /\ Glued(x, y) \in Seq(L)
BY DEF Glued

LEMMA AppendGlued ==
  ASSUME NEW L, NEW x \in Seq(L), NEW y \in Seq(L), NEW l \in L
  PROVE  Append(Glued(x, y), l) = Glued(x, Append(y, l))
BY DEF Glued

\* The walk up to the last line inside the block.
LEMMA WalkInside ==
  ASSUME NEW L, NEW text \in Seq(L), NEW p, NEW start, NEW inner, NEW end, NEW g,
         Walks(g, text, p, start, inner, end), NEW s, NEW e, Enclosed(text, p, s, e),
         NEW mid, Middle(mid, text, s, e, start, inner),
         MidLines(L, mid, text, s, e, inner)
  PROVE  g[e - 1] = Inside(Glued(SubSeq(text, 1, s - 1), mid[e - 1]))
<1> DEFINE x == SubSeq(text, 1, s - 1)
           n == e - 1 - s
           T == {k \in 0 .. n : g[s + k] = Inside(Glued(x, mid[s + k]))}
<1>2. /\ s \in 1 .. Len(text) /\ e \in s + 1 .. Len(text) /\ Len(text) \in Nat
      /\ n \in Nat /\ s - 1 \in 0 .. Len(text) /\ s \in Nat /\ e \in Nat
  BY DEF Enclosed
<1>1. x \in Seq(L)
  BY <1>2
<1>3. g[s - 1] = Before(x)
  <2>1. s - 1 \in 0 .. Len(text)
    BY <1>2
  <2>2. \A i \in 1 .. s - 1 : text[i] # Start(p)
    BY DEF Enclosed
  <2> QED BY <2>1, <2>2, WalkBefore
<1> HIDE DEF x
<1>4. 0 \in T
  <2>1. g[s] = WalkStep(g[s - 1], text[s], p, start, inner, end)
    BY <1>2 DEF Walks
  <2>5. text[s] = Start(p)
    BY DEF Enclosed
  <2>2. g[s] = Inside(Glued(x, start))
    BY <1>3, <2>1, <2>5, WalkSteps
  <2>3. mid[s] = start
    BY DEF Middle
  <2>4. s + 0 = s
    BY <1>2
  <2> QED BY <1>2, <2>2, <2>3, <2>4
<1>5. ASSUME NEW k \in 1 .. n, k - 1 \in T PROVE k \in T
  <2> DEFINE i == s + k
             l == text[i]
             a == mid[i - 1]
             b == inner[l]
  <2>1. i \in 1 .. Len(text) /\ i \in s + 1 .. e - 1 /\ i - 1 = s + (k - 1)
        /\ i - 1 \in s .. e - 1
    BY <1>2
  <2>2. g[i] = WalkStep(g[i - 1], l, p, start, inner, end)
    BY <2>1 DEF Walks
  <2>3. g[i - 1] = Inside(Glued(x, a))
    BY <1>5, <2>1
  <2>4. l # End(p)
    BY <2>1 DEF Enclosed
  <2>5. mid[i] = Glued(a, b)
    BY <2>1 DEF Middle
  <2>6. a \in Seq(L)
    BY <2>1 DEF MidLines
  <2>7. b \in Seq(L)
    BY <2>1 DEF MidLines
  <2> HIDE DEF l, a
  <2>8. g[i] = Inside(Glued(Glued(x, a), b))
    BY <2>2, <2>3, <2>4, WalkSteps
  <2> HIDE DEF b
  <2>9. Glued(Glued(x, a), b) = Glued(x, Glued(a, b))
    BY <1>1, <2>6, <2>7, GluedAssoc
  <2>10. g[i] = Inside(Glued(x, mid[i]))
    BY <2>5, <2>8, <2>9
  <2> QED BY <1>2, <2>10
<1> HIDE DEF T
<1>6. \A k \in 0 .. n : k \in T
  BY <1>2, <1>4, <1>5, Induction
<1>7. n \in T /\ s + n = e - 1
  BY <1>2, <1>6
<1> QED BY <1>7 DEF T, x

\* The walk over a text with a block of the plan from s to e.
LEMMA WalkBlock ==
  ASSUME NEW L, NEW text \in Seq(L), NEW p, NEW start, NEW inner, NEW end \in Seq(L),
         NEW g, Walks(g, text, p, start, inner, end), NEW s, NEW e,
         Enclosed(text, p, s, e), text[e] = End(p),
         \A i \in e + 1 .. Len(text) : text[i] # Start(p),
         NEW mid, Middle(mid, text, s, e, start, inner),
         MidLines(L, mid, text, s, e, inner)
  PROVE  g[Len(text)] = After(Splice(text, s, e, mid[e - 1] \o end))
<1> DEFINE x == SubSeq(text, 1, s - 1)
           m == mid[e - 1]
           w == Glued(x, Glued(m, end))
           n == Len(text) - e
           T == {k \in 0 .. n : g[e + k] = After(Glued(w, SubSeq(text, e + 1, e + k)))}
<1>2. /\ s \in 1 .. Len(text) /\ e \in s + 1 .. Len(text)
      /\ n \in Nat /\ s \in Nat /\ e \in Nat /\ Len(text) \in Nat
  BY DEF Enclosed
<1>1. x \in Seq(L)
  BY <1>2
<1>3. m \in Seq(L)
  BY <1>2 DEF MidLines
<1>4. g[e - 1] = Inside(Glued(x, m))
  BY WalkInside
<1> HIDE DEF x, m
<1>5. g[e] = After(w)
  <2>1. g[e] = WalkStep(g[e - 1], text[e], p, start, inner, end)
    BY <1>2 DEF Walks
  <2>2. g[e] = After(Glued(Glued(x, m), end))
    BY <1>4, <2>1, WalkSteps
  <2>3. Glued(Glued(x, m), end) = w
    BY <1>1, <1>3, GluedAssoc
  <2> QED BY <2>2, <2>3
<1>6. w \in Seq(L)
  BY <1>1, <1>3 DEF Glued
<1> HIDE DEF w
<1>7. 0 \in T
  <2>1. SubSeq(text, e + 1, e + 0) = << >> /\ e + 0 = e
    BY <1>2
  <2>2. Glued(w, << >>) = w
    BY <1>6 DEF Glued
  <2>3. g[e + 0] = After(Glued(w, SubSeq(text, e + 1, e + 0)))
    BY <1>5, <2>1, <2>2
  <2> QED BY <1>2, <2>3
<1>8. ASSUME NEW k \in 1 .. n, k - 1 \in T PROVE k \in T
  <2> DEFINE i == e + k
             y == SubSeq(text, e + 1, i - 1)
             l == text[i]
  <2>1. i \in 1 .. Len(text) /\ i \in e + 1 .. Len(text) /\ i - 1 = e + (k - 1)
        /\ e + 1 \in 1 .. Len(text) + 1
    BY <1>2
  <2>2. g[i] = WalkStep(g[i - 1], l, p, start, inner, end)
    BY <2>1 DEF Walks
  <2>3. g[i - 1] = After(Glued(w, y))
    BY <1>8, <2>1
  <2>4. l # Start(p)
    BY <2>1
  <2>5. SubSeq(text, e + 1, i) = Append(y, l)
    BY <2>1, SubSeqAppend
  <2>9. y \in Seq(L)
    BY <2>1, SubSeqAppend
  <2>10. l \in L
    BY <2>1, SubSeqAppend
  <2> HIDE DEF l, y, i
  <2>6. g[i] = After(Append(Glued(w, y), l))
    BY <2>2, <2>3, <2>4, WalkSteps
  <2>7. Append(Glued(w, y), l) = Glued(w, Append(y, l))
    BY <1>6, <2>9, <2>10, AppendGlued
  <2>8. g[i] = After(Glued(w, SubSeq(text, e + 1, i)))
    BY <2>5, <2>6, <2>7
  <2> QED BY <1>2, <2>8 DEF i
<1> HIDE DEF T
<1>9. \A k \in 0 .. n : k \in T
  BY <1>2, <1>7, <1>8, Induction
<1>10. n \in T /\ e + n = Len(text)
  BY <1>2, <1>9
<1>11. g[Len(text)] = After(Glued(w, SubSeq(text, e + 1, Len(text))))
  BY <1>10 DEF T
<1> QED BY <1>11, Zenon DEF Splice, Glued, w, x, m

-----------------------------------------------------------------------------
(* What the schedule commands make of a crontab *)

\* Dropped drops each line.
LEMMA DroppedIs ==
  ASSUME NEW text \in Seq(Line), NEW i \in 1 .. Len(text)
  PROVE  Dropped(text)[text[i]] = << >>
<1>1. text[i] \in ToSet(text)
  BY DEF ToSet
<1> QED BY <1>1 DEF Dropped

LEMMA EmptyLines == << >> \in Seq(Line)
OBVIOUS

\* Without a block of the plan the text stays, and no block is found.
LEMMA WalkClear ==
  ASSUME NEW text \in Seq(Line), NEW p \in Plan, Clear(text, p),
         NEW start \in Seq(Line), NEW inner, NEW end \in Seq(Line),
         \A i \in 1 .. Len(text) : inner[text[i]] \in Seq(Line)
  PROVE  Walk(text, p, start, inner, end) = Before(text)
<1>1. PICK g : /\ Walks(g, text, p, start, inner, end)
               /\ Walk(text, p, start, inner, end) = g[Len(text)]
  BY WalkIs
<1>2. Walks(g, text, p, start, inner, end)
  BY <1>1
<1> DEFINE n == Len(text)
<1>3. n \in 0 .. Len(text) /\ \A i \in 1 .. n : text[i] # Start(p)
  BY ClearMarkers
<1>4. SubSeq(text, 1, n) = text
  OBVIOUS
<1> HIDE DEF n
<1>5. g[n] = Before(SubSeq(text, 1, n))
  BY <1>2, <1>3, WalkBefore
<1> QED BY <1>1, <1>4, <1>5, Zenon DEF n

\* A block is what the walk takes for one.
LEMMA BlockEnclosed ==
  ASSUME NEW text \in Seq(Line), NEW p \in Plan, NEW s \in Int, NEW e \in Int,
         IsBlock(text, p, s, e)
  PROVE  /\ Enclosed(text, p, s, e) /\ text[e] = End(p)
         /\ \A i \in e + 1 .. Len(text) : text[i] # Start(p)
<1>1. /\ s \in 1 .. Len(text) /\ e \in 1 .. Len(text) /\ s < e /\ Len(text) \in Nat
      /\ text[s] = Start(p) /\ text[e] = End(p)
  BY DEF IsBlock
<1>2. ASSUME NEW i \in 1 .. Len(text), i \notin s .. e PROVE text[i] # Start(p)
  <2>1. ~Mine(text[i], p)
    BY <1>2, BlockLines
  <2> QED BY <2>1, MarkerFacts
<1>3. \A i \in 1 .. s - 1 : text[i] # Start(p)
  BY <1>1, <1>2
<1>4. \A i \in e + 1 .. Len(text) : text[i] # Start(p)
  BY <1>1, <1>2
<1>5. ASSUME NEW i \in s + 1 .. e - 1 PROVE text[i] # End(p)
  <2>1. i \in s .. e /\ i # e
    BY <1>1
  <2> QED BY <2>1, BlockLines
<1> QED BY <1>1, <1>3, <1>4, <1>5 DEF Enclosed

\* A walk that drops the lines of the block.
LEMMA WalkDrops ==
  ASSUME NEW text \in Seq(Line), NEW p \in Plan, NEW s \in Int, NEW e \in Int,
         IsBlock(text, p, s, e), NEW end \in Seq(Line)
  PROVE  Walk(text, p, << >>, Dropped(text), end) = After(Splice(text, s, e, end))
<1> DEFINE inner == Dropped(text)
           empty == << >>
           mid == [i \in s .. e - 1 |-> empty]
<1>1. /\ s \in 1 .. Len(text) /\ e \in 1 .. Len(text) /\ s < e /\ Len(text) \in Nat
  BY DEF IsBlock
<1>2. \A i \in 1 .. Len(text) : inner[text[i]] = empty
  BY DroppedIs
<1>3. empty \in Seq(Line) /\ Glued(empty, empty) = empty /\ empty \o end = end
  BY DEF Glued
<1> HIDE DEF inner, empty
<1>4. \A i \in 1 .. Len(text) : inner[text[i]] \in Seq(Line)
  BY <1>2, <1>3
<1>5. PICK g : /\ Walks(g, text, p, empty, inner, end)
               /\ Walk(text, p, empty, inner, end) = g[Len(text)]
  BY <1>3, <1>4, WalkIs
<1>6. \A i \in s .. e - 1 : mid[i] = empty
  OBVIOUS
<1>7. s \in s .. e - 1 /\ e - 1 \in s .. e - 1
      /\ \A i \in s + 1 .. e - 1 : i \in s .. e - 1 /\ i - 1 \in s .. e - 1
                                   /\ i \in 1 .. Len(text)
  BY <1>1
<1> HIDE DEF mid
<1>8. Middle(mid, text, s, e, empty, inner)
  BY <1>2, <1>3, <1>6, <1>7 DEF Middle
<1>9. MidLines(Line, mid, text, s, e, inner)
  BY <1>3, <1>4, <1>6, <1>7 DEF MidLines
<1>10. Enclosed(text, p, s, e)
  BY BlockEnclosed
<1>11. text[e] = End(p)
  BY BlockEnclosed
<1>12. \A i \in e + 1 .. Len(text) : text[i] # Start(p)
  BY BlockEnclosed
<1>13. Walks(g, text, p, empty, inner, end)
  BY <1>5
<1>14. g[Len(text)] = After(Splice(text, s, e, mid[e - 1] \o end))
  BY <1>8, <1>9, <1>10, <1>11, <1>12, <1>13, WalkBlock
<1>15. mid[e - 1] \o end = end
  BY <1>3, <1>6, <1>7
<1> QED BY <1>5, <1>14, <1>15, Zenon DEF inner, empty

-----------------------------------------------------------------------------
(* Suspending and resuming *)

Flip(l, off) == IF l.is = "entry" THEN [l EXCEPT !.off = off] ELSE l

\* Commenting an entry out, or in, leaves it the plan's.
LEMMA FlipFacts ==
  ASSUME NEW l \in Line, NEW off \in BOOLEAN
  PROVE  /\ Flip(l, off) \in Line
         /\ \A p : Mine(Flip(l, off), p) <=> Mine(l, p)
         /\ l.is # "entry" => Flip(l, off) = l
         /\ l.is = "entry" => /\ Flip(l, off) \in Entries
                              /\ Flip(l, off).plan = l.plan
                              /\ Flip(l, off).off = off
<1>1. CASE l.is # "entry"
  BY <1>1 DEF Flip
<1>2. CASE l.is = "entry"
  <2> DEFINE f == Flip(l, off)
  <2>1. l \in Entries
    BY <1>2, LineFacts
  <2>2. f = [l EXCEPT !.off = off]
    BY <1>2 DEF Flip
  <2> HIDE DEF f
  <2>3. f \in Entries /\ f.plan = l.plan /\ f.off = off
    BY <2>1, <2>2 DEF Entries
  <2>4. f \in Line /\ f.is # "owner" /\ l.is # "owner"
    BY <1>2, <2>3, EntryFacts
  <2>5. \A p : Mine(f, p) <=> Mine(l, p)
    BY <2>3, <2>4 DEF Mine
  <2> QED BY <1>2, <2>3, <2>4, <2>5 DEF f
<1> QED BY <1>1, <1>2

\* A function on 1 .. n is a sequence.
LEMMA IsASequence ==
  ASSUME NEW L, NEW n \in Nat, NEW h, h \in [1 .. n -> L]
  PROVE  h \in Seq(L) /\ Len(h) = n
OBVIOUS

LEMMA OutAfter ==
  ASSUME NEW x
  PROVE  After(x).out = x
BY WalkedFields

\* suspend_block and resume_block put a block in the place of a block, with all its
\* entries commented out or none.
LEMMA ToggleBlock ==
  ASSUME NEW text \in Seq(Line), NEW p \in Plan, NEW s \in Int, NEW e \in Int,
         IsBlock(text, p, s, e), NEW off \in BOOLEAN
  PROVE  \E m \in Seq(Line) :
           /\ Toggle(text, p, off) = Splice(text, s, e, m)
           /\ IsWhole(m, p)
           /\ \A j \in 1 .. Len(m) : m[j].is = "entry" => m[j].off = off
<1> DEFINE f(i) == Flip(text[i], off)
           flipped == [line \in ToSet(text) |->
                         <<IF line.is = "entry" THEN [line EXCEPT !.off = off] ELSE line>>]
           part(k) == [j \in 1 .. k - s + 1 |-> f(s - 1 + j)]
           mid == [k \in s .. e - 1 |-> part(k)]
           start == <<Start(p)>>
           end == <<End(p)>>
           m == part(e)
<1>1. /\ s \in 1 .. Len(text) /\ e \in 1 .. Len(text) /\ s < e /\ Len(text) \in Nat
      /\ text[s] = Start(p) /\ text[e] = End(p)
  BY DEF IsBlock
<1>2. Toggle(text, p, off) = Walk(text, p, start, flipped, end).out
  BY DEF Toggle
<1>3. \A i \in 1 .. Len(text) : flipped[text[i]] = <<f(i)>>
  <2>1. \A i \in 1 .. Len(text) : text[i] \in ToSet(text)
    BY DEF ToSet
  <2> QED BY <2>1 DEF Flip
<1>4. \A i \in 1 .. Len(text) : f(i) \in Line
  <2>1. \A i \in 1 .. Len(text) : text[i] \in Line
    OBVIOUS
  <2> QED BY <2>1, FlipFacts
<1>5. f(s) = Start(p) /\ f(e) = End(p)
  <2>1. Start(p).is # "entry" /\ End(p).is # "entry" /\ Start(p) \in Line /\ End(p) \in Line
    BY MarkerFacts
  <2> QED BY <1>1, <2>1, FlipFacts
<1>6. ASSUME NEW i \in s + 1 .. e - 1
      PROVE  f(i) \in Entries /\ f(i).plan = p /\ f(i).off = off
  <2>1. text[i] \in Entries /\ text[i].plan = p
    BY <1>1 DEF IsBlock
  <2> QED BY <2>1, EntryFacts, FlipFacts
<1>7. Start(p) \in Line /\ End(p) \in Line
  BY MarkerFacts
<1>8. start \in Seq(Line) /\ end \in Seq(Line)
  BY <1>7
<1> HIDE DEF f, flipped
<1>9. ASSUME NEW i \in 1 .. Len(text) PROVE flipped[text[i]] \in Seq(Line)
  <2> DEFINE l == f(i)
  <2>1. l \in Line /\ flipped[text[i]] = <<l>>
    BY <1>3, <1>4
  <2> HIDE DEF l
  <2>2. <<l>> \in Seq(Line)
    BY <2>1
  <2> QED BY <2>1, <2>2
<1>10. ASSUME NEW k \in s .. e
       PROVE  /\ part(k) \in Seq(Line) /\ Len(part(k)) = k - s + 1
              /\ \A j \in 1 .. k - s + 1 : part(k)[j] = f(s - 1 + j)
  <2>1. \A j \in 1 .. k - s + 1 : s - 1 + j \in 1 .. Len(text)
    BY <1>1
  <2> DEFINE n == k - s + 1
             h == [j \in 1 .. n |-> f(s - 1 + j)]
  <2>2. n \in Nat
    BY <1>1
  <2>3. \A j \in 1 .. n : f(s - 1 + j) \in Line
    BY <1>4, <2>1
  <2>4. h = part(k)
    OBVIOUS
  <2> HIDE DEF n, part
  <2>5. h \in [1 .. n -> Line] /\ \A j \in 1 .. n : h[j] = f(s - 1 + j)
    BY <2>3
  <2> HIDE DEF h
  <2>6. h \in [1 .. n -> Line]
    BY <2>5
  <2>7. h \in Seq(Line) /\ Len(h) = n
    BY <2>2, <2>6, IsASequence
  <2> QED BY <2>4, <2>5, <2>7 DEF n
<1> HIDE DEF part
<1>11. part(s) = start
  <2>1. s \in s .. e
    BY <1>1
  <2>2. part(s) \in Seq(Line) /\ Len(part(s)) = 1 /\ part(s)[1] = f(s)
    <3>1. s - s + 1 = 1 /\ 1 \in 1 .. s - s + 1 /\ s - 1 + 1 = s
      BY <1>1
    <3> QED BY <1>10, <2>1, <3>1
  <2> QED BY <1>5, <2>2
<1>12. ASSUME NEW k \in s + 1 .. e PROVE part(k) = Glued(part(k - 1), <<f(k)>>)
  <2>1. k \in s .. e /\ k - 1 \in s .. e /\ s \in Int /\ e \in Int /\ k \in 1 .. Len(text)
    BY <1>1
  <2> DEFINE a == part(k - 1)
             b == part(k)
             l == f(k)
             n == k - s
  <2>2. a \in Seq(Line) /\ Len(a) = n /\ \A j \in 1 .. n : a[j] = f(s - 1 + j)
    <3>1. (k - 1) - s + 1 = n
      BY <2>1
    <3> QED BY <1>10, <2>1, <3>1
  <2>3. b \in Seq(Line) /\ Len(b) = n + 1 /\ \A j \in 1 .. n + 1 : b[j] = f(s - 1 + j)
    <3>1. k - s + 1 = n + 1
      BY <2>1
    <3> QED BY <1>10, <2>1, <3>1
  <2>4. n \in Nat /\ s - 1 + (n + 1) = k
    BY <2>1
  <2>5. l \in Line /\ b[n + 1] = l
    BY <1>4, <2>1, <2>3, <2>4
  <2> HIDE DEF a, b, l, n, part
  <2>6. a \in Seq(Line)
    BY <2>2
  <2>7. b \in Seq(Line)
    BY <2>3
  <2>8. l \in Line
    BY <2>5
  <2>9. b = a \o <<l>>
    <3> DEFINE c == a \o <<l>>
    <3>1. c \in Seq(Line) /\ Len(c) = n + 1 /\ c[n + 1] = l
          /\ \A j \in 1 .. n : c[j] = a[j]
      BY <2>2, <2>4, <2>6, <2>8
    <3> HIDE DEF c
    <3>2. \A j \in 1 .. n + 1 : c[j] = b[j]
      <4>1. \A j \in 1 .. n + 1 : j \in 1 .. n \/ j = n + 1
        BY <2>4
      <4> QED BY <2>2, <2>3, <2>5, <3>1, <4>1
    <3>3. c = b
      BY <2>3, <2>7, <3>1, <3>2, SeqEqual
    <3> QED BY <3>3 DEF c
  <2> QED BY <2>9, Zenon DEF Glued, a, b, l
<1>13. m = Glued(part(e - 1), end)
  <2>1. e \in s + 1 .. e
    BY <1>1
  <2> QED BY <1>5, <1>12, <2>1
<1>14. m \in Seq(Line)
  <2>1. e \in s .. e
    BY <1>1
  <2> QED BY <1>10, <2>1
<1>15. Len(m) = e - s + 1 /\ \A j \in 1 .. e - s + 1 : m[j] = f(s - 1 + j)
  <2>1. e \in s .. e
    BY <1>1
  <2> QED BY <1>10, <2>1
<1>16. IsWhole(m, p)
  <2> HIDE DEF m
  <2>1. 1 \in 1 .. Len(m) /\ Len(m) \in 1 .. Len(m) /\ 1 < Len(m)
    BY <1>1, <1>15
  <2>2. m[1] = Start(p) /\ m[Len(m)] = End(p)
    <3>1. s - 1 + 1 = s /\ s - 1 + (e - s + 1) = e
      BY <1>1
    <3> QED BY <1>5, <1>15, <2>1, <3>1
  <2>3. ASSUME NEW j \in 2 .. Len(m) - 1 PROVE m[j] \in Entries /\ m[j].plan = p
    <3>1. j \in 1 .. e - s + 1 /\ s - 1 + j \in s + 1 .. e - 1
      BY <1>1, <1>15
    <3>2. m[j] = f(s - 1 + j)
      BY <1>15, <3>1
    <3> QED BY <1>6, <3>1, <3>2
  <2> QED BY <2>1, <2>2, <2>3 DEF IsWhole, IsBlock
<1>17. ASSUME NEW j \in 1 .. Len(m), m[j].is = "entry" PROVE m[j].off = off
  <2> HIDE DEF m
  <2>1. m[j] = f(s - 1 + j) /\ s - 1 + j \in s .. e
    BY <1>1, <1>15
  <2>2. s - 1 + j # s /\ s - 1 + j # e
    BY <1>5, <1>17, <2>1, MarkerFacts
  <2>3. s - 1 + j \in s + 1 .. e - 1
    BY <1>1, <2>1, <2>2
  <2> QED BY <1>6, <2>1, <2>3
<1> HIDE DEF start, end
<1>18. PICK g : /\ Walks(g, text, p, start, flipped, end)
                /\ Walk(text, p, start, flipped, end) = g[Len(text)]
  BY <1>8, <1>9, WalkIs
<1>19. \A i \in s .. e - 1 : mid[i] = part(i)
  BY DEF mid
<1>20. /\ s \in s .. e - 1 /\ e - 1 \in s .. e - 1
       /\ \A i \in s + 1 .. e - 1 : /\ i \in s .. e - 1 /\ i - 1 \in s .. e - 1
                                    /\ i \in 1 .. Len(text) /\ i \in s + 1 .. e
       /\ \A i \in s .. e - 1 : i \in s .. e
  BY <1>1
<1> HIDE DEF mid, part, m
<1>21. Middle(mid, text, s, e, start, flipped)
  BY <1>3, <1>11, <1>12, <1>19, <1>20 DEF Middle
<1>22. MidLines(Line, mid, text, s, e, flipped)
  BY <1>9, <1>10, <1>19, <1>20 DEF MidLines
<1>23. Enclosed(text, p, s, e)
  BY BlockEnclosed
<1>24. text[e] = End(p)
  BY BlockEnclosed
<1>25. \A i \in e + 1 .. Len(text) : text[i] # Start(p)
  BY BlockEnclosed
<1>26. Walks(g, text, p, start, flipped, end)
  BY <1>18
<1>27. end \in Seq(Line)
  BY <1>8
<1>28. g[Len(text)] = After(Splice(text, s, e, mid[e - 1] \o end))
  BY <1>21, <1>22, <1>23, <1>24, <1>25, <1>26, <1>27, WalkBlock
<1>29. mid[e - 1] \o end = m
  BY <1>13, <1>19, <1>20, Zenon DEF Glued
<1>30. Toggle(text, p, off) = Splice(text, s, e, m)
  <2> DEFINE x == Splice(text, s, e, m)
             w == Walk(text, p, start, flipped, end)
  <2>1. w = After(x)
    BY <1>18, <1>28, <1>29
  <2>2. Toggle(text, p, off) = w.out
    BY <1>2
  <2> HIDE DEF x, w
  <2>3. w.out = x
    BY <2>1, OutAfter, Zenon
  <2> QED BY <2>2, <2>3 DEF x
<1> QED BY <1>14, <1>16, <1>17, <1>30

-----------------------------------------------------------------------------
(* Installing, removing, suspending, resuming *)

\* What a command makes of plan p's lines of a crontab.
Reworked(text, new, p) ==
    /\ AllNeat(new)
    /\ Others(new, p) = Others(text, p)
    /\ \A q \in Plan : q # p /\ Clear(text, q) => Clear(new, q)

\* Plan p's entries are all commented out, or none is.
AllOff(text, p, off) ==
    \A i \in 1 .. Len(text) :
      text[i].is = "entry" /\ Mine(text[i], p) => text[i].off = off

\* A text left as it is.
LEMMA SameReworks ==
  ASSUME NEW text, AllNeat(text), NEW p
  PROVE  Reworked(text, text, p)
BY DEF Reworked

\* Rewriting a plan's lines as nothing, or as a block.
LEMMA RewriteReworks ==
  ASSUME NEW text, AllNeat(text), NEW p \in Plan, NEW new,
         NEW s \in Int, NEW e \in Int, NEW m, Rewrites(text, new, p, s, e, m),
         m = << >> \/ IsWhole(m, p)
  PROVE  Reworked(text, new, p)
<1>1. m \in Seq(Line) /\ new \in Seq(Line)
  BY RewriteIs
<1>2. Neat(new, p)
  <2>1. CASE m = << >>
    BY <2>1, RewriteOwn DEF Neat
  <2>2. CASE IsWhole(m, p)
    <3>1. s - 1 + Len(m) \in Int
      BY <1>1
    <3>2. IsBlock(new, p, s, s - 1 + Len(m))
      BY <2>2, RewriteOwn
    <3> QED BY <3>1, <3>2 DEF Neat
  <2> QED BY <2>1, <2>2
<1>3. ASSUME NEW q \in Plan, q # p
      PROVE  Neat(new, q) /\ (Clear(text, q) => Clear(new, q))
  <2>1. Neat(text, q)
    BY DEF AllNeat
  <2> QED BY <1>3, <2>1, RewriteOther
<1>4. Others(new, p) = Others(text, p)
  BY RewriteOthers
<1>5. AllNeat(new)
  BY <1>1, <1>2, <1>3 DEF AllNeat
<1> QED BY <1>3, <1>4, <1>5 DEF Reworked

\* A block is rewritten in its place ...
LEMMA BlockRewrites ==
  ASSUME NEW text \in Seq(Line), NEW p \in Plan, NEW s \in Int, NEW e \in Int,
         IsBlock(text, p, s, e), NEW m \in Seq(Line),
         \A i \in 1 .. Len(m) : Mine(m[i], p)
  PROVE  Rewrites(text, Splice(text, s, e, m), p, s, e, m)
<1>1. s \in 1 .. Len(text) /\ e \in 1 .. Len(text) /\ s < e /\ Len(text) \in Nat
  BY DEF IsBlock
<1>2. s \in 1 .. Len(text) + 1 /\ e \in s - 1 .. Len(text) /\ s <= e
  BY <1>1
<1>3. \A i \in 1 .. Len(text) : Mine(text[i], p) <=> i \in s .. e
  BY BlockLines
<1>4. text \in Seq(Line)
  OBVIOUS
<1>5. m \in Seq(Line)
  OBVIOUS
<1> DEFINE new == Splice(text, s, e, m)
<1>6. new = Splice(text, s, e, m)
  OBVIOUS
<1> HIDE DEF new
<1>7. Rewrites(text, new, p, s, e, m)
  BY <1>2, <1>3, <1>4, <1>5, <1>6, Zenon DEF Rewrites
<1> QED BY <1>7 DEF new

\* What replaces nothing at the end is appended.
LEMMA SpliceAtEnd ==
  ASSUME NEW text \in Seq(Line), NEW m \in Seq(Line)
  PROVE  Splice(text, Len(text) + 1, Len(text), m) = text \o m
<1> DEFINE n == Len(text)
           x == SubSeq(text, 1, (n + 1) - 1)
           y == SubSeq(text, n + 1, n)
           z == text \o m
<1>1. n \in Nat /\ (n + 1) - 1 = n
  OBVIOUS
<1>2. x = text
  <2>1. SubSeq(text, 1, n) = text
    OBVIOUS
  <2> QED BY <1>1, <2>1
<1>3. y = << >>
  OBVIOUS
<1>4. z \in Seq(Line)
  OBVIOUS
<1>5. Splice(text, n + 1, n, m) = (x \o m) \o y
  BY DEF Splice
<1> HIDE DEF x, y
<1>6. (x \o m) \o y = z \o << >>
  BY <1>2, <1>3
<1> HIDE DEF z
<1>7. z \o << >> = z
  BY <1>4
<1> QED BY <1>5, <1>6, <1>7 DEF z, n

\* ... and where there is none, at the end.
LEMMA ClearRewrites ==
  ASSUME NEW text \in Seq(Line), NEW p \in Plan, Clear(text, p), NEW m \in Seq(Line),
         \A i \in 1 .. Len(m) : Mine(m[i], p)
  PROVE  Rewrites(text, text \o m, p, Len(text) + 1, Len(text), m)
<1> DEFINE new == text \o m
           n == Len(text)
           s == n + 1
<1>1. n \in Nat /\ s \in 1 .. n + 1 /\ n \in s - 1 .. n
  OBVIOUS
<1>2. new = Splice(text, s, n, m)
  BY SpliceAtEnd
<1>3. \A i \in 1 .. n : Mine(text[i], p) <=> i \in s .. n
  BY DEF Clear
<1>4. text \in Seq(Line)
  OBVIOUS
<1>5. m \in Seq(Line)
  OBVIOUS
<1> HIDE DEF new, s
<1>7. Rewrites(text, new, p, s, n, m)
  BY <1>1, <1>2, <1>3, <1>4, <1>5, Zenon DEF Rewrites
<1> QED BY <1>7 DEF new, s

\* The lines of a block are the plan's.
LEMMA WholeLines ==
  ASSUME NEW m \in Seq(Line), NEW p \in Plan, IsWhole(m, p)
  PROVE  \A i \in 1 .. Len(m) : Mine(m[i], p)
<1> DEFINE n == Len(m)
<1>1. n \in Int /\ 1 \in Int
  OBVIOUS
<1>2. IsBlock(m, p, 1, n)
  BY DEF IsWhole
<1> HIDE DEF n
<1>3. \A i \in 1 .. Len(m) : Mine(m[i], p) <=> i \in 1 .. n
  BY <1>1, <1>2, BlockLines
<1> QED BY <1>3 DEF n

LEMMA DroppedLines ==
  ASSUME NEW text \in Seq(Line)
  PROVE  \A i \in 1 .. Len(text) : Dropped(text)[text[i]] \in Seq(Line)
BY DroppedIs, EmptyLines

\* replace_block
LEMMA ReplaceReworks ==
  ASSUME NEW text, AllNeat(text), NEW p \in Plan, NEW block \in Seq(Line),
         IsWhole(block, p)
  PROVE  Reworked(text, Replace(text, p, block), p)
<1> DEFINE none == << >>
           drop == Dropped(text)
           w == Walk(text, p, none, drop, block)
           new == Replace(text, p, block)
<1>1. text \in Seq(Line) /\ Neat(text, p)
  BY DEF AllNeat
<1>2. \A i \in 1 .. Len(block) : Mine(block[i], p)
  BY WholeLines
<1>3. none \in Seq(Line)
  BY EmptyLines
<1>4. \A i \in 1 .. Len(text) : drop[text[i]] \in Seq(Line)
  BY <1>1, DroppedLines
<1>5. new = IF w.found THEN w.out ELSE w.out \o block
  BY DEF Replace
<1>6. CASE Clear(text, p)
  <2> HIDE DEF none, drop
  <2>1. w = Before(text)
    BY <1>1, <1>3, <1>4, <1>6, WalkClear
  <2> HIDE DEF w
  <2>2. Before(text).out = text /\ Before(text).found = FALSE
    BY WalkedFields
  <2>3. new = text \o block
    BY <1>5, <2>1, <2>2, Zenon
  <2>4. Rewrites(text, text \o block, p, Len(text) + 1, Len(text), block)
    BY <1>1, <1>2, <1>6, ClearRewrites
  <2> HIDE DEF new
  <2> DEFINE s == Len(text) + 1
             e == Len(text)
  <2>5. s \in Int /\ e \in Int
    BY <1>1
  <2>6. Rewrites(text, new, p, s, e, block)
    BY <2>3, <2>4
  <2> HIDE DEF s, e
  <2>7. Reworked(text, new, p)
    BY <2>5, <2>6, RewriteReworks
  <2> QED BY <2>7 DEF new
<1>7. ASSUME NEW s \in Int, NEW e \in Int, IsBlock(text, p, s, e)
      PROVE  Reworked(text, new, p)
  <2> DEFINE x == Splice(text, s, e, block)
  <2>1. w = After(x)
    BY <1>1, <1>7, WalkDrops
  <2>2. Rewrites(text, x, p, s, e, block)
    BY <1>1, <1>2, <1>7, BlockRewrites
  <2> HIDE DEF x, w
  <2>3. w.out = x /\ w.found = TRUE
    BY <2>1, WalkedFields
  <2>4. new = x
    BY <1>5, <2>3
  <2>5. Reworked(text, x, p)
    BY <2>2, RewriteReworks
  <2> QED BY <2>4, <2>5
<1> QED BY <1>1, <1>6, <1>7 DEF Neat

\* remove_block
LEMMA RemovedReworks ==
  ASSUME NEW text, AllNeat(text), NEW p \in Plan
  PROVE  Reworked(text, Removed(text, p), p) /\ Clear(Removed(text, p), p)
<1> DEFINE none == << >>
           drop == Dropped(text)
           w == Walk(text, p, none, drop, none)
           new == Removed(text, p)
<1>1. text \in Seq(Line) /\ Neat(text, p)
  BY DEF AllNeat
<1>3. none \in Seq(Line)
  BY EmptyLines
<1>4. \A i \in 1 .. Len(text) : drop[text[i]] \in Seq(Line)
  BY <1>1, DroppedLines
<1>5. new = w.out
  BY DEF Removed
<1>6. CASE Clear(text, p)
  <2> HIDE DEF none, drop
  <2>1. w = Before(text)
    BY <1>1, <1>3, <1>4, <1>6, WalkClear
  <2>2. w.out = text
    BY <2>1, WalkedFields
  <2> HIDE DEF w
  <2>3. new = text
    BY <1>5, <2>2
  <2> QED BY <1>6, <2>3, SameReworks
<1>7. ASSUME NEW s \in Int, NEW e \in Int, IsBlock(text, p, s, e)
      PROVE  Reworked(text, new, p) /\ Clear(new, p)
  <2> DEFINE x == Splice(text, s, e, none)
  <2>1. w = After(x)
    BY <1>1, <1>3, <1>7, WalkDrops
  <2>2. \A i \in 1 .. Len(none) : Mine(none[i], p)
    OBVIOUS
  <2> HIDE DEF none, w
  <2>3. Rewrites(text, x, p, s, e, none)
    BY <1>1, <1>3, <1>7, <2>2, BlockRewrites
  <2> HIDE DEF x
  <2>4. new = x
    BY <1>5, <2>1, OutAfter
  <2>5. none = << >>
    BY DEF none
  <2>6. Reworked(text, x, p)
    BY <2>3, <2>5, RewriteReworks
  <2>7. Clear(x, p)
    BY <2>3, <2>5, RewriteOwn
  <2> QED BY <2>4, <2>6, <2>7
<1> QED BY <1>1, <1>6, <1>7 DEF Neat

\* suspend_block and resume_block
LEMMA ToggleReworks ==
  ASSUME NEW text, AllNeat(text), NEW p \in Plan, NEW off \in BOOLEAN
  PROVE  Reworked(text, Toggle(text, p, off), p) /\ AllOff(Toggle(text, p, off), p, off)
<1> DEFINE new == Toggle(text, p, off)
<1>1. text \in Seq(Line) /\ Neat(text, p)
  BY DEF AllNeat
<1>2. CASE Clear(text, p)
  <2> DEFINE flipped == [line \in ToSet(text) |->
                           <<IF line.is = "entry" THEN [line EXCEPT !.off = off] ELSE line>>]
             start == <<Start(p)>>
             end == <<End(p)>>
             w == Walk(text, p, start, flipped, end)
  <2>1. new = w.out
    BY DEF Toggle
  <2>2. Start(p) \in Line /\ End(p) \in Line
    BY MarkerFacts
  <2>3. start \in Seq(Line)
    BY <2>2
  <2>4. end \in Seq(Line)
    BY <2>2
  <2>5. ASSUME NEW i \in 1 .. Len(text) PROVE flipped[text[i]] \in Seq(Line)
    <3> DEFINE l == Flip(text[i], off)
    <3>1. text[i] \in Line /\ text[i] \in ToSet(text)
      BY <1>1 DEF ToSet
    <3>2. l \in Line
      BY <3>1, FlipFacts
    <3>3. flipped[text[i]] = <<l>>
      BY <3>1 DEF Flip
    <3> HIDE DEF l, flipped
    <3>4. <<l>> \in Seq(Line)
      BY <3>2
    <3> QED BY <3>3, <3>4
  <2> HIDE DEF flipped, start, end
  <2>6. w = Before(text)
    BY <1>1, <1>2, <2>3, <2>4, <2>5, WalkClear
  <2> HIDE DEF w
  <2>7. new = text
    BY <2>1, <2>6, WalkedFields
  <2>8. AllOff(text, p, off)
    BY <1>2 DEF AllOff, Clear
  <2> QED BY <2>7, <2>8, SameReworks
<1>3. ASSUME NEW s \in Int, NEW e \in Int, IsBlock(text, p, s, e)
      PROVE  Reworked(text, new, p) /\ AllOff(new, p, off)
  <2>1. PICK m \in Seq(Line) :
           /\ new = Splice(text, s, e, m) /\ IsWhole(m, p)
           /\ \A j \in 1 .. Len(m) : m[j].is = "entry" => m[j].off = off
    BY <1>1, <1>3, ToggleBlock
  <2>2. IsWhole(m, p)
    BY <2>1
  <2>3. \A i \in 1 .. Len(m) : Mine(m[i], p)
    BY <2>2, WholeLines
  <2> HIDE DEF new
  <2>4. Rewrites(text, Splice(text, s, e, m), p, s, e, m)
    BY <1>1, <1>3, <2>3, BlockRewrites
  <2>5. Rewrites(text, new, p, s, e, m)
    BY <2>1, <2>4
  <2>6. Reworked(text, new, p)
    BY <2>2, <2>5, RewriteReworks
  <2>7. \A i \in 1 .. Len(new) :
           Mine(new[i], p) => i - (s - 1) \in 1 .. Len(m) /\ new[i] = m[i - (s - 1)]
    BY <2>5, RewriteOwn
  <2>8. AllOff(new, p, off)
    BY <2>1, <2>7 DEF AllOff
  <2> QED BY <2>6, <2>8
<1> QED BY <1>1, <1>2, <1>3 DEF Neat

-----------------------------------------------------------------------------
(* What render_entries makes of a plan *)

\* An entry in use, of a kind, for those days.
IsEntry(l, p, kind, doms, dows) ==
    /\ l \in Entries /\ l.plan = p /\ l.kind = kind /\ l.off = FALSE
    /\ l.doms = doms /\ l.dows = dows

\* It fires on the days of full backups.
IsFull(l, p, c) ==
    \E doms, dows :
      /\ IsEntry(l, p, "full", doms, dows)
      /\ \A d \in Date : IsFullDay(c, d) <=> d.dow \in dows /\ d.dom \in doms

\* Of the days that are not, it fires on those of incrementals.
IsIncr(l, p, c) ==
    \E doms, dows :
      /\ IsEntry(l, p, "incr", doms, dows)
      /\ \A d \in Date :
           ~IsFullDay(c, d) => (IsIncrDay(c, d) <=> d.dow \in dows /\ d.dom \in doms)

\* The days of a date, which are numbers.
LEMMA DateFacts ==
  ASSUME NEW d \in Date
  PROVE  d.dow \in Weekday /\ d.dom \in MonthDay
BY DEF Date

LEMMA DaysAreInts == Weekday \in SUBSET Int /\ MonthDay \in SUBSET Int
BY CrontabAssumption DEF Weekday, MonthDay

\* Entry makes an entry in use.
LEMMA EntryIs ==
  ASSUME NEW p \in Plan, NEW kind, kind \in {"full", "incr"}, NEW doms \in SUBSET Int,
         NEW dows \in SUBSET Int
  PROVE  IsEntry(Entry(p, kind, doms, dows), p, kind, doms, dows)
<1>1. FALSE \in BOOLEAN
  BY Zenon
<1> QED BY <1>1 DEF Entry, Entries, IsEntry

\* The first entry that is rendered fires on the days of full backups ...
LEMMA RenderedFull ==
  ASSUME NEW p \in Plan, NEW c, Good(c), c.mode # "archive"
  PROVE  \E l : IsFull(l, p, c) /\ Rendered(p, c) = <<l>> \o IncrEntries(p, c)
<1>1. c.mode \in {"weekly", "monthly"} /\ c.full \in SUBSET Weekday /\ c.dom \in Int
  BY DEF Good, PlanRecord, Modes
<1>2. ASSUME NEW doms \in SUBSET Int, NEW dows \in SUBSET Int,
             \A d \in Date : IsFullDay(c, d) <=> d.dow \in dows /\ d.dom \in doms,
             Rendered(p, c) = <<Entry(p, "full", doms, dows)>> \o IncrEntries(p, c)
      PROVE  \E l : IsFull(l, p, c) /\ Rendered(p, c) = <<l>> \o IncrEntries(p, c)
  <2> DEFINE kind == "full"
             l == Entry(p, kind, doms, dows)
  <2>1. kind \in {"full", "incr"}
    OBVIOUS
  <2> HIDE DEF kind
  <2>2. IsEntry(l, p, kind, doms, dows)
    BY <2>1, EntryIs
  <2>3. IsFull(l, p, c)
    BY <1>2, <2>2 DEF IsFull, kind
  <2> QED BY <1>2, <2>3 DEF kind
<1>3. CASE c.mode = "weekly"
  <2>1. Rendered(p, c) = <<Entry(p, "full", MonthDay, c.full)>> \o IncrEntries(p, c)
    BY <1>3 DEF Rendered
  <2>2. c.full \in SUBSET Int
    BY <1>1, DaysAreInts
  <2>3. \A d \in Date : IsFullDay(c, d) <=> d.dow \in c.full /\ d.dom \in MonthDay
    BY <1>3, DateFacts DEF IsFullDay
  <2> DEFINE dows == c.full
             doms == MonthDay
  <2>4. dows \in SUBSET Int /\ doms \in SUBSET Int
    BY <2>2, DaysAreInts
  <2>5. \A d \in Date : IsFullDay(c, d) <=> d.dow \in dows /\ d.dom \in doms
    BY <2>3
  <2>6. Rendered(p, c) = <<Entry(p, "full", doms, dows)>> \o IncrEntries(p, c)
    BY <2>1
  <2> HIDE DEF dows, doms
  <2> QED BY <1>2, <2>4, <2>5, <2>6
<1>4. CASE c.mode = "monthly"
  <2> DEFINE doms == {c.dom}
             dows == Weekday
  <2>1. Rendered(p, c) = <<Entry(p, "full", doms, dows)>> \o IncrEntries(p, c)
    BY <1>4 DEF Rendered
  <2>2. doms \in SUBSET Int /\ dows \in SUBSET Int
    BY <1>1, DaysAreInts
  <2>3. \A d \in Date : IsFullDay(c, d) <=> d.dow \in dows /\ d.dom \in doms
    BY <1>4, DateFacts DEF IsFullDay
  <2> HIDE DEF dows, doms
  <2> QED BY <1>2, <2>1, <2>2, <2>3
<1> QED BY <1>1, <1>3, <1>4

\* ... and the one after it, if there is one, on those of incrementals.
LEMMA RenderedIncr ==
  ASSUME NEW p \in Plan, NEW c, Good(c), c.mode # "archive"
  PROVE  \/ /\ IncrEntries(p, c) = << >>
            /\ \A d \in Date : ~IsIncrDay(c, d)
         \/ \E l : IsIncr(l, p, c) /\ IncrEntries(p, c) = <<l>>
<1>1. /\ c.mode \in {"weekly", "monthly"} /\ c.full \in SUBSET Weekday
      /\ c.days \in SUBSET Weekday /\ c.n \in Int /\ c.incr \in IncrModes
  BY DEF Good, PlanRecord, Modes
<1>2. /\ c.mode = "weekly" => c.incr # "every_n_days"
      /\ c.mode = "monthly" => c.incr # "except_full"
  BY DEF Good, Valid
<1>3. ASSUME NEW doms \in SUBSET Int, NEW dows \in SUBSET Int,
             \A d \in Date : IsIncrDay(c, d) <=> d.dow \in dows /\ d.dom \in doms,
             IncrEntries(p, c) = <<Entry(p, "incr", doms, dows)>>
      PROVE  \E l : IsIncr(l, p, c) /\ IncrEntries(p, c) = <<l>>
  <2> DEFINE kind == "incr"
             l == Entry(p, kind, doms, dows)
  <2>1. kind \in {"full", "incr"}
    OBVIOUS
  <2> HIDE DEF kind
  <2>2. IsEntry(l, p, kind, doms, dows)
    BY <2>1, EntryIs
  <2>3. IsIncr(l, p, c)
    BY <1>3, <2>2 DEF IsIncr, kind
  <2> QED BY <1>3, <2>3 DEF kind
<1>4. CASE c.incr = "disabled"
  BY <1>4 DEF IncrEntries, IsIncrDay
<1>5. CASE c.incr = "except_full" /\ c.full = Weekday
  <2>1. IncrEntries(p, c) = << >>
    BY <1>5 DEF IncrEntries
  <2>2. \A d \in Date : ~IsIncrDay(c, d)
    BY <1>5, DateFacts DEF IsIncrDay
  <2> QED BY <2>1, <2>2
<1>6. CASE c.incr = "except_full" /\ c.full # Weekday
  <2> DEFINE doms == MonthDay
             dows == Weekday \ c.full
  <2>1. IncrEntries(p, c) = <<Entry(p, "incr", doms, dows)>>
    BY <1>6 DEF IncrEntries
  <2>2. doms \in SUBSET Int /\ dows \in SUBSET Int
    BY <1>1, DaysAreInts
  <2>3. \A d \in Date : IsIncrDay(c, d) <=> d.dow \in dows /\ d.dom \in doms
    BY <1>1, <1>6, DateFacts DEF IsIncrDay
  <2> HIDE DEF dows, doms
  <2> QED BY <1>3, <2>1, <2>2, <2>3
<1>7. CASE c.incr = "weekdays"
  <2> DEFINE doms == MonthDay
             dows == c.days
  <2>1. IncrEntries(p, c) = <<Entry(p, "incr", doms, dows)>>
    BY <1>7 DEF IncrEntries
  <2>2. doms \in SUBSET Int /\ dows \in SUBSET Int
    BY <1>1, DaysAreInts
  <2>3. \A d \in Date : IsIncrDay(c, d) <=> d.dow \in dows /\ d.dom \in doms
    BY <1>1, <1>7, DateFacts DEF IsIncrDay
  <2> HIDE DEF dows, doms
  <2> QED BY <1>3, <2>1, <2>2, <2>3
<1>8. CASE c.incr = "every_n_days"
  <2> DEFINE doms == EveryNth(c.n)
             dows == Weekday
  <2>1. IncrEntries(p, c) = <<Entry(p, "incr", doms, dows)>>
    BY <1>8 DEF IncrEntries
  <2>2. doms \in SUBSET Int /\ dows \in SUBSET Int
    BY <1>1, DaysAreInts DEF EveryNth
  <2>3. \A d \in Date : IsIncrDay(c, d) <=> d.dow \in dows /\ d.dom \in doms
    BY <1>1, <1>8, DateFacts DEF IsIncrDay, EveryNth
  <2> HIDE DEF dows, doms
  <2> QED BY <1>3, <2>1, <2>2, <2>3
<1> QED BY <1>1, <1>4, <1>5, <1>6, <1>7, <1>8 DEF IncrModes

-----------------------------------------------------------------------------
(* A block and its shape *)

EntriesOf(r, p) == \A i \in 1 .. Len(r) : r[i] \in Entries /\ r[i].plan = p

Between(p, r) == <<Start(p)>> \o r \o <<End(p)>>

\* Between its markers, entries of a plan are a block.
LEMMA Marked ==
  ASSUME NEW p \in Plan, NEW r \in Seq(Line), EntriesOf(r, p), NEW b,
         b = Between(p, r)
  PROVE  /\ b \in Seq(Line) /\ IsWhole(b, p) /\ Len(b) = Len(r) + 2
         /\ \A i \in 1 .. Len(r) : b[i + 1] = r[i]
<1> DEFINE x == <<Start(p)>>
           y == <<End(p)>>
<1>1. Start(p) \in Line /\ End(p) \in Line
  BY MarkerFacts
<1>2. x \in Seq(Line) /\ Len(x) = 1 /\ x[1] = Start(p)
  BY <1>1
<1>3. y \in Seq(Line) /\ Len(y) = 1 /\ y[1] = End(p)
  BY <1>1
<1> HIDE DEF x, y
<1>4. x \in Seq(Line)
  BY <1>2
<1>5. y \in Seq(Line)
  BY <1>3
<1>6. b = (x \o r) \o y
  BY DEF x, y, Between
<1>7. /\ b \in Seq(Line) /\ Len(b) = Len(x) + Len(r) + Len(y) /\ Len(r) \in Nat
      /\ \A i \in 1 .. Len(x) : b[i] = x[i]
      /\ \A i \in 1 .. Len(r) : b[Len(x) + i] = r[i]
      /\ \A i \in 1 .. Len(y) : b[Len(x) + Len(r) + i] = y[i]
  BY <1>4, <1>5, <1>6, ThreeParts
<1>8. Len(b) = Len(r) + 2 /\ b[1] = Start(p) /\ b[Len(r) + 2] = End(p)
  BY <1>2, <1>3, <1>7
<1>9. \A i \in 1 .. Len(r) : b[i + 1] = r[i]
  BY <1>2, <1>7
<1>10. ASSUME NEW i \in 1 + 1 .. Len(b) - 1 PROVE b[i] \in Entries /\ b[i].plan = p
  <2> DEFINE j == i - 1
  <2>1. j \in 1 .. Len(r) /\ j + 1 = i
    BY <1>7, <1>8
  <2>2. b[j + 1] = r[j] /\ r[j] \in Entries /\ r[j].plan = p
    BY <1>9, <2>1 DEF EntriesOf
  <2> QED BY <2>1, <2>2
<1>11. IsWhole(b, p)
  <2>1. 1 \in 1 .. Len(b) /\ Len(b) \in 1 .. Len(b) /\ 1 < Len(b)
    BY <1>7, <1>8
  <2>2. b[1] = Start(p) /\ b[Len(b)] = End(p)
    BY <1>8
  <2> QED BY <1>10, <2>1, <2>2 DEF IsWhole, IsBlock
<1> QED BY <1>7, <1>8, <1>9, <1>11

\* The entries of a plan: none, those of its full backups, those of its
\* incrementals as well.
Shape(r, p, c) ==
    \/ c.mode = "archive" /\ r = << >>
    \/ /\ c.mode # "archive"
       /\ \E f : /\ IsFull(f, p, c) /\ r = <<f>>
                 /\ \A d \in Date : ~IsIncrDay(c, d)
    \/ /\ c.mode # "archive"
       /\ \E f, g : IsFull(f, p, c) /\ IsIncr(g, p, c) /\ r = <<f, g>>

\* Two lines in a row.
LEMMA Pair ==
  ASSUME NEW L, NEW f \in L, NEW g \in L
  PROVE  <<f>> \o <<g>> = <<f, g>>
<1> DEFINE x == <<f>>
           y == <<g>>
           z == x \o y
           w == <<f, g>>
<1>1. x \in Seq(L) /\ Len(x) = 1 /\ x[1] = f
  OBVIOUS
<1>2. y \in Seq(L) /\ Len(y) = 1 /\ y[1] = g
  OBVIOUS
<1>3. w \in Seq(L) /\ Len(w) = 2 /\ w[1] = f /\ w[2] = g
  OBVIOUS
<1> HIDE DEF x, y, w
<1>4. /\ z \in Seq(L) /\ Len(z) = Len(x) + Len(y)
      /\ \A i \in 1 .. Len(x) : z[i] = x[i]
      /\ \A i \in 1 .. Len(y) : z[Len(x) + i] = y[i]
  <2>1. x \in Seq(L)
    BY <1>1
  <2>2. y \in Seq(L)
    BY <1>2
  <2> QED BY <2>1, <2>2, TwoParts
<1> HIDE DEF z
<1>5. Len(z) = 2 /\ z[1] = f /\ z[2] = g
  BY <1>1, <1>2, <1>4
<1>6. \A i \in 1 .. Len(z) : z[i] = w[i]
  BY <1>3, <1>5
<1>7. z \in Seq(L)
  BY <1>4
<1>8. w \in Seq(L)
  BY <1>3
<1>9. z = w
  BY <1>3, <1>5, <1>6, <1>7, <1>8, SeqEqual
<1> QED BY <1>9 DEF x, y, z, w

\* What render_entries makes of a plan has that shape.
LEMMA RenderedShape ==
  ASSUME NEW p \in Plan, NEW c, Good(c)
  PROVE  /\ Rendered(p, c) \in Seq(Line) /\ EntriesOf(Rendered(p, c), p)
         /\ Shape(Rendered(p, c), p, c)
<1> DEFINE r == Rendered(p, c)
<1>1. \A l : IsFull(l, p, c) \/ IsIncr(l, p, c) => l \in Entries /\ l \in Line /\ l.plan = p
  BY EntryFacts DEF IsFull, IsIncr, IsEntry
<1>2. CASE c.mode = "archive"
  <2>1. r = << >>
    BY <1>2 DEF Rendered
  <2> QED BY <1>2, <2>1 DEF EntriesOf, Shape
<1>3. CASE c.mode # "archive"
  <2>1. PICK f : IsFull(f, p, c) /\ r = <<f>> \o IncrEntries(p, c)
    BY <1>3, RenderedFull
  <2> HIDE DEF r
  <2>2. f \in Entries /\ f \in Line /\ f.plan = p
    BY <1>1, <2>1
  <2>3. CASE IncrEntries(p, c) = << >> /\ \A d \in Date : ~IsIncrDay(c, d)
    <3>1. r = <<f>>
      BY <2>1, <2>2, <2>3
    <3>2. r \in Seq(Line) /\ EntriesOf(r, p)
      BY <2>2, <3>1 DEF EntriesOf
    <3>3. Shape(r, p, c)
      BY <1>3, <2>1, <2>3, <3>1 DEF Shape
    <3> QED BY <3>2, <3>3 DEF r
  <2>4. ASSUME NEW g, IsIncr(g, p, c), IncrEntries(p, c) = <<g>>
        PROVE  r \in Seq(Line) /\ EntriesOf(r, p) /\ Shape(r, p, c)
    <3>1. g \in Entries /\ g \in Line /\ g.plan = p
      BY <1>1, <2>4
    <3>2. r = <<f, g>>
      <4>1. r = <<f>> \o <<g>>
        BY <2>1, <2>4
      <4>2. <<f>> \o <<g>> = <<f, g>>
        BY <2>2, <3>1, Pair
      <4> QED BY <4>1, <4>2
    <3>3. r \in Seq(Line) /\ EntriesOf(r, p)
      BY <2>2, <3>2, <3>1 DEF EntriesOf
    <3>4. Shape(r, p, c)
      BY <1>3, <2>1, <2>4, <3>2 DEF Shape
    <3> QED BY <3>3, <3>4
  <2> QED BY <1>3, <2>3, <2>4, RenderedIncr DEF r
<1> QED BY <1>2, <1>3

\* What is installed of a plan is a block.
LEMMA BlockIsWhole ==
  ASSUME NEW p \in Plan, NEW c, Good(c)
  PROVE  Block(p, c) \in Seq(Line) /\ IsWhole(Block(p, c), p)
<1> DEFINE r == Rendered(p, c)
           b == Block(p, c)
<1>1. r \in Seq(Line) /\ EntriesOf(r, p)
  BY RenderedShape
<1>2. b = Between(p, r)
  BY DEF Block, Between
<1> HIDE DEF r, b
<1>3. b \in Seq(Line) /\ IsWhole(b, p)
  BY <1>1, <1>2, Marked
<1> QED BY <1>3 DEF b

-----------------------------------------------------------------------------
(* What find_block finds *)

\* The ends of an interval.
LEMMA MinMax ==
  ASSUME NEW s \in Int, NEW e \in Int, s <= e, NEW S, S = s .. e
  PROVE  Min(S) = s /\ Max(S) = e
BY DEF Min, Max

\* find_block finds nothing where there is nothing ...
LEMMA FindClear ==
  ASSUME NEW text \in Seq(Line), NEW p \in Plan, Clear(text, p)
  PROVE  Find(text, p) = << >>
<1>1. \A i \in DOMAIN text : text[i] # Start(p)
  BY ClearMarkers
<1> QED BY <1>1 DEF Find

\* ... and the block where there is one.
LEMMA FindBlock ==
  ASSUME NEW text \in Seq(Line), NEW p \in Plan, NEW s \in Int, NEW e \in Int,
         IsBlock(text, p, s, e)
  PROVE  Find(text, p) = SubSeq(text, s, e)
<1> DEFINE starts == {i \in DOMAIN text : text[i] = Start(p)}
           ends == {j \in DOMAIN text : text[j] = End(p) /\ \E i \in starts : i < j}
<1>1. /\ s \in 1 .. Len(text) /\ e \in 1 .. Len(text) /\ s < e
      /\ text[s] = Start(p) /\ text[e] = End(p)
  BY DEF IsBlock
<1>2. \A i \in 1 .. Len(text) : text[i] = Start(p) \/ text[i] = End(p) => i \in s .. e
  BY BlockLines, MarkerFacts
<1>3. DOMAIN text = 1 .. Len(text)
  OBVIOUS
<1>4. starts = s .. s
  BY <1>1, <1>2, <1>3, BlockLines
<1>5. ends = e .. e
  BY <1>1, <1>2, <1>3, <1>4, BlockLines
<1>6. Find(text, p) = IF ends = {} THEN << >> ELSE SubSeq(text, Min(starts), Min(ends))
  BY DEF Find
<1> HIDE DEF starts, ends
<1>7. Min(starts) = s /\ Min(ends) = e /\ ends # {}
  <2>1. s <= s /\ e <= e
    OBVIOUS
  <2>2. Min(starts) = s
    BY <1>4, <2>1, MinMax
  <2>3. Min(ends) = e
    BY <1>5, <2>1, MinMax
  <2> QED BY <1>5, <2>2, <2>3
<1> QED BY <1>6, <1>7

\* What find_block finds is all there is of a plan's lines, in one piece.
LEMMA OwnIsBlock ==
  ASSUME NEW text \in Seq(Line), NEW p \in Plan, Neat(text, p), NEW own,
         own = {i \in DOMAIN text : Mine(text[i], p)}, own # {}
  PROVE  /\ own = Min(own) .. Max(own)
         /\ SubSeq(text, Min(own), Max(own)) = Find(text, p)
<1>1. DOMAIN text = 1 .. Len(text)
  OBVIOUS
<1>2. ~Clear(text, p)
  BY <1>1 DEF Clear
<1>3. PICK s \in Int, e \in Int : IsBlock(text, p, s, e)
  BY <1>2 DEF Neat
<1>4. own = s .. e
  BY <1>1, <1>3, BlockLines
<1>5. s <= e
  BY <1>3 DEF IsBlock
<1>6. Min(own) = s /\ Max(own) = e
  BY <1>4, <1>5, MinMax
<1> QED BY <1>3, <1>4, <1>6, FindBlock

\* Where it finds nothing, or no start marker, there is no line of the plan.
LEMMA NoneFound ==
  ASSUME NEW text \in Seq(Line), NEW p \in Plan, Neat(text, p),
         Find(text, p) = << >> \/ ~Contains(text, Start(p))
  PROVE  Clear(text, p)
<1> SUFFICES ASSUME ~Clear(text, p) PROVE FALSE
  OBVIOUS
<1>1. PICK s \in Int, e \in Int : IsBlock(text, p, s, e)
  BY DEF Neat
<1>2. /\ s \in 1 .. Len(text) /\ e \in 1 .. Len(text) /\ s < e /\ text[s] = Start(p)
  BY <1>1 DEF IsBlock
<1>3. Contains(text, Start(p))
  BY <1>2 DEF Contains
<1>4. Find(text, p) = SubSeq(text, s, e)
  BY <1>1, FindBlock
<1>5. s \in 1 .. Len(text) + 1 /\ e \in s - 1 .. Len(text) /\ e - s + 1 # 0
  BY <1>2
<1>6. Len(SubSeq(text, s, e)) = e - s + 1
  BY <1>5, SubSeqIs
<1>7. SubSeq(text, s, e) # << >>
  BY <1>5, <1>6
<1> QED BY <1>3, <1>4, <1>7

-----------------------------------------------------------------------------
(* Cron follows the plan *)

\* The entries of a plan whose installed block is up to date.
LEMMA EntriesFound ==
  ASSUME NEW text \in Seq(Line), NEW p \in Plan, NEW c, Good(c), Neat(text, p),
         Find(text, p) = Block(p, c), NEW r, r = Rendered(p, c)
  PROVE  \A l : (l \in ToSet(text) /\ l.is = "entry" /\ l.plan = p)
                <=> \E k \in 1 .. Len(r) : l = r[k]
<1> DEFINE b == Block(p, c)
<1>1. r \in Seq(Line) /\ EntriesOf(r, p)
  BY RenderedShape
<1>2. b = Between(p, r)
  BY DEF Block, Between
<1> HIDE DEF b
<1>3. /\ b \in Seq(Line) /\ Len(b) = Len(r) + 2
      /\ \A k \in 1 .. Len(r) : b[k + 1] = r[k]
  BY <1>1, <1>2, Marked
<1>4. Len(r) \in Nat /\ Len(text) \in Nat
  BY <1>1
<1>5. ~Clear(text, p)
  <2>1. Len(b) # 0
    BY <1>3, <1>4
  <2>2. b # << >>
    BY <2>1
  <2> QED BY <2>2, FindClear DEF b
<1>6. PICK s \in Int, e \in Int : IsBlock(text, p, s, e)
  BY <1>5 DEF Neat
<1>7. /\ s \in 1 .. Len(text) /\ e \in 1 .. Len(text) /\ s < e
      /\ \A i \in s + 1 .. e - 1 : text[i] \in Entries /\ text[i].plan = p
  BY <1>6 DEF IsBlock
<1>8. b = SubSeq(text, s, e)
  BY <1>6, FindBlock DEF b
<1>9. Len(b) = e - s + 1 /\ \A k \in 1 .. e - s + 1 : b[k] = text[s - 1 + k]
  <2>1. s \in 1 .. Len(text) + 1 /\ e \in s - 1 .. Len(text)
    BY <1>4, <1>7
  <2> QED BY <1>8, <2>1, SubSeqIs
<1>10. ASSUME NEW k \in 1 .. Len(r)
       PROVE  /\ s + k \in s + 1 .. e - 1 /\ s + k \in 1 .. Len(text)
              /\ r[k] = text[s + k]
  <2>1. Len(r) + 2 = e - s + 1
    BY <1>3, <1>9
  <2>2. k + 1 \in 1 .. e - s + 1 /\ s - 1 + (k + 1) = s + k
    BY <1>4, <1>7, <2>1
  <2>3. r[k] = b[k + 1] /\ b[k + 1] = text[s - 1 + (k + 1)]
    BY <1>3, <1>9, <2>2
  <2>4. s + k \in s + 1 .. e - 1 /\ s + k \in 1 .. Len(text)
    BY <1>4, <1>7, <2>1
  <2> QED BY <2>2, <2>3, <2>4
<1>11. ASSUME NEW k \in 1 .. Len(r)
       PROVE  r[k] \in ToSet(text) /\ r[k].is = "entry" /\ r[k].plan = p
  <2>1. r[k] \in Entries /\ r[k].plan = p
    BY <1>1 DEF EntriesOf
  <2>2. r[k] \in ToSet(text)
    BY <1>10 DEF ToSet
  <2> QED BY <2>1, <2>2, EntryFacts
<1>12. ASSUME NEW l \in ToSet(text), l.is = "entry", l.plan = p
       PROVE  \E k \in 1 .. Len(r) : l = r[k]
  <2>1. PICK i \in 1 .. Len(text) : l = text[i]
    BY DEF ToSet
  <2>2. i \in s .. e /\ i # s /\ i # e
    <3>1. Mine(l, p)
      BY <1>12 DEF Mine
    <3>2. l # Start(p) /\ l # End(p)
      BY <1>12, MarkerFacts
    <3> QED BY <1>6, <2>1, <3>1, <3>2, BlockLines
  <2>3. i - s \in 1 .. Len(r) /\ s + (i - s) = i
    BY <1>3, <1>4, <1>7, <1>9, <2>2
  <2>4. r[i - s] = text[s + (i - s)]
    BY <1>10, <2>3
  <2> QED BY <2>1, <2>3, <2>4
<1> QED BY <1>11, <1>12

Fires(l, c, d) ==
    /\ ~l.off /\ d.dow \in l.dows /\ d.dom \in l.doms
    /\ ~(l.kind = "incr" /\ IsFullDay(c, d))

\* When an entry fires that is not put off.
LEMMA FullFires ==
  ASSUME NEW l, NEW p, NEW c, IsFull(l, p, c), NEW d \in Date
  PROVE  l.kind = "full" /\ (Fires(l, c, d) <=> IsFullDay(c, d))
<1>1. PICK doms, dows :
        /\ IsEntry(l, p, "full", doms, dows)
        /\ \A x \in Date : IsFullDay(c, x) <=> x.dow \in dows /\ x.dom \in doms
  BY Zenon DEF IsFull
<1>2. l.kind = "full" /\ l.off = FALSE /\ l.doms = doms /\ l.dows = dows
  BY <1>1, Zenon DEF IsEntry
<1>3. ~l.off
  BY <1>2, Zenon
<1>4. l.kind # "incr"
  BY <1>2
<1>5. IsFullDay(c, d) <=> d.dow \in l.dows /\ d.dom \in l.doms
  BY <1>1, <1>2, Zenon
<1> QED BY <1>2, <1>3, <1>4, <1>5, Zenon DEF Fires

LEMMA IncrFires ==
  ASSUME NEW l, NEW p, NEW c, IsIncr(l, p, c), NEW d \in Date
  PROVE  l.kind = "incr" /\ (Fires(l, c, d) <=> ~IsFullDay(c, d) /\ IsIncrDay(c, d))
<1>1. PICK doms, dows :
        /\ IsEntry(l, p, "incr", doms, dows)
        /\ \A x \in Date :
             ~IsFullDay(c, x) => (IsIncrDay(c, x) <=> x.dow \in dows /\ x.dom \in doms)
  BY Zenon DEF IsIncr
<1>2. l.kind = "incr" /\ l.off = FALSE /\ l.doms = doms /\ l.dows = dows
  BY <1>1, Zenon DEF IsEntry
<1>3. ~l.off
  BY <1>2, Zenon
<1>5. ~IsFullDay(c, d) => (IsIncrDay(c, d) <=> d.dow \in l.dows /\ d.dom \in l.doms)
  BY <1>1, <1>2, Zenon
<1> QED BY <1>2, <1>3, <1>5, Zenon DEF Fires

\* Where cron's day is the program's.
LEMMA SameDay ==
  ASSUME Shift = 0, NEW d \in Date
  PROVE  Utc(d) = d
<1>1. d.dow \in Weekday /\ d.dom \in MonthDay /\ d = [dow |-> d.dow, dom |-> d.dom]
  BY DEF Date
<1>2. /\ Weekdays \in Nat \ {0} /\ MonthDays \in Nat \ {0}
  BY CrontabAssumption
<1>3. (d.dow + Shift) % Weekdays = d.dow
  BY <1>1, <1>2 DEF Weekday
<1>4. 1 + ((d.dom - 1 + Shift) % MonthDays) = d.dom
  BY <1>1, <1>2 DEF MonthDay
<1> QED BY <1>1, <1>3, <1>4 DEF Utc

\* Cron takes what the plan says, if its block is the one rendered.
LEMMA TakenIsPlanned ==
  ASSUME NEW p \in Plan, NEW c, c = config[p], NEW text \in Seq(Line), text = Text(p),
         Good(c), Neat(text, p), Find(text, p) = Block(p, c), Shift = 0, NEW d \in Date
  PROVE  Taken(p, d) = Planned(c, d)
<1> DEFINE r == Rendered(p, c)
<1>1. Shape(r, p, c)
  BY RenderedShape
<1>2. \A l : (l \in ToSet(text) /\ l.is = "entry" /\ l.plan = p)
             <=> \E k \in 1 .. Len(r) : l = r[k]
  BY EntriesFound
<1>3. Taken(p, d) = {l.kind : l \in {x \in ToSet(text) :
                       x.is = "entry" /\ x.plan = p /\ Fires(x, c, d)}}
  BY SameDay, Zenon DEF Taken, Fires
<1> HIDE DEF r
<1>4. \A kind : kind \in Taken(p, d)
                <=> \E k \in 1 .. Len(r) : Fires(r[k], c, d) /\ r[k].kind = kind
  BY <1>2, <1>3
<1>5. CASE c.mode = "archive" /\ r = << >>
  <2>1. Taken(p, d) = {}
    BY <1>4, <1>5
  <2>2. ~IsFullDay(c, d) /\ ~IsIncrDay(c, d)
    BY <1>5 DEF IsFullDay, IsIncrDay
  <2> QED BY <2>1, <2>2 DEF Planned
<1>6. ASSUME NEW f, IsFull(f, p, c), r = <<f>>, ~IsIncrDay(c, d)
      PROVE  Taken(p, d) = Planned(c, d)
  <2>1. f.kind = "full" /\ (Fires(f, c, d) <=> IsFullDay(c, d))
    BY <1>6, FullFires
  <2>2. \A kind : kind \in Taken(p, d) <=> IsFullDay(c, d) /\ kind = "full"
    BY <1>4, <1>6, <2>1
  <2> QED BY <1>6, <2>2 DEF Planned
<1>7. ASSUME NEW f, NEW g, IsFull(f, p, c), IsIncr(g, p, c), r = <<f, g>>
      PROVE  Taken(p, d) = Planned(c, d)
  <2>1. f.kind = "full" /\ (Fires(f, c, d) <=> IsFullDay(c, d))
    BY <1>7, FullFires
  <2>2. g.kind = "incr" /\ (Fires(g, c, d) <=> ~IsFullDay(c, d) /\ IsIncrDay(c, d))
    BY <1>7, IncrFires
  <2>3. \A kind : kind \in Taken(p, d)
                  <=> \/ IsFullDay(c, d) /\ kind = "full"
                      \/ ~IsFullDay(c, d) /\ IsIncrDay(c, d) /\ kind = "incr"
    <3>1. Len(r) = 2 /\ r[1] = f /\ r[2] = g /\ 1 .. 2 = {1, 2}
      BY <1>7
    <3> QED BY <1>4, <2>1, <2>2, <3>1
  <2> QED BY <2>3 DEF Planned
<1> QED BY <1>1, <1>5, <1>6, <1>7 DEF Shape

-----------------------------------------------------------------------------
(* The crontabs and the command at work *)

Accounts == {"root", "user"}

\* In each crontab each plan has one block or none, and a plan removed without
\* an error has none.
TabInv ==
    /\ tab \in [Accounts -> Seq(Line)]
    /\ \A a \in Accounts : AllNeat(tab[a])
    /\ \A p \in Plan \ left : config[p] = NoPlan => Clear(Text(p), p)

\* What the command at work will write is as good.
JobInv ==
    job # NoJob =>
      /\ job.plan \in Plan /\ job.what \in Commands /\ config[job.plan] # NoPlan
      /\ AllNeat(job.text)
      /\ \A q \in Plan \ left :
           config[q] = NoPlan /\ Account(q) = Account(job.plan) => Clear(job.text, q)
      /\ job.what = "suspend" => AllOff(job.text, job.plan, TRUE)
      /\ ~Overlap => Others(job.text, job.plan) = Others(Text(job.plan), job.plan)

States == {"unknown", "archive", "none", "active", "suspended", "no entries"}
Asked == {"none", "discard", "install", "uninstall", "worker"}

KindInv ==
    /\ dirty \in BOOLEAN /\ left \subseteq Plan /\ steps \in 0 .. MaxSteps
    /\ known \in States /\ dialog.ask \in Asked

\* The crontab that a plan is in.
LEMMA TextFacts ==
  ASSUME TabInv, NEW p \in Plan
  PROVE  /\ Account(p) \in Accounts /\ Text(p) = tab[Account(p)]
         /\ AllNeat(Text(p)) /\ Text(p) \in Seq(Line) /\ Neat(Text(p), p)
<1>1. Account(p) \in Accounts /\ Text(p) = tab[Account(p)]
  BY DEF Account, Accounts, Text
<1>2. AllNeat(Text(p))
  BY <1>1 DEF TabInv
<1> QED BY <1>1, <1>2 DEF AllNeat

\* A command to suspend that has nothing to do leaves nothing that fires.
LEMMA MootStops ==
  ASSUME TabInv, NEW p \in Plan, Moot("suspend", p)
  PROVE  AllOff(Text(p), p, TRUE)
<1> DEFINE text == Text(p)
<1>1. text \in Seq(Line) /\ Neat(text, p)
  BY TextFacts
<1>2. \/ Find(text, p) = << >> \/ ~Contains(text, Start(p))
      \/ Status(text, p) = "suspended"
  BY DEF Moot
<1> HIDE DEF text
<1>3. CASE Find(text, p) = << >> \/ ~Contains(text, Start(p))
  <2>1. Clear(text, p)
    BY <1>1, <1>3, NoneFound
  <2> QED BY <2>1 DEF AllOff, Clear, text
<1>4. CASE Find(text, p) # << >> /\ Status(text, p) = "suspended"
  <2>1. ~Clear(text, p)
    BY <1>1, <1>4, FindClear
  <2>2. PICK s \in Int, e \in Int : IsBlock(text, p, s, e)
    BY <1>1, <2>1 DEF Neat
  <2> DEFINE b == Find(text, p)
  <2>3. b = SubSeq(text, s, e)
    BY <1>1, <2>2, FindBlock
  <2>4. s \in 1 .. Len(text) + 1 /\ e \in s - 1 .. Len(text) /\ Len(text) \in Nat
    BY <1>1, <2>2 DEF IsBlock
  <2>5. /\ b \in Seq(Line) /\ Len(b) = e - s + 1
        /\ \A k \in 1 .. e - s + 1 : b[k] = text[s - 1 + k]
    BY <1>1, <2>3, <2>4, SubSeqIs
  <2>6. FALSE \notin {l.off : l \in {m \in ToSet(b) : m.is = "entry"}}
    BY <1>4 DEF Status
  <2> HIDE DEF b
  <2>7. ASSUME NEW i \in 1 .. Len(text), text[i].is = "entry", Mine(text[i], p)
        PROVE  text[i].off = TRUE
    <3>1. i \in s .. e
      BY <1>1, <2>2, <2>7, BlockLines
    <3>2. i - s + 1 \in 1 .. e - s + 1 /\ s - 1 + (i - s + 1) = i
      BY <2>4, <3>1
    <3>3. b[i - s + 1] = text[i] /\ i - s + 1 \in 1 .. Len(b)
      BY <2>5, <3>2
    <3>4. text[i] \in ToSet(b)
      BY <2>5, <3>3 DEF ToSet
    <3>5. text[i].off # FALSE
      BY <2>6, <2>7, <3>4
    <3>6. text[i].off \in BOOLEAN
      BY <1>1, <2>7, LineFacts, EntryFacts
    <3> QED BY <3>5, <3>6
  <2> QED BY <2>7 DEF AllOff, text
<1> QED BY <1>2, <1>3, <1>4

\* What a command makes of the crontab, by the plan c that it has read.
Result(what, p, c) ==
    IF Moot(what, p) THEN Text(p)
    ELSE IF what = "install" THEN Replace(Text(p), p, Block(p, c))
    ELSE Outcome(what, p)

\* It reworks the plan's lines, and a command to suspend leaves none that fires.
LEMMA ResultReworks ==
  ASSUME TabInv, NEW p \in Plan, NEW what \in Commands, NEW c, Good(c)
  PROVE  /\ Reworked(Text(p), Result(what, p, c), p)
         /\ what = "suspend" => AllOff(Result(what, p, c), p, TRUE)
<1> DEFINE text == Text(p)
           new == Result(what, p, c)
<1>1. AllNeat(text)
  BY TextFacts
<1>2. CASE Moot(what, p)
  <2>1. new = text
    BY <1>2 DEF Result
  <2>2. what = "suspend" => AllOff(text, p, TRUE)
    BY <1>2, MootStops
  <2> HIDE DEF new, text
  <2> QED BY <1>1, <2>1, <2>2, SameReworks DEF new, text
<1>3. CASE ~Moot(what, p) /\ what = "install"
  <2> DEFINE b == Block(p, c)
  <2>1. new = Replace(text, p, b)
    BY <1>3 DEF Result
  <2>2. b \in Seq(Line) /\ IsWhole(b, p)
    BY BlockIsWhole
  <2> HIDE DEF new, text, b
  <2>3. Reworked(text, Replace(text, p, b), p)
    BY <1>1, <2>2, ReplaceReworks
  <2> QED BY <1>3, <2>1, <2>3 DEF new, text
<1>4. CASE ~Moot(what, p) /\ what = "uninstall"
  <2>1. new = Removed(text, p)
    BY <1>4 DEF Result, Outcome
  <2> HIDE DEF new, text
  <2>2. Reworked(text, Removed(text, p), p)
    BY <1>1, RemovedReworks
  <2> QED BY <1>4, <2>1, <2>2 DEF new, text
<1>5. CASE ~Moot(what, p) /\ what = "suspend"
  <2>1. new = Toggle(text, p, TRUE)
    BY <1>5 DEF Result, Outcome
  <2> HIDE DEF new, text
  <2>2. Reworked(text, Toggle(text, p, TRUE), p) /\ AllOff(Toggle(text, p, TRUE), p, TRUE)
    BY <1>1, ToggleReworks
  <2> QED BY <2>1, <2>2 DEF new, text
<1>6. CASE ~Moot(what, p) /\ what = "resume"
  <2>1. new = Toggle(text, p, FALSE)
    BY <1>6 DEF Result, Outcome
  <2> HIDE DEF new, text
  <2>2. Reworked(text, Toggle(text, p, FALSE), p)
    BY <1>1, ToggleReworks
  <2> QED BY <1>6, <2>1, <2>2 DEF new, text
<1> QED BY <1>2, <1>3, <1>4, <1>5, <1>6 DEF Commands

\* A command starts.
LEMMA StartsJob ==
  ASSUME TabInv, NEW p \in Plan, NEW what \in Commands, NEW c, Good(c),
         config'[p] # NoPlan, \A q \in Plan \ {p} : config'[q] = config[q],
         UNCHANGED <<tab, left>>, NEW moot,
         job' = [what |-> what, plan |-> p, moot |-> moot, text |-> Result(what, p, c)]
  PROVE  JobInv'
<1> DEFINE new == Result(what, p, c)
<1>1. Reworked(Text(p), new, p) /\ (what = "suspend" => AllOff(new, p, TRUE))
  BY ResultReworks
<1> HIDE DEF new
<1>2. job'.what = what /\ job'.plan = p /\ job'.text = new
  BY DEF new
<1>3. Text(p)' = Text(p)
  BY DEF Text, Account
<1>4. AllNeat(new) /\ Others(new, p) = Others(Text(p), p)
  BY <1>1 DEF Reworked
<1>5. ASSUME NEW q \in Plan \ left, config'[q] = NoPlan, Account(q) = Account(p)
      PROVE  Clear(new, q)
  <2>1. q # p /\ config[q] = NoPlan
    BY <1>5
  <2>2. Clear(Text(q), q)
    BY <2>1 DEF TabInv
  <2>3. Text(q) = Text(p)
    BY <1>5 DEF Text
  <2> QED BY <1>1, <2>1, <2>2, <2>3 DEF Reworked
<1>6. Others(job'.text, job'.plan) = Others(Text(job.plan)', job'.plan)
  BY <1>2, <1>3, <1>4 DEF Text, Account
<1> QED BY <1>1, <1>2, <1>4, <1>5, <1>6 DEF JobInv, Account

-----------------------------------------------------------------------------
(* The steps that change a crontab *)

\* A step that leaves the crontabs alone, and with a plan's file also what is
\* reported of its removal.
LEMMA TabsStay ==
  ASSUME TabInv, UNCHANGED <<tab, left>>,
         \A q \in Plan : config'[q] = NoPlan => config[q] = NoPlan
  PROVE  TabInv'
BY DEF TabInv, Text, Account

\* A step that leaves all of them alone.
LEMMA JobStays ==
  ASSUME JobInv, UNCHANGED <<config, tab, job, left>>
  PROVE  JobInv'
BY DEF JobInv, Text, Account

\* The crontabs are empty to start with.
LEMMA InitTabs == Init => TabInv /\ JobInv /\ KindInv
<1> SUFFICES ASSUME Init PROVE TabInv /\ JobInv /\ KindInv
  OBVIOUS
<1>1. tab = [a \in Accounts |-> << >>] /\ job = NoJob
  BY DEF Init, Accounts
<1> DEFINE none == << >>
<1>2. none \in Seq(Line) /\ \A p : Clear(none, p)
  BY EmptyLines DEF Clear
<1>3. AllNeat(none)
  BY <1>2 DEF AllNeat, Neat
<1>4. \A p \in Plan : Text(p) = none
  BY <1>1 DEF Text, Account, Accounts
<1>5. TabInv
  <2>1. \A a \in Accounts : tab[a] = none
    BY <1>1
  <2> HIDE DEF none
  <2>2. tab \in [Accounts -> Seq(Line)]
    BY <1>1, <1>2 DEF none
  <2> QED BY <1>2, <1>3, <1>4, <2>1, <2>2 DEF TabInv
<1>6. KindInv
  <2>1. 0 \in 0 .. MaxSteps
    <3>1. MaxSteps \in Nat
      BY PlanEditorAssumption
    <3> QED BY <3>1
  <2>2. FALSE \in BOOLEAN
    BY Zenon
  <2>3. dialog.ask = "none" /\ known \in {"unknown", "none"}
    BY DEF Init, Quiet
  <2> QED BY <2>1, <2>2, <2>3 DEF Init, KindInv, States, Asked
<1> QED BY <1>1, <1>5, <1>6 DEF JobInv

-----------------------------------------------------------------------------
(* The steps that change a crontab or start a command *)

\* The command at work writes its crontab: the lines of no other plan and of no owner
\* are touched.
LEMMA WritesTab ==
  ASSUME TabInv, JobInv, job # NoJob, UNCHANGED <<config, left>>,
         tab' = [tab EXCEPT ![Account(job.plan)] = job.text]
  PROVE  /\ TabInv'
         /\ ~Overlap => \A a \in DOMAIN tab : tab'[a] = tab[a] \/
                           Others(tab'[a], job.plan) = Others(tab[a], job.plan)
<1> DEFINE a == Account(job.plan)
           new == job.text
<1>1. /\ job.plan \in Plan /\ AllNeat(new)
      /\ \A q \in Plan \ left : config[q] = NoPlan /\ Account(q) = a => Clear(new, q)
      /\ ~Overlap => Others(new, job.plan) = Others(Text(job.plan), job.plan)
  BY DEF JobInv
<1>2. a \in Accounts /\ DOMAIN tab = Accounts /\ new \in Seq(Line)
  BY <1>1, TextFacts DEF AllNeat, TabInv
<1> HIDE DEF a, new
<1>3. tab' = [tab EXCEPT ![a] = new]
  BY DEF a, new
<1>4. tab'[a] = new /\ \A b \in Accounts \ {a} : tab'[b] = tab[b]
  BY <1>2, <1>3
<1>5. tab' \in [Accounts -> Seq(Line)]
  BY <1>2, <1>3 DEF TabInv
<1>6. \A b \in Accounts : AllNeat(tab'[b])
  BY <1>1, <1>4 DEF TabInv
<1>7. ASSUME NEW q \in Plan \ left, config[q] = NoPlan
      PROVE  Clear(Text(q)', q)
  <2>1. Text(q)' = tab'[Account(q)] /\ Account(q) \in Accounts /\ Text(q) = tab[Account(q)]
    BY DEF Text, Account, Accounts
  <2>2. Clear(Text(q), q)
    BY <1>7 DEF TabInv
  <2> QED BY <1>1, <1>4, <1>7, <2>1, <2>2
<1>8. TabInv'
  BY <1>5, <1>6, <1>7 DEF TabInv, Text, Account
<1>9. ~Overlap => Others(tab'[a], job.plan) = Others(tab[a], job.plan)
  BY <1>1, <1>4 DEF Text, a
<1> QED BY <1>2, <1>4, <1>8, <1>9

\* It is done.
LEMMA DoneTabs ==
  ASSUME TabInv, JobInv, Done
  PROVE  TabInv' /\ JobInv'
<1>1. job # NoJob /\ job' = NoJob /\ UNCHANGED <<config, left>>
  BY DEF Done, Write, Fail
<1>2. tab' = tab \/ tab' = [tab EXCEPT ![Account(job.plan)] = job.text]
  BY DEF Done, Write, Fail
<1>3. JobInv'
  BY <1>1 DEF JobInv
<1>4. TabInv'
  BY <1>1, <1>2, TabsStay, WritesTab
<1> QED BY <1>3, <1>4

\* The owner edits a crontab.
LEMMA OwnerTabs ==
  ASSUME TabInv, JobInv, NEW a \in Accounts, Owner(a)
  PROVE  TabInv' /\ JobInv'
<1>1. UNCHANGED <<config, job, left>> /\ (job = NoJob \/ Overlap)
  BY DEF Owner, EditTab, window
<1>2. JobInv'
  BY <1>1 DEF JobInv, Account
<1> DEFINE text == tab[a]
           new == tab'[a]
<1>3. /\ text \in Seq(Line) /\ AllNeat(text) /\ DOMAIN tab = Accounts
  BY DEF TabInv
<1>4. /\ Undisturbed(text, new) /\ tab' = [tab EXCEPT ![a] = new]
  <2>1. ASSUME NEW l \in OwnerLine, NEW line, line = [is |-> "owner", text |-> l],
               tab' = [tab EXCEPT ![a] = IF Contains(@, line) THEN Only(@, ToSet(@) \ {line})
                                         ELSE Append(@, line)]
        PROVE  Undisturbed(text, new) /\ tab' = [tab EXCEPT ![a] = new]
    <3>1. line \in Line /\ line.is = "owner"
      BY <2>1 DEF Line, OwnerLines
    <3> DEFINE x == IF Contains(text, line) THEN Only(text, ToSet(text) \ {line})
                    ELSE Append(text, line)
    <3>2. tab' = [tab EXCEPT ![a] = x]
      BY <2>1, Zenon
    <3>3. Undisturbed(text, Only(text, ToSet(text) \ {line}))
      BY <1>3, <3>1, OwnerRemoves
    <3>4. Undisturbed(text, Append(text, line))
      BY <1>3, <3>1, OwnerAppends
    <3>5. Undisturbed(text, x)
      BY <3>3, <3>4
    <3> HIDE DEF x
    <3>6. new = x
      BY <1>3, <3>2
    <3> QED BY <3>2, <3>5, <3>6
  <2>2. ASSUME NEW i \in DOMAIN text, text[i].is = "entry",
               tab' = [tab EXCEPT ![a][i].off = ~@]
        PROVE  Undisturbed(text, new) /\ tab' = [tab EXCEPT ![a] = new]
    <3> DEFINE x == [text EXCEPT ![i].off = ~@]
    <3>1. tab' = [tab EXCEPT ![a] = x]
      BY <2>2, Zenon
    <3>2. i \in 1 .. Len(text)
      BY <1>3
    <3>3. Undisturbed(text, x)
      BY <1>3, <2>2, <3>2, OwnerComments
    <3> HIDE DEF x
    <3>4. new = x
      BY <1>3, <3>1
    <3> QED BY <3>1, <3>3, <3>4
  <2> QED BY <2>1, <2>2 DEF Owner, EditTab
<1>5. TabInv'
  <2>1. \A b \in Accounts \ {a} : tab'[b] = tab[b]
    BY <1>3, <1>4
  <2> HIDE DEF text, new
  <2>2. new \in Seq(Line) /\ AllNeat(new) /\ \A p \in Plan : Clear(text, p) => Clear(new, p)
    BY <1>3, <1>4 DEF Undisturbed, AllNeat
  <2>3. tab' \in [Accounts -> Seq(Line)]
    BY <1>4, <2>2 DEF TabInv
  <2>4. \A b \in Accounts : AllNeat(tab'[b])
    BY <2>1, <2>2 DEF TabInv, new
  <2>5. ASSUME NEW q \in Plan \ left, config[q] = NoPlan
        PROVE  Clear(Text(q)', q)
    <3>1. Text(q)' = tab'[Account(q)] /\ Account(q) \in Accounts /\ Text(q) = tab[Account(q)]
      BY DEF Text, Account, Accounts
    <3>2. Clear(Text(q), q)
      BY <2>5 DEF TabInv
    <3> QED BY <2>1, <2>2, <3>1, <3>2 DEF text, new
  <2> QED BY <1>1, <2>3, <2>4, <2>5 DEF TabInv, Text, Account
<1> QED BY <1>2, <1>5

\* What uninstall_schedule_for leaves of a crontab has no line of the plan.
LEMMA UnscheduledReworks ==
  ASSUME TabInv, NEW p \in Plan \ SystemPlan
  PROVE  Reworked(Text(p), Unscheduled(p), p) /\ Clear(Unscheduled(p), p)
<1> DEFINE text == Text(p)
           new == Unscheduled(p)
<1>1. text \in Seq(Line) /\ AllNeat(text) /\ Neat(text, p)
  BY TextFacts
<1>2. CASE Moot("uninstall", p)
  <2>1. Find(text, p) = << >> /\ new = text
    BY <1>2 DEF Moot, Unscheduled
  <2> HIDE DEF text, new
  <2>2. Clear(text, p)
    BY <1>1, <2>1, NoneFound
  <2>3. Reworked(text, text, p)
    BY <1>1, SameReworks
  <2> QED BY <2>1, <2>2, <2>3 DEF text, new
<1>3. CASE ~Moot("uninstall", p)
  <2>1. new = Removed(text, p)
    BY <1>3 DEF Unscheduled
  <2> HIDE DEF text, new
  <2>2. Reworked(text, Removed(text, p), p) /\ Clear(Removed(text, p), p)
    BY <1>1, RemovedReworks
  <2> QED BY <2>1, <2>2 DEF text, new
<1> QED BY <1>2, <1>3

\* A plan is removed.
LEMMA RemoveTabs ==
  ASSUME TabInv, EditInv, RemovePlan
  PROVE  /\ TabInv'
         /\ \A a \in DOMAIN tab : tab'[a] = tab[a] \/
              \E p \in Plan : Others(tab'[a], p) = Others(tab[a], p)
<1> DEFINE p == current
           user == "user"
           new == Unscheduled(p)
<1>1. p \in Plan \ SystemPlan
  BY DiscoveredFacts DEF EditInv, RemovePlan
<1>2. PICK unscheduled \in BOOLEAN, deleted \in BOOLEAN :
        /\ tab' = IF unscheduled THEN [tab EXCEPT !["user"] = Unscheduled(current)] ELSE tab
        /\ config' = IF deleted THEN [config EXCEPT ![current] = NoPlan] ELSE config
        /\ left' = IF unscheduled THEN left \ {current} ELSE left \cup {current}
  BY DEF RemovePlan
<1>3. \A q \in Plan \ {p} : config'[q] = config[q]
  BY <1>1, <1>2 DEF EditInv
<1>4. Reworked(Text(p), new, p) /\ Clear(new, p)
  BY <1>1, UnscheduledReworks
<1>5. /\ Account(p) = user /\ Text(p) = tab[user] /\ user \in Accounts
      /\ DOMAIN tab = Accounts
  BY <1>1 DEF Account, Text, Accounts, TabInv
<1>6. CASE ~unscheduled
  <2>1. tab' = tab /\ left' = left \cup {p}
    BY <1>2, <1>6
  <2>2. ASSUME NEW q \in Plan \ left', config'[q] = NoPlan PROVE Clear(Text(q)', q)
    <3>1. q \in Plan \ left /\ config[q] = NoPlan
      BY <1>3, <2>1, <2>2
    <3> QED BY <2>1, <3>1 DEF TabInv, Text, Account
  <2> QED BY <2>1, <2>2 DEF TabInv, Text, Account
<1>7. CASE unscheduled
  <2> HIDE DEF new, user, p
  <2>1. tab' = [tab EXCEPT ![user] = new] /\ left' = left \ {p}
    BY <1>2, <1>7 DEF new, user, p
  <2>2. tab'[user] = new /\ \A b \in Accounts \ {user} : tab'[b] = tab[b]
    BY <1>5, <2>1
  <2>3. AllNeat(new) /\ new \in Seq(Line) /\ Others(new, p) = Others(tab[user], p)
    BY <1>4, <1>5 DEF Reworked, AllNeat
  <2>4. tab' \in [Accounts -> Seq(Line)]
    BY <1>5, <2>1, <2>3 DEF TabInv
  <2>5. \A b \in Accounts : AllNeat(tab'[b])
    BY <2>2, <2>3 DEF TabInv
  <2>6. ASSUME NEW q \in Plan \ left', config'[q] = NoPlan PROVE Clear(Text(q)', q)
    <3>1. Text(q)' = tab'[Account(q)] /\ Account(q) \in Accounts /\ Text(q) = tab[Account(q)]
      BY DEF Text, Account, Accounts
    <3>2. CASE q = p
      BY <1>4, <1>5, <2>2, <3>1, <3>2
    <3>3. CASE q # p
      <4>1. q \in Plan \ left /\ config[q] = NoPlan
        BY <1>3, <2>1, <2>6, <3>3
      <4>2. Clear(Text(q), q)
        BY <4>1 DEF TabInv
      <4> QED BY <1>4, <1>5, <2>2, <3>1, <3>3, <4>2 DEF Reworked
    <3> QED BY <3>2, <3>3
  <2>7. TabInv'
    BY <2>4, <2>5, <2>6 DEF TabInv, Text, Account
  <2>8. ASSUME NEW b \in DOMAIN tab
        PROVE  tab'[b] = tab[b] \/ \E x \in Plan : Others(tab'[b], x) = Others(tab[b], x)
    BY <1>1, <1>5, <2>2, <2>3
  <2> QED BY <2>7, <2>8
<1> QED BY <1>6, <1>7

-----------------------------------------------------------------------------
(* All the steps *)

\* A step of the window that touches no crontab and starts no command.
LEMMA WindowTabs ==
  ASSUME TabInv, JobInv, UNCHANGED <<tab, left>>, job = NoJob, job' = NoJob,
         \A q \in Plan : config'[q] = NoPlan => config[q] = NoPlan
  PROVE  TabInv' /\ JobInv'
BY TabsStay DEF JobInv

\* The plan that is selected has a file.
LEMMA Selected ==
  ASSUME EditInv, current # "none"
  PROVE  current \in Plan /\ config[current] # NoPlan /\ Good(config[current])
BY DiscoveredFacts DEF EditInv

\* A command of the window starts ...
LEMMA WorkTabs ==
  ASSUME TabInv, JobInv, EditInv, current # "none", NEW what \in Commands,
         NEW c, Good(c), Work(what, c), UNCHANGED <<tab, left>>,
         config' = [config EXCEPT ![current] = c] \/ (config' = config /\ c = config[current])
  PROVE  TabInv' /\ JobInv'
<1> DEFINE p == current
           moot == Moot(what, p)
<1>1. p \in Plan /\ config[p] # NoPlan /\ DOMAIN config = Plan
  BY Selected DEF EditInv
<1>2. c # NoPlan
  BY DEF Good, PlanRecord, NoPlan, Modes
<1>3. config'[p] # NoPlan /\ \A q \in Plan \ {p} : config'[q] = config[q]
  BY <1>1, <1>2
<1>4. job' = [what |-> what, plan |-> p, moot |-> moot, text |-> Result(what, p, c)]
  BY Zenon DEF Work, Result
<1>5. TabInv'
  BY <1>1, <1>3, TabsStay
<1> HIDE DEF p, moot
<1>6. JobInv'
  BY <1>1, <1>3, <1>4, StartsJob
<1> QED BY <1>5, <1>6

\* ... and one from a terminal.
LEMMA TerminalTabs ==
  ASSUME TabInv, JobInv, EditInv, NEW p \in Plan, NEW what \in Commands,
         Terminal(what, p)
  PROVE  TabInv' /\ JobInv'
<1> DEFINE c == config[p]
           moot == Moot(what, p)
<1>1. /\ c # NoPlan /\ UNCHANGED <<config, tab, left>> /\ job = NoJob
      /\ job' = [what |-> what, plan |-> p, moot |-> Moot(what, p),
                 text |-> IF Moot(what, p) THEN Text(p) ELSE Outcome(what, p)]
  BY DEF Terminal, Read
<1>2. Good(c)
  BY <1>1 DEF EditInv
<1>3. Result(what, p, c) = IF Moot(what, p) THEN Text(p) ELSE Outcome(what, p)
  <2>1. CASE what = "install"
    <3>1. Outcome(what, p) = Replace(Text(p), p, Block(p, c))
      BY <2>1 DEF Outcome
    <3> QED BY <2>1, <3>1, Zenon DEF Result
  <2>2. CASE what # "install"
    BY <2>2, Zenon DEF Result
  <2> QED BY <2>1, <2>2
<1>4. job' = [what |-> what, plan |-> p, moot |-> moot, text |-> Result(what, p, c)]
  BY <1>1, <1>3
<1>5. config'[p] # NoPlan /\ \A q \in Plan \ {p} : config'[q] = config[q]
  BY <1>1
<1>6. UNCHANGED <<tab, left>>
  BY <1>1
<1>7. TabInv'
  BY <1>1, TabsStay
<1> HIDE DEF c, moot
<1>8. JobInv'
  BY <1>2, <1>4, <1>5, <1>6, StartsJob
<1> QED BY <1>7, <1>8

\* Every step keeps the crontabs and the command at work as they should be.
LEMMA NextTabs ==
  ASSUME TabInv, JobInv, EditInv, AskInv, [Next]_vars
  PROVE  TabInv' /\ JobInv'
<1>1. DOMAIN config = Plan
  BY DEF EditInv
<1>2. CASE Edit \/ Cancel
  BY <1>2, WindowTabs DEF Edit, Cancel, Idle
<1>3. CASE Answer \/ Reopen \/ \E p \in Plan : Select(p)
  BY <1>3, WindowTabs DEF Answer, Reopen, Select, Idle
<1>4. CASE Save
  <2>1. Good(Shown) /\ config' = [config EXCEPT ![current] = Shown]
    BY <1>4, SavedShown DEF Save, Saved
  <2>2. Shown # NoPlan
    BY <2>1 DEF Good, PlanRecord, NoPlan, Modes
  <2>3. \A q \in Plan : config'[q] = NoPlan => config[q] = NoPlan
    BY <1>1, <2>1, <2>2
  <2> QED BY <1>4, <2>3, WindowTabs DEF Save, Idle
<1>5. CASE SaveAndWork
  <2>1. Good(Shown) /\ config' = [config EXCEPT ![current] = Shown]
    BY <1>5, SavedShown DEF SaveAndWork, Saved
  <2>2. dialog.ask \in Commands /\ current # "none"
    BY <1>5 DEF SaveAndWork, AskInv, Commands
  <2>3. Work(dialog.ask, Shown) /\ UNCHANGED <<tab, left>>
    BY <1>5 DEF SaveAndWork
  <2> DEFINE c == Shown
             what == dialog.ask
  <2> HIDE DEF c, what
  <2>4. Good(c) /\ config' = [config EXCEPT ![current] = c]
    BY <2>1 DEF c
  <2>5. what \in Commands /\ Work(what, c)
    BY <2>2, <2>3 DEF c, what
  <2> QED BY <2>2, <2>3, <2>4, <2>5, WorkTabs
<1>6. CASE Done
  BY <1>6, DoneTabs
<1>7. CASE SwitchType
  <2>1. current \in Plan /\ Good(config[current])
    BY <1>7, Selected DEF SwitchType
  <2>2. Good(Switched(config[current]))
    BY <2>1, SwitchedIsGood
  <2>3. Switched(config[current]) # NoPlan
    BY <2>2 DEF Good, PlanRecord, NoPlan, Modes
  <2>4. config' = config \/ config' = [config EXCEPT ![current] = Switched(config[current])]
    BY <1>7 DEF SwitchType
  <2>5. \A q \in Plan : config'[q] = NoPlan => config[q] = NoPlan
    BY <1>1, <2>3, <2>4
  <2> QED BY <1>7, <2>5, WindowTabs DEF SwitchType, Idle
<1>8. CASE RemovePlan
  <2>1. job' = NoJob
    BY <1>8 DEF RemovePlan, Idle
  <2>2. JobInv'
    BY <2>1 DEF JobInv
  <2> QED BY <1>8, <2>2, RemoveTabs
<1>9. ASSUME NEW p \in Plan, NewPlan(p) PROVE TabInv' /\ JobInv'
  <2>1. ActiveDefaults # NoPlan
    BY DefaultsAreGood DEF Good, PlanRecord, NoPlan, Modes
  <2>2. config' = [config EXCEPT ![p] = ActiveDefaults]
    BY <1>9 DEF NewPlan
  <2>3. \A q \in Plan : config'[q] = NoPlan => config[q] = NoPlan
    BY <1>1, <2>1, <2>2
  <2> QED BY <1>9, <2>3, WindowTabs DEF NewPlan, Idle
<1>10. ASSUME NEW p \in Plan, NEW what \in Commands, Terminal(what, p)
       PROVE  TabInv' /\ JobInv'
  BY <1>10, TerminalTabs
<1>11. ASSUME NEW what \in Commands, Press(what) PROVE TabInv' /\ JobInv'
  <2>1. /\ UNCHANGED <<config, tab, left>> /\ job = NoJob /\ current # "none"
        /\ UNCHANGED job \/ Work(what, config[current])
    BY <1>11 DEF Press, Idle
  <2>2. CASE UNCHANGED job
    BY <2>1, <2>2, WindowTabs
  <2>3. CASE Work(what, config[current])
    <3> DEFINE c == config[current]
    <3>1. Good(c) /\ config' = config /\ c = config[current] /\ Work(what, c)
      BY <2>1, <2>3, Selected
    <3> HIDE DEF c
    <3> QED BY <2>1, <3>1, WorkTabs
  <2> QED BY <2>1, <2>2, <2>3
<1>12. ASSUME NEW a \in Accounts, Owner(a) PROVE TabInv' /\ JobInv'
  BY <1>12, OwnerTabs
<1>13. CASE UNCHANGED vars
  BY <1>13, TabsStay, JobStays DEF vars
<1> QED
  BY <1>2, <1>3, <1>4, <1>5, <1>6, <1>7, <1>8, <1>9, <1>10, <1>11, <1>12, <1>13
     DEF Next, Accounts

-----------------------------------------------------------------------------
(* What the window shows, and the counters *)

\* What the window may show.
LEMMA StatusKind ==
  ASSUME NEW text, NEW p
  PROVE  Status(text, p) \in {"none", "active", "suspended", "no entries"}
BY DEF Status

LEMMA KnownKind ==
  ASSUME NEW p, NEW c
  PROVE  Known(p, c) \in States
BY StatusKind DEF Known, States

LEMMA ShowKind ==
  ASSUME NEW p, NEW ps, Show(p, ps)
  PROVE  known' \in States /\ dirty' = FALSE /\ dialog'.ask = "none"
BY KnownKind DEF Show, Quiet

\* The counter and its bound.
LEMMA Counted ==
  ASSUME KindInv
  PROVE  /\ steps \in Nat
         /\ UNCHANGED steps => steps' \in 0 .. MaxSteps
         /\ Count => steps' \in 0 .. MaxSteps /\ steps' # steps
<1>1. steps \in Nat /\ MaxSteps \in Nat /\ steps \in 0 .. MaxSteps
  <2>1. MaxSteps \in Nat
    BY PlanEditorAssumption
  <2>2. steps \in 0 .. MaxSteps
    BY DEF KindInv
  <2> QED BY <2>1, <2>2
<1> QED BY <1>1 DEF Count

\* What may become of the window.
LEMMA KindStep ==
  ASSUME KindInv,
         UNCHANGED steps \/ Count,
         UNCHANGED dirty \/ dirty' = TRUE \/ dirty' = FALSE,
         UNCHANGED known \/ known' \in States,
         UNCHANGED dialog \/ dialog'.ask \in Asked,
         left' \subseteq Plan
  PROVE  KindInv'
<1>1. steps' \in 0 .. MaxSteps
  BY Counted
<1>2. dirty' \in BOOLEAN
  BY DEF KindInv
<1>3. known' \in States /\ dialog'.ask \in Asked
  BY DEF KindInv
<1> QED BY <1>1, <1>2, <1>3 DEF KindInv

\* Every step keeps the types.
LEMMA NextKind == KindInv /\ EditInv /\ [Next]_vars => KindInv'
<1> SUFFICES ASSUME KindInv, EditInv, [Next]_vars PROVE KindInv'
  OBVIOUS
<1>1. left \subseteq Plan
  BY DEF KindInv
<1>2. Quiet.ask \in Asked
  BY DEF Quiet, Asked
<1>3. ASSUME NEW what \in {"discard", "install", "uninstall"}, NEW p, Ask(what, p)
      PROVE  dialog'.ask \in Asked
  BY <1>3 DEF Ask, Asked
<1>4. ASSUME NEW what, NEW c, Work(what, c) PROVE dialog'.ask \in Asked
  BY <1>4 DEF Work, Asked
<1>5. ASSUME NEW p, NEW ps, Show(p, ps)
      PROVE  known' \in States /\ dirty' = FALSE /\ dialog'.ask \in Asked
  BY <1>5, ShowKind DEF Asked
<1>6. CASE Edit
  BY <1>1, <1>6, KindStep DEF Edit
<1>7. CASE Answer
  BY <1>1, <1>5, <1>7, KindStep DEF Answer
<1>8. CASE Save
  BY <1>1, <1>8, KindStep DEF Save, Saved
<1>9. CASE SaveAndWork
  BY <1>1, <1>4, <1>9, KindStep DEF SaveAndWork, Saved
<1>10. CASE Cancel
  BY <1>1, <1>2, <1>10, KindStep DEF Cancel
<1>11. CASE Done
  BY <1>1, <1>2, <1>11, KindStep, KnownKind DEF Done
<1>12. CASE SwitchType
  BY <1>1, <1>5, <1>12, KindStep DEF SwitchType
<1>13. CASE RemovePlan
  <2>1. current \in Plan
    BY <1>13, DiscoveredFacts DEF EditInv, RemovePlan
  <2>2. left' \subseteq Plan
    BY <1>1, <1>13, <2>1 DEF RemovePlan
  <2> QED BY <1>5, <1>13, <2>2, KindStep DEF RemovePlan
<1>14. CASE Reopen
  BY <1>1, <1>2, <1>14, KindStep, KnownKind DEF Reopen
<1>15. ASSUME NEW p \in Plan, Select(p) PROVE KindInv'
  BY <1>1, <1>3, <1>5, <1>15, KindStep DEF Select
<1>16. ASSUME NEW p \in Plan, NewPlan(p) PROVE KindInv'
  BY <1>1, <1>3, <1>5, <1>16, KindStep DEF NewPlan
<1>17. ASSUME NEW p \in Plan, NEW what, Terminal(what, p) PROVE KindInv'
  BY <1>1, <1>17, KindStep DEF Terminal, window
<1>18. ASSUME NEW what \in Commands, Press(what) PROVE KindInv'
  <2>1. CASE what \in {"install", "uninstall"} /\ Ask(what, current)
    <3>1. dialog'.ask \in Asked
      BY <1>3, <2>1
    <3> QED BY <1>1, <1>18, <3>1, KindStep DEF Press
  <2>2. CASE Work(what, config[current])
    BY <1>1, <1>4, <1>18, <2>2, KindStep DEF Press
  <2> QED BY <1>18, <2>1, <2>2 DEF Press
<1>19. ASSUME NEW a, Owner(a) PROVE KindInv'
  BY <1>1, <1>19, KindStep DEF Owner, window
<1>20. CASE UNCHANGED vars
  BY <1>1, <1>20, KindStep DEF vars, window
<1> QED
  BY <1>6, <1>7, <1>8, <1>9, <1>10, <1>11, <1>12, <1>13, <1>14, <1>15, <1>16, <1>17,
     <1>18, <1>19, <1>20 DEF Next

-----------------------------------------------------------------------------
(* The theorems *)

EditorInv == EditInv /\ AskInv /\ TabInv /\ JobInv /\ KindInv

\* All of it is an invariant, if the files are good to start with.
LEMMA EditorIsInvariant ==
  ASSUME FilesAreGood
  PROVE  Spec => []EditorInv
<1>1. Init => EditorInv
  <2>1. Init => AskInv
    BY DEF Init, AskInv, Quiet
  <2> QED BY <2>1, InitEdit, InitTabs DEF EditorInv
<1>2. EditorInv /\ [Next]_vars => EditorInv'
  BY NextAsk, NextEdit, NextTabs, NextKind DEF EditorInv
<1> QED BY <1>1, <1>2, PTL DEF Spec

\* Whatever the window, a terminal and the owners of the crontabs do, with one
\* another's edits overwritten or not: each plan has one block in its crontab or
\* none, which is what find_block finds, its markers enclose its entries and
\* nothing else, and the window has loaded the plans there are, all valid.
THEOREM TypeOKTheorem ==
  ASSUME FilesAreGood
  PROVE  Spec => []TypeOK
<1>1. EditorInv => TypeOK
  <2> SUFFICES ASSUME EditorInv PROVE TypeOK
    OBVIOUS
  <2>1. ASSUME NEW p \in Plan
        PROVE  /\ config[p] = NoPlan \/ Valid(config[p])
               /\ LET own == {i \in DOMAIN Text(p) : Mine(Text(p)[i], p)}
                  IN  own # {} => /\ own = Min(own) .. Max(own)
                                  /\ SubSeq(Text(p), Min(own), Max(own)) = Find(Text(p), p)
    <3> DEFINE text == Text(p)
               own == {i \in DOMAIN text : Mine(text[i], p)}
    <3>1. text \in Seq(Line) /\ Neat(text, p)
      BY TextFacts DEF EditorInv
    <3>2. own = {i \in DOMAIN text : Mine(text[i], p)}
      OBVIOUS
    <3> HIDE DEF text, own
    <3>3. own # {} => /\ own = Min(own) .. Max(own)
                      /\ SubSeq(text, Min(own), Max(own)) = Find(text, p)
      BY <3>1, <3>2, OwnIsBlock
    <3>4. config[p] = NoPlan \/ Valid(config[p])
      BY DEF EditorInv, EditInv, Good
    <3> QED BY <3>3, <3>4 DEF own, text
  <2>2. plans = Discovered(config) /\ current \in DOMAIN plans \cup {"none"}
    BY DEF EditorInv, EditInv
  <2>3. job = NoJob \/ job.what \in Commands
    BY DEF EditorInv, JobInv
  <2> QED BY <2>1, <2>2, <2>3 DEF TypeOK, EditorInv, KindInv, States, Asked
<1> QED BY <1>1, EditorIsInvariant, PTL

\* A plan removed without an error has no lines left in the crontab, also when the
\* command of another plan was at work on an older copy of it.
THEOREM RemovedIsUnscheduledTheorem ==
  ASSUME FilesAreGood
  PROVE  Spec => []RemovedIsUnscheduled
<1>1. EditorInv => RemovedIsUnscheduled
  <2> SUFFICES ASSUME EditorInv, NEW p \in Plan \ left, config[p] = NoPlan
               PROVE  Lines(p) = {}
    BY DEF RemovedIsUnscheduled
  <2>1. Clear(Text(p), p) /\ Text(p) \in Seq(Line)
    BY TextFacts DEF EditorInv, TabInv
  <2> QED BY <2>1 DEF Lines, ToSet, Clear
<1> QED BY <1>1, EditorIsInvariant, PTL

\* In every mode of a plan, an installed block that is up to date makes cron take
\* on each day what --kind auto would, where cron's day is the program's: with
\* Shift the two differ, as the README says.
THEOREM CronFollowsPlanTheorem ==
  ASSUME FilesAreGood, Shift = 0
  PROVE  Spec => []CronFollowsPlan
<1>1. EditorInv => CronFollowsPlan
  <2> SUFFICES ASSUME EditorInv, NEW p \in Plan, config[p] # NoPlan,
                      Find(Text(p), p) = Block(p, config[p]), NEW d \in Date
               PROVE  Taken(p, d) = Planned(config[p], d)
    BY DEF CronFollowsPlan
  <2> DEFINE c == config[p]
             text == Text(p)
  <2>1. text \in Seq(Line) /\ Neat(text, p)
    BY TextFacts DEF EditorInv
  <2>2. Good(c) /\ Find(text, p) = Block(p, c) /\ c = config[p] /\ text = Text(p)
    BY DEF EditorInv, EditInv
  <2> HIDE DEF c, text
  <2>3. Taken(p, d) = Planned(c, d)
    BY <2>1, <2>2, TakenIsPlanned
  <2> QED BY <2>3 DEF c
<1> QED BY <1>1, EditorIsInvariant, PTL

\* Once a schedule is reported suspended, none of the plan's entries fires.
THEOREM SuspendStopsTheorem ==
  ASSUME FilesAreGood
  PROVE  Spec => SuspendStops
<1> DEFINE Stops ==
      \A p \in Plan :
         /\ job # NoJob /\ job.what = "suspend" /\ job.plan = p /\ job' = NoJob
         /\ tab' = [tab EXCEPT ![Account(p)] = job.text]
         => Firing(p)' = {}
<1>1. EditorInv => Stops
  <2> SUFFICES ASSUME EditorInv, NEW p \in Plan,
                      job # NoJob, job.what = "suspend", job.plan = p,
                      tab' = [tab EXCEPT ![Account(p)] = job.text]
               PROVE  Firing(p)' = {}
    BY DEF Stops
  <2>1. AllOff(job.text, p, TRUE) /\ job.text \in Seq(Line)
    BY DEF EditorInv, JobInv, AllNeat
  <2>2. Text(p)' = job.text
    BY TextFacts DEF EditorInv, TabInv, Text, Account, Accounts
  <2>3. Firing(p)' = {l \in {k \in ToSet(job.text) : Mine(k, p)} : l.is = "entry" /\ ~l.off}
    BY <2>2 DEF Firing, Lines
  <2>4. ASSUME NEW l \in ToSet(job.text), Mine(l, p), l.is = "entry" PROVE l.off = TRUE
    BY <2>1, <2>4 DEF AllOff, ToSet
  <2> QED BY <2>3, <2>4
<1>2. EditorInv => [Stops]_vars
  BY <1>1
<1> QED BY <1>2, EditorIsInvariant, PTL DEF SuspendStops

\* Whatever a command does to a plan's block, the lines of the owner and the blocks
\* of the other plans stay, in their order, where nobody edits a crontab while a
\* command is at work on it: with Overlap the edit may be lost, as the README says.
THEOREM OwnerLinesKeptTheorem ==
  ASSUME FilesAreGood, Overlap = FALSE
  PROVE  Spec => OwnerLinesKept
<1> DEFINE Kept ==
      steps' = steps =>
         \A a \in DOMAIN tab : tab'[a] = tab[a] \/
            \E p \in Plan : Others(tab'[a], p) = Others(tab[a], p)
<1>1. EditorInv /\ [Next]_vars => Kept
  <2> SUFFICES ASSUME EditorInv, [Next]_vars PROVE Kept
    OBVIOUS
  <2>1. CASE tab' = tab
    BY <2>1
  <2>2. CASE Done
    <3>1. job # NoJob /\ UNCHANGED <<config, left>> /\ job.plan \in Plan
      BY <2>2 DEF Done, Write, Fail, EditorInv, JobInv
    <3>2. tab' = tab \/ tab' = [tab EXCEPT ![Account(job.plan)] = job.text]
      BY <2>2 DEF Done, Write, Fail
    <3>3. CASE tab' = [tab EXCEPT ![Account(job.plan)] = job.text]
      <4>1. TabInv /\ JobInv
        BY DEF EditorInv
      <4>2. \A a \in DOMAIN tab : tab'[a] = tab[a] \/
              Others(tab'[a], job.plan) = Others(tab[a], job.plan)
        BY <3>1, <3>3, <4>1, WritesTab
      <4> QED BY <3>1, <4>2
    <3> QED BY <2>1, <3>2, <3>3
  <2>3. CASE RemovePlan
    BY <2>3, RemoveTabs DEF EditorInv
  <2>4. ASSUME NEW a, Owner(a) PROVE Kept
    BY <2>4, Counted DEF Owner, EditorInv
  <2> QED
    BY <2>1, <2>2, <2>3, <2>4 DEF Next, Edit, Answer, Save, SaveAndWork, Cancel,
       SwitchType, Reopen, Select, NewPlan, Terminal, Read, Press, vars
<1>2. EditorInv /\ [Next]_vars => [Kept]_vars
  BY <1>1
<1> QED BY <1>2, EditorIsInvariant, PTL DEF OwnerLinesKept, Spec

=============================================================================
