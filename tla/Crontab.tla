------------------------------ MODULE Crontab ------------------------------
(***************************************************************************)
(* Plans on cron: what schedule.py renders a plan's schedule into, how the *)
(* schedule commands of worker.py and of the privileged helper rewrite the *)
(* crontab around what its owner keeps there, and what a run that cron     *)
(* starts makes of the day.                                                *)
(*                                                                         *)
(* A crontab is a sequence of lines: the owner's own lines, the markers of *)
(* a plan's managed block, and entries, each with the days of the month    *)
(* and of the week it names, and whether it is commented out.  Blank lines *)
(* and times of day are left out.                                          *)
(***************************************************************************)
EXTENDS Integers, SequencesExt

CONSTANTS
    Plan,       \* plan names
    SystemPlan, \* those whose block is in root's crontab
    OwnerLine,  \* lines of the crontabs' owners
    Weekdays,   \* number of days of a week, of which 0 is Sunday
    MonthDays,  \* number of days of a month
    Shift,      \* days from cron's day to the program's, in UTC, when an entry
                \* fires
    Overlap     \* crontabs are edited while a command is at work on them

Weekday == 0 .. Weekdays - 1
MonthDay == 1 .. MonthDays

ASSUME CrontabAssumption ==
    /\ SystemPlan \subseteq Plan /\ OwnerLine \cap Plan = {}
    /\ {Weekdays, MonthDays} \subseteq Nat \ {0}
    /\ Shift \in Int /\ Overlap \in BOOLEAN

VARIABLES
    config, \* the plan files: the configuration of each plan, or NoPlan
    tab,    \* the crontab of each account
    job     \* the schedule command at work: what it will write

Modes == {"weekly", "monthly", "archive"}
IncrModes == {"weekdays", "except_full", "every_n_days", "disabled"}
Policies == {"max_cycles", "max_age_days", "max_size_gb", "keep_all"}
NoPlan == [mode |-> "none"]

\* PlanConfig.validate, of what the model keeps of a plan: when its full
\* backups and its incrementals run, its retention policy and the rest.
Valid(c) ==
    /\ c.rest # "no sources" /\ c.mode \in Modes /\ c.policy \in Policies
    /\ c.mode = "weekly" =>
         /\ c.full # {} /\ c.incr # "every_n_days"
         /\ c.incr = "weekdays" => c.days # {} /\ c.full \cap c.days = {}
    /\ c.mode = "monthly" =>
         /\ c.dom \in MonthDay /\ c.incr # "except_full"
         /\ c.incr = "weekdays" => c.days # {}
         /\ c.incr = "every_n_days" => c.n \in 2 .. 28

-----------------------------------------------------------------------------
(* schedule.render_entries *)

Entry(p, kind, doms, dows) ==
    [is |-> "entry", plan |-> p, kind |-> kind, doms |-> doms, dows |-> dows,
     off |-> FALSE]

\* cron's */n.
EveryNth(n) == {d \in MonthDay : (d - 1) % n = 0}

IncrEntries(p, c) ==
    LET on(doms, dows) == <<Entry(p, "incr", doms, dows)>>
    IN  CASE c.incr = "disabled" -> << >>
          [] c.incr = "except_full" ->
               IF c.full = Weekday THEN << >> ELSE on(MonthDay, Weekday \ c.full)
          [] c.incr = "every_n_days" -> on(EveryNth(c.n), Weekday)
          [] c.incr = "weekdays" -> on(MonthDay, c.days)

Rendered(p, c) ==
    CASE c.mode = "archive" -> << >>
      [] c.mode = "weekly" ->
           <<Entry(p, "full", MonthDay, c.full)>> \o IncrEntries(p, c)
      [] c.mode = "monthly" ->
           <<Entry(p, "full", {c.dom}, Weekday)>> \o IncrEntries(p, c)

Start(p) == [is |-> "start", plan |-> p]
End(p) == [is |-> "end", plan |-> p]
Block(p, c) == <<Start(p)>> \o Rendered(p, c) \o <<End(p)>>

-----------------------------------------------------------------------------
(* Rewriting a crontab *)

\* Its lines that are in S.
Only(text, S) ==
    LET kept[i \in 0 .. Len(text)] ==
          IF i = 0 THEN << >>
          ELSE IF text[i] \in S THEN Append(kept[i - 1], text[i]) ELSE kept[i - 1]
    IN  kept[Len(text)]

\* The loop of replace_block, remove_block and _transform_block: lines outside
\* plan p's block are kept, its markers and the lines inside are replaced.  A
\* block without its end marker extends to the end of the crontab.
Walked(out, inside, found) == [out |-> out, inside |-> inside, found |-> found]

Walk(text, p, start, inner, end) ==
    LET walk[i \in 0 .. Len(text)] ==
          IF i = 0 THEN Walked(<< >>, FALSE, FALSE)
          ELSE LET acc == walk[i - 1]
                   line == text[i]
               IN  IF ~acc.inside
                   THEN IF line = Start(p)
                        THEN Walked(acc.out \o start, TRUE, acc.found)
                        ELSE Walked(Append(acc.out, line), FALSE, acc.found)
                   ELSE IF line = End(p)
                        THEN Walked(acc.out \o end, FALSE, TRUE)
                        ELSE Walked(acc.out \o inner[line], TRUE, acc.found)
    IN  walk[Len(text)]

Dropped(text) == [line \in ToSet(text) |-> << >>]

\* Faulty variant of Replace: the block is always appended.
ReplaceTwice(text, p, block) ==
    Walk(text, p, << >>, Dropped(text), block).out \o block

Replace(text, p, block) ==
    LET w == Walk(text, p, << >>, Dropped(text), block)
    IN  IF w.found THEN w.out ELSE w.out \o block

\* Faulty variant of Removed: the rest of the crontab counts as the block.
RemovedToEnd(text, p) ==
    SubSeq(text, 1, SelectInSeq(Append(text, Start(p)), LAMBDA l : l = Start(p)) - 1)

Removed(text, p) == Walk(text, p, << >>, Dropped(text), << >>).out

\* suspend_block and resume_block.
Toggle(text, p, off) ==
    LET flipped == [line \in ToSet(text) |->
                      <<IF line.is = "entry" THEN [line EXCEPT !.off = off] ELSE line>>]
    IN  Walk(text, p, <<Start(p)>>, flipped, <<End(p)>>).out

\* find_block: empty without a start marker and an end marker after it.
Find(text, p) ==
    LET starts == {i \in DOMAIN text : text[i] = Start(p)}
        ends == {j \in DOMAIN text : text[j] = End(p) /\ \E i \in starts : i < j}
    IN  IF ends = {} THEN << >> ELSE SubSeq(text, Min(starts), Min(ends))

\* Faulty variant of Status: one suspended entry is enough.
StatusOfAny(text, p) ==
    LET offs == {l.off : l \in {m \in ToSet(Find(text, p)) : m.is = "entry"}}
    IN  IF Find(text, p) = << >> THEN "none"
        ELSE IF TRUE \in offs THEN "suspended"
        ELSE IF FALSE \in offs THEN "active" ELSE "no entries"

\* is_block_suspended, with the two cases of its None told apart.
Status(text, p) ==
    LET block == Find(text, p)
        offs == {l.off : l \in {m \in ToSet(block) : m.is = "entry"}}
    IN  IF block = << >> THEN "none"
        ELSE IF FALSE \in offs THEN "active"
        ELSE IF TRUE \in offs THEN "suspended" ELSE "no entries"

-----------------------------------------------------------------------------
(* The schedule commands *)

Account(p) == IF p \in SystemPlan THEN "root" ELSE "user"
Text(p) == tab[Account(p)]
Commands == {"install", "uninstall", "suspend", "resume"}

\* Nothing to do, so nothing is written (the helper of the system plans looks
\* at less than the worker does).
Moot(what, p) ==
    IF p \in SystemPlan
    THEN what \in {"suspend", "resume"} /\ ~Contains(Text(p), Start(p))
    ELSE \/ what # "install" /\ Find(Text(p), p) = << >>
         \/ what = "suspend" /\ Status(Text(p), p) = "suspended"
         \/ what = "resume" /\ Status(Text(p), p) = "active"

Outcome(what, p) ==
    CASE what = "install" -> Replace(Text(p), p, Block(p, config[p]))
      [] what = "uninstall" -> Removed(Text(p), p)
      [] what = "suspend" -> Toggle(Text(p), p, TRUE)
      [] what = "resume" -> Toggle(Text(p), p, FALSE)

NoJob == [what |-> "none"]

\* A command reads the crontab and works out the new one.
Read(what, p) ==
    /\ job = NoJob /\ config[p] # NoPlan
    /\ job' = [what |-> what, plan |-> p, moot |-> Moot(what, p),
               text |-> IF Moot(what, p) THEN Text(p) ELSE Outcome(what, p)]
    /\ UNCHANGED <<config, tab>>

\* It writes it.
Write ==
    /\ job # NoJob
    /\ tab' = IF job.moot THEN tab ELSE [tab EXCEPT ![Account(job.plan)] = job.text]
    /\ job' = NoJob
    /\ UNCHANGED config

\* It fails: the crontab cannot be read or written, the authentication is
\* cancelled, the path of the program is not acceptable.
Fail ==
    /\ job # NoJob /\ job' = NoJob
    /\ UNCHANGED <<config, tab>>

-----------------------------------------------------------------------------
(* The owner edits the crontab *)

EditTab(a) ==
    /\ job = NoJob \/ Overlap
    /\ \/ \E l \in OwnerLine :
            LET line == [is |-> "owner", text |-> l]
            IN  tab' = [tab EXCEPT ![a] = IF Contains(@, line)
                                          THEN Only(@, ToSet(@) \ {line})
                                          ELSE Append(@, line)]
       \/ \E i \in DOMAIN tab[a] :
            /\ tab[a][i].is = "entry"
            /\ tab' = [tab EXCEPT ![a][i].off = ~@]
    /\ UNCHANGED <<config, job>>

-----------------------------------------------------------------------------
(* What runs on a day *)

Date == [dow : Weekday, dom : MonthDay]

\* worker._is_full_day
IsFullDay(c, d) ==
    \/ c.mode = "weekly" /\ d.dow \in c.full
    \/ c.mode = "monthly" /\ d.dom = c.dom

\* Faulty variant of IsIncrDay: days of the month counted from zero.
IsIncrDayFromZero(c, d) ==
    /\ c.mode # "archive"
    /\ CASE c.incr = "except_full" -> d.dow \notin c.full
         [] c.incr = "weekdays" -> d.dow \in c.days
         [] c.incr = "every_n_days" -> d.dom % c.n = 0
         [] OTHER -> FALSE

\* worker._is_incr_day
IsIncrDay(c, d) ==
    /\ c.mode # "archive"
    /\ CASE c.incr = "except_full" -> d.dow \notin c.full
         [] c.incr = "weekdays" -> d.dow \in c.days
         [] c.incr = "every_n_days" -> (d.dom - 1) % c.n = 0
         [] OTHER -> FALSE

\* The kinds of backup that --kind auto would take on a day.
Planned(c, d) ==
    IF IsFullDay(c, d) THEN {"full"}
    ELSE IF IsIncrDay(c, d) THEN {"incr"} ELSE {}

\* The day in UTC at which an entry fires on day d.
Utc(d) == [dow |-> (d.dow + Shift) % Weekdays,
           dom |-> 1 + ((d.dom - 1 + Shift) % MonthDays)]

\* The kinds that cron's entries for plan p take on a day: an incremental is
\* put off on a day of full backups (action_backup).
Taken(p, d) ==
    {e.kind : e \in {l \in ToSet(Text(p)) :
       /\ l.is = "entry" /\ l.plan = p /\ ~l.off
       /\ d.dow \in l.dows /\ d.dom \in l.doms
       /\ ~(l.kind = "incr" /\ IsFullDay(config[p], Utc(d)))}}

=============================================================================
