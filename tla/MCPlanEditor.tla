---------------------------- MODULE MCPlanEditor ----------------------------
(***************************************************************************)
(* Three plans, two in the user's crontab and one in root's; a week of two *)
(* days and a month of three.                                               *)
(***************************************************************************)
EXTENDS PlanEditor

MCFirstFile ==
    [home |-> [mode |-> "weekly", full |-> {0}, dom |-> 1, n |-> 3,
               incr |-> "except_full", days |-> {1}, policy |-> "max_cycles",
               rest |-> "r"],
     system |-> [mode |-> "monthly", full |-> {0}, dom |-> 1, n |-> 3,
                 incr |-> "every_n_days", days |-> {1}, policy |-> "max_cycles",
                 rest |-> "r"]]

=============================================================================
