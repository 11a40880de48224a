----------------------------- MODULE JobTracker -----------------------------
(***************************************************************************)
(* gui/reindex_tracker.py: the reindex and recover jobs that the window    *)
(* starts, which run on without it.  What a job leaves behind is a pid     *)
(* file, written by the window, and a done file, written by the shell that *)
(* wraps the worker; a window opened later adopts the job by them.         *)
(*                                                                         *)
(* An archive needs at most one of the two kinds of job at a time, so jobs *)
(* are named by their archives.  A pid is not given to another process     *)
(* while a handle watches it.                                              *)
(***************************************************************************)
EXTENDS Integers, FiniteSets

CONSTANTS
    Archive,     \* archives, each with its plan, backup and shard
    DiesAtLaunch \* the window can die between a launch and its pid file

VARIABLES
    need,    \* what keeps an archive's files from being listed
    handle,  \* whether the tracker has a handle of the job, and which kind
    running, \* wrappers of the job that are running
    pid,     \* archives with a pid file
    done,    \* the exit code in the done file, or "none"
    result   \* how the wrapper that ended last ended

jobs == <<handle, running, pid, done, result>>

Needs == {"none", "recover", "reindex", "mirror"}
Handles == {"none", "own", "adopted"}
Codes == {"none", "ok", "failed"}

JobsInit ==
    /\ handle = [a \in Archive |-> "none"] /\ running = [a \in Archive |-> 0]
    /\ pid = {} /\ done = [a \in Archive |-> "none"]
    /\ result = [a \in Archive |-> "none"]

JobsTypeOK ==
    /\ need \in [Archive -> Needs] /\ handle \in [Archive -> Handles]
    /\ running \in [Archive -> Nat] /\ pid \subseteq Archive
    /\ done \in [Archive -> Codes] /\ result \in [Archive -> Codes \cup {"killed"}]

\* Faulty variant of Launch: a done file left over is not cleared.
LaunchOverDone(a) ==
    /\ handle[a] = "none"
    /\ running' = [running EXCEPT ![a] = @ + 1]
    /\ handle' = [handle EXCEPT ![a] = "own"]
    /\ pid' = pid \cup {a} /\ result' = [result EXCEPT ![a] = "none"]
    /\ UNCHANGED <<done, need>>

\* WorkerJobTracker.start, where there is no handle yet and the launch works.
Launch(a) ==
    /\ handle[a] = "none"
    /\ done' = [done EXCEPT ![a] = "none"]
    /\ running' = [running EXCEPT ![a] = @ + 1]
    /\ handle' = [handle EXCEPT ![a] = "own"]
    /\ pid' = pid \cup {a} /\ result' = [result EXCEPT ![a] = "none"]
    /\ UNCHANGED need

\* Where it does not.
LaunchFails(a) ==
    /\ handle[a] = "none"
    /\ done' = [done EXCEPT ![a] = "none"]
    /\ UNCHANGED <<need, handle, running, pid, result>>

\* The worker ends, and the wrapper writes its exit code.  A wrapper that is
\* killed writes nothing, whatever the worker had done.
JobEnds(a) ==
    /\ running[a] > 0
    /\ running' = [running EXCEPT ![a] = @ - 1]
    /\ \E r \in {"ok", "failed", "killed"} :
         /\ result' = [result EXCEPT ![a] = r]
         /\ done' = IF r = "killed" THEN done ELSE [done EXCEPT ![a] = r]
         /\ need' \in IF r = "failed" THEN {need}
                      ELSE {[need EXCEPT ![a] = "none"]} \cup
                           IF r = "killed" THEN {need} ELSE {}
    /\ UNCHANGED <<handle, pid>>

\* Faulty variant of Ended: the exit code is waited for.
EndedWithCode(a) == handle[a] # "none" /\ running[a] = 0 /\ done[a] # "none"

\* What _poll looks for: the process is gone.
Ended(a) == handle[a] # "none" /\ running[a] = 0

\* _poll, when the job has ended: its files are removed and the outcome
\* reported, a failure if there is no exit code.
Report(a) ==
    /\ Ended(a)
    /\ pid' = pid \ {a} /\ done' = [done EXCEPT ![a] = "none"]
    /\ handle' = [handle EXCEPT ![a] = "none"]
    /\ UNCHANGED <<need, running, result>>

\* Faulty variant of Adopted: pid files of running jobs are left alone.
AdoptedNone(as) == {}

\* The jobs that adopt takes over, among the archives as of a plan.
Adopted(as) == {a \in as \cap pid : handle[a] = "none" /\ running[a] > 0}

\* WorkerJobTracker.adopt: the files of the other jobs without a handle go.
Adopt(as) ==
    LET stale == {a \in as \cap pid : handle[a] = "none" /\ running[a] = 0}
    IN  /\ handle' = [a \in Archive |-> IF a \in Adopted(as) THEN "adopted"
                                        ELSE handle[a]]
        /\ pid' = pid \ stale
        /\ done' = [a \in Archive |-> IF a \in stale THEN "none" ELSE done[a]]
        /\ UNCHANGED <<need, running, result>>

\* The window closes, or dies: also in _poll, between the removals of the two
\* files, or in start, before the pid file is written.
WindowEnds ==
    /\ handle' = [a \in Archive |-> "none"]
    /\ UNCHANGED <<need, result>>
    /\ \/ UNCHANGED <<running, pid, done>>
       \/ /\ \E a \in Archive : Ended(a) /\ pid' = pid \ {a}
          /\ UNCHANGED <<running, done>>
       \/ /\ DiesAtLaunch
          /\ \E a \in Archive :
               /\ handle[a] = "none"
               /\ running' = [running EXCEPT ![a] = @ + 1]
               /\ done' = [done EXCEPT ![a] = "none"]
          /\ UNCHANGED pid

=============================================================================
