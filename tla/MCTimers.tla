------------------------------ MODULE MCTimers ------------------------------
(* Instances of Timers for TLC: the specs that a few procs may have. *)
EXTENDS Timers, TLC

CONSTANTS p1, p2

S(sched, at, deadline, run) == [sched |-> sched, at |-> at, deadline |-> deadline, run |-> run]

Remind(t) == S("once", {t}, {}, FALSE)
CronTell == S("cron", {1, 2}, {}, FALSE)
CronFork == S("cron", {1, 2}, {}, TRUE)
OnceFork(t) == S("once", {t}, {}, TRUE)
Deadline(t, run) == S("none", {}, {t}, run)
Junk == S("junk", {}, {}, FALSE)

\* A reminder that is rewritten and broken, next to a cron with a command,
\* a deferred service, or a plan or service with a deadline.
MCMixed == (p1 :> {Remind(2), CronTell, Junk})
           @@ (p2 :> {CronFork, OnceFork(2), Deadline(1, TRUE), Deadline(2, FALSE)})

MCReminders == (p1 :> {Remind(2), OnceFork(1)}) @@ (p2 :> {Remind(2), CronTell})
=============================================================================
