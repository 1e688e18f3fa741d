------------------------- MODULE HandlerApplication -------------------------
(***************************************************************************)
(* KTp::TelepathyHandlerApplication: a handler process counts the jobs it  *)
(* was given and quits when it was idle for a while.  One QTimer, which    *)
(* repeats until it is stopped, serves first the initial timeout (no job   *)
(* came at all) and then the timeout after the last job.                   *)
(*                                                                         *)
(* Everything runs in the main thread.  Between quit() and the end of the  *)
(* event loop, events that are already queued are still delivered.         *)
(***************************************************************************)
EXTENDS Integers

CONSTANTS
    Timeouts,       \* values of the two timeouts, in units of the timer
    MaxJobs         \* bound: jobs over the life of the process

ASSUME HandlerAssumption == Timeouts \subseteq Int /\ MaxJobs \in Nat

VARIABLES
    s_persist, initialTimeout, timeout,     \* set at start
    active,             \* the timer runs
    onInitial, onTimer, \* timeout() is connected to the slot for it
    firstJobStarted,
    jobCount,
    quit,               \* quit() was called
    running,            \* history: jobs that were started and not finished
    started,            \* history: all jobs
    cut                 \* history: jobs that were running when quit() was called

config == <<s_persist, initialTimeout, timeout>>
timerVars == <<active, onInitial, onTimer>>
history == <<running, started, cut>>
handlerVars == <<config, timerVars, firstJobStarted, jobCount, quit, history>>

\* The constructor and Private::init.
HandlerInit ==
    /\ s_persist \in BOOLEAN
    /\ initialTimeout \in Timeouts
    /\ timeout \in Timeouts
    /\ active = (~s_persist /\ initialTimeout >= 0)
    /\ onInitial = active
    /\ onTimer = FALSE
    /\ firstJobStarted = FALSE
    /\ jobCount = 0
    /\ quit = FALSE
    /\ running = 0
    /\ started = 0
    /\ cut = 0

-----------------------------------------------------------------------------
newJob ==
    /\ started < MaxJobs
    /\ started' = started + 1
    /\ running' = running + 1
    /\ jobCount' = jobCount + 1
    /\ IF s_persist THEN UNCHANGED <<timerVars, firstJobStarted>>
       ELSE /\ active' = FALSE
            /\ onInitial' = (onInitial /\ (firstJobStarted \/ initialTimeout = 0))
            /\ onTimer' = (onTimer \/ (~firstJobStarted /\ timeout >= 0))
            /\ firstJobStarted' = TRUE
    /\ UNCHANGED <<config, quit, cut>>

\* Mutant: the last job is recognised by the count after it, off by one.
jobFinishedEarly ==
    /\ running > 0
    /\ running' = running - 1
    /\ jobCount' = jobCount - 1
    /\ active' = IF jobCount < 1 /\ ~s_persist /\ timeout >= 0 THEN TRUE ELSE active
    /\ UNCHANGED <<config, onInitial, onTimer, firstJobStarted, quit, started, cut>>

\* Mutant: the count is kept like a flag, which any finished job clears.
jobFinishedClears ==
    /\ running > 0
    /\ running' = running - 1
    /\ jobCount' = 0
    /\ active' = IF ~s_persist /\ timeout >= 0 THEN TRUE ELSE active
    /\ UNCHANGED <<config, onInitial, onTimer, firstJobStarted, quit, started, cut>>

\* Called once for each job; the last one starts the timer.
jobFinished ==
    /\ running > 0
    /\ running' = running - 1
    /\ jobCount' = jobCount - 1
    /\ active' = IF jobCount <= 1 /\ ~s_persist /\ timeout >= 0 THEN TRUE ELSE active
    /\ UNCHANGED <<config, onInitial, onTimer, firstJobStarted, quit, started, cut>>

\* The timer fires, for _k_onInitialTimeout or _k_onTimeout, or both: the first
\* of them quits if no job is counted, and leaves a count that is not zero.
TimeOut ==
    /\ active
    /\ onInitial \/ onTimer
    /\ jobCount = 0
    /\ jobCount' = jobCount - 1
    /\ quit' = TRUE
    /\ cut' = IF quit THEN cut ELSE running
    /\ UNCHANGED <<config, timerVars, firstJobStarted, running, started>>

HandlerNext == newJob \/ jobFinished \/ TimeOut

HandlerSpec == HandlerInit /\ [][HandlerNext]_handlerVars

\* The event loop delivers the timer's events; jobs need not end.
FairHandlerSpec == HandlerSpec /\ WF_handlerVars(TimeOut)

-----------------------------------------------------------------------------
\* All values have their types.
HandlerTypeOK ==
    /\ s_persist \in BOOLEAN /\ initialTimeout \in Timeouts /\ timeout \in Timeouts
    /\ active \in BOOLEAN /\ onInitial \in BOOLEAN /\ onTimer \in BOOLEAN
    /\ firstJobStarted \in BOOLEAN
    /\ jobCount \in Int
    /\ quit \in BOOLEAN
    /\ running \in Nat /\ started \in Nat /\ cut \in Nat

\* The process never quits under a running job: a timer that was started for the
\* end of an earlier job does not end a later one.
QuitsOnlyIdle == cut = 0

\* A process that may time out quits once it stays without jobs; one that was
\* given timeouts below zero, or --persist, need not.
Expires == ~s_persist /\ IF started = 0 THEN initialTimeout >= 0 ELSE timeout >= 0

IdleQuits == <>[](running = 0) => <>(quit \/ ~Expires)

=============================================================================
