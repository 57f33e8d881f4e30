---------------------------- MODULE TaskScheduler ----------------------------
(***************************************************************************)
(* evoid_tasks/scheduler.py: the periodic tasks, one-shot tasks and event   *)
(* handlers of a TaskScheduler, as tasks of one asyncio event loop.  A step *)
(* is what a task does between two suspension points.  A lifecycle is one   *)
(* asyncio task running _run_lifecycle, numbered in the order of creation.  *)
(* Functions and hooks of the user may raise any exception, CancelledError  *)
(* too, and do not swallow the CancelledError that is thrown into them.     *)
(***************************************************************************)
EXTENDS Naturals, Sequences, FiniteSets

CONSTANTS
    Funcs,          \* the functions that are scheduled
    Hooked,         \* those with on_start, on_error and on_stop
    Shots,          \* the calls of run
    Listeners,      \* the functions on is called with
    MaxLifecycles,  \* bound: the lifecycles created
    MaxEmits        \* bound: the events emitted

ASSUME FuncsAssumption == Hooked \subseteq Funcs
ASSUME BoundsAssumption == MaxLifecycles \in Nat /\ MaxEmits \in Nat

VARIABLES
    func,       \* the function of each lifecycle
    pc,         \* where each lifecycle is suspended, or how it ended
    running,    \* _running: the lifecycle in the entry of each function, or 0
    cancelling, \* the lifecycles whose task was cancelled and has not seen it
    begun,      \* the lifecycles whose coroutine has begun
    stopped,    \* the lifecycles whose on_stop was called
    shot,       \* the one-shot tasks; "running" and "done" ones are in _tasks
    handlers,   \* the functions listening to the event
    emits,      \* how often it was emitted
    events      \* the handler tasks that have not ended

lifeVars == <<func, pc, running, cancelling, begun, stopped>>
restVars == <<shot, handlers, emits, events>>
vars == <<lifeVars, restVars>>

Lifecycles == DOMAIN func
Suspended == {"starting", "ticking", "handling", "sleeping"}
InOnStop == {"stopping", "quitting"}      \* after cancel, after its own CancelledError
Ended == {"failed", "cancelled", "quit"}

TypeOK ==
    /\ func \in Seq(Funcs) /\ Len(func) <= MaxLifecycles
    /\ pc \in [Lifecycles -> {"created"} \cup Suspended \cup InOnStop \cup Ended]
    /\ running \in [Funcs -> {0} \cup Lifecycles]
    /\ cancelling \subseteq Lifecycles /\ begun \subseteq Lifecycles /\ stopped \subseteq begun
    /\ shot \in [Shots -> {"none", "running", "done", "cleaned"}]
    /\ handlers \subseteq Listeners
    /\ emits \in 0 .. MaxEmits
    /\ events \subseteq (1 .. MaxEmits) \X Listeners

Init ==
    /\ func = << >> /\ pc = << >>
    /\ running = [f \in Funcs |-> 0]
    /\ cancelling = {} /\ begun = {} /\ stopped = {}
    /\ shot = [s \in Shots |-> "none"]
    /\ handlers = {} /\ emits = 0 /\ events = {}

-----------------------------------------------------------------------------
(* Control.                                                                *)

\* task(interval=...): the entry of the function is overwritten, also when
\* it names a lifecycle that still runs.
Task(f) ==
    /\ Len(func) < MaxLifecycles
    /\ func' = Append(func, f)
    /\ pc' = Append(pc, "created")
    /\ running' = [running EXCEPT ![f] = Len(func) + 1]
    /\ UNCHANGED <<cancelling, begun, stopped, restVars>>

\* Mutant: the entries are dropped, the tasks go on.
DropEntries(fs) ==
    /\ running' = [f \in Funcs |-> IF f \in fs THEN 0 ELSE running[f]]
    /\ UNCHANGED cancelling

\* Mutant: the tasks are cancelled, the entries stay.
CancelOnly(fs) ==
    /\ cancelling' = cancelling \cup {r \in Lifecycles : pc[r] \notin Ended /\ func[r] \in fs /\ running[func[r]] = r}
    /\ UNCHANGED running

\* Task.cancel() on the lifecycles in the entries of fs, and the entries go.
CancelEntries(fs) ==
    /\ cancelling' = cancelling \cup {r \in Lifecycles : pc[r] \notin Ended /\ func[r] \in fs /\ running[func[r]] = r}
    /\ running' = [f \in Funcs |-> IF f \in fs THEN 0 ELSE running[f]]

Cancel(f) ==
    /\ running[f] # 0
    /\ CancelEntries({f})
    /\ UNCHANGED <<func, pc, begun, stopped, restVars>>

Shutdown ==
    /\ \E f \in Funcs : running[f] # 0
    /\ CancelEntries(Funcs)
    /\ UNCHANGED <<func, pc, begun, stopped, restVars>>

-----------------------------------------------------------------------------
(* _run_lifecycle.                                                         *)

Goto(r, place) == pc' = [pc EXCEPT ![r] = place]
HasHooks(r) == func[r] \in Hooked
UnchangedButPc == UNCHANGED <<func, running, cancelling, begun, stopped, restVars>>

Begin(r) ==
    /\ pc[r] = "created" /\ r \notin cancelling
    /\ Goto(r, IF HasHooks(r) THEN "starting" ELSE "ticking")
    /\ begun' = begun \cup {r}
    /\ UNCHANGED <<func, running, cancelling, stopped, restVars>>

\* on_start, the function, on_error and the sleep return.
Returns(r) ==
    /\ pc[r] \in Suspended /\ r \notin cancelling
    /\ Goto(r, IF pc[r] \in {"starting", "sleeping"} THEN "ticking" ELSE "sleeping")
    /\ UnchangedButPc

\* An exception of the function is handled, one of on_start or on_error ends
\* the lifecycle; its entry in _running stays.  Code that cancelled its own
\* lifecycle can still raise: the cancellation waits for the next await.
Raises(r) ==
    /\ pc[r] \in {"starting", "ticking", "handling"}
    /\ IF pc[r] = "ticking"
       THEN Goto(r, IF HasHooks(r) THEN "handling" ELSE "sleeping") /\ UNCHANGED cancelling
       ELSE Goto(r, "failed") /\ cancelling' = cancelling \ {r}
    /\ UNCHANGED <<func, running, begun, stopped, restVars>>

\* The function, on_start or on_error raises CancelledError itself: it passes
\* `except Exception`, and the lifecycle ends through on_stop as if it had
\* been cancelled, but its entry in _running stays.  A cancellation that is
\* still to come interrupts on_stop.
Quits(r) ==
    /\ pc[r] \in {"starting", "ticking", "handling"}
    /\ IF HasHooks(r)
       THEN Goto(r, "quitting") /\ stopped' = stopped \cup {r} /\ UNCHANGED cancelling
       ELSE Goto(r, "quit") /\ cancelling' = cancelling \ {r} /\ UNCHANGED stopped
    /\ UNCHANGED <<func, running, begun, restVars>>

\* Mutant: the handler of CancelledError is around the loop only.
CancelInLoopOnly(r) ==
    /\ r \in cancelling
    /\ cancelling' = cancelling \ {r}
    /\ IF pc[r] \in Suspended \ {"starting"} /\ HasHooks(r)
       THEN Goto(r, "stopping") /\ stopped' = stopped \cup {r}
       ELSE Goto(r, IF pc[r] = "quitting" THEN "quit" ELSE "cancelled") /\ UNCHANGED stopped
    /\ UNCHANGED <<func, running, begun, restVars>>

\* Mutant: a cancellation in on_error is taken for one more error.
CancelSwallowed(r) ==
    /\ r \in cancelling
    /\ cancelling' = cancelling \ {r}
    /\ IF pc[r] = "handling" THEN Goto(r, "sleeping") /\ UNCHANGED stopped
       ELSE IF pc[r] \in Suspended /\ HasHooks(r)
       THEN Goto(r, "stopping") /\ stopped' = stopped \cup {r}
       ELSE Goto(r, IF pc[r] = "quitting" THEN "quit" ELSE "cancelled") /\ UNCHANGED stopped
    /\ UNCHANGED <<func, running, begun, restVars>>

\* The task sees its cancellation: a coroutine that has not begun never
\* begins, one in on_stop ends there, any other calls on_stop.
CancelArrives(r) ==
    /\ r \in cancelling
    /\ cancelling' = cancelling \ {r}
    /\ IF pc[r] \in Suspended /\ HasHooks(r)
       THEN Goto(r, "stopping") /\ stopped' = stopped \cup {r}
       ELSE Goto(r, IF pc[r] = "quitting" THEN "quit" ELSE "cancelled") /\ UNCHANGED stopped
    /\ UNCHANGED <<func, running, begun, restVars>>

\* on_stop returns or raises.
OnStopEnds(r) ==
    /\ pc[r] \in InOnStop
    /\ Goto(r, IF pc[r] = "quitting" THEN "quit" ELSE "cancelled")
    /\ cancelling' = cancelling \ {r}
    /\ UNCHANGED <<func, running, begun, stopped, restVars>>

LifecycleStep(r) ==
    \/ Begin(r) \/ Returns(r) \/ Raises(r) \/ Quits(r)
    \/ CancelArrives(r) \/ OnStopEnds(r)

-----------------------------------------------------------------------------
(* One-shot tasks and events.                                              *)

Run(s) ==
    /\ shot[s] = "none"
    /\ shot' = [shot EXCEPT ![s] = "running"]
    /\ UNCHANGED <<lifeVars, handlers, emits, events>>

\* _exec_once returns or raises CancelledError; its done callback then
\* removes the definition from _tasks.
ExecOnce(s) ==
    /\ shot[s] = "running"
    /\ shot' = [shot EXCEPT ![s] = "done"]
    /\ UNCHANGED <<lifeVars, handlers, emits, events>>

CleanupTask(s) ==
    /\ shot[s] = "done"
    /\ shot' = [shot EXCEPT ![s] = "cleaned"]
    /\ UNCHANGED <<lifeVars, handlers, emits, events>>

On(f) ==
    /\ f \notin handlers
    /\ handlers' = handlers \cup {f}
    /\ UNCHANGED <<lifeVars, shot, emits, events>>

Emit ==
    /\ emits < MaxEmits
    /\ emits' = emits + 1
    /\ events' = events \cup {<<emits', f>> : f \in handlers}
    /\ UNCHANGED <<lifeVars, shot, handlers>>

\* The handler returns, or raises and is logged.
ExecEvent(e) ==
    /\ events' = events \ {e}
    /\ UNCHANGED <<lifeVars, shot, handlers, emits>>

Next ==
    \/ \E f \in Funcs : Task(f) \/ Cancel(f)
    \/ \E f \in Listeners : On(f)
    \/ Shutdown \/ Emit
    \/ \E r \in Lifecycles : LifecycleStep(r)
    \/ \E s \in Shots : Run(s) \/ ExecOnce(s) \/ CleanupTask(s)
    \/ \E e \in events : ExecEvent(e)

\* The event loop resumes every lifecycle that can go on, and the functions
\* and hooks of the user end.
Fairness == \A r \in 1 .. MaxLifecycles : WF_vars(r \in Lifecycles /\ LifecycleStep(r))

Spec == Init /\ [][Next]_vars
FairSpec == Spec /\ Fairness

-----------------------------------------------------------------------------
(* Properties.                                                             *)

Live(r) == pc[r] \in {"created"} \cup Suspended /\ r \notin cancelling

\* cancel and shutdown reach every lifecycle that runs, but for one whose
\* function was scheduled a second time: its entry names the later lifecycle
\* for good (scheduler.py:98-101, :308-319).
LiveIsReachable ==
    \A r \in Lifecycles : Live(r) =>
        \/ running[func[r]] = r
        \/ \E later \in Lifecycles : later > r /\ func[later] = func[r]

\* active counts no lifecycle that was cancelled: an entry whose lifecycle has
\* ended is of one that ended by its own code, whose on_start or on_error
\* raised or that raised CancelledError (scheduler.py:262-285, :308-323).
DeadEntriesEndedAlone ==
    \A f \in Funcs : running[f] # 0 /\ pc[running[f]] \in Ended =>
        pc[running[f]] \in {"failed", "quit"}

\* on_stop of a cancelled lifecycle runs to its end: no second cancel and no
\* shutdown interrupts it.  One that quit by its own CancelledError has no
\* such protection (scheduler.py:281-285, :308-319).
OnStopUninterrupted ==
    \A r \in Lifecycles : pc[r] = "stopping" => r \notin cancelling /\ running[func[r]] # r

\* A lifecycle that ended by a CancelledError has called on_stop if and only if
\* its coroutine had begun, whatever it was suspended in (scheduler.py:262-285).
StopHookRuns ==
    \A r \in Lifecycles : pc[r] \in {"cancelled", "quit"} /\ HasHooks(r) =>
        (r \in begun <=> r \in stopped)

\* A cancelled lifecycle comes to its end, also when the cancellation meets
\* it in on_start, on_error, the sleep or on_stop (scheduler.py:281-285).
CancelEnds == \A r \in 1 .. MaxLifecycles : r \in cancelling ~> (r \in Lifecycles /\ pc[r] \in Ended)

=============================================================================
