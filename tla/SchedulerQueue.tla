--------------------------- MODULE SchedulerQueue ---------------------------
(***************************************************************************)
(* evoid_scheduler/engine.py: the priority queue of SchedulerEngine with    *)
(* its index, its deferred tasks and its cached load.  No operation awaits  *)
(* anything, so each is one step.  A task is its number; the ids in _heap   *)
(* form a set, because an id is pushed once and heapq orders by priority    *)
(* alone: which of several equal items leaves first depends on the shape    *)
(* of the heap.                                                             *)
(***************************************************************************)
EXTENDS Naturals, FiniteSets, SequencesExt

CONSTANTS
    Priorities,   \* the priorities tasks are submitted with
    Normal,       \* Priority.NORMAL
    EnableDefer,  \* enable_defer
    MaxDeferred,  \* _MAX_DEFERRED
    MaxTasks      \* bound: the tasks submitted

ASSUME PrioritiesAssumption == Priorities \subseteq Nat /\ Normal \in Nat
ASSUME EngineAssumption == /\ EnableDefer \in BOOLEAN
                            /\ MaxDeferred \in Nat /\ MaxTasks \in Nat

VARIABLES
    priority,   \* the priority of each task submitted so far, in order
    heap,       \* the ids in _heap, cancelled ones included
    index,      \* the keys of _task_index
    deferred,   \* the ids in _deferred, oldest first
    overloaded, \* is the load of the machine above its cores?
    cached,     \* what the cached metrics say of it
    fresh,      \* are there metrics younger than _METRICS_TTL?
    executed,   \* the tasks _dequeue returned
    dropped,    \* the tasks submit gave an id and kept nowhere
    cancelled,  \* the tasks for which cancel returned True
    cancels     \* how often it did

queueVars == <<heap, index, deferred>>
metricVars == <<overloaded, cached, fresh>>
historyVars == <<executed, dropped, cancelled, cancels>>
engineVars == <<priority, queueVars, metricVars, historyVars>>

Submitted == DOMAIN priority

QueueTypeOK ==
    /\ priority \in Seq(Priorities)
    /\ heap \subseteq Submitted /\ index \subseteq heap
    /\ deferred \in Seq(Submitted) /\ Len(deferred) <= MaxDeferred
    /\ overloaded \in BOOLEAN /\ cached \in BOOLEAN /\ fresh \in BOOLEAN
    /\ executed \subseteq Submitted /\ dropped \subseteq Submitted /\ cancelled \subseteq Submitted
    /\ cancels \in 0 .. Len(priority)

QueueInit ==
    /\ priority = << >>
    /\ heap = {} /\ index = {} /\ deferred = << >>
    /\ overloaded \in BOOLEAN /\ cached = FALSE /\ fresh = FALSE
    /\ executed = {} /\ dropped = {} /\ cancelled = {} /\ cancels = 0

\* _get_metrics: what the caller is told, and the cache it leaves.
Load == IF fresh THEN cached ELSE overloaded
GetMetrics ==
    /\ cached' = Load
    /\ fresh' = TRUE
    /\ UNCHANGED overloaded

\* _enqueue, for the ids of a set.
Enqueue(ids) == heap' = heap \cup ids /\ index' = index \cup ids

\* Is a task of this priority deferred?
Defers(p) == EnableDefer /\ Load /\ p < Normal

\* submit: under load a task below NORMAL is deferred, or dropped silently
\* when the deque is full; its id is returned in any case.
Submit(p) ==
    /\ Len(priority) < MaxTasks
    /\ priority' = Append(priority, p)
    /\ GetMetrics
    /\ LET t == Len(priority) + 1
       IN  \/ /\ Defers(p)
              /\ Len(deferred) < MaxDeferred
              /\ deferred' = Append(deferred, t)
              /\ UNCHANGED <<heap, index, dropped>>
           \/ /\ Defers(p)
              /\ Len(deferred) >= MaxDeferred
              /\ dropped' = dropped \cup {t}
              /\ UNCHANGED queueVars
           \/ /\ ~Defers(p)
              /\ Enqueue({t})
              /\ UNCHANGED <<deferred, dropped>>
    /\ UNCHANGED <<executed, cancelled, cancels>>

\* _dequeue pops until it meets an item that is still indexed: the cancelled
\* ones before it leave the heap with it.
Dequeue ==
    /\ heap # {}
    /\ \/ /\ index = {}
          /\ heap' = {}
          /\ UNCHANGED <<index, executed>>
       \/ \E t \in index, equals \in SUBSET (heap \ index) :
            /\ \A u \in index : priority[u] <= priority[t]
            /\ \A u \in equals : priority[u] = priority[t]
            /\ heap' = heap \ ({t} \cup equals \cup {u \in heap : priority[u] > priority[t]})
            /\ index' = index \ {t}
            /\ executed' = executed \cup {t}
    /\ UNCHANGED <<priority, deferred, metricVars, dropped, cancelled, cancels>>

\* Mutant: the oldest deferred task is removed, whatever its priority.
RemoveOldest(t) == Tail(deferred)

\* deque.remove deletes the first item that equals t's, and items compare by
\* their priority alone.
RemoveEqual(t) == RemoveFirstMatch(deferred, LAMBDA u : priority[u] = priority[t])

\* cancel: True for a task in the index or in the deque.
CancelQueued(t) ==
    /\ \/ /\ t \in index
          /\ index' = index \ {t}
          /\ UNCHANGED deferred
       \/ /\ t \notin index
          /\ t \in ToSet(deferred)
          /\ deferred' = RemoveEqual(t)
          /\ UNCHANGED index
    /\ cancelled' = cancelled \cup {t}
    /\ cancels' = cancels + 1
    /\ UNCHANGED <<priority, heap, metricVars, executed, dropped>>

\* Mutant: the deque keeps what was queued again.
ProcessDeferredKeeps ==
    /\ deferred # << >>
    /\ GetMetrics
    /\ IF Load THEN UNCHANGED <<heap, index>> ELSE Enqueue(ToSet(deferred))
    /\ UNCHANGED <<priority, deferred, historyVars>>

\* process_deferred queues all deferred tasks again once the load is down.
ProcessDeferred ==
    /\ deferred # << >>
    /\ GetMetrics
    /\ IF Load THEN UNCHANGED queueVars ELSE Enqueue(ToSet(deferred)) /\ deferred' = << >>
    /\ UNCHANGED <<priority, historyVars>>

\* scheduler_processor and metrics() only look at the load.
SchedulerProcessor ==
    /\ ~fresh
    /\ GetMetrics
    /\ UNCHANGED <<priority, queueVars, historyVars>>

\* The load changes, and the cached metrics grow old.
LoadChanges == overloaded' = ~overloaded /\ UNCHANGED <<priority, queueVars, cached, fresh, historyVars>>
MetricsExpire == fresh /\ fresh' = FALSE /\ UNCHANGED <<priority, queueVars, overloaded, cached, historyVars>>

QueueNext ==
    \/ \E p \in Priorities : Submit(p)
    \/ \E t \in Submitted : CancelQueued(t)
    \/ Dequeue \/ ProcessDeferred \/ SchedulerProcessor \/ LoadChanges \/ MetricsExpire

QueueSpec == QueueInit /\ [][QueueNext]_engineVars

-----------------------------------------------------------------------------
(* Properties.                                                             *)

\* Every submitted task is in exactly one place, so that it is executed at
\* most once, and only a full deque and successful cancels, one task each,
\* take tasks out: also after tasks were deferred, queued again and their
\* neighbours cancelled (engine.py:143-214).
Conserved ==
    LET waiting == ToSet(deferred)
    IN  /\ Cardinality(waiting) = Len(deferred)
        /\ index \cap waiting = {} /\ executed \cap (index \cup waiting) = {}
        /\ dropped \cap (heap \cup waiting \cup executed) = {}
        /\ Len(priority) = Cardinality(executed \cup index \cup waiting \cup dropped) + cancels

\* Tasks that are in no place although nobody cancelled them.
Vanished == Submitted \ (executed \cup index \cup ToSet(deferred) \cup dropped \cup cancelled)

\* cancel may take out another task than the one it was asked for, but only one
\* that was deferred with the same priority: a task that vanished has a
\* cancelled one of its own low priority, and a cancelled task that runs after
\* all has, for each such, a task that went in its place.  A task of NORMAL
\* priority or above is never lost (engine.py:158-166, :177-180).
LossHasEqualVictim ==
    /\ \A t \in Vanished :
        \E u \in cancelled : u # t /\ priority[u] = priority[t] /\ priority[t] < Normal
    /\ \A t \in executed \cap cancelled :
        \E u \in Submitted \ (executed \cup index \cup ToSet(deferred) \cup dropped) :
            u # t /\ priority[u] = priority[t] /\ priority[t] < Normal

=============================================================================
