--------------------------- MODULE SchedulerProofs ---------------------------
(****************************************************************************)
(* Proofs about the task scheduler (TaskScheduler), for any functions, hooks*)
(* and bounds, and about the resource-aware queue (SchedulerQueue), for any *)
(* tasks, priorities, loads and bound of the deque.  The two are separate   *)
(* specifications; what a theorem is about is the one it names.             *)
(****************************************************************************)
EXTENDS TaskScheduler, SchedulerQueue, SequenceTheorems, FiniteSetTheorems, TLAPS

-----------------------------------------------------------------------------
(* The task scheduler.                                                     *)

\* Where a lifecycle can be.
Places == {"created"} \cup Suspended \cup InOnStop \cup Ended

\* The entry of a function names one of its own lifecycles.
EntryOK(f) == running[f] # 0 => func[running[f]] = f

\* A cancelled lifecycle has lost its entry for good, so that no second
\* cancellation meets it in on_stop, and what was called of the hooks follows
\* from where it is.
LifecycleOK(r) ==
    /\ r \in cancelling => running[func[r]] # r /\ pc[r] \in {"created", "quitting"} \cup Suspended
    /\ pc[r] = "created" => r \notin begun
    /\ pc[r] \in Suspended => r \in begun
    /\ pc[r] \in InOnStop => r \in stopped
    /\ pc[r] \in {"stopping", "cancelled"} => running[func[r]] # r
    /\ pc[r] \in {"cancelled", "quit"} /\ HasHooks(r) => (r \in begun <=> r \in stopped)

\* Reachable through _running, or replaced there by a later lifecycle of the
\* same function.
Reachable(r) ==
    \/ running[func[r]] = r
    \/ \E later \in Lifecycles : later > r /\ func[later] = func[r]

\* The inductive invariant of the task scheduler.
IInv ==
    /\ TypeOK
    /\ \A f \in Funcs : EntryOK(f)
    /\ \A r \in Lifecycles : LifecycleOK(r)
    /\ \A r \in Lifecycles : Live(r) => Reachable(r)

\* Only the lifecycles matter to the invariant, beyond the types.
LEMMA LifecyclesAreSeq ==
    ASSUME TypeOK
    PROVE  /\ Len(func) \in Nat /\ Lifecycles = 1..Len(func)
           /\ \A r \in Lifecycles : func[r] \in Funcs /\ pc[r] \in Places
           /\ pc \in Seq(Places) /\ Len(pc) = Len(func)
<1>1. func \in Seq(Funcs) /\ Len(func) \in Nat /\ Lifecycles = 1..Len(func)
  BY DEF TypeOK, Lifecycles
<1>2. pc \in [1..Len(func) -> Places]
  BY <1>1 DEF TypeOK, Places
<1>3. pc \in Seq(Places)
  BY <1>1, <1>2, IsASeq
<1>4. Len(pc) = Len(func)
  BY <1>1, <1>2, <1>3, LenProperties
<1> QED
  BY <1>1, <1>2, <1>3, <1>4

\* Nothing is scheduled when the scheduler is made.
LEMMA InitIInv == Init => IInv
<1> SUFFICES ASSUME Init PROVE IInv
  OBVIOUS
<1>1. func = << >> /\ Lifecycles = {} /\ Len(func) = 0
  BY DEF Init, Lifecycles
<1>2. TypeOK
  <2>1. pc \in [Lifecycles -> {"created"} \cup Suspended \cup InOnStop \cup Ended]
    BY <1>1 DEF Init
  <2> QED
    BY <1>1, <2>1, BoundsAssumption DEF Init, TypeOK
<1> QED
  BY <1>1, <1>2 DEF Init, IInv, EntryOK

\* task(interval=...) overwrites the entry of its function: the lifecycle
\* that loses it has a later one of the same function.
LEMMA TaskKeeps ==
    ASSUME IInv, NEW f \in Funcs, Task(f)
    PROVE  IInv'
<1> DEFINE n == Len(func) + 1
<1>1. /\ TypeOK /\ Len(func) < MaxLifecycles
      /\ func' = Append(func, f) /\ pc' = Append(pc, "created")
      /\ running' = [running EXCEPT ![f] = n]
      /\ UNCHANGED <<cancelling, begun, stopped, shot, handlers, emits, events>>
  BY DEF IInv, Task, restVars
<1>2. /\ Len(func) \in Nat /\ Lifecycles = 1..Len(func)
      /\ \A r \in Lifecycles : func[r] \in Funcs /\ pc[r] \in Places
      /\ pc \in Seq(Places) /\ Len(pc) = Len(func) /\ func \in Seq(Funcs)
  BY <1>1, LifecyclesAreSeq DEF TypeOK
<1>3. /\ func' \in Seq(Funcs) /\ Len(func') = n /\ n \in Nat /\ Lifecycles' = 1..n
      /\ \A r \in Lifecycles : func'[r] = func[r]
      /\ func'[n] = f
  BY <1>1, <1>2 DEF Lifecycles
<1>4. /\ DOMAIN pc' = 1..n /\ pc' \in Seq(Places)
      /\ \A r \in Lifecycles : pc'[r] = pc[r]
      /\ pc'[n] = "created"
  BY <1>1, <1>2 DEF Places
<1>5. /\ Lifecycles' = Lifecycles \cup {n} /\ n \notin Lifecycles /\ n # 0
      /\ \A r \in Lifecycles : n > r
  BY <1>2, <1>3
<1>6. /\ running \in [Funcs -> {0} \cup Lifecycles] /\ running'[f] = n
      /\ \A g \in Funcs : g # f => running'[g] = running[g]
  BY <1>1 DEF TypeOK
<1> HIDE DEF n
<1>7. TypeOK'
  <2>1. pc' \in [Lifecycles' -> {"created"} \cup Suspended \cup InOnStop \cup Ended]
    BY <1>3, <1>4 DEF Places
  <2>2. running' \in [Funcs -> {0} \cup Lifecycles']
    BY <1>1, <1>5, <1>6
  <2>3. Len(func') <= MaxLifecycles
    BY <1>1, <1>2, <1>3, BoundsAssumption DEF n
  <2> QED
    BY <1>1, <1>3, <1>5, <2>1, <2>2, <2>3 DEF TypeOK
<1>8. ASSUME NEW g \in Funcs PROVE EntryOK(g)'
  <2>1. CASE g = f
    BY <1>3, <1>6, <2>1 DEF EntryOK
  <2>2. CASE g # f
    BY <1>3, <1>6, <2>2 DEF EntryOK, IInv
  <2> QED
    BY <2>1, <2>2
<1>9. ASSUME NEW r \in Lifecycles' PROVE LifecycleOK(r)'
  <2>1. CASE r = n
    <3>1. r \notin cancelling /\ r \notin begun
      BY <1>1, <1>5, <2>1 DEF TypeOK
    <3> QED
      BY <1>1, <1>4, <2>1, <3>1 DEF LifecycleOK, Suspended, InOnStop
  <2>2. CASE r \in Lifecycles
    <3>1. /\ LifecycleOK(r) /\ func'[r] = func[r] /\ pc'[r] = pc[r] /\ func[r] \in Funcs /\ r # n
      BY <1>2, <1>3, <1>4, <1>5, <2>2 DEF IInv
    <3>2. running[func[r]] # r => running'[func[r]] # r
      BY <1>6, <3>1
    <3> QED
      BY <1>1, <3>1, <3>2 DEF LifecycleOK, HasHooks
  <2> QED
    BY <1>5, <2>1, <2>2
<1>10. ASSUME NEW r \in Lifecycles', Live(r)' PROVE Reachable(r)'
  <2>1. CASE r = n
    BY <1>3, <1>6, <2>1 DEF Reachable
  <2>2. CASE r \in Lifecycles
    <3>1. /\ Reachable(r) /\ func'[r] = func[r] /\ func[r] \in Funcs
      BY <1>1, <1>2, <1>3, <1>4, <1>10, <2>2 DEF IInv, Live
    <3>2. CASE func[r] = f
      BY <1>3, <1>5, <2>2, <3>1, <3>2 DEF Reachable
    <3>3. CASE func[r] # f
      BY <1>3, <1>5, <1>6, <3>1, <3>3 DEF Reachable
    <3> QED
      BY <3>2, <3>3
  <2> QED
    BY <1>5, <2>1, <2>2
<1> QED
  BY <1>7, <1>8, <1>9, <1>10 DEF IInv

\* cancel and shutdown take the entries and cancel exactly the lifecycles
\* that were in them and had not ended.
LEMMA CancelEntriesKeeps ==
    ASSUME IInv, NEW fs \in SUBSET Funcs, CancelEntries(fs),
           UNCHANGED <<func, pc, begun, stopped, restVars>>
    PROVE  IInv'
<1>1. TypeOK /\ Lifecycles' = Lifecycles /\ running \in [Funcs -> {0} \cup Lifecycles]
  BY DEF IInv, TypeOK, Lifecycles
<1>2. Lifecycles \subseteq Nat \ {0} /\ \A r \in Lifecycles : func[r] \in Funcs /\ pc[r] \in Places
  BY <1>1, LifecyclesAreSeq
<1>3. /\ cancelling' = cancelling \cup {r \in Lifecycles : pc[r] \notin Ended /\ func[r] \in fs /\ running[func[r]] = r}
      /\ running' = [f \in Funcs |-> IF f \in fs THEN 0 ELSE running[f]]
  BY DEF CancelEntries
<1>4. TypeOK'
  BY <1>1, <1>3 DEF TypeOK, restVars
<1>5. \A f \in Funcs : EntryOK(f)'
  BY <1>3 DEF EntryOK, IInv
<1>6. ASSUME NEW r \in Lifecycles PROVE LifecycleOK(r)'
  <2>1. /\ LifecycleOK(r) /\ func[r] \in Funcs /\ pc[r] \in Places
        /\ r # 0
    BY <1>2 DEF IInv
  <2>2. running'[func[r]] = IF func[r] \in fs THEN 0 ELSE running[func[r]]
    BY <1>3, <2>1
  <2>3. r \in cancelling' => running'[func[r]] # r /\ pc[r] \in {"created", "quitting"} \cup Suspended
    <3>1. CASE r \in cancelling
      BY <2>1, <2>2, <3>1 DEF LifecycleOK
    <3>2. CASE pc[r] \notin Ended /\ func[r] \in fs /\ running[func[r]] = r
      BY <2>1, <2>2, <3>2 DEF LifecycleOK, Places, InOnStop
    <3> QED
      BY <1>3, <3>1, <3>2
  <2> QED
    BY <2>1, <2>2, <2>3 DEF LifecycleOK, HasHooks
<1>7. ASSUME NEW r \in Lifecycles, Live(r)' PROVE Reachable(r)'
  <2>1. /\ Reachable(r) /\ func[r] \in Funcs /\ ~(func[r] \in fs /\ running[func[r]] = r)
    <3>1. pc[r] \in {"created"} \cup Suspended /\ r \notin cancelling' /\ Live(r)
      BY <1>3, <1>7 DEF Live
    <3>2. pc[r] \notin Ended
      BY <3>1 DEF Suspended, Ended
    <3> QED
      BY <1>2, <1>3, <3>1, <3>2 DEF IInv
  <2> QED
    BY <1>1, <1>3, <2>1 DEF Reachable
<1> QED
  BY <1>1, <1>4, <1>5, <1>6, <1>7 DEF IInv

\* A lifecycle moves on without touching an entry: it must go to a place where
\* its hooks are accounted for, and may lose its cancellation only when it
\* stops.
LEMMA LifecycleStepKeeps ==
    ASSUME IInv, NEW r \in Lifecycles, LifecycleStep(r)
    PROVE  IInv'
<1>1. /\ TypeOK /\ func' = func /\ running' = running
      /\ UNCHANGED <<shot, handlers, emits, events>>
      /\ Lifecycles' = Lifecycles
  BY DEF IInv, LifecycleStep, Begin, Returns, Raises, Quits, CancelArrives, OnStopEnds, UnchangedButPc,
         restVars, Lifecycles
<1>2. \A x \in Lifecycles : func[x] \in Funcs /\ pc[x] \in Places
  BY <1>1, LifecyclesAreSeq
<1>3. pc \in [Lifecycles -> Places] /\ DOMAIN pc = Lifecycles
  BY <1>1 DEF TypeOK, Places
<1>4. LifecycleOK(r) /\ pc[r] \in Places
  BY <1>2 DEF IInv
\* What the step does to the lifecycle: it goes on, fails, enters on_stop, or
\* ends.
<1>5. PICK place \in Places :
        /\ pc' = [pc EXCEPT ![r] = place]
        /\ \/ /\ pc[r] \in {"created"} \cup Suspended /\ place \in Suspended
              /\ pc[r] = "created" => r \notin cancelling
              /\ cancelling' = cancelling /\ begun' = begun \cup {r} /\ stopped' = stopped
           \/ /\ pc[r] \in Suspended /\ place = "failed"
              /\ cancelling' = cancelling \ {r} /\ begun' = begun /\ stopped' = stopped
           \/ /\ pc[r] \in Suspended /\ stopped' = stopped \cup {r} /\ begun' = begun
              /\ \/ place = "stopping" /\ r \in cancelling /\ cancelling' = cancelling \ {r}
                 \/ place = "quitting" /\ cancelling' = cancelling
           \/ /\ cancelling' = cancelling \ {r} /\ begun' = begun /\ stopped' = stopped
              /\ ~(pc[r] \in Suspended /\ HasHooks(r))
              /\ \/ place = "quit" /\ pc[r] \in Suspended \cup {"quitting"}
                 \/ place = "cancelled" /\ (r \in cancelling \/ pc[r] = "stopping")
  <2>1. CASE Begin(r)
    BY <2>1 DEF Begin, Goto, Places, Suspended, Ended
  <2>2. CASE Returns(r)
    BY <1>4, <2>2 DEF LifecycleOK, Returns, Goto, UnchangedButPc, Places, Suspended, Ended
  <2>3. CASE Raises(r)
    BY <1>4, <2>3 DEF LifecycleOK, Raises, Goto, Places, Suspended, Ended
  <2>4. CASE Quits(r)
    BY <2>4 DEF Quits, Goto, Places, Suspended, InOnStop, Ended
  <2>5. CASE CancelArrives(r)
    BY <2>5 DEF CancelArrives, Goto, Places, Suspended, InOnStop, Ended
  <2>6. CASE OnStopEnds(r)
    BY <2>6 DEF OnStopEnds, Goto, Places, Suspended, InOnStop, Ended
  <2> QED
    BY <2>1, <2>2, <2>3, <2>4, <2>5, <2>6 DEF LifecycleStep
<1>6. /\ pc'[r] = place /\ \A x \in Lifecycles : x # r => pc'[x] = pc[x]
      /\ pc' \in [Lifecycles -> Places]
  BY <1>3, <1>5
<1>7. /\ \A x \in Lifecycles : x # r =>
            /\ x \in cancelling' <=> x \in cancelling
            /\ x \in begun' <=> x \in begun
            /\ x \in stopped' <=> x \in stopped
  BY <1>5
<1>8. TypeOK'
  <2>1. cancelling' \subseteq Lifecycles /\ begun' \subseteq Lifecycles /\ stopped' \subseteq begun'
    BY <1>1, <1>4, <1>5 DEF TypeOK, LifecycleOK
  <2> QED
    BY <1>1, <1>6, <2>1 DEF TypeOK, Places
<1>9. \A f \in Funcs : EntryOK(f)'
  BY <1>1 DEF EntryOK, IInv
<1>10. ASSUME NEW x \in Lifecycles PROVE LifecycleOK(x)'
  <2>1. LifecycleOK(x) /\ HasHooks(x)' = HasHooks(x)
    BY <1>1 DEF IInv, HasHooks
  <2>2. CASE x # r
    BY <1>1, <1>6, <1>7, <2>1, <2>2 DEF LifecycleOK
  <2>3. CASE x = r
    <3>1. stopped \subseteq begun
      BY <1>1 DEF TypeOK
    <3>2. CASE /\ pc[r] \in {"created"} \cup Suspended /\ place \in Suspended
               /\ pc[r] = "created" => r \notin cancelling
               /\ cancelling' = cancelling /\ begun' = begun \cup {r} /\ stopped' = stopped
      BY <1>1, <1>6, <2>1, <2>3, <3>2 DEF LifecycleOK, Suspended, InOnStop
    <3>3. CASE /\ pc[r] \in Suspended /\ place = "failed"
               /\ cancelling' = cancelling \ {r} /\ begun' = begun /\ stopped' = stopped
      BY <1>1, <1>6, <2>1, <2>3, <3>3 DEF LifecycleOK, Suspended, InOnStop
    <3>4. CASE /\ pc[r] \in Suspended /\ stopped' = stopped \cup {r} /\ begun' = begun
               /\ \/ place = "stopping" /\ r \in cancelling /\ cancelling' = cancelling \ {r}
                  \/ place = "quitting" /\ cancelling' = cancelling
      BY <1>1, <1>6, <2>1, <2>3, <3>4 DEF LifecycleOK, Suspended, InOnStop
    <3>5. CASE /\ cancelling' = cancelling \ {r} /\ begun' = begun /\ stopped' = stopped
               /\ ~(pc[r] \in Suspended /\ HasHooks(r))
               /\ \/ place = "quit" /\ pc[r] \in Suspended \cup {"quitting"}
                  \/ place = "cancelled" /\ (r \in cancelling \/ pc[r] = "stopping")
      BY <1>1, <1>6, <2>1, <2>3, <3>1, <3>5 DEF LifecycleOK, Suspended, InOnStop
    <3> QED
      BY <1>5, <3>2, <3>3, <3>4, <3>5
  <2> QED
    BY <2>2, <2>3
<1>11. ASSUME NEW x \in Lifecycles, Live(x)' PROVE Reachable(x)'
  <2>1. Live(x)
    <3>1. CASE x # r
      BY <1>6, <1>7, <1>11, <3>1 DEF Live
    <3>2. CASE x = r
      <4>1. place \in {"created"} \cup Suspended /\ r \notin cancelling'
        BY <1>6, <1>11, <3>2 DEF Live
      <4> QED
        BY <1>5, <3>2, <4>1 DEF Live, Suspended
    <3> QED
      BY <3>1, <3>2
  <2> QED
    BY <1>1, <2>1 DEF IInv, Reachable
<1> QED
  BY <1>1, <1>8, <1>9, <1>10, <1>11 DEF IInv

\* One-shot tasks and events leave the lifecycles alone.
LEMMA RestKeeps ==
    ASSUME IInv, UNCHANGED lifeVars, TypeOK'
    PROVE  IInv'
<1>1. Lifecycles' = Lifecycles
  BY DEF lifeVars, Lifecycles
<1>2. \A f \in Funcs : EntryOK(f)'
  BY DEF lifeVars, EntryOK, IInv
<1>3. \A r \in Lifecycles : LifecycleOK(r)'
  BY DEF lifeVars, LifecycleOK, HasHooks, IInv
<1>4. \A r \in Lifecycles : Live(r)' => Reachable(r)'
  BY <1>1 DEF lifeVars, Live, Reachable, IInv
<1> QED
  BY <1>1, <1>2, <1>3, <1>4 DEF IInv

\* Every step of the scheduler keeps the invariant.
LEMMA NextIInv == IInv /\ [Next]_vars => IInv'
<1> SUFFICES ASSUME IInv, [Next]_vars PROVE IInv'
  OBVIOUS
<1>1. TypeOK
  BY DEF IInv
<1>2. ASSUME NEW f \in Funcs, Task(f) PROVE IInv'
  BY <1>2, TaskKeeps
<1>3. ASSUME NEW f \in Funcs, Cancel(f) PROVE IInv'
  <2>1. CancelEntries({f}) /\ UNCHANGED <<func, pc, begun, stopped, restVars>>
    BY <1>3 DEF Cancel
  <2> QED
    BY <2>1, CancelEntriesKeeps
<1>4. CASE Shutdown
  <2>1. CancelEntries(Funcs) /\ UNCHANGED <<func, pc, begun, stopped, restVars>>
    BY <1>4 DEF Shutdown
  <2> QED
    BY <2>1, CancelEntriesKeeps
<1>5. ASSUME NEW r \in Lifecycles, LifecycleStep(r) PROVE IInv'
  BY <1>5, LifecycleStepKeeps
<1>6. ASSUME NEW f \in Listeners, On(f) PROVE IInv'
  <2>1. UNCHANGED lifeVars /\ Lifecycles' = Lifecycles
    BY <1>6 DEF On, lifeVars, Lifecycles
  <2>2. TypeOK'
    BY <1>1, <1>6, <2>1 DEF TypeOK, On, lifeVars
  <2> QED
    BY <2>1, <2>2, RestKeeps
<1>7. CASE Emit
  <2>1. UNCHANGED lifeVars /\ Lifecycles' = Lifecycles
    BY <1>7 DEF Emit, lifeVars, Lifecycles
  <2>2. emits' \in 1..MaxEmits
    BY <1>1, <1>7, BoundsAssumption DEF TypeOK, Emit
  <2>3. events' \subseteq (1..MaxEmits) \X Listeners
    BY <1>1, <1>7, <2>2 DEF TypeOK, Emit
  <2>4. TypeOK'
    BY <1>1, <1>7, <2>1, <2>2, <2>3 DEF TypeOK, Emit, lifeVars
  <2> QED
    BY <2>1, <2>4, RestKeeps
<1>8. ASSUME NEW s \in Shots, Run(s) \/ ExecOnce(s) \/ CleanupTask(s) PROVE IInv'
  <2>1. UNCHANGED lifeVars /\ Lifecycles' = Lifecycles /\ UNCHANGED <<handlers, emits, events>>
    BY <1>8 DEF Run, ExecOnce, CleanupTask, lifeVars, Lifecycles
  <2>2. shot' \in [Shots -> {"none", "running", "done", "cleaned"}]
    BY <1>1, <1>8 DEF TypeOK, Run, ExecOnce, CleanupTask
  <2>3. TypeOK'
    BY <1>1, <2>1, <2>2 DEF TypeOK, lifeVars
  <2> QED
    BY <2>1, <2>3, RestKeeps
<1>9. ASSUME NEW e \in events, ExecEvent(e) PROVE IInv'
  <2>1. UNCHANGED lifeVars /\ Lifecycles' = Lifecycles /\ UNCHANGED <<shot, handlers, emits>>
    BY <1>9 DEF ExecEvent, lifeVars, Lifecycles
  <2>2. TypeOK'
    BY <1>1, <1>9, <2>1 DEF TypeOK, lifeVars, ExecEvent
  <2> QED
    BY <2>1, <2>2, RestKeeps
<1>10. CASE UNCHANGED vars
  <2>1. UNCHANGED lifeVars /\ UNCHANGED restVars /\ Lifecycles' = Lifecycles
    BY <1>10 DEF vars, lifeVars, Lifecycles
  <2>2. TypeOK'
    BY <1>1, <2>1 DEF TypeOK, lifeVars, restVars
  <2> QED
    BY <2>1, <2>2, RestKeeps
<1> QED
  BY <1>2, <1>3, <1>4, <1>5, <1>6, <1>7, <1>8, <1>9, <1>10 DEF Next

\* The inductive invariant holds in every reachable state.
THEOREM Invariance == Spec => []IInv
BY InitIInv, NextIInv, PTL DEF Spec

\* Type correctness of the scheduler, the order of the hooks included.
THEOREM TypeCorrect == Spec => []TypeOK
<1>1. IInv => TypeOK
  BY DEF IInv
<1> QED
  BY <1>1, Invariance, PTL

\* cancel and shutdown reach every live lifecycle that was not replaced.
THEOREM LiveAreReachable == Spec => []LiveIsReachable
<1>1. IInv => LiveIsReachable
  BY DEF IInv, LiveIsReachable, Reachable
<1> QED
  BY <1>1, Invariance, PTL

\* An entry whose lifecycle has ended is of one that ended by its own code.
THEOREM DeadEntriesEndAlone == Spec => []DeadEntriesEndedAlone
<1>1. IInv => DeadEntriesEndedAlone
  <2> SUFFICES ASSUME IInv, NEW f \in Funcs, running[f] # 0, pc[running[f]] \in Ended
               PROVE  pc[running[f]] \in {"failed", "quit"}
    BY DEF DeadEntriesEndedAlone
  <2>1. running[f] \in Lifecycles /\ func[running[f]] = f
    BY DEF IInv, TypeOK, EntryOK
  <2> QED
    BY <2>1 DEF IInv, LifecycleOK, Ended
<1> QED
  BY <1>1, Invariance, PTL

\* No second cancel and no shutdown reaches a cancelled lifecycle in on_stop.
THEOREM OnStopIsUninterrupted == Spec => []OnStopUninterrupted
<1>1. IInv => OnStopUninterrupted
  <2> SUFFICES ASSUME IInv, NEW r \in Lifecycles, pc[r] = "stopping"
               PROVE  r \notin cancelling /\ running[func[r]] # r
    BY DEF OnStopUninterrupted
  <2> QED
    BY DEF IInv, LifecycleOK, Suspended
<1> QED
  BY <1>1, Invariance, PTL

\* on_stop is called for exactly those lifecycles that end by a CancelledError
\* and had begun.
THEOREM StopHooksRun == Spec => []StopHookRuns
<1>1. IInv => StopHookRuns
  BY DEF IInv, LifecycleOK, StopHookRuns
<1> QED
  BY <1>1, Invariance, PTL

-----------------------------------------------------------------------------
(* The resource-aware queue.                                               *)

\* A deque without repetition.
Once(s) == \A i, j \in DOMAIN s : s[i] = s[j] => i = j

\* Taking one task out of a deque takes that one only.
LEMMA TakenOut ==
    ASSUME NEW S, NEW s \in Seq(S), NEW i \in 1..Len(s), Once(s)
    PROVE  /\ RemoveAt(s, i) \in Seq(S)
           /\ Len(RemoveAt(s, i)) = Len(s) - 1
           /\ Once(RemoveAt(s, i))
           /\ ToSet(RemoveAt(s, i)) = ToSet(s) \ {s[i]}
<1> DEFINE a == SubSeq(s, 1, i - 1)
           b == SubSeq(s, i + 1, Len(s))
           r == a \o b
<1>1. a \in Seq(S) /\ Len(a) = i - 1 /\ \A j \in 1..(i - 1) : a[j] = s[j]
  <2>1. a \in Seq(S)
    OBVIOUS
  <2>2. Len(a) = i - 1 /\ \A j \in 1..(i - 1) : a[j] = s[j]
    BY Z3
  <2> QED
    BY <2>1, <2>2
<1>2. b \in Seq(S) /\ Len(b) = Len(s) - i /\ \A j \in 1..(Len(s) - i) : b[j] = s[j + i]
  <2>1. b \in Seq(S)
    OBVIOUS
  <2>2. Len(b) = Len(s) - i /\ \A j \in 1..(Len(s) - i) : b[j] = s[j + i]
    BY Z3
  <2> QED
    BY <2>1, <2>2
<1>3. RemoveAt(s, i) = r
  BY DEF RemoveAt
<1> HIDE DEF a, b
<1>4. /\ r \in Seq(S) /\ Len(r) = Len(a) + Len(b)
      /\ \A j \in 1..(Len(a) + Len(b)) :
            r[j] = IF j <= Len(a) THEN a[j] ELSE b[j - Len(a)]
  BY <1>1, <1>2, ConcatProperties
<1>5. Len(a) + Len(b) = Len(s) - 1
  BY <1>1, <1>2
<1> HIDE DEF r
<1>6. ASSUME NEW j \in 1..(Len(s) - 1)
      PROVE  r[j] = IF j < i THEN s[j] ELSE s[j + 1]
  <2>1. CASE j < i
    BY <1>1, <1>4, <1>5, <2>1
  <2>2. CASE ~(j < i)
    <3>1. j - (i - 1) \in 1..(Len(s) - i) /\ (j - (i - 1)) + i = j + 1
      BY <2>2
    <3>3. Len(a) = i - 1 /\ ~(j <= Len(a)) /\ j \in 1..(Len(a) + Len(b))
      BY <1>1, <1>5, <2>2
    <3>2. r[j] = b[j - (i - 1)]
      BY <1>4, <3>3
    <3> QED
      BY <1>2, <2>2, <3>1, <3>2
  <2> QED
    BY <2>1, <2>2
<1>7. DOMAIN r = 1..(Len(s) - 1) /\ DOMAIN s = 1..Len(s) /\ Len(s) \in Nat
  BY <1>4, <1>5
<1>8. Once(r)
  <2> SUFFICES ASSUME NEW j \in 1..(Len(s) - 1), NEW k \in 1..(Len(s) - 1), r[j] = r[k]
               PROVE  j = k
    BY <1>7 DEF Once
  <2> QED
    BY <1>6, <1>7 DEF Once
<1>9. ToSet(r) = ToSet(s) \ {s[i]}
  <2>1. ASSUME NEW x \in ToSet(r) PROVE x \in ToSet(s) \ {s[i]}
    <3>1. PICK j \in 1..(Len(s) - 1) : x = r[j]
      BY <1>7 DEF ToSet
    <3> QED
      BY <3>1, <1>6, <1>7 DEF ToSet, Once
  <2>2. ASSUME NEW x \in ToSet(s) \ {s[i]} PROVE x \in ToSet(r)
    <3>1. PICK j \in 1..Len(s) : x = s[j]
      BY <1>7 DEF ToSet
    <3>2. j # i
      BY <3>1, <2>2
    <3>3. CASE j < i
      <4>1. j \in 1..(Len(s) - 1) /\ r[j] = s[j]
        BY <3>3, <1>6, <1>7
      <4> QED
        BY <4>1, <3>1, <1>7 DEF ToSet
    <3>4. CASE j > i
      <4>1. j - 1 \in 1..(Len(s) - 1) /\ r[j - 1] = s[j]
        BY <3>4, <1>6, <1>7
      <4> QED
        BY <4>1, <3>1, <1>7 DEF ToSet
    <3> QED
      BY <3>2, <3>3, <3>4
  <2> QED
    BY <2>1, <2>2
<1> QED
  BY <1>3, <1>4, <1>5, <1>8, <1>9

\* cancel takes at most one task of the deque, one with the priority it looks for.
LEMMA RemoveEqualFacts ==
    ASSUME NEW S, deferred \in Seq(S), Once(deferred), NEW t \in ToSet(deferred)
    PROVE  /\ RemoveEqual(t) \in Seq(S)
           /\ Len(RemoveEqual(t)) = Len(deferred) - 1
           /\ Once(RemoveEqual(t))
           /\ \E u \in ToSet(deferred) :
                 priority[u] = priority[t] /\ ToSet(RemoveEqual(t)) = ToSet(deferred) \ {u}
<1> DEFINE I == {i \in 1..Len(deferred) : priority[deferred[i]] = priority[t]}
           m == Min(I)
<1>1. I \in SUBSET Nat /\ I # {}
  BY DEF ToSet
<1>2. m \in I
  <2> HIDE DEF I
  <2>1. PICK n \in I : \A k \in I : ~(<<k, n>> \in OpToRel(<, Nat))
    BY <1>1, WFMin, NatLessThanWellFounded
  <2>2. \A k \in I : ~(k < n)
    BY <1>1, <2>1 DEF OpToRel
  <2>3. \A k \in I : n <= k
    BY <1>1, <2>2
  <2> QED
    BY <2>3 DEF Min
<1>3. RemoveEqual(t) = RemoveAt(deferred, m)
  BY <1>1 DEF RemoveEqual, RemoveFirstMatch, SelectInSeq
<1>4. m \in 1..Len(deferred) /\ priority[deferred[m]] = priority[t]
  BY <1>2
<1> HIDE DEF m, I
<1>5. /\ RemoveAt(deferred, m) \in Seq(S)
      /\ Len(RemoveAt(deferred, m)) = Len(deferred) - 1
      /\ Once(RemoveAt(deferred, m))
      /\ ToSet(RemoveAt(deferred, m)) = ToSet(deferred) \ {deferred[m]}
  BY <1>4, TakenOut
<1>6. deferred[m] \in ToSet(deferred)
  BY <1>4 DEF ToSet
<1> QED
  BY <1>3, <1>4, <1>5, <1>6

-----------------------------------------------------------------------------
(* The invariant.                                                          *)

\* The tasks of the deque, and the tasks that are somewhere.
Waiting == ToSet(deferred)
Kept == executed \cup index \cup Waiting \cup dropped

\* Conserved without its count, and what it rests on: no task is twice in the
\* deque.
Apart ==
    /\ Once(deferred)
    /\ index \cap Waiting = {}
    /\ executed \cap (index \cup Waiting) = {}
    /\ dropped \cap (heap \cup Waiting \cup executed) = {}

\* Only tasks of low priority wait.
WaitingAreLow == \A t \in Waiting : priority[t] < Normal

\* Every task that was submitted is kept, or a cancellation took one.
Count == Len(priority) = Cardinality(Kept) + cancels

\* The tasks that are nowhere, and the witnesses of the two clauses: a task
\* that went without being cancelled has a cancelled equal, and a cancelled
\* task that is still there, or was executed, has an equal that went.
Lost == Submitted \ Kept
Equal(u, t) == u # t /\ priority[u] = priority[t] /\ priority[t] < Normal
VictimsOK ==
    /\ \A t \in Lost \ cancelled : \E u \in cancelled : Equal(u, t)
    /\ \A t \in cancelled \cap Kept : \E u \in Lost : Equal(u, t)

\* The inductive invariant of the queue.
QueueInv == QueueTypeOK /\ Apart /\ WaitingAreLow /\ Count /\ VictimsOK

\* The tasks that are somewhere are finitely many submitted ones.
LEMMA KeptFacts ==
    ASSUME QueueTypeOK
    PROVE  /\ Kept \subseteq Submitted /\ IsFiniteSet(Kept) /\ Cardinality(Kept) \in Nat
           /\ Submitted = 1 .. Len(priority) /\ Len(priority) \in Nat
           /\ Waiting \subseteq Submitted
<1>1. Submitted = 1 .. Len(priority) /\ Len(priority) \in Nat
  BY DEF QueueTypeOK, Submitted
<1>2. Waiting \subseteq Submitted
  BY DEF QueueTypeOK, Waiting, ToSet
<1>3. Kept \subseteq Submitted
  BY <1>2 DEF QueueTypeOK, Kept
<1>4. IsFiniteSet(Submitted)
  BY <1>1, FS_Interval
<1>5. IsFiniteSet(Kept)
  BY <1>3, <1>4, FS_Subset
<1> QED
  BY <1>1, <1>2, <1>3, <1>5, FS_CardinalityType

\* A deque without repetition has as many tasks as places.
LEMMA WaitingCount ==
    ASSUME QueueTypeOK, Once(deferred)
    PROVE  Cardinality(ToSet(deferred)) = Len(deferred)
<1> DEFINE N == 1 .. Len(deferred)
           W == ToSet(deferred)
<1>1. Len(deferred) \in Nat /\ DOMAIN deferred = N /\ deferred \in [N -> W]
  BY DEF QueueTypeOK, ToSet
<1>2. deferred \in Bijection(N, W)
  <2>1. \A i, j \in N : deferred[i] = deferred[j] => i = j
    BY <1>1 DEF Once
  <2>2. \A x \in W : \E i \in N : deferred[i] = x
    BY <1>1 DEF ToSet
  <2> HIDE DEF N, W
  <2> QED
    BY <1>1, <2>1, <2>2 DEF Bijection, Injection, Surjection, IsInjective
<1>3. ExistsBijection(N, W)
  BY <1>2 DEF ExistsBijection
<1>4. IsFiniteSet(N) /\ Cardinality(N) = Len(deferred)
  BY <1>1, FS_Interval
<1> QED
  BY <1>3, <1>4, FS_Bijection

\* The invariant says what the run checks.
LEMMA InvImplies ==
    ASSUME QueueInv
    PROVE  Conserved /\ LossHasEqualVictim
<1>1. Conserved
  BY WaitingCount DEF QueueInv, Apart, Count, Kept, Waiting, Conserved
<1>2. LossHasEqualVictim
  BY DEF QueueInv, VictimsOK, Lost, Equal, Kept, Waiting, LossHasEqualVictim, Vanished
<1> QED
  BY <1>1, <1>2

\* Nothing was submitted yet.
LEMMA InitInv == QueueInit => QueueInv
<1> SUFFICES ASSUME QueueInit PROVE QueueInv
  OBVIOUS
<1>1. Waiting = {} /\ Kept = {} /\ Submitted = {} /\ Len(priority) = 0 /\ Len(deferred) = 0
  BY DEF QueueInit, Waiting, ToSet, Kept, Submitted
<1>2. QueueTypeOK
  <2>1. priority \in Seq(Priorities) /\ deferred \in Seq(Submitted)
    BY DEF QueueInit
  <2>2. Len(deferred) <= MaxDeferred /\ cancels \in 0 .. Len(priority)
    BY <1>1, EngineAssumption DEF QueueInit
  <2> QED
    BY <2>1, <2>2 DEF QueueInit, QueueTypeOK
<1>3. Count
  BY <1>1, FS_EmptySet DEF QueueInit, Count
<1> QED
  BY <1>1, <1>2, <1>3 DEF QueueInv, QueueInit, Apart, Once, WaitingAreLow, VictimsOK, Lost

\* The new task of Submit is the next number and has the priority it was given.
LEMMA AppendFacts ==
    ASSUME QueueTypeOK, NEW p \in Priorities, priority' = Append(priority, p)
    PROVE  /\ Len(priority') = Len(priority) + 1 /\ priority' \in Seq(Priorities)
           /\ Len(priority) + 1 \notin Submitted
           /\ Submitted' = Submitted \cup {Len(priority) + 1}
           /\ priority'[Len(priority) + 1] = p
           /\ \A t \in Submitted : priority'[t] = priority[t]
<1>1. priority \in Seq(Priorities)
  BY DEF QueueTypeOK
<1>2. /\ Len(priority') = Len(priority) + 1 /\ priority' \in Seq(Priorities)
      /\ DOMAIN priority' = 1 .. Len(priority) + 1 /\ DOMAIN priority = 1 .. Len(priority)
      /\ Len(priority) \in Nat
      /\ priority'[Len(priority) + 1] = p
      /\ \A t \in 1 .. Len(priority) : priority'[t] = priority[t]
  BY <1>1
<1> QED
  BY <1>2 DEF Submitted

\* submit: the new task goes to the heap, to the deque, or is dropped at its bound.
LEMMA SubmitStep ==
    ASSUME QueueInv, NEW p \in Priorities, Submit(p)
    PROVE  QueueInv'
<1> DEFINE t == Len(priority) + 1
<1> USE DEF QueueInv
<1>1. /\ Len(priority') = Len(priority) + 1 /\ priority' \in Seq(Priorities)
      /\ t \notin Submitted /\ Submitted' = Submitted \cup {t} /\ priority'[t] = p
      /\ \A u \in Submitted : priority'[u] = priority[u]
  BY AppendFacts DEF Submit
<1>2. /\ Kept \subseteq Submitted /\ IsFiniteSet(Kept) /\ Cardinality(Kept) \in Nat
      /\ Len(priority) \in Nat /\ Waiting \subseteq Submitted
  BY KeptFacts
<1>3. UNCHANGED <<executed, cancelled, cancels>>
  BY DEF Submit
<1>4. overloaded' \in BOOLEAN /\ cached' \in BOOLEAN /\ fresh' \in BOOLEAN
  BY DEF Submit, GetMetrics, Load, QueueTypeOK
<1>5. Kept' = Kept \cup {t} /\ QueueTypeOK' /\ Apart' /\ WaitingAreLow'
  <2> DEFINE d == Append(deferred, t)
  <2>1. cancels' \in 0 .. Len(priority')
    BY <1>1, <1>2, <1>3 DEF QueueTypeOK
  <2>2. deferred \in Seq(Submitted')
    BY <1>1 DEF QueueTypeOK
  <2>3. ASSUME Defers(p), Len(deferred) < MaxDeferred, deferred' = d, UNCHANGED <<heap, index, dropped>>
        PROVE  Kept' = Kept \cup {t} /\ QueueTypeOK' /\ Apart' /\ WaitingAreLow'
    <3>1. /\ Len(deferred) \in Nat /\ DOMAIN deferred = 1 .. Len(deferred)
          /\ \A i \in DOMAIN deferred : deferred[i] \in Waiting
      BY DEF QueueTypeOK, Waiting, ToSet
    <3>2. /\ d \in Seq(Submitted') /\ Len(d) = Len(deferred) + 1
          /\ DOMAIN d = 1 .. Len(deferred) + 1
          /\ \A i \in 1 .. Len(deferred) : d[i] = deferred[i]
          /\ d[Len(deferred) + 1] = t
      BY <1>1, <2>2
    <3> HIDE DEF d, t
    <3>3. ToSet(d) = Waiting \cup {t}
      <4>1. ASSUME NEW x \in ToSet(d) PROVE x \in Waiting \cup {t}
        BY <3>1, <3>2 DEF ToSet
      <4>2. ASSUME NEW x \in Waiting PROVE x \in ToSet(d)
        BY <3>1, <3>2 DEF ToSet, Waiting
      <4>3. t \in ToSet(d)
        BY <3>1, <3>2 DEF ToSet
      <4> QED
        BY <4>1, <4>2, <4>3
    <3>4. Waiting' = Waiting \cup {t}
      BY <2>3, <3>3 DEF Waiting
    <3>5. Kept' = Kept \cup {t}
      BY <2>3, <3>4, <1>3 DEF Kept
    <3>6. Once(d)
      BY <3>1, <3>2, <1>1, <1>2 DEF Once, Apart
    <3>7. t \notin executed \cup index \cup heap \cup dropped
      BY <1>1 DEF QueueTypeOK
    <3>8. Apart'
      BY <2>3, <3>4, <3>6, <3>7, <1>3 DEF Apart
    <3>9. WaitingAreLow'
      BY <3>4, <1>1, <1>2, <2>3 DEF WaitingAreLow, Defers
    <3>10. Len(d) <= MaxDeferred
      BY <3>1, <3>2, <2>3, EngineAssumption
    <3>11. QueueTypeOK'
      BY <3>2, <3>10, <2>3, <2>1, <1>1, <1>3, <1>4 DEF QueueTypeOK
    <3> QED
      BY <3>5, <3>8, <3>9, <3>11
  <2>4. ASSUME dropped' = dropped \cup {t}, UNCHANGED queueVars
        PROVE  Kept' = Kept \cup {t} /\ QueueTypeOK' /\ Apart' /\ WaitingAreLow'
    <3> HIDE DEF t
    <3>1. Waiting' = Waiting /\ UNCHANGED <<heap, index, deferred>>
      BY <2>4 DEF queueVars, Waiting
    <3>2. QueueTypeOK'
      BY <2>4, <3>1, <2>1, <2>2, <1>1, <1>3, <1>4 DEF QueueTypeOK
    <3>3. t \notin heap \cup Waiting \cup executed
      BY <1>1, <1>2 DEF QueueTypeOK
    <3> QED
      BY <2>4, <3>1, <3>2, <3>3, <1>1, <1>2, <1>3 DEF Kept, Apart, WaitingAreLow
  <2>5. ASSUME Enqueue({t}), UNCHANGED <<deferred, dropped>>
        PROVE  Kept' = Kept \cup {t} /\ QueueTypeOK' /\ Apart' /\ WaitingAreLow'
    <3> HIDE DEF t
    <3>1. Waiting' = Waiting /\ heap' = heap \cup {t} /\ index' = index \cup {t}
      BY <2>5 DEF Enqueue, Waiting
    <3>2. QueueTypeOK'
      BY <2>5, <3>1, <2>1, <2>2, <1>1, <1>3, <1>4 DEF QueueTypeOK
    <3>3. t \notin dropped \cup Waiting \cup executed
      BY <1>1, <1>2 DEF QueueTypeOK
    <3> QED
      BY <2>5, <3>1, <3>2, <3>3, <1>1, <1>2, <1>3 DEF Kept, Apart, WaitingAreLow
  <2> QED
    BY <2>3, <2>4, <2>5 DEF Submit
<1> HIDE DEF t
<1>6. Count'
  <2>1. Cardinality(Kept') = Cardinality(Kept) + 1
    BY <1>1, <1>2, <1>5, FS_AddElement
  <2> QED
    BY <2>1, <1>1, <1>2, <1>3 DEF Count, QueueTypeOK
<1>7. VictimsOK'
  <2>1. Lost' = Lost /\ cancelled' = cancelled /\ t \notin cancelled /\ Lost \subseteq Submitted
    BY <1>1, <1>2, <1>3, <1>5 DEF Lost, QueueTypeOK
  <2>2. \A u, v \in Submitted : Equal(u, v)' <=> Equal(u, v)
    BY <1>1 DEF Equal
  <2>3. cancelled' \cap Kept' = cancelled \cap Kept /\ cancelled \subseteq Submitted
    BY <2>1, <1>5 DEF QueueTypeOK
  <2> QED
    BY <2>1, <2>2, <2>3, <1>2 DEF VictimsOK
<1> QED
  BY <1>5, <1>6, <1>7

\* A step that only moves tasks from one place to another.
LEMMA MoveStep ==
    ASSUME Count, VictimsOK, Kept' = Kept, UNCHANGED <<priority, cancelled, cancels>>
    PROVE  Count' /\ VictimsOK'
<1>1. Submitted' = Submitted /\ Lost' = Lost
  BY DEF Submitted, Lost
<1>2. \A u, v : Equal(u, v)' <=> Equal(u, v)
  BY DEF Equal
<1> QED
  BY <1>1, <1>2 DEF Count, VictimsOK

\* dequeue takes the best task of the heap.
LEMMA DequeueStep ==
    ASSUME QueueInv, Dequeue
    PROVE  QueueInv'
<1> USE DEF QueueInv
<1>1. UNCHANGED <<priority, deferred, overloaded, cached, fresh, dropped, cancelled, cancels>>
  BY DEF Dequeue, metricVars
<1>2. Waiting' = Waiting /\ Submitted' = Submitted /\ WaitingAreLow'
  BY <1>1 DEF Waiting, Submitted, WaitingAreLow
<1>3. CASE heap' = {} /\ index = {} /\ UNCHANGED <<index, executed>>
  <2>1. QueueTypeOK' /\ Apart' /\ Kept' = Kept
    BY <1>1, <1>2, <1>3 DEF QueueTypeOK, Apart, Kept
  <2> QED
    BY <2>1, <1>1, <1>2, MoveStep
<1>4. ASSUME NEW t \in index, heap' \subseteq heap, index' = index \ {t}, index' \subseteq heap',
             executed' = executed \cup {t}
      PROVE  QueueInv'
  <2>1. QueueTypeOK' /\ Apart' /\ Kept' = Kept
    BY <1>1, <1>2, <1>4 DEF QueueTypeOK, Apart, Kept
  <2> QED
    BY <2>1, <1>1, <1>2, MoveStep
<1>5. CASE \E t \in index, equals \in SUBSET (heap \ index) :
            /\ \A u \in index : priority[u] <= priority[t]
            /\ \A u \in equals : priority[u] = priority[t]
            /\ heap' = heap \ ({t} \cup equals \cup {u \in heap : priority[u] > priority[t]})
            /\ index' = index \ {t}
            /\ executed' = executed \cup {t}
  <2>1. PICK t \in index, equals \in SUBSET (heap \ index) :
            /\ \A u \in index : priority[u] <= priority[t]
            /\ heap' = heap \ ({t} \cup equals \cup {u \in heap : priority[u] > priority[t]})
            /\ index' = index \ {t}
            /\ executed' = executed \cup {t}
    BY <1>5
  <2>2. \A u \in index : priority[u] \in Nat
    <3>1. priority \in Seq(Priorities) /\ index \subseteq 1 .. Len(priority)
      BY DEF QueueTypeOK, Submitted
    <3>2. \A u \in index : priority[u] \in Priorities
      BY <3>1, ElementOfSeq
    <3> QED
      BY <3>2, PrioritiesAssumption
  <2>3. \A u \in index : ~(priority[u] > priority[t])
    BY <2>1, <2>2
  <2>4. index' \subseteq heap'
    BY <2>1, <2>3 DEF QueueTypeOK
  <2> QED
    BY <2>1, <2>4, <1>4
<1> QED
  BY <1>3, <1>5 DEF Dequeue

\* cancel removes the task from the heap, or one equal to it from the deque.
LEMMA CancelStep ==
    ASSUME QueueInv, NEW t \in Submitted, CancelQueued(t)
    PROVE  QueueInv'
<1> USE DEF QueueInv
<1>1. /\ UNCHANGED <<priority, heap, overloaded, cached, fresh, executed, dropped>>
      /\ cancelled' = cancelled \cup {t} /\ cancels' = cancels + 1 /\ Submitted' = Submitted
  BY DEF CancelQueued, metricVars, Submitted
<1>2. /\ Kept \subseteq Submitted /\ IsFiniteSet(Kept) /\ Cardinality(Kept) \in Nat
      /\ Len(priority) \in Nat /\ Waiting \subseteq Submitted
  BY KeptFacts
\* Whatever the branch, one task leaves the places: t, or a waiting equal of it.
<1>3. ASSUME NEW u \in Kept, Kept' = Kept \ {u}, u # t => Equal(u, t)
      PROVE  Count' /\ VictimsOK' /\ cancels' \in 0 .. Len(priority')
  <2>1. Cardinality(Kept') = Cardinality(Kept) - 1
    BY <1>2, <1>3, FS_RemoveElement
  <2>2. Count'
    BY <2>1, <1>1, <1>2 DEF Count, QueueTypeOK
  <2>3. Cardinality(Kept') \in Nat
    BY <2>1, <1>2, <1>3, FS_RemoveElement, FS_CardinalityType
  <2>4. cancels' \in 0 .. Len(priority')
    BY <2>2, <2>3, <1>1, <1>2 DEF Count, QueueTypeOK
  <2>5. Lost' = Lost \cup {u}
    BY <1>1, <1>2, <1>3 DEF Lost
  <2>6. \A v, w : Equal(v, w)' <=> Equal(v, w)
    BY <1>1 DEF Equal
  <2>7. \A v, w : Equal(v, w) => Equal(w, v) \/ ~(priority[w] < Normal)
    BY DEF Equal
  <2>8. ASSUME NEW v \in Lost' \ cancelled'
        PROVE  \E w \in cancelled' : Equal(w, v)'
    <3>1. CASE v \in Lost
      <4>1. PICK w \in cancelled : Equal(w, v)
        BY <3>1, <2>8, <1>1 DEF VictimsOK
      <4> QED
        BY <4>1, <2>6, <1>1
    <3>2. CASE v = u
      <4>1. Equal(t, v)
        BY <3>2, <2>8, <1>1, <1>3 DEF Equal
      <4> QED
        BY <4>1, <2>6, <1>1
    <3> QED
      BY <3>1, <3>2, <2>5, <2>8
  <2>9. ASSUME NEW v \in cancelled' \cap Kept'
        PROVE  \E w \in Lost' : Equal(w, v)'
    <3>1. CASE v \in cancelled
      <4>1. PICK w \in Lost : Equal(w, v)
        BY <3>1, <2>9, <1>3 DEF VictimsOK
      <4> QED
        BY <4>1, <2>5, <2>6
    <3>2. CASE v = t
      <4>1. u # t
        BY <3>2, <2>9, <1>3
      <4> QED
        BY <4>1, <3>2, <1>3, <2>5, <2>6
    <3> QED
      BY <3>1, <3>2, <2>9, <1>1
  <2> QED
    BY <2>2, <2>4, <2>8, <2>9 DEF VictimsOK
<1>4. CASE t \in index /\ index' = index \ {t} /\ UNCHANGED deferred
  <2>1. Waiting' = Waiting
    BY <1>4 DEF Waiting
  <2>2. Apart' /\ WaitingAreLow' /\ t \in Kept /\ Kept' = Kept \ {t}
    BY <1>1, <1>4, <2>1 DEF Apart, WaitingAreLow, Kept, QueueTypeOK
  <2>3. Count' /\ VictimsOK' /\ cancels' \in 0 .. Len(priority')
    BY <2>2, <1>3
  <2>4. QueueTypeOK'
    BY <2>3, <1>1, <1>4 DEF QueueTypeOK
  <2> QED
    BY <2>2, <2>3, <2>4
<1>5. CASE t \notin index /\ t \in Waiting /\ deferred' = RemoveEqual(t) /\ UNCHANGED index
  <2>1. /\ deferred' \in Seq(Submitted) /\ Len(deferred') = Len(deferred) - 1 /\ Once(deferred')
        /\ \E u \in Waiting : priority[u] = priority[t] /\ Waiting' = Waiting \ {u}
    BY <1>5, RemoveEqualFacts DEF Waiting, QueueTypeOK, Apart
  <2>2. PICK u \in Waiting : priority[u] = priority[t] /\ Waiting' = Waiting \ {u}
    BY <2>1
  <2>3. Apart' /\ WaitingAreLow' /\ u \in Kept /\ Kept' = Kept \ {u}
    BY <1>1, <1>5, <2>1, <2>2 DEF Apart, WaitingAreLow, Kept, QueueTypeOK
  <2>4. u # t => Equal(u, t)
    BY <1>5, <2>2 DEF Equal, WaitingAreLow
  <2>5. Count' /\ VictimsOK' /\ cancels' \in 0 .. Len(priority')
    BY <2>3, <2>4, <1>3
  <2>6. Len(deferred') <= MaxDeferred
    BY <2>1, EngineAssumption DEF QueueTypeOK
  <2>7. QueueTypeOK'
    BY <2>1, <2>5, <2>6, <1>1, <1>5 DEF QueueTypeOK
  <2> QED
    BY <2>3, <2>5, <2>7
<1> QED
  BY <1>4, <1>5 DEF CancelQueued, Waiting

\* process_deferred queues the deferred tasks again once the load is down.
LEMMA ProcessDeferredStep ==
    ASSUME QueueInv, ProcessDeferred
    PROVE  QueueInv'
<1> USE DEF QueueInv
<1>1. UNCHANGED <<priority, executed, dropped, cancelled, cancels>> /\ Submitted' = Submitted
  BY DEF ProcessDeferred, historyVars, Submitted
<1>2. overloaded' \in BOOLEAN /\ cached' \in BOOLEAN /\ fresh' \in BOOLEAN
  BY DEF ProcessDeferred, GetMetrics, Load, QueueTypeOK
<1>3. CASE UNCHANGED queueVars
  <2>1. UNCHANGED <<heap, index, deferred>> /\ Waiting' = Waiting
    BY <1>3 DEF queueVars, Waiting
  <2>2. QueueTypeOK' /\ Apart' /\ WaitingAreLow' /\ Kept' = Kept
    BY <1>1, <1>2, <2>1 DEF QueueTypeOK, Apart, WaitingAreLow, Kept
  <2> QED
    BY <2>2, <1>1, MoveStep
<1>4. CASE Enqueue(Waiting) /\ deferred' = << >>
  <2>1. /\ heap' = heap \cup Waiting /\ index' = index \cup Waiting
        /\ deferred' = << >> /\ Waiting' = {}
    BY <1>4 DEF Enqueue, Waiting, ToSet
  <2>2. Waiting \subseteq Submitted
    BY KeptFacts
  <2>3. deferred' \in Seq(Submitted') /\ Len(deferred') <= MaxDeferred /\ Once(deferred')
    BY <2>1, EngineAssumption DEF Once
  <2>4. Apart' /\ WaitingAreLow' /\ Kept' = Kept
    BY <1>1, <2>1, <2>3 DEF Apart, WaitingAreLow, Kept
  <2>5. QueueTypeOK'
    BY <1>1, <1>2, <2>1, <2>2, <2>3 DEF QueueTypeOK
  <2> QED
    BY <2>4, <2>5, <1>1, MoveStep
<1> QED
  BY <1>3, <1>4 DEF ProcessDeferred, Waiting

\* The steps that only read or change the load.
LEMMA LoadStep ==
    ASSUME QueueInv, UNCHANGED <<priority, queueVars, historyVars>>,
           overloaded' \in BOOLEAN, cached' \in BOOLEAN, fresh' \in BOOLEAN
    PROVE  QueueInv'
<1> USE DEF QueueInv
<1>1. /\ UNCHANGED <<priority, heap, index, deferred, executed, dropped, cancelled, cancels>>
      /\ Waiting' = Waiting /\ Submitted' = Submitted
  BY DEF queueVars, historyVars, Waiting, Submitted
<1>2. QueueTypeOK' /\ Apart' /\ WaitingAreLow' /\ Kept' = Kept
  BY <1>1 DEF QueueTypeOK, Apart, WaitingAreLow, Kept
<1> QED
  BY <1>1, <1>2, MoveStep

\* Every step of the queue.
LEMMA NextStep == QueueInv /\ [QueueNext]_engineVars => QueueInv'
<1> SUFFICES ASSUME QueueInv, [QueueNext]_engineVars PROVE QueueInv'
  OBVIOUS
<1>1. overloaded \in BOOLEAN /\ cached \in BOOLEAN /\ fresh \in BOOLEAN
  BY DEF QueueInv, QueueTypeOK
<1>2. ASSUME NEW p \in Priorities, Submit(p) PROVE QueueInv'
  BY <1>2, SubmitStep
<1>3. ASSUME NEW t \in Submitted, CancelQueued(t) PROVE QueueInv'
  BY <1>3, CancelStep
<1>4. CASE Dequeue
  BY <1>4, DequeueStep
<1>5. CASE ProcessDeferred
  BY <1>5, ProcessDeferredStep
<1>6. CASE SchedulerProcessor
  BY <1>1, <1>6, LoadStep DEF SchedulerProcessor, GetMetrics, Load
<1>7. CASE LoadChanges
  BY <1>1, <1>7, LoadStep DEF LoadChanges
<1>8. CASE MetricsExpire
  BY <1>1, <1>8, LoadStep DEF MetricsExpire
<1>9. CASE UNCHANGED engineVars
  BY <1>1, <1>9, LoadStep DEF engineVars, metricVars
<1> QED
  BY <1>2, <1>3, <1>4, <1>5, <1>6, <1>7, <1>8, <1>9 DEF QueueNext

\* The invariant holds in every state of the queue.
THEOREM QueueInvariance == QueueSpec => []QueueInv
BY InitInv, NextStep, PTL DEF QueueSpec

\* Every submitted task is in exactly one place, and only a full deque and
\* successful cancels, one task each, take tasks out, for any tasks, priorities,
\* loads and bound of the deque (engine.py:143-214).
THEOREM QueueIsConserved == QueueSpec => []Conserved
<1>1. QueueInv => Conserved
  BY InvImplies
<1> QED
  BY <1>1, QueueInvariance, PTL

\* A task that vanished without being cancelled has a cancelled one of its own
\* low priority, and a cancelled one that was executed all the same has one that
\* went in its place (engine.py:158-166, :177-180).
THEOREM LossesHaveVictims == QueueSpec => []LossHasEqualVictim
<1>1. QueueInv => LossHasEqualVictim
  BY InvImplies
<1> QED
  BY <1>1, QueueInvariance, PTL

=============================================================================
