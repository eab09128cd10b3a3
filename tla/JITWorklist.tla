---------------------------- MODULE JITWorklist ----------------------------
(***************************************************************************)
(* JSC::JITWorklist (jit/JITWorklist.cpp), its threads                     *)
(* (jit/JITWorklistThread.cpp, which are WTF::AutomaticThreads sharing the *)
(* condition m_planEnqueued), the safepoints of a compilation              *)
(* (jit/JITSafepoint.cpp) and the stages of a plan (jit/JITPlan.cpp).  One *)
(* worklist serves the VMs of the process.  Of a VM the module has the     *)
(* mutator, as far as it asks the worklist for something, and the          *)
(* collector, as far as it suspends the compiler threads and cancels       *)
(* plans: HeapConductor says how the two take turns.                       *)
(*                                                                         *)
(* A section under *m_lock is one step.  m_rightToRun and m_suspensionLock *)
(* are held over several steps, so they are variables.                     *)
(***************************************************************************)
EXTENDS Naturals, Sequences, SequencesExt, FiniteSetsExt

CONSTANTS VMs, Plans, Null,
          Mortals,           \* the VMs that are destroyed at some time, as those of workers are
          NumberOfThreads,   \* numberOfWorklistThreads
          Maximum,           \* m_maximumNumberOfConcurrentCompilationsPerTier
          vm, tier, key      \* of every plan

Threads == 1 .. NumberOfThreads   \* m_threads, in their order
Tiers == {"Baseline", "DFG"}      \* there is no FTL tier in this build

ASSUME InstanceAssumption ==
    /\ NumberOfThreads \in Nat \ {0} /\ Null \notin VMs \cup Plans /\ Mortals \subseteq VMs
    /\ Maximum \in [Tiers -> Nat \ {0}] /\ Maximum["Baseline"] = NumberOfThreads
    /\ vm \in [Plans -> VMs] /\ tier \in [Plans -> Tiers] /\ DOMAIN key = Plans
    /\ \A p, q \in Plans : key[p] = key[q] => vm[p] = vm[q] /\ tier[p] = tier[q]

VARIABLES stage,                      \* of each plan; "none": there is no such plan
          codeBlock,                  \* whether the CodeBlock the plan is for exists
          m_plans, m_queues, m_readyPlans,
          m_ongoingCompilationsPerTier, m_numberOfActiveThreads,
          thread,                     \* where each thread is; "none": no underlying thread
          m_plan, m_tier,             \* the plan it has taken; the m_tier of its WorkScope
          m_rightToRun,               \* who holds that lock of the thread
          m_didGetCancelled,          \* of the Safepoint::Result of its safepoint
          m_suspensionLock,
          mutator,                    \* where the mutator of each VM is
          op, requestedKey, myReadyPlans,   \* its operation, argument and local
          collector,                  \* where its collector is
          m_worldIsStopped

worklist == <<m_plans, m_queues, m_readyPlans>>
counts == <<m_ongoingCompilationsPerTier, m_numberOfActiveThreads>>
threads == <<thread, m_plan, m_tier, m_rightToRun, m_didGetCancelled>>
plan == <<stage, codeBlock>>
mut == <<mutator, op, requestedKey, myReadyPlans>>
gc == <<m_suspensionLock, collector, m_worldIsStopped>>
vars == <<plan, worklist, counts, threads, mut, gc>>

Keys == {key[p] : p \in Plans}
Of(v) == {p \in Plans : vm[p] = v}

TypeOK ==
    /\ stage \in [Plans -> {"none", "Preparing", "Compiling", "Ready", "Canceled"}]
    /\ codeBlock \in [Plans -> BOOLEAN]
    /\ m_plans \subseteq Plans /\ m_readyPlans \subseteq Plans
    /\ m_queues \in [Tiers -> Seq(Plans)]
    /\ m_ongoingCompilationsPerTier \in [Tiers -> 0 .. NumberOfThreads]
    /\ m_numberOfActiveThreads \in 0 .. NumberOfThreads
    /\ thread \in [Threads -> {"none", "poll", "wait", "work", "compile", "safepoint", "leave"}]
    /\ m_plan \in [Threads -> Plans \cup {Null}] /\ m_tier \in [Threads -> Tiers \cup {Null}]
    /\ m_rightToRun \in [Threads -> Threads \cup VMs \cup {Null}]
    /\ m_didGetCancelled \in [Threads -> BOOLEAN]
    /\ m_suspensionLock \in VMs \cup {Null}
    /\ mutator \in [VMs -> {"run", "finalize", "ask", "wait", "blocked", "acquire",
                            "remove", "destroy", "destroyed"}]
    /\ op \in [VMs -> {"request", "completeAll", "cancelAll", "lastUnlock", Null}]
    /\ requestedKey \in [VMs -> Keys \cup {Null}]
    /\ myReadyPlans \in [VMs -> SUBSET Plans]
    /\ collector \in [VMs -> {"idle", "suspend", "lock", "stopped", "resume"}]
    /\ m_worldIsStopped \in [VMs -> BOOLEAN]

Init ==
    /\ stage = [p \in Plans |-> "none"] /\ codeBlock = [p \in Plans |-> FALSE]
    /\ m_plans = {} /\ m_readyPlans = {} /\ m_queues = [i \in Tiers |-> <<>>]
    /\ m_ongoingCompilationsPerTier = [i \in Tiers |-> 0] /\ m_numberOfActiveThreads = 0
    /\ thread = [w \in Threads |-> "none"] /\ m_plan = [w \in Threads |-> Null]
    /\ m_tier = [w \in Threads |-> Null]
    /\ m_rightToRun = [w \in Threads |-> Null]
    /\ m_didGetCancelled = [w \in Threads |-> FALSE]
    /\ m_suspensionLock = Null
    /\ mutator = [v \in VMs |-> "run"] /\ op = [v \in VMs |-> Null]
    /\ requestedKey = [v \in VMs |-> Null] /\ myReadyPlans = [v \in VMs |-> {}]
    /\ collector = [v \in VMs |-> "idle"] /\ m_worldIsStopped = [v \in VMs |-> FALSE]

-----------------------------------------------------------------------------
(* The threads.                                                            *)

\* Mutant: a thread that has timed out is not started again
NotifyWaiting ==
    LET waiting == {w \in Threads : thread[w] = "wait"}
    IN  IF waiting # {} THEN [thread EXCEPT ![Min(waiting)] = "poll"] ELSE thread

\* AutomaticThreadCondition::notifyOne: the first thread that waits polls again, or else
\* the first that has timed out gets a new underlying thread
NotifyOne ==
    LET waiting == {w \in Threads : thread[w] = "wait"}
        stopped == {w \in Threads : thread[w] = "none"}
    IN  IF waiting # {} THEN [thread EXCEPT ![Min(waiting)] = "poll"]
        ELSE IF stopped # {} THEN [thread EXCEPT ![Min(stopped)] = "poll"]
        ELSE thread

\* Mutant: nobody is notified
NotifyNone == mutator

\* m_planCompiledOrCancelled.notifyAll
NotifyAll == [v \in VMs |-> IF mutator[v] = "blocked" THEN "wait" ELSE mutator[v]]

Takeable(i) == m_queues[i] # <<>> /\ m_ongoingCompilationsPerTier[i] < Maximum[i]

\* poll, when it finds work: Baseline plans first
Take(w) ==
    /\ thread[w] = "poll"
    /\ \E i \in Tiers :
        /\ Takeable(i) /\ (i = "DFG" => ~Takeable("Baseline"))
        /\ m_plan' = [m_plan EXCEPT ![w] = Head(m_queues[i])]
        /\ m_tier' = [m_tier EXCEPT ![w] = i]
        /\ m_queues' = [m_queues EXCEPT ![i] = Tail(@)]
        /\ m_ongoingCompilationsPerTier' = [m_ongoingCompilationsPerTier EXCEPT ![i] = @ + 1]
    /\ m_numberOfActiveThreads' = m_numberOfActiveThreads + 1
    /\ thread' = [thread EXCEPT ![w] = "work"]
    /\ UNCHANGED <<plan, m_plans, m_readyPlans, m_rightToRun, m_didGetCancelled, mut, gc>>

\* poll, when it does not, and the wait that follows
Wait(w) ==
    /\ thread[w] = "poll" /\ \A i \in Tiers : ~Takeable(i)
    /\ thread' = [thread EXCEPT ![w] = "wait"]
    /\ UNCHANGED <<plan, worklist, counts, m_plan, m_tier, m_rightToRun, m_didGetCancelled, mut, gc>>

\* The wait times out before it is notified, and the underlying thread ends
StopForTimeout(w) ==
    /\ thread[w] = "wait"
    /\ thread' = [thread EXCEPT ![w] = "none"]
    /\ UNCHANGED <<plan, worklist, counts, m_plan, m_tier, m_rightToRun, m_didGetCancelled, mut, gc>>

\* work, up to the call of compileInThread
StartWork(w) ==
    /\ thread[w] = "work" /\ m_rightToRun[w] = Null
    /\ IF stage[m_plan[w]] = "Canceled"
       THEN thread' = [thread EXCEPT ![w] = "leave"] /\ UNCHANGED <<stage, m_rightToRun>>
       ELSE /\ stage' = [stage EXCEPT ![m_plan[w]] = "Compiling"]
            /\ m_rightToRun' = [m_rightToRun EXCEPT ![w] = w]
            /\ thread' = [thread EXCEPT ![w] = "compile"]
    /\ UNCHANGED <<codeBlock, worklist, counts, m_plan, m_tier, m_didGetCancelled, mut, gc>>

\* A phase of the DFG begins: GraphSafepoint's constructor ...
Safepoint(w) ==
    /\ thread[w] = "compile" /\ tier[m_plan[w]] = "DFG"
    /\ thread' = [thread EXCEPT ![w] = "safepoint"]
    /\ m_didGetCancelled' = [m_didGetCancelled EXCEPT ![w] = FALSE]
    /\ m_rightToRun' = [m_rightToRun EXCEPT ![w] = Null]
    /\ UNCHANGED <<plan, worklist, counts, m_plan, m_tier, mut, gc>>

\* ... and destructor; a compilation that was cancelled meanwhile takes the CancelPath out
\* of compileInThread and work
EndSafepoint(w) ==
    /\ thread[w] = "safepoint" /\ m_rightToRun[w] = Null
    /\ IF m_didGetCancelled[w]
       THEN thread' = [thread EXCEPT ![w] = "leave"] /\ UNCHANGED m_rightToRun
       ELSE /\ thread' = [thread EXCEPT ![w] = "compile"]
            /\ m_rightToRun' = [m_rightToRun EXCEPT ![w] = w]
    /\ UNCHANGED <<plan, worklist, counts, m_plan, m_tier, m_didGetCancelled, mut, gc>>

\* compileInThread returns, and the rest of work
FinishWork(w) ==
    /\ thread[w] = "compile"
    /\ thread' = [thread EXCEPT ![w] = "leave"]
    /\ m_rightToRun' = [m_rightToRun EXCEPT ![w] = Null]
    /\ IF stage[m_plan[w]] = "Canceled"
       THEN UNCHANGED <<stage, m_readyPlans, m_plan, mutator>>
       ELSE /\ stage' = [stage EXCEPT ![m_plan[w]] = "Ready"]
            /\ m_readyPlans' = m_readyPlans \cup {m_plan[w]}
            /\ m_plan' = [m_plan EXCEPT ![w] = Null]
            /\ mutator' = NotifyAll
    /\ UNCHANGED <<codeBlock, m_plans, m_queues, counts, m_tier, m_didGetCancelled,
                   op, requestedKey, myReadyPlans, gc>>

\* WorkScope's destructor.  A cancelled plan the thread still had goes with its last reference
LeaveScope(w) ==
    /\ thread[w] = "leave"
    /\ stage' = [p \in Plans |-> IF p = m_plan[w] THEN "none" ELSE stage[p]]
    /\ m_plan' = [m_plan EXCEPT ![w] = Null]
    /\ m_tier' = [m_tier EXCEPT ![w] = Null]
    /\ m_numberOfActiveThreads' = m_numberOfActiveThreads - 1
    /\ m_ongoingCompilationsPerTier' = [m_ongoingCompilationsPerTier EXCEPT ![m_tier[w]] = @ - 1]
    /\ thread' = [thread EXCEPT ![w] = "poll"]
    /\ UNCHANGED <<codeBlock, worklist, m_rightToRun, m_didGetCancelled, mut, gc>>

-----------------------------------------------------------------------------
(* Plans that leave the worklist.                                          *)

\* removeAllReadyPlansForVM: the plans it moves to its caller's vector
ReadyPlans(v) == {p \in m_readyPlans \cap Of(v) : stage[p] = "Ready"}

removeAllReadyPlansForVM(v) ==
    /\ m_readyPlans' = m_readyPlans \ ReadyPlans(v)
    /\ m_plans' = m_plans \ ReadyPlans(v)
    /\ UNCHANGED m_queues

\* The stages once the plans in gone are not referred to any more
Drop(gone) == [p \in Plans |-> IF p \in gone THEN "none" ELSE stage[p]]

\* Mutant: the queues keep the plans that match
RemoveFromMap(matching) ==
    /\ m_plans' = m_plans \ matching
    /\ stage' = [p \in Plans |->
                    IF p \notin matching THEN stage[p]
                    ELSE IF \E w \in Threads : m_plan[w] = p THEN "Canceled" ELSE "none"]
    /\ m_readyPlans' = m_readyPlans \ matching
    /\ UNCHANGED m_queues

\* removeMatchingPlansForVM, for the plans that match.  A plan that a thread has taken stays
\* with it, cancelled; the others are gone
removeMatchingPlansForVM(matching) ==
    /\ m_plans' = m_plans \ matching
    /\ stage' = [p \in Plans |->
                    IF p \notin matching THEN stage[p]
                    ELSE IF \E w \in Threads : m_plan[w] = p THEN "Canceled" ELSE "none"]
    /\ m_queues' = [i \in Tiers |-> SelectSeq(m_queues[i], LAMBDA p : p \notin matching)]
    /\ m_readyPlans' = m_readyPlans \ matching

-----------------------------------------------------------------------------
(* The mutator of a VM.  While it holds heap access the collector stops it *)
(* only between these operations: they defer collections.                  *)

NoAccess(v) == mutator[v] \in {"wait", "blocked", "acquire"} \/ op[v] = "lastUnlock"
Stopped(v) == collector[v] # "idle"

\* completeAllReadyPlansForVM for a code block that became hot (jitCompileAndSetHeuristics,
\* operationOptimize)
RequestCompilation(v) ==
    /\ mutator[v] = "run" /\ ~Stopped(v)
    /\ \E k \in {key[p] : p \in Of(v)} :
        requestedKey' = [requestedKey EXCEPT ![v] =
            IF \E p \in ReadyPlans(v) : key[p] = k THEN Null ELSE k]   \* Compiled
    /\ removeAllReadyPlansForVM(v)
    /\ myReadyPlans' = [myReadyPlans EXCEPT ![v] = ReadyPlans(v)]
    /\ op' = [op EXCEPT ![v] = "request"]
    /\ mutator' = [mutator EXCEPT ![v] = "finalize"]
    /\ UNCHANGED <<plan, counts, threads, gc>>

\* The loop over myReadyPlans: finalize installs the code
Finalize(v) ==
    /\ mutator[v] = "finalize"
    /\ stage' = Drop(myReadyPlans[v])
    /\ codeBlock' = [p \in Plans |-> codeBlock[p] /\ p \notin myReadyPlans[v]]
    /\ myReadyPlans' = [myReadyPlans EXCEPT ![v] = {}]
    /\ mutator' = [mutator EXCEPT ![v] = IF requestedKey[v] = Null THEN "run" ELSE "ask"]
    /\ op' = [op EXCEPT ![v] = IF requestedKey[v] = Null THEN Null ELSE @]
    /\ UNCHANGED <<worklist, counts, threads, requestedKey, gc>>

\* What completeAllReadyPlansForVM returns: Compiling ...
AlreadyCompiling(v) ==
    /\ mutator[v] = "ask"
    /\ \E p \in m_plans : key[p] = requestedKey[v]
    /\ requestedKey' = [requestedKey EXCEPT ![v] = Null]
    /\ op' = [op EXCEPT ![v] = Null]
    /\ mutator' = [mutator EXCEPT ![v] = "run"]
    /\ UNCHANGED <<plan, worklist, counts, threads, myReadyPlans, gc>>

\* ... or NotKnown, and then its caller makes a plan and enqueues it
enqueue(v) ==
    /\ mutator[v] = "ask"
    /\ ~\E p \in m_plans : key[p] = requestedKey[v]
    /\ \E p \in Of(v) :
        /\ key[p] = requestedKey[v] /\ stage[p] = "none"
        /\ stage' = [stage EXCEPT ![p] = "Preparing"]
        /\ codeBlock' = [codeBlock EXCEPT ![p] = TRUE]
        /\ m_plans' = m_plans \cup {p}
        /\ m_queues' = [m_queues EXCEPT ![tier[p]] = Append(@, p)]
    /\ thread' = NotifyOne
    /\ requestedKey' = [requestedKey EXCEPT ![v] = Null]
    /\ op' = [op EXCEPT ![v] = Null]
    /\ mutator' = [mutator EXCEPT ![v] = "run"]
    /\ UNCHANGED <<m_readyPlans, counts, m_plan, m_tier, m_rightToRun, m_didGetCancelled,
                   myReadyPlans, gc>>

\* completeAllPlansForVM (Heap::completeAllJITPlans): it waits without heap access
CompleteAll(v) ==
    /\ mutator[v] = "run" /\ ~Stopped(v)
    /\ op' = [op EXCEPT ![v] = "completeAll"]
    /\ mutator' = [mutator EXCEPT ![v] = "wait"]
    /\ UNCHANGED <<plan, worklist, counts, threads, requestedKey, myReadyPlans, gc>>

\* Mutant: the plans that are being compiled are cancelled too
AnyPlan(v) == m_plans \cap Of(v)

\* cancelAllPlansForVM (VM's destructor): it cancels the plans that are not being compiled
\* and then waits for the others.  The VM may go with the last reference that JSLock::unlock had
\* to it, when the mutator has no heap access any more, whatever its collector is doing
NotCompiling(v) == {p \in m_plans \cap Of(v) : stage[p] # "Compiling"}

CancelAll(v) ==
    /\ v \in Mortals /\ mutator[v] = "run"
    /\ \E o \in {"cancelAll", "lastUnlock"} :
        /\ o = "cancelAll" => ~Stopped(v)
        /\ op' = [op EXCEPT ![v] = o]
    /\ removeMatchingPlansForVM(NotCompiling(v))
    /\ mutator' = [(IF NotCompiling(v) = {} THEN mutator ELSE NotifyAll) EXCEPT ![v] = "wait"]
    /\ UNCHANGED <<codeBlock, counts, threads, requestedKey, myReadyPlans, gc>>

\* A turn of the loop of waitUntilAllPlansForVMAreReady
WaitUntilReady(v) ==
    /\ mutator[v] = "wait"
    /\ mutator' = [mutator EXCEPT ![v] =
            IF \E p \in m_plans \cap Of(v) : stage[p] # "Ready" THEN "blocked"
            ELSE IF op[v] = "lastUnlock" THEN "remove" ELSE "acquire"]
    /\ UNCHANGED <<plan, worklist, counts, threads, op, requestedKey, myReadyPlans, gc>>

\* The end of the ReleaseHeapAccessIfNeededScope, which gives back the access it has released
AcquireAccess(v) ==
    /\ mutator[v] = "acquire" /\ ~Stopped(v)
    /\ mutator' = [mutator EXCEPT ![v] = "remove"]
    /\ UNCHANGED <<plan, worklist, counts, threads, op, requestedKey, myReadyPlans, gc>>

\* The removeAllReadyPlansForVM that comes after the wait: completeAllPlansForVM goes on to
\* finalize the plans, cancelAllPlansForVM drops them
RemoveReady(v) ==
    /\ mutator[v] = "remove"
    /\ removeAllReadyPlansForVM(v)
    /\ \/ /\ op[v] = "completeAll"
          /\ myReadyPlans' = [myReadyPlans EXCEPT ![v] = ReadyPlans(v)]
          /\ mutator' = [mutator EXCEPT ![v] = "finalize"]
          /\ UNCHANGED stage
       \/ /\ op[v] \in {"cancelAll", "lastUnlock"}
          /\ stage' = Drop(ReadyPlans(v))
          /\ mutator' = [mutator EXCEPT ![v] = "destroy"]
          /\ UNCHANGED myReadyPlans
    /\ UNCHANGED <<codeBlock, counts, threads, op, requestedKey, gc>>

\* The rest of VM's destructor: Heap::lastChanceToFinalize lets a collection that is going
\* on end, and the code blocks go with the heap
Destroy(v) ==
    /\ mutator[v] = "destroy" /\ ~Stopped(v)
    /\ codeBlock' = [p \in Plans |-> codeBlock[p] /\ vm[p] # v]
    /\ op' = [op EXCEPT ![v] = Null]
    /\ mutator' = [mutator EXCEPT ![v] = "destroyed"]
    /\ UNCHANGED <<stage, worklist, counts, threads, requestedKey, myReadyPlans, gc>>

\* Somebody makes a VM again
Create(v) ==
    /\ mutator[v] = "destroyed"
    /\ mutator' = [mutator EXCEPT ![v] = "run"]
    /\ UNCHANGED <<plan, worklist, counts, threads, op, requestedKey, myReadyPlans, gc>>

-----------------------------------------------------------------------------
(* The collector of a VM.                                                  *)

\* The mutator is stopped (lastChanceToFinalize, too, waits for it), or has no access and will
\* not get it back; stopThePeriphery
StopTheWorld(v) ==
    /\ collector[v] = "idle" /\ (mutator[v] \in {"run", "destroy"} \/ NoAccess(v))
    /\ collector' = [collector EXCEPT ![v] = "suspend"]
    /\ UNCHANGED <<plan, worklist, counts, threads, mut, m_suspensionLock, m_worldIsStopped>>

\* suspendAllThreads: m_suspensionLock, then m_rightToRun of each thread, the last one first
LockSuspension(v) ==
    /\ collector[v] = "suspend" /\ m_suspensionLock = Null
    /\ m_suspensionLock' = v
    /\ collector' = [collector EXCEPT ![v] = "lock"]
    /\ UNCHANGED <<plan, worklist, counts, threads, mut, m_worldIsStopped>>

Running(v) == {w \in Threads : m_rightToRun[w] # v}

SuspendThread(v) ==
    /\ collector[v] = "lock" /\ Running(v) # {}
    /\ m_rightToRun[Max(Running(v))] = Null
    /\ m_rightToRun' = [m_rightToRun EXCEPT ![Max(Running(v))] = v]
    /\ UNCHANGED <<plan, worklist, counts, thread, m_plan, m_tier, m_didGetCancelled, mut, gc>>

WorldStopped(v) ==
    /\ collector[v] = "lock" /\ Running(v) = {}
    /\ m_worldIsStopped' = [m_worldIsStopped EXCEPT ![v] = TRUE]
    /\ collector' = [collector EXCEPT ![v] = "stopped"]
    /\ UNCHANGED <<plan, worklist, counts, threads, mut, m_suspensionLock>>

\* The end of a collection.  What the constraint "Jw" has visited are the code blocks of the
\* plans in m_plans whose executable is live; every other code block of a plan is swept.
\* removeDeadPlans cancels the plans with a dead executable, and then the compilations that
\* are at a safepoint with a plan that is not live (any more)
removeDeadPlans(v) ==
    /\ collector[v] = "stopped"
    /\ \E dead \in SUBSET (m_plans \cap Of(v)) :
        /\ removeMatchingPlansForVM(dead)
        /\ mutator' = IF dead = {} THEN mutator ELSE NotifyAll
        /\ codeBlock' = [p \in Plans |->
                            codeBlock[p] /\ (vm[p] = v => p \in m_plans \ dead)]
    /\ m_didGetCancelled' = [w \in Threads |->
            \/ m_didGetCancelled[w]
            \/ thread[w] = "safepoint" /\ vm[m_plan[w]] = v /\ stage'[m_plan[w]] = "Canceled"]
    /\ collector' = [collector EXCEPT ![v] = "resume"]
    /\ UNCHANGED <<counts, thread, m_plan, m_tier, m_rightToRun,
                   op, requestedKey, myReadyPlans, m_suspensionLock, m_worldIsStopped>>

\* resumeThePeriphery, at the end of a collection or to let the mutator run during it ...
ResumeThePeriphery(v) ==
    /\ collector[v] \in {"stopped", "resume"} /\ m_worldIsStopped[v]
    /\ m_worldIsStopped' = [m_worldIsStopped EXCEPT ![v] = FALSE]
    /\ collector' = [collector EXCEPT ![v] = "resume"]
    /\ UNCHANGED <<plan, worklist, counts, threads, mut, m_suspensionLock>>

\* ... ends with resumeAllThreads; then the mutator may run
resumeAllThreads(v) ==
    /\ collector[v] = "resume" /\ ~m_worldIsStopped[v]
    /\ m_rightToRun' = [w \in Threads |-> Null]
    /\ m_suspensionLock' = Null
    /\ collector' = [collector EXCEPT ![v] = "idle"]
    /\ UNCHANGED <<plan, worklist, counts, thread, m_plan, m_tier, m_didGetCancelled, mut,
                   m_worldIsStopped>>

-----------------------------------------------------------------------------
ThreadStep(w) ==
    \/ Take(w) \/ Wait(w) \/ StopForTimeout(w) \/ StartWork(w)
    \/ Safepoint(w) \/ EndSafepoint(w) \/ FinishWork(w) \/ LeaveScope(w)

\* What a mutator does once it has begun an operation
Proceed(v) ==
    \/ Finalize(v) \/ AlreadyCompiling(v) \/ enqueue(v)
    \/ WaitUntilReady(v) \/ RemoveReady(v)

MutatorStep(v) ==
    \/ RequestCompilation(v) \/ CompleteAll(v) \/ CancelAll(v) \/ Create(v)
    \/ Proceed(v) \/ AcquireAccess(v) \/ Destroy(v)

CollectorStep(v) ==
    \/ StopTheWorld(v) \/ LockSuspension(v) \/ SuspendThread(v) \/ WorldStopped(v)
    \/ removeDeadPlans(v) \/ ResumeThePeriphery(v) \/ resumeAllThreads(v)

Next ==
    \/ \E w \in Threads : ThreadStep(w)
    \/ \E v \in VMs : MutatorStep(v) \/ CollectorStep(v)

Spec == Init /\ [][Next]_vars

-----------------------------------------------------------------------------
(* Properties.                                                             *)

Takers(p) == {w \in Threads : m_plan[w] = p}
Queued(p) == {j \in DOMAIN m_queues[tier[p]] : m_queues[tier[p]][j] = p}
Completing(p) == {v \in VMs : p \in myReadyPlans[v]}

\* A plan is in the place its stage says, and in no other: one queue or one thread that is
\* about to work while it is Preparing, one compilation while it is Compiling, m_readyPlans
\* or the vector of one mutator once it is Ready, and nowhere but in the hands of a thread on
\* its way out when it is Canceled.  m_plans has the ones no mutator has taken out, one for a
\* key (the ASSERT of enqueue), and the counters count the plans that threads have, within
\* the maximum of their tier (JITWorklist, JITWorklistThread::poll, work, WorkScope).
PlansInPlace ==
    /\ \A p \in Plans :
        LET places == Cardinality(Queued(p)) + Cardinality(Takers(p)) + Cardinality(Completing(p))
                        + (IF p \in m_readyPlans THEN 1 ELSE 0)
            takenIn(where) == \E w \in Takers(p) : thread[w] \in where
        IN  /\ places = IF stage[p] = "none" THEN 0 ELSE 1
            /\ stage[p] = "Preparing" => Queued(p) # {} \/ takenIn({"work"})
            /\ stage[p] = "Compiling" => takenIn({"compile", "safepoint"})
            /\ stage[p] = "Ready" => p \in m_readyPlans \/ Completing(p) # {}
            /\ stage[p] = "Canceled" => takenIn({"work", "safepoint", "leave"})
            /\ p \in m_plans <=> /\ stage[p] \in {"Preparing", "Compiling", "Ready"}
                                 /\ Completing(p) = {}
            /\ p \in m_plans => \A q \in m_plans \ {p} : key[q] # key[p]
    /\ \A i \in Tiers :
        /\ m_ongoingCompilationsPerTier[i] = Cardinality({w \in Threads : m_tier[w] = i})
        /\ m_ongoingCompilationsPerTier[i] <= Maximum[i]
    /\ m_numberOfActiveThreads = Cardinality({w \in Threads : m_tier[w] # Null})

\* What a plan needs is there as long as the plan can be used: the collector and the end of
\* the VM take the code block of a plan away only when the plan is cancelled or dropped,
\* whichever thread has it; a thread compiles only a plan that is not cancelled, and not
\* while the world of its VM is stopped (the RELEASE_ASSERTs of work and compileInThread);
\* and a compilation at a safepoint learns of it exactly when its plan is cancelled
\* (Safepoint::cancel).
CodeOutlivesPlans ==
    /\ \A p \in Plans : stage[p] \in {"Preparing", "Compiling", "Ready"} => codeBlock[p]
    /\ \A w \in Threads :
        /\ thread[w] = "compile" => /\ stage[m_plan[w]] = "Compiling"
                                    /\ ~m_worldIsStopped[vm[m_plan[w]]]
        /\ thread[w] = "safepoint" => (m_didGetCancelled[w] <=> stage[m_plan[w]] = "Canceled")

\* No wakeup is lost: while there are plans the maxima allow to compile and a thread that is
\* idle, as many threads as there are such plans are on their way to poll, although enqueue
\* notifies a single thread, one that finds its tier full goes back to sleep, and sleeping
\* threads end (enqueue, AutomaticThreadCondition::notifyOne, AutomaticThread::start).
WorkConserved ==
    LET room(i) == Min({Len(m_queues[i]), Maximum[i] - m_ongoingCompilationsPerTier[i]})
    IN  (\E w \in Threads : thread[w] \in {"wait", "none"}) =>
            room("Baseline") + room("DFG") <= Cardinality({w \in Threads : thread[w] = "poll"})

\* No mutator sleeps for nothing: one that is blocked until its plans are ready has a plan that is
\* not, which a queue or a thread still has, although the plans it waits for can be finished by any
\* thread and be cancelled by its own collector while it has no heap access
\* (waitUntilAllPlansForVMAreReady, work, removeMatchingPlansForVM).
BlockedForAPlan ==
    \A v \in VMs : mutator[v] = "blocked" =>
        \E p \in m_plans \cap Of(v) : stage[p] # "Ready" /\ Queued(p) \cup Takers(p) # {}
=============================================================================
