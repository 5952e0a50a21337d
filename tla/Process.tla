------------------------------- MODULE Process -------------------------------
(***************************************************************************)
(* One guest process of a simulated host (src/main/host/process.c): its    *)
(* start and stop tasks on the host's event scheduler, its main Thread,    *)
(* the single-fire Waiters it arms when the guest blocks, the descriptor   *)
(* listeners that wake those Waiters, and the reference counts that tie   *)
(* the Process, its Thread, its Waiters and the listeners together.       *)
(*                                                                         *)
(* Every handler of process.c runs to completion on the worker's single   *)
(* event loop, so each handler is one action.  A handler is written as a  *)
(* composition of helpers that map a "world" record (the state of the     *)
(* process, its threads, waiters, listeners and pending tasks) to the     *)
(* next one, in the order the C code calls them.  The guest's behaviour   *)
(* during a burst of native execution (thread_run / thread_resume) is an  *)
(* input chosen from Outcomes: it exits with a code, or it blocks in a    *)
(* syscall whose handler calls process_listenForStatus.                   *)
(***************************************************************************)
EXTENDS Naturals, Sequences, FiniteSets

CONSTANTS
    Times,            \* virtual times a start, a stop or the schedule call may have
    ExitCodes,        \* exit codes the guest may return
    Timers,           \* timer descriptors the guest may block on (timeouts)
    Descs,            \* other descriptors the guest may block on
    MaxThreads,       \* thread ids are 0..MaxThreads-1 (threadIDCounter)
    MaxWaiters,       \* waiters the guest may arm over one run
    InterposeMethods, \* the configured interposition variants
    NULL

ASSUME /\ Times \subseteq Nat /\ 0 \in Times
       /\ MaxThreads \in Nat \ {0} /\ MaxWaiters \in Nat
       /\ NULL \notin Timers \cup Descs \cup ExitCodes

VARIABLES
    proc,       \* the Process struct, plus the worker state it writes
    threads,    \* Thread objects by id: interposer state and reference count
    waiters,    \* ProcessWaiter objects by id
    listener,   \* the DescriptorListener of each side of each waiter
    tasks,      \* the worker's pending tasks that reference this process
    descRef,    \* references the waiters hold on each timer and descriptor
    now,        \* the worker's current virtual time
    shutdown,   \* the simulation has ended; the event loop runs no more
    (* auxiliary (history) variables, read only by properties *)
    fires,      \* how often _process_notifyStatusChanged ran for each waiter
    stopFired,  \* the stop task has run
    uaf         \* a freed waiter has been read

vars == <<proc, threads, waiters, listener, tasks, descRef, now, shutdown, fires, stopFired, uaf>>

ThreadIds == 0 .. MaxThreads - 1
WaiterIds == 1 .. MaxWaiters
Sides     == {"timer", "desc"}

(* What one burst of guest code ends in. *)
Outcomes ==
    [kind : {"exit"}, code : ExitCodes]
    \cup [kind : {"block"}, timer : Timers \cup {NULL}, desc : Descs \cup {NULL}]

-----------------------------------------------------------------------------
(* The world record a handler maps to its successor.                      *)
World == [proc |-> proc, threads |-> threads, waiters |-> waiters,
          listener |-> listener, tasks |-> tasks, descRef |-> descRef,
          uaf |-> uaf]

(* The successor world is bound once, then each variable takes its part. *)
Commit(s) == \E x \in {s} :
                /\ proc' = x.proc
                /\ threads' = x.threads
                /\ waiters' = x.waiters
                /\ listener' = x.listener
                /\ tasks' = x.tasks
                /\ descRef' = x.descRef
                /\ uaf' = x.uaf

-----------------------------------------------------------------------------
(* Thread interface (thread.h, implemented outside process.c).            *)

ThreadNew(s, t, m) ==
    [s EXCEPT !.threads[t] = [state |-> "created", ref |-> 1, code |-> NULL,
                              method |-> m]]

ThreadRef(s, t) == [s EXCEPT !.threads[t].ref = @ + 1]

ThreadUnref(s, t) ==
    LET r == s.threads[t].ref - 1
    IN  [s EXCEPT !.threads[t].ref = r,
                  !.threads[t].state = IF r = 0 THEN "freed" ELSE @]

ThreadTerminate(s, t) ==
    [s EXCEPT !.threads[t].state = IF @ \in {"created", "running"}
                                   THEN "terminated" ELSE @]

ThreadIsRunning(s, t) == s.threads[t].state = "running"

-----------------------------------------------------------------------------
(* Reference counting of the Process.                                     *)

ProcessRef(s) == [s EXCEPT !.proc.ref = @ + 1]

(* _process_free: terminate a still-running main thread, drop it, close   *)
(* the log files, release the host.                                       *)
ProcessFree(s) ==
    LET t  == s.proc.mainThread
        s1 == IF t = NULL THEN s
              ELSE ThreadUnref(IF ThreadIsRunning(s, t)
                               THEN ThreadTerminate(s, t) ELSE s, t)
    IN  [s1 EXCEPT !.proc.mainThread = NULL,
                   !.proc.files = IF @ = "open" THEN "closed" ELSE @,
                   !.proc.freed = TRUE]

ProcessUnref(s) ==
    LET s1 == [s EXCEPT !.proc.ref = @ - 1]
    IN  IF s1.proc.ref = 0 THEN ProcessFree(s1) ELSE s1

-----------------------------------------------------------------------------
(* DescriptorListener and the descriptor's listener table (descriptor.h,  *)
(* descriptor_listener.h, implemented outside process.c).  A listener is  *)
(* created with one reference; attaching it to a descriptor takes another *)
(* and removing it drops that one.  When the last reference goes, the     *)
(* listener releases its object (process_unref) and its argument          *)
(* (_process_unrefWaiter).                                                *)

ListenerNew(s, w, d) ==
    [s EXCEPT !.listener[w][d] = [ref |-> 1, attached |-> FALSE, monitor |-> FALSE]]

ListenerSetMonitor(s, w, d, on) == [s EXCEPT !.listener[w][d].monitor = on]

DescriptorAddListener(s, w, d) ==
    [s EXCEPT !.listener[w][d].ref = @ + 1, !.listener[w][d].attached = TRUE]

(* descriptor_ref / descriptor_unref of a timer or descriptor, or none.  *)
DescriptorRef(s, x) == IF x = NULL THEN s ELSE [s EXCEPT !.descRef[x] = @ + 1]

DescriptorUnref(s, x) == IF x = NULL THEN s ELSE [s EXCEPT !.descRef[x] = @ - 1]

(* Mutant: the waiter releases its thread and timer but not its          *)
(* descriptor.                                                            *)
UnrefWaiterKeepsDescriptor(s, w) ==
    LET r  == s.waiters[w].ref - 1
        s1 == [s EXCEPT !.waiters[w].ref = r]
        v  == s.waiters[w]
    IN  IF r = 0
        THEN [DescriptorUnref(ThreadUnref(s1, v.thread), v.timer)
                EXCEPT !.waiters[w].state = "freed"]
        ELSE s1

(* _process_unrefWaiter: the last reference releases the thread, the     *)
(* timer and the descriptor the waiter holds, then frees it.             *)
UnrefWaiter(s, w) ==
    LET r  == s.waiters[w].ref - 1
        s1 == [s EXCEPT !.waiters[w].ref = r]
        v  == s.waiters[w]
    IN  IF r = 0
        THEN [DescriptorUnref(DescriptorUnref(ThreadUnref(s1, v.thread), v.timer), v.desc)
                EXCEPT !.waiters[w].state = "freed"]
        ELSE s1

ListenerUnref(s, w, d) ==
    LET r == s.listener[w][d].ref - 1
    IN  IF r = 0
        THEN UnrefWaiter(ProcessUnref([s EXCEPT !.listener[w][d].ref = 0]), w)
        ELSE [s EXCEPT !.listener[w][d].ref = r]

DescriptorRemoveListener(s, w, d) ==
    IF s.listener[w][d].attached
    THEN ListenerUnref([s EXCEPT !.listener[w][d].attached = FALSE], w, d)
    ELSE s

(* waiter->timerListener / waiter->descriptorListener is set: the waiter  *)
(* was armed with that side.                                              *)
HasSide(s, w, d) ==
    IF d = "timer" THEN s.waiters[w].timer # NULL ELSE s.waiters[w].desc # NULL

-----------------------------------------------------------------------------
(* process.c                                                              *)

(* The elapsed wall time of a burst becomes CPU delay on the host and in  *)
(* the tracker and is added to totalRunTime; runBursts counts the bursts  *)
(* so accounted.                                                          *)
HandleTimerResult(s) == [s EXCEPT !.proc.runBursts = @ + 1]

LogReturnCode(s, code) ==
    IF s.proc.didLogReturnCode THEN s
    ELSE [s EXCEPT !.proc.logLines = @ + 1,
                   !.proc.pluginErrors = IF code = 0 THEN @ ELSE @ + 1,
                   !.proc.didLogReturnCode = TRUE]

IsRunning(s) ==
    s.proc.mainThread # NULL /\ ThreadIsRunning(s, s.proc.mainThread)

Check(s) ==
    LET t == s.proc.mainThread
    IN  IF t = NULL \/ ThreadIsRunning(s, t) THEN s
        ELSE [ThreadUnref(ThreadTerminate(LogReturnCode(s, s.threads[t].code), t), t)
                 EXCEPT !.proc.mainThread = NULL]

(* Mutant: the listener's process reference is not taken.               *)
AddListenerNoProcessRef(s, w, d, status) ==
    LET s1 == ListenerNew(s, w, d)
        s2 == [s1 EXCEPT !.waiters[w].ref = @ + 1]
    IN  DescriptorAddListener(ListenerSetMonitor(s2, w, d, TRUE), w, d)

(* Mutant: the listener's waiter reference is not counted.               *)
AddListenerNoWaiterRef(s, w, d, status) ==
    LET s1 == ListenerNew(s, w, d)
        s2 == ProcessRef(s1)
    IN  DescriptorAddListener(ListenerSetMonitor(s2, w, d, TRUE), w, d)

(* Mutant: the listener is attached with its monitor disabled.          *)
AddListenerNoMonitor(s, w, d, status) ==
    LET s1 == ListenerNew(s, w, d)
        s2 == [ProcessRef(s1) EXCEPT !.waiters[w].ref = @ + 1]
    IN  DescriptorAddListener(ListenerSetMonitor(s2, w, d, FALSE), w, d)

AddListener(s, w, d, status) ==
    LET s1 == ListenerNew(s, w, d)
        s2 == [ProcessRef(s1) EXCEPT !.waiters[w].ref = @ + 1]
    IN  DescriptorAddListener(ListenerSetMonitor(s2, w, d, TRUE), w, d)

FreeWaiterId(s) == {w \in WaiterIds : s.waiters[w].state = "unused"}

ListenForStatus(s, t, timeout, desc) ==
    IF timeout = NULL /\ desc = NULL THEN s
    ELSE LET w  == CHOOSE v \in FreeWaiterId(s) :
                       \A u \in FreeWaiterId(s) : v <= u
             s1 == [s EXCEPT !.waiters[w] = [state |-> "live", ref |-> 0, thread |-> t,
                                             timer |-> timeout, desc |-> desc]]
             s2 == DescriptorRef(DescriptorRef(ThreadRef(s1, t), timeout), desc)
             s3 == IF timeout # NULL THEN AddListener(s2, w, "timer", "readable") ELSE s2
         IN  IF desc # NULL THEN AddListener(s3, w, "desc", "status") ELSE s3

(* thread_run / thread_resume: the guest runs until it exits or blocks in *)
(* a syscall whose handler arms a waiter (possibly none).                 *)
RunBurst(s, t, out) ==
    IF out.kind = "exit"
    THEN [s EXCEPT !.threads[t].state = "exited", !.threads[t].code = out.code]
    ELSE ListenForStatus([s EXCEPT !.threads[t].state = "running"], t, out.timer, out.desc)

Start(s, out) ==
    IF IsRunning(s) THEN s
    ELSE LET t  == s.proc.threadIDCounter
             s1 == [s EXCEPT !.proc.files = "open",
                             !.proc.mainThread = t,
                             !.proc.threadIDCounter = @ + 1]
             s2 == [ThreadNew(s1, t, s.proc.interposeMethod)
                      EXCEPT !.proc.active = TRUE, !.proc.isExecuting = TRUE]
             s3 == HandleTimerResult(RunBurst(s2, t, out))
         IN  Check([s3 EXCEPT !.proc.active = FALSE])

(* Mutant: no early return when the process is not running.             *)
ContinueNoRunningCheck(s, thread, out) ==
    LET s1 == [s EXCEPT !.proc.active = TRUE, !.proc.isExecuting = TRUE]
        s2 == RunBurst(s1, IF thread # NULL THEN thread ELSE s.proc.mainThread, out)
        s3 == HandleTimerResult([s2 EXCEPT !.proc.isExecuting = FALSE])
    IN  Check([s3 EXCEPT !.proc.active = FALSE])

(* Mutant: the trailing _process_check is left out.                     *)
ContinueNoCheck(s, thread, out) ==
    IF ~IsRunning(s) THEN s
    ELSE LET s1 == [s EXCEPT !.proc.active = TRUE, !.proc.isExecuting = TRUE]
             s2 == RunBurst(s1, IF thread # NULL THEN thread ELSE s.proc.mainThread, out)
             s3 == HandleTimerResult([s2 EXCEPT !.proc.isExecuting = FALSE])
         IN  [s3 EXCEPT !.proc.active = FALSE]

Continue(s, thread, out) ==
    IF ~IsRunning(s) THEN s
    ELSE LET s1 == [s EXCEPT !.proc.active = TRUE, !.proc.isExecuting = TRUE]
             s2 == RunBurst(s1, IF thread # NULL THEN thread ELSE s.proc.mainThread, out)
             s3 == HandleTimerResult([s2 EXCEPT !.proc.isExecuting = FALSE])
         IN  Check([s3 EXCEPT !.proc.active = FALSE])

(* Mutant: the main thread is released but mainThread is not cleared.   *)
StopKeepsMainThread(s) ==
    LET t  == s.proc.mainThread
        s1 == [s EXCEPT !.proc.active = TRUE, !.proc.isExecuting = TRUE]
        s2 == IF t # NULL THEN ThreadUnref(ThreadTerminate(s1, t), t) ELSE s1
        s3 == HandleTimerResult([s2 EXCEPT !.proc.isExecuting = FALSE])
    IN  Check([s3 EXCEPT !.proc.active = FALSE])

Stop(s) ==
    LET t  == s.proc.mainThread
        s1 == [s EXCEPT !.proc.active = TRUE, !.proc.isExecuting = TRUE]
        s2 == IF t # NULL
              THEN [ThreadUnref(ThreadTerminate(s1, t), t) EXCEPT !.proc.mainThread = NULL]
              ELSE s1
        s3 == HandleTimerResult([s2 EXCEPT !.proc.isExecuting = FALSE])
    IN  Check([s3 EXCEPT !.proc.active = FALSE])

(* Mutant: a task due exactly now gets delay zero.                       *)
TaskDelayZero(t, n) == IF t < n THEN 1 ELSE t - n

(* Delay of a task due at time t: one tick if already due, never zero.    *)
TaskDelay(t, n) == IF t <= n THEN 1 ELSE t - n

(* worker_scheduleTask: tasks run in order of due time, then insertion.   *)
PostTask(s, kind, at) ==
    LET k == Cardinality({i \in 1 .. Len(s.tasks) : s.tasks[i].at <= at})
    IN  [s EXCEPT !.tasks = SubSeq(@, 1, k) \o <<[kind |-> kind, at |-> at]>>
                              \o SubSeq(@, k + 1, Len(@))]

(* Mutant: a stop time already past at boot is not scheduled.            *)
ScheduleStopNeedsFuture(s, n) ==
    LET st == s.proc.startTime
        sp == s.proc.stopTime
        s1 == IF sp = 0 \/ st < sp
              THEN PostTask(ProcessRef(s), "start", n + TaskDelay(st, n)) ELSE s
    IN  IF sp > 0 /\ sp > st /\ sp > n
        THEN PostTask(ProcessRef(s1), "stop", n + TaskDelay(sp, n)) ELSE s1

Schedule(s, n) ==
    LET st == s.proc.startTime
        sp == s.proc.stopTime
        s1 == IF sp = 0 \/ st < sp
              THEN PostTask(ProcessRef(s), "start", n + TaskDelay(st, n)) ELSE s
    IN  IF sp > 0 /\ sp > st
        THEN PostTask(ProcessRef(s1), "stop", n + TaskDelay(sp, n)) ELSE s1

(* `if (waiter->xListener) descriptorlistener_unref(waiter->xListener)`:   *)
(* reading the field of a waiter that an earlier unref already freed is a *)
(* read of freed memory, recorded in uaf; the stale field most likely     *)
(* still holds what the waiter had, and that is what is used.             *)
ReadAndUnref(s, w, d) ==
    LET s1 == IF s.waiters[w].state = "freed" THEN [s EXCEPT !.uaf = TRUE] ELSE s
    IN  IF HasSide(s1, w, d) THEN ListenerUnref(s1, w, d) ELSE s1

(* Mutant: only the timer listener is detached before resuming.          *)
NotifyKeepsDescListener(s, w, out) ==
    LET Drop(x, d) == ReadAndUnref(x, w, d)
        s1 == IF HasSide(s, w, "timer")
              THEN ListenerSetMonitor(DescriptorRemoveListener(s, w, "timer"), w, "timer", FALSE)
              ELSE s
        s2 == Continue(s1, s.waiters[w].thread, out)
    IN  Drop(Drop(s2, "timer"), "desc")

(* Mutant: the timer listener is unreferenced twice, the descriptor one  *)
(* never (a copy-paste slip in the last two calls).                       *)
NotifyUnrefsTimerTwice(s, w, out) ==
    LET Detach(x, d) ==
            IF HasSide(x, w, d)
            THEN ListenerSetMonitor(DescriptorRemoveListener(x, w, d), w, d, FALSE)
            ELSE x
        Drop(x, d) == ReadAndUnref(x, w, d)
        s1 == Detach(Detach(s, "timer"), "desc")
        s2 == Continue(s1, s.waiters[w].thread, out)
    IN  Drop(Drop(s2, "timer"), "timer")

(* _process_notifyStatusChanged: detach both listeners, resume the guest, *)
(* then drop both listeners, which releases the waiter.                   *)
Notify(s, w, out) ==
    LET Detach(x, d) ==
            IF HasSide(x, w, d)
            THEN ListenerSetMonitor(DescriptorRemoveListener(x, w, d), w, d, FALSE)
            ELSE x
        Drop(x, d) == ReadAndUnref(x, w, d)
        s1 == Detach(Detach(s, "timer"), "desc")
        s2 == Continue(s1, s.waiters[w].thread, out)
    IN  Drop(Drop(s2, "timer"), "desc")

-----------------------------------------------------------------------------
(* process_new, with the host holding the one reference it starts with.   *)
NewWorld(st, sp, m) ==
    [proc |-> [startTime |-> st, stopTime |-> sp, interposeMethod |-> m,
               ref |-> 1, hostRef |-> TRUE, freed |-> FALSE,
               scheduled |-> FALSE, mainThread |-> NULL, threadIDCounter |-> 0,
               isExecuting |-> FALSE, active |-> FALSE, files |-> "unopened",
               didLogReturnCode |-> FALSE, logLines |-> 0, pluginErrors |-> 0,
               runBursts |-> 0],
     threads |-> [t \in ThreadIds |->
                    [state |-> "unborn", ref |-> 0, code |-> NULL, method |-> NULL]],
     waiters |-> [w \in WaiterIds |->
                    [state |-> "unused", ref |-> 0, thread |-> NULL,
                     timer |-> NULL, desc |-> NULL]],
     listener |-> [w \in WaiterIds |-> [d \in Sides |->
                    [ref |-> 0, attached |-> FALSE, monitor |-> FALSE]]],
     tasks |-> <<>>,
     descRef |-> [x \in Timers \cup Descs |-> 0],
     uaf |-> FALSE]

Init ==
    /\ \E st \in Times, sp \in Times, m \in InterposeMethods :
          LET s == NewWorld(st, sp, m)
          IN  /\ proc = s.proc /\ threads = s.threads /\ waiters = s.waiters
              /\ listener = s.listener /\ tasks = s.tasks /\ uaf = s.uaf
              /\ descRef = s.descRef
    /\ now \in Times
    /\ shutdown = FALSE
    /\ fires = [w \in WaiterIds |-> 0]
    /\ stopFired = FALSE

(* An outcome the guest can produce: blocking on something needs a free   *)
(* waiter id (the bound MaxWaiters on the waiters of one run).            *)
Possible(s, out) ==
    out.kind = "block" /\ (out.timer # NULL \/ out.desc # NULL) => FreeWaiterId(s) # {}

(* The host boots the process: process_schedule at the current time.      *)
ScheduleProcess ==
    /\ ~shutdown /\ ~proc.scheduled
    /\ Commit([Schedule(World, now) EXCEPT !.proc.scheduled = TRUE])
    /\ UNCHANGED <<now, shutdown, fires, stopFired>>

(* The event loop runs the earliest task (_process_runStartTask or        *)
(* _process_runStopTask) and then frees it, which drops its reference.   *)
RunTask ==
    /\ ~shutdown /\ tasks # <<>>
    /\ LET e == Head(tasks)
           s == [World EXCEPT !.tasks = Tail(@)]
       IN  /\ now' = e.at
           /\ \E out \in Outcomes :
                 /\ Possible(s, out)
                 /\ Commit(ProcessUnref(IF e.kind = "start" THEN Start(s, out)
                                        ELSE Stop(s)))
           /\ stopFired' = (stopFired \/ e.kind = "stop")
    /\ UNCHANGED <<shutdown, fires>>

(* A timer expires or a descriptor reaches the monitored status while its *)
(* listener is attached: the descriptor calls the listener's callback.    *)
FireListener(w, d) ==
    /\ ~shutdown
    /\ listener[w][d].attached /\ listener[w][d].monitor
    /\ \E out \in Outcomes :
          /\ Possible(World, out)
          /\ Commit(Notify(World, w, out))
    /\ fires' = [fires EXCEPT ![w] = @ + 1]
    /\ UNCHANGED <<now, shutdown, stopFired>>

RECURSIVE UnrefTimes(_, _)
UnrefTimes(s, k) == IF k = 0 THEN s ELSE UnrefTimes(ProcessUnref(s), k - 1)

(* The simulation ends: pending tasks are freed, then the host releases   *)
(* its reference to the process.                                          *)
Shutdown ==
    /\ ~shutdown /\ proc.scheduled
    /\ shutdown' = TRUE
    /\ LET s == UnrefTimes([World EXCEPT !.tasks = <<>>], Len(tasks))
       IN  Commit(ProcessUnref([s EXCEPT !.proc.hostRef = FALSE]))
    /\ UNCHANGED <<now, fires, stopFired>>

Next ==
    \/ ScheduleProcess
    \/ RunTask
    \/ \E w \in WaiterIds, d \in Sides : FireListener(w, d)
    \/ Shutdown

Spec == Init /\ [][Next]_vars

(* The worker's event loop runs every task that is due, and a timer armed *)
(* with a timeout expires at its time, so both are weakly fair.  The end  *)
(* of the simulation and descriptor status changes depend on the rest of *)
(* the simulation and get no fairness.  For the timer, weak fairness is  *)
(* written out with the action's guard as its enabling condition (the    *)
(* guest can always exit, so the action is enabled exactly when the      *)
(* guard holds); TLC's ENABLED on the callback's nested helpers is slow.  *)
TimerArmed(w) == ~shutdown /\ listener[w]["timer"].attached /\ listener[w]["timer"].monitor

Fairness ==
    /\ WF_vars(RunTask)
    /\ \A w \in WaiterIds :
          <>[]TimerArmed(w) => []<><<FireListener(w, "timer")>>_vars

LiveSpec == Spec /\ Fairness

-----------------------------------------------------------------------------
(* Properties                                                             *)

TypeOK ==
    /\ proc.ref \in Nat /\ proc.freed \in BOOLEAN /\ proc.hostRef \in BOOLEAN
    /\ proc.mainThread \in ThreadIds \cup {NULL}
    /\ proc.threadIDCounter \in 0 .. MaxThreads
    /\ proc.files \in {"unopened", "open", "closed"}
    /\ proc.logLines \in Nat /\ proc.pluginErrors \in Nat /\ proc.runBursts \in Nat
    /\ \A t \in ThreadIds :
          /\ threads[t].state \in {"unborn", "created", "running", "exited",
                                   "terminated", "freed"}
          /\ threads[t].ref \in Nat
          /\ threads[t].code \in ExitCodes \cup {NULL}
    /\ \A w \in WaiterIds :
          /\ waiters[w].state \in {"unused", "live", "freed"}
          /\ waiters[w].ref \in Nat
          /\ waiters[w].thread \in ThreadIds \cup {NULL}
          /\ waiters[w].timer \in Timers \cup {NULL}
          /\ waiters[w].desc \in Descs \cup {NULL}
          /\ \A d \in Sides : listener[w][d] \in
                [ref : Nat, attached : BOOLEAN, monitor : BOOLEAN]
    /\ \A i \in 1 .. Len(tasks) : tasks[i].kind \in {"start", "stop"}
    /\ descRef \in [Timers \cup Descs -> Nat]
    /\ fires \in [WaiterIds -> Nat]
    /\ uaf \in BOOLEAN

LiveListeners == {wd \in WaiterIds \X Sides : listener[wd[1]][wd[2]].ref > 0}

(* Process reference counting (process_ref/unref, task and listener free  *)
(* functions): the count equals the number of holders -- the host, each   *)
(* pending start/stop task and each live listener -- and the process is  *)
(* freed exactly when none is left, so no task or listener callback can   *)
(* reach a freed process and none is leaked.                              *)
ProcessRefsSound ==
    /\ proc.ref = (IF proc.hostRef THEN 1 ELSE 0) + Len(tasks)
                  + Cardinality(LiveListeners)
    /\ proc.freed <=> proc.ref = 0

(* Waiter reference counting (process_listenForStatus, the listeners'     *)
(* argument free function _process_unrefWaiter): a waiter is alive        *)
(* exactly while one of its listeners is, and counts exactly those.       *)
WaiterRefsSound ==
    \A w \in WaiterIds :
        /\ waiters[w].ref = Cardinality({d \in Sides : listener[w][d].ref > 0})
        /\ waiters[w].state = "live" <=> waiters[w].ref > 0

(* Thread reference counting across Process and Waiter (_process_check,   *)
(* process_stop, _process_free, waiter creation and release): a thread's *)
(* count equals mainThread pointing at it plus the live waiters holding  *)
(* it, and it is freed exactly when that reaches zero.                    *)
ThreadRefsSound ==
    \A t \in ThreadIds : threads[t].state # "unborn" =>
        /\ threads[t].ref = (IF proc.mainThread = t THEN 1 ELSE 0)
              + Cardinality({w \in WaiterIds : waiters[w].state = "live"
                                               /\ waiters[w].thread = t})
        /\ threads[t].state = "freed" <=> threads[t].ref = 0

(* Descriptor references held by waiters (process_listenForStatus lines  *)
(* 580-585, _process_unrefWaiter lines 484-489): each timer and          *)
(* descriptor is held exactly once by every live waiter armed with it,   *)
(* so it is released when the last such waiter is freed, however the   *)
(* waiter's two listeners are torn down.                                 *)
DescRefsSound ==
    \A x \in Timers \cup Descs :
        descRef[x] = Cardinality({w \in WaiterIds : waiters[w].state = "live"
                                     /\ x \in {waiters[w].timer, waiters[w].desc}})

(* Single-fire waiter (_process_notifyStatusChanged): whatever the order  *)
(* in which the timer and the descriptor become ready, and however often, *)
(* a waiter resumes the guest at most once.                               *)
SingleFire == \A w \in WaiterIds : fires[w] <= 1

(* Start/stop ordering (process_schedule): once the stop task has run the *)
(* process never runs again, so a start can never come after the stop.   *)
StopIsFinal == stopFired => ~IsRunning(World)

(* Return-code logging (_process_check, _process_logReturnCode): a guest  *)
(* that exits has its code logged exactly once, and counted as a plugin   *)
(* error exactly when it is nonzero.                                      *)
ExitLoggedOnce ==
    /\ proc.logLines <= 1
    /\ \A t \in ThreadIds : threads[t].code # NULL =>
          /\ proc.logLines = 1
          /\ proc.pluginErrors = IF threads[t].code = 0 THEN 0 ELSE 1

(* isExecuting is a latch scoped to guest code (spec, section 3): between *)
(* handlers, when the event loop has control, it is FALSE.               *)
IsExecutingScoped == ~proc.isExecuting

(* Start/stop ordering in virtual time (process_schedule; spec, section  *)
(* 8): for 0 < startTime < stopTime the start task is due strictly before *)
(* the stop task, whatever the time at which the host boots the process. *)
StartStrictlyBeforeStop ==
    \A i, j \in 1 .. Len(tasks) :
        /\ tasks[i].kind = "start" /\ tasks[j].kind = "stop"
        /\ 0 < proc.startTime
        => tasks[i].at < tasks[j].at

(* No reference cycle at release (spec, section 9: listeners are always *)
(* detached before the Waiter or Process can become unreachable): once   *)
(* the host has dropped its reference, no listener still holds the       *)
(* process, so nothing keeps it, its waiter and its descriptor alive.     *)
NoListenerOutlivesHost ==
    ~proc.hostRef => \A w \in WaiterIds, d \in Sides : ~listener[w][d].attached

(* No use after free of a waiter (_process_notifyStatusChanged): the      *)
(* callback never reads a waiter that it has already released.           *)
NoWaiterUseAfterFree == ~uaf

(* Liveness of process_schedule / process_stop: a running process that   *)
(* was given a stop time is eventually no longer running, unless the     *)
(* simulation ends first; whatever the guest blocks on, the stop task    *)
(* posted at boot terminates it.                                          *)
StopEventuallyHalts ==
    (IsRunning(World) /\ proc.stopTime > 0) ~> (~IsRunning(World) \/ shutdown)

(* Liveness of process_listenForStatus / _process_notifyStatusChanged /  *)
(* process_continue: a running guest blocked on a waiter armed with a    *)
(* timeout runs again (a further timed burst, runBursts above r), unless *)
(* the process stops running or the simulation ends first.  It needs the *)
(* timer listener attached with its monitor on, the callback to resume   *)
(* the waiter's thread, and nothing left armed that could swallow it.    *)
BlockedGuestResumes ==
    \A w \in WaiterIds, r \in 0 .. MaxWaiters + 2 :
        (/\ IsRunning(World) /\ proc.runBursts = r
         /\ waiters[w].state = "live" /\ waiters[w].timer # NULL)
          ~> (proc.runBursts > r \/ ~IsRunning(World) \/ shutdown)

-----------------------------------------------------------------------------
(* Refinement: the lifecycle seen by the host.                            *)
LifeOf ==
    CASE proc.freed                  -> "FREED"
      [] ~proc.scheduled             -> "NEW"
      [] proc.threadIDCounter = 0    -> "SCHEDULED"
      [] IsRunning(World)            -> "BLOCKED"
      [] OTHER                       -> "STOPPED"

ArmedOf == {w \in WaiterIds : \E d \in Sides : listener[w][d].attached}

UsedOf == {w \in WaiterIds : waiters[w].state # "unused"}

Lifecycle == INSTANCE ProcessLifecycle
                 WITH Waiters <- WaiterIds, life <- LifeOf, armed <- ArmedOf,
                      used <- UsedOf

(* process.c implements the lifecycle: started once, never resumed after  *)
(* process_stop or exit, freed only when no listener can call back.       *)
RefinesLifecycle == Lifecycle!Spec

=============================================================================
