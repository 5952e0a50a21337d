-------------------------------- MODULE Host --------------------------------
(***************************************************************************)
(* Several guest processes of one host, run by one worker.  Each process  *)
(* is the Process model over its own world record; what they share is    *)
(* the worker: its clock, its task queue (the earliest task of any        *)
(* process runs next), the end of the simulation, and the active-process *)
(* slot that worker_setActiveProcess writes (process.c lines 224, 235,    *)
(* 256, 272, 284, 300) and the syscall interception layer reads.          *)
(*                                                                         *)
(* Descriptors are shared: a syscall of one process's guest can make a    *)
(* descriptor ready on which a waiter of another process listens.  The   *)
(* descriptor calls that listener synchronously, so the other process's  *)
(* _process_notifyStatusChanged, and its process_continue, run nested     *)
(* inside the first process's burst.  One level of nesting is modelled:  *)
(* the nested guest's own status changes are not.                         *)
(***************************************************************************)
EXTENDS Naturals, Sequences, FiniteSets, FiniteSetsExt

CONSTANTS Procs, Times, ExitCodes, Timers, Descs, MaxThreads, MaxWaiters,
          InterposeMethods, NULL

VARIABLES
    worlds,     \* the world record of each process (see Process!World)
    now,        \* the worker's current virtual time
    shutdown,   \* the simulation has ended
    (* auxiliary (history) variables, read only by properties *)
    fires,      \* per process, how often each waiter's callback ran
    stopFired,  \* per process, its stop task has run
    misrouted,  \* a guest syscall was intercepted while the slot named another
    cpuDelay    \* the delay added to the host's CPU (cpu_addDelay), in units

hvars == <<worlds, now, shutdown, fires, stopFired, misrouted, cpuDelay>>

Proc(p) == INSTANCE Process
              WITH proc <- worlds[p].proc, threads <- worlds[p].threads,
                   waiters <- worlds[p].waiters, listener <- worlds[p].listener,
                   tasks <- worlds[p].tasks, uaf <- worlds[p].uaf,
                   descRef <- worlds[p].descRef,
                   fires <- fires[p], stopFired <- stopFired[p]

(* Any process, to reach the helpers that do not read a process's state. *)
AnyProc == CHOOSE p \in Procs : TRUE

Outcomes == Proc(AnyProc)!Outcomes

WaiterIdsOf == Proc(AnyProc)!WaiterIds

-----------------------------------------------------------------------------
(* The listeners of other processes that a status change of descriptor d, *)
(* made by a syscall of p's guest, reaches: attached and monitoring, on a *)
(* waiter armed with d.                                                    *)
Reached(p, d) ==
    {qw \in (Procs \ {p}) \X WaiterIdsOf :
        LET q == qw[1]  w == qw[2]
        IN  /\ worlds[q].waiters[w].desc = d
            /\ worlds[q].listener[w]["desc"].attached
            /\ worlds[q].listener[w]["desc"].monitor}

(* _process_handleTimerResult (lines 120-126), called after each timed   *)
(* section of process_start, process_continue and process_stop (lines     *)
(* 227-233, 259-268, 282-293): the wall time the process's cpuDelayTimer  *)
(* measured is added to the CPU delay of the active host, the one worker  *)
(* host.  A section's own code takes one unit.  The timer of p, started   *)
(* before p's guest runs, is still running while a nested section of q    *)
(* runs inside p's burst, so p's elapsed time includes q's.  mp and mq    *)
(* are the timed sections p and q ran (their runBursts increments).       *)
AccountCpu(mp, mq) == cpuDelay' = cpuDelay + (mp + mq) + mq

(* A handler of p that ends in world s2 and fire counts f2.  If it ran    *)
(* p's guest (guest), a syscall of that guest may make a descriptor ready *)
(* and the descriptor runs the callback of a reached waiter w of q before *)
(* the syscall returns: q's _process_notifyStatusChanged, whose           *)
(* process_continue, when q is running, sets the slot to q and then to    *)
(* NULL (lines 256, 272).  p's guest then goes on; when it blocks, the    *)
(* blocking syscall is intercepted with the slot no longer naming p.     *)
Handle(p, s2, f2, guest, out) ==
    \/ /\ worlds' = [worlds EXCEPT ![p] = s2]
       /\ fires' = [fires EXCEPT ![p] = f2]
       /\ UNCHANGED misrouted
       /\ AccountCpu(s2.proc.runBursts - worlds[p].proc.runBursts, 0)
    \/ /\ guest
       /\ \E d \in Descs : \E qw \in Reached(p, d), outq \in Outcomes :
             LET q == qw[1]  w == qw[2]
             IN  /\ Proc(q)!Possible(worlds[q], outq)
                 /\ worlds' = [worlds EXCEPT ![p] = s2,
                                             ![q] = Proc(q)!Notify(@, w, outq)]
                 /\ fires' = [fires EXCEPT ![p] = f2, ![q][w] = @ + 1]
                 /\ misrouted' = (misrouted \/ (Proc(q)!IsRunning(worlds[q])
                                                /\ out.kind = "block"))
                 /\ AccountCpu(s2.proc.runBursts - worlds[p].proc.runBursts,
                               worlds'[q].proc.runBursts - worlds[q].proc.runBursts)

-----------------------------------------------------------------------------
(* Every process is created by process_new, the host holding one ref.    *)
Init ==
    /\ worlds \in [Procs -> {Proc(AnyProc)!NewWorld(st, sp, m) :
                               st \in Times, sp \in Times, m \in InterposeMethods}]
    /\ now \in Times
    /\ shutdown = FALSE
    /\ fires = [p \in Procs |-> [w \in WaiterIdsOf |-> 0]]
    /\ stopFired = [p \in Procs |-> FALSE]
    /\ misrouted = FALSE
    /\ cpuDelay = 0

(* The host boots process p: process_schedule at the current time.        *)
HostSchedule(p) ==
    /\ ~shutdown /\ ~worlds[p].proc.scheduled
    /\ worlds' = [worlds EXCEPT ![p] = [Proc(p)!Schedule(@, now)
                                          EXCEPT !.proc.scheduled = TRUE]]
    /\ UNCHANGED <<now, shutdown, fires, stopFired, misrouted, cpuDelay>>

(* The worker runs the earliest pending task of all processes, p's, and  *)
(* frees it.  Only _process_start runs guest code; process_stop does not. *)
HostRunTask(p) ==
    /\ ~shutdown /\ worlds[p].tasks # <<>>
    /\ \A q \in Procs : worlds[q].tasks # <<>> =>
          Head(worlds[p].tasks).at <= Head(worlds[q].tasks).at
    /\ LET e == Head(worlds[p].tasks)
           s == [worlds[p] EXCEPT !.tasks = Tail(@)]
       IN  /\ now' = e.at
           /\ stopFired' = [stopFired EXCEPT ![p] = @ \/ e.kind = "stop"]
           /\ \E out \in Outcomes :
                 /\ Proc(p)!Possible(s, out)
                 /\ Handle(p, Proc(p)!ProcessUnref(IF e.kind = "start"
                                                   THEN Proc(p)!Start(s, out)
                                                   ELSE Proc(p)!Stop(s)),
                           fires[p],
                           e.kind = "start" /\ ~Proc(p)!IsRunning(s), out)
    /\ UNCHANGED shutdown

(* A timer expires or a descriptor changes status outside any guest      *)
(* burst and calls the attached listener of waiter w of p.                *)
HostFire(p, w, d) ==
    /\ ~shutdown
    /\ worlds[p].listener[w][d].attached /\ worlds[p].listener[w][d].monitor
    /\ \E out \in Outcomes :
          /\ Proc(p)!Possible(worlds[p], out)
          /\ Handle(p, Proc(p)!Notify(worlds[p], w, out),
                    [fires[p] EXCEPT ![w] = @ + 1],
                    Proc(p)!IsRunning(worlds[p]), out)
    /\ UNCHANGED <<now, shutdown, stopFired>>

(* The simulation ends: every process's pending tasks are freed and the  *)
(* host releases its reference.                                           *)
HostShutdown ==
    /\ ~shutdown /\ \A p \in Procs : worlds[p].proc.scheduled
    /\ shutdown' = TRUE
    /\ worlds' = [p \in Procs |->
                    LET s == Proc(p)!UnrefTimes([worlds[p] EXCEPT !.tasks = <<>>],
                                                Len(worlds[p].tasks))
                    IN  Proc(p)!ProcessUnref([s EXCEPT !.proc.hostRef = FALSE])]
    /\ UNCHANGED <<now, fires, stopFired, misrouted, cpuDelay>>

HostNext ==
    \/ \E p \in Procs : HostSchedule(p) \/ HostRunTask(p)
    \/ \E p \in Procs, w \in WaiterIdsOf, d \in {"timer", "desc"} : HostFire(p, w, d)
    \/ HostShutdown

HostSpec == Init /\ [][HostNext]_hvars

-----------------------------------------------------------------------------
(* Properties                                                             *)

(* The active-process slot (spec, section 5: one process is active at a  *)
(* time, the slot routes intercepted syscalls to their process): every   *)
(* syscall a guest makes is intercepted while the slot names its process. *)
SlotNamesRunningGuest == ~misrouted

(* CPU accounting (spec, section 4.4: the simulated clock advances by the *)
(* real CPU cost of the guest's burst; _process_handleTimerResult): the  *)
(* delay added to the host's CPU is the time its guests' timed sections  *)
(* took, each section counted once.                                      *)
CpuDelayIsTimeSpent ==
    cpuDelay = MapThenSumSet(LAMBDA p : worlds[p].proc.runBursts, Procs)

=============================================================================
