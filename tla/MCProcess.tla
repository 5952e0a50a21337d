------------------------------ MODULE MCProcess ------------------------------
(* Instantiates Process for TLC: one timer and one other descriptor, so a *)
(* waiter can race a timeout against a descriptor; a success and an error *)
(* exit code; start, stop and boot times 0..4, enough for every order of  *)
(* due-now, one tick and several ticks ahead, and never-stop; up to three *)
(* waiters per run.                                                       *)
EXTENDS Process

CONSTANTS t1, d1, ptrace, preload

MCTimes == 0 .. 4
MCExitCodes == {0, 7}
MCTimers == {t1}
MCDescs == {d1}
MCInterposeMethods == {ptrace, preload}
=============================================================================
