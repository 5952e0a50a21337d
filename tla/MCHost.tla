------------------------------- MODULE MCHost -------------------------------
(* Two processes of one host sharing one timer and one descriptor, so the *)
(* guest of one can make ready the descriptor the other is blocked on;   *)
(* start and stop times 0..1, two waiters per process.                    *)
EXTENDS Host, TLC

CONSTANTS p1, p2, t1, d1, ptrace

MCProcs == {p1, p2}
MCTimes == 0 .. 1
MCExitCodes == {0, 7}
MCTimers == {t1}
MCDescs == {d1}
MCInterposeMethods == {ptrace}

(* The processes are interchangeable: same program, times chosen alike.  *)
MCSymmetry == Permutations(MCProcs)
=============================================================================
