-------------------------- MODULE MCSessionState --------------------------
(* Two hooks at a time; an index of fewer runs than there are.            *)
EXTENDS SessionState

CONSTANTS s1, s2, p1, p2, r1, r2, r3

TwoSessions == {s1, s2}
TwoHooks == {p1, p2}
ThreeRuns == {r1, r2, r3}

(* While sessions go on starting, no document stays for ever, whatever     *)
(* became of the hooks that wrote it (one run stands for all: they are     *)
(* interchangeable).                                                       *)
EventuallyCollected == Collected(r1)

=============================================================================
