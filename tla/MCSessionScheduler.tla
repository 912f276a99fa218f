------------------------- MODULE MCSessionScheduler -------------------------
(* A small instance: two tasks of one session and one of another, on a pool *)
(* of two threads.                                                          *)
EXTENDS SessionScheduler, TLC

CONSTANTS t1, t2, t3, s1, s2, w1, w2

MCTasks == {t1, t2, t3}
MCSessions == {s1, s2}
MCSessionOf == (t1 :> s1) @@ (t2 :> s1) @@ (t3 :> s2)
MCWorkers == {w1, w2}
=============================================================================
