----------------------------- MODULE MCExecutor -----------------------------
(* Small instances of Executor for TLC. *)
EXTENDS Executor

CONSTANTS c0, c1, t1, t2

TwoCpus == {c0, c1}
TwoTasks == {t1, t2}
SecondTask == {t2}
HomeFirst == [t \in {t1} |-> c0]
TargetFirst == [t \in {t2} |-> c0]

=============================================================================
