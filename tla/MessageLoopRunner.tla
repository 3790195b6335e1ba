------------------------- MODULE MessageLoopRunner -------------------------
(***************************************************************************)
(* The message loop as a sequenced task runner: what MessageLoopProxyImpl  *)
(* offers to the threads that post to the loop.                            *)
(***************************************************************************)
EXTENDS MessageLoop

\* The queues a task may wait in.
Queues == <<Range(incoming_queue_), Range(work_queue_), delayed_work_queue_,
            Range(deferred_non_nestable_work_queue_)>>

\* A task that was accepted waits in one place, once; in none it is lost.
Waits(t) ==
  /\ Cardinality({i \in DOMAIN Queues : t \in Queues[i]}) = 1
  /\ IsInjective(incoming_queue_) /\ IsInjective(work_queue_)
  /\ IsInjective(deferred_non_nestable_work_queue_)

Status(t) ==
  CASE outcome[t] = "accepted" -> IF Waits(t) THEN "queued" ELSE "deleted"
    [] OTHER -> outcome[t]

\* A task calls for others while it runs a loop in the scope of an allower.
Runner == INSTANCE SequencedTaskRunner WITH
  status   <- [t \in Tasks |-> Status(t)],
  nesting  <- {task[l] : l \in {m \in RunLoops : running_[m] /\ allowing[m]}},
  dropping <- IF life = "alive" THEN {} ELSE Tasks

\* "Given two tasks T2 and T1, T2 will start after T1 starts if T2 is posted after T1, and
\* T2 has equal or higher delay than T1, and T2 is non-nestable or T1 is nestable"
\* (sequenced_task_runner.h:37), and the header's other promises: this is Runner!Spec.
\* It does not hold of a loop in whose tasks others are nested.
TaskRunnerImplemented == Runner!Init /\ [][Runner!Step]_vars

\* Tasks that a nested loop found, and put off because they may not run nested.
PutOff == Range(deferred_non_nestable_work_queue_)

\* The one kind of step in which the loop breaks the header's first promise: in the
\* outermost loop a non-nestable task that was posted later starts before those put
\* off, which have to wait until that loop is idle (DoIdleWork()).
Overtake == \E t \in Tasks \ PutOff : ~nestable[t] /\ Runner!StartBefore(t, PutOff)

\* But for that, the loop keeps the promises of sequenced_task_runner.h, whatever loops
\* are nested in its tasks: tasks start in the order of posting unless an earlier one
\* has a longer delay or may not run nested, and those put off among each other, too;
\* one that starts within another is nestable and every task below it allows it; none
\* is lost or started twice, and only the destructor of the loop deletes any. While
\* nothing is put off a step of the loop is one of Runner!Spec.
InSequenceButPutOff == Runner!Init /\ [][Runner!Step \/ Overtake]_vars
=============================================================================
