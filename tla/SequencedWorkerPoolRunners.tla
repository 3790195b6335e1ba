--------------------- MODULE SequencedWorkerPoolRunners ---------------------
(***************************************************************************)
(* The pool as a set of sequenced task runners: the tasks of each token    *)
(* are the tasks of one runner (SequencedWorkerPoolSequencedTaskRunner),   *)
(* and each task without a token is alone in its own.                      *)
(***************************************************************************)
EXTENDS SequencedWorkerPool

Runners == {{s \in Tasks : s = t \/ (TokenOf[s] = TokenOf[t] /\ TokenOf[t] # NoToken)}
              : t \in Tasks}

\* A task runs from the moment a worker takes it, under the lock, until its closure
\* is destroyed, and is dropped from the moment GetWork() sweeps it.
Status(t) ==
  CASE outcome[t] \in {"new", "posting", "refused"} -> outcome[t]
    [] \E w \in Workers : task[w] = t /\ pc[w] # "ran" -> "running"
    [] t \in pending_tasks_ -> "queued"
    [] \E w \in Workers : t \in delete_these[w] -> "deleted"
    [] OTHER -> outcome[t]

\* A shutdown drops all but BLOCK_SHUTDOWN tasks, a flush what is not due yet.
Dropping ==
  {t \in Tasks : \/ shutdown_called_ /\ BehaviorOf[t] # "BLOCK"
                 \/ cleanup_state_ = "RUNNING" /\ time_to_run[t] > now}

Runner(S) == INSTANCE SequencedTaskRunner WITH
  Tasks     <- S,
  status    <- [t \in S |-> Status(t)],
  prior     <- [t \in S |-> prior[t]],
  delay     <- DelayOf,
  nestable  <- [t \in S |-> TRUE],
  nesting   <- {},
  dropping  <- Dropping \cap S

\* Each sequence of the pool keeps the promises of sequenced_task_runner.h,
\* whatever the other sequences do, workers exit, a flush or a shutdown drops: one
\* task at a time, in the order of posting unless an earlier one has a longer
\* delay, each started or deleted at most once, and deleted unrun only by a
\* shutdown that may drop it or by a flush before it was due. (This is Runner(S)!Spec
\* for every S.)
TaskRunnersImplemented ==
  /\ \A S \in Runners : Runner(S)!Init
  /\ [][\A S \in Runners : Runner(S)!Step]_vars
=============================================================================
