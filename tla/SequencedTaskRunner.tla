------------------------ MODULE SequencedTaskRunner ------------------------
(***************************************************************************)
(* What base/sequenced_task_runner.h promises of the tasks posted to one   *)
(* runner, whatever runs them: the abstract specification that             *)
(* SequencedWorkerPool implements for the tasks of one sequence token, and *)
(* MessageLoop, but for one kind of step, for the tasks of one thread.     *)
(*                                                                         *)
(* The runner moves a task from one status to the next.  What else the     *)
(* guarantees depend on belongs to its environment and changes as it will: *)
(* how a task is posted, which running tasks call a method that runs       *)
(* tasks, and when the runner is being shut down or flushed.               *)
(***************************************************************************)
EXTENDS Naturals

CONSTANT Tasks

VARIABLES
  status,      \* what has become of each task
  prior,       \* the tasks accepted before it
  delay, nestable,   \* how it was posted
  nesting,     \* tasks that are running others
  dropping     \* tasks that the runner is to delete, not to run

promised == <<status, prior>>
vars == <<promised, delay, nestable, nesting, dropping>>

Statuses == {"new", "posting", "refused", "queued", "running", "done", "deleted"}
Accepted == {t \in Tasks : status[t] \in {"queued", "running", "done", "deleted"}}

Init ==
  /\ status = [t \in Tasks |-> "new"]
  /\ prior = [t \in Tasks |-> {}]

Becomes(t, from, to) ==
  /\ status[t] = from
  /\ status' = [status EXCEPT ![t] = to]

\* PostTask() is called; what was accepted by then comes before t.
Call(t) ==
  /\ Becomes(t, "new", "posting")
  /\ prior' = [prior EXCEPT ![t] = Accepted]

Accept(t) ==
  \/ Becomes(t, "posting", "queued") /\ UNCHANGED prior
  \/ Becomes(t, "new", "queued") /\ prior' = [prior EXCEPT ![t] = Accepted]

Refuse(t) ==
  /\ Becomes(t, "new", "refused") \/ Becomes(t, "posting", "refused")
  /\ UNCHANGED prior

\* "T2 will start after T1 starts if T2 is posted after T1; and T2 has equal or
\* higher delay than T1; and T2 is non-nestable or T1 is nestable."
Follows(t2, t1) ==
  /\ t1 \in prior[t2]
  /\ delay[t2] >= delay[t1]
  /\ ~nestable[t2] \/ nestable[t1]

\* Without S, which is deleted unrun.
Drop(S) == [s \in Tasks |-> IF s \in S THEN "deleted" ELSE status[s]]
Droppable == {S \in SUBSET dropping : \A s \in S : status[s] = "queued"}

\* A task starts after those it follows; while another is running it starts only
\* within that one, if it is nestable and the other calls for it. Tasks may be dropped
\* on the way to it. It need not wait for the tasks of overtaken: for none, says the
\* header, and so does Start; an implementation that keeps less says for which.
StartBefore(t, overtaken) ==
  /\ status[t] = "queued" /\ t \notin dropping
  /\ \A s \in Tasks : status[s] = "running" => nestable[t] /\ s \in nesting
  /\ \E S \in Droppable :
       /\ \A s \in Tasks \ (S \cup overtaken) : Follows(t, s) => status[s] # "queued"
       /\ status' = [Drop(S) EXCEPT ![t] = "running"]
  /\ UNCHANGED prior

Start(t) == StartBefore(t, {})

Finish(t) == Becomes(t, "running", "done") /\ UNCHANGED prior

Delete == (\E S \in Droppable : status' = Drop(S)) /\ UNCHANGED prior

Next ==
  \/ \E t \in Tasks : Call(t) \/ Accept(t) \/ Refuse(t) \/ Start(t) \/ Finish(t)
  \/ Delete

Step == UNCHANGED promised \/ Next

Spec == Init /\ [][Next]_promised
=============================================================================
