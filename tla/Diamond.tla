------------------------------ MODULE Diamond ------------------------------
(***************************************************************************)
(* tftest.h, the fixture of the taskflow run: a task graph A -> {B, C} ->  *)
(* D whose bodies bump an atomic counter and append their name to a log    *)
(* under a mutex, run again and again on an executor with some workers.    *)
(* Taskflow is external: a free worker takes a task whose predecessors     *)
(* have all finished, and wait returns when every task has.                *)
(***************************************************************************)
EXTENDS Integers, Sequences

CONSTANTS
  Workers,  \* the threads of the executor
  MaxRuns   \* bound: times the graph is run

Tasks == {"A", "B", "C", "D"}
Idle  == "idle"
Free  == <<"none", Idle>>

VARIABLES
  main,     \* where run is: Idle, "clear", "reset", "submit" or "wait"
  work,     \* what each worker does: Free, or a task and the step of its body
  todo,     \* the tasks of the submitted graph that no worker has taken
  done,     \* the tasks that have finished
  counter,  \* counter_
  order,    \* order_
  ran,      \* what run returned
  runs      \* how often it was called

diamondVars == <<main, work, todo, done, counter, order, ran, runs>>

DiamondInit ==
  /\ main = Idle /\ work = [w \in Workers |-> Free]
  /\ todo = {} /\ done = {} /\ counter = 0 /\ order = <<>> /\ ran = 0 /\ runs = 0

\* Fault: the wiring forgets that C precedes D.
SuccessorsOneSided(t) == CASE t = "A" -> {"B", "C"} [] t = "B" -> {"D"} [] OTHER -> {}

\* The graph of the constructor: a_.precede(b_, c_), b_.precede(d_), c_.precede(d_).
Successors(t) ==
  CASE t = "A"         -> {"B", "C"}
    [] t \in {"B", "C"} -> {"D"}
    [] t = "D"         -> {}

Predecessors(t) == {s \in Tasks : t \in Successors(s)}

-----------------------------------------------------------------------------
\* run: clear the log, reset the counter, submit the graph, wait for it.
Clear ==
  /\ main = Idle /\ runs < MaxRuns
  /\ order' = <<>> /\ main' = "reset" /\ runs' = runs + 1
  /\ UNCHANGED <<work, todo, done, counter, ran>>

Reset ==
  /\ main = "reset"
  /\ counter' = 0 /\ main' = "submit"
  /\ UNCHANGED <<work, todo, done, order, ran, runs>>

Submit ==
  /\ main = "submit"
  /\ todo' = Tasks /\ done' = {} /\ main' = "wait"
  /\ UNCHANGED <<work, counter, order, ran, runs>>

Wait ==
  /\ main = "wait" /\ done = Tasks
  /\ ran' = counter /\ main' = Idle
  /\ UNCHANGED <<work, todo, done, counter, order, runs>>

-----------------------------------------------------------------------------
\* A worker takes a task that is ready and runs its body, record.
Take(w) ==
  /\ work[w] = Free
  /\ \E t \in todo :
       /\ Predecessors(t) \subseteq done
       /\ work' = [work EXCEPT ![w] = <<t, "count">>]
       /\ todo' = todo \ {t}
  /\ UNCHANGED <<main, done, counter, order, ran, runs>>

Count(w) ==
  /\ work[w][2] = "count"
  /\ counter' = counter + 1
  /\ work' = [work EXCEPT ![w][2] = "log"]
  /\ UNCHANGED <<main, todo, done, order, ran, runs>>

\* Under the mutex, which is held for this step alone.
Log(w) ==
  /\ work[w][2] = "log"
  /\ order' = Append(order, work[w][1])
  /\ done' = done \cup {work[w][1]}
  /\ work' = [work EXCEPT ![w] = Free]
  /\ UNCHANGED <<main, todo, counter, ran, runs>>

Work == \E w \in Workers : Take(w) \/ Count(w) \/ Log(w)
Main == Reset \/ Submit \/ Wait

DiamondNext == Clear \/ Main \/ Work

DiamondSpec == DiamondInit /\ [][DiamondNext]_diamondVars
               /\ WF_diamondVars(Main) /\ WF_diamondVars(Work)

-----------------------------------------------------------------------------
(* What Python sees when run returns, the first time and every later one:  *)
(* four bodies ran, the log names each task once, A first, D last, B and C *)
(* in either order between them.                                           *)
Complete ==
  main = Idle /\ runs > 0 =>
    /\ ran = 4 /\ counter = 4
    /\ order \in {<<"A", "B", "C", "D">>, <<"A", "C", "B", "D">>}

(* run always returns, and what it leaves is complete. (run tftest.h:61-69,*)
(* record :80-84, the graph :37-43.)                                       *)
EveryRunIsComplete == [](Complete /\ (main # Idle => <>(main = Idle)))
=============================================================================
