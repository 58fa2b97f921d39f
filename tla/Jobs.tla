-------------------------------- MODULE Jobs --------------------------------
(***************************************************************************)
(* A build: the main thread takes tasks from the Taskmaster, prepares them *)
(* and queues them for worker threads, which execute them and post the     *)
(* results (SCons/Job.py).  One job is the Serial class, whose main thread *)
(* executes the tasks itself; more are the Parallel class.                 *)
(*                                                                         *)
(* A step of the main thread holds everything it does between two looks at *)
(* the queues: the next candidate, one task up to its dispatch, or one     *)
(* result.  The steps of a worker are the ones that touch the nodes.       *)
(***************************************************************************)
EXTENDS Taskmaster

CONSTANT NumJobs    \* the numbers of jobs (-j) a build may be given
ASSUME NumJobsAssumption == NumJobs \subseteq Nat \ {0}

VARIABLES
  num_jobs,      \* self.maxjobs
  pc,            \* where start() is: "next_task", "start", "wait" or "end"
  requestQueue,  \* the tasks dispatched
  running,       \* the tasks workers execute, each with the target it is at
  resultsQueue,  \* the pairs (task, ok) of the tasks executed
  interrupted,   \* a signal was handled
  broke,         \* the targets of the tasks that failed
  outcome        \* how start() ended: "none" yet, "done" or "cycle"

jobVars == <<num_jobs, pc, requestQueue, running, resultsQueue, interrupted, broke, outcome>>
vars == <<tmVars, jobVars>>

\* A task in the hands of a worker, at its target number "at"; "retrieved":
\* that target came from the cache and Node.built() is still to be called.
Running == [task : Task, at : Nat \ {0}, retrieved : BOOLEAN]

TypeOK ==
  /\ graph \in Graphs /\ mode \in Modes /\ num_jobs \in NumJobs
  /\ on_disk \subseteq Nodes /\ scanned \subseteq Nodes /\ absent \subseteq Nodes
  /\ visited \subseteq Nodes /\ pending_children \subseteq Nodes /\ broke \subseteq Nodes
  /\ state \in [Nodes -> NodeStates]
  /\ ref_count \in [Nodes -> Int]
  /\ waiting_parents \in [Nodes -> SUBSET Nodes]
  /\ waiting_s_e \in [Nodes -> SUBSET Nodes]
  /\ implicit \in [Nodes -> SUBSET Nodes]
  /\ candidates \in Seq(Nodes) /\ top_targets_left \in Seq(Nodes) /\ current_top \in Nodes
  /\ stopped \in BOOLEAN /\ interrupted \in BOOLEAN /\ status \in {0, 2}
  /\ task \in Seq(Task) /\ Len(task) <= 1
  /\ pc \in {"next_task", "start", "wait", "end"}
  /\ pc = "start" <=> task # << >>
  /\ requestQueue \in Seq(Task)
  /\ running \subseteq Running
  /\ resultsQueue \in Seq(Task \X BOOLEAN)
  /\ outcome \in {"none", "done", "cycle"}

Init ==
  /\ TaskmasterInit
  /\ num_jobs \in NumJobs
  /\ pc = "next_task"
  /\ requestQueue = << >>
  /\ running = {}
  /\ resultsQueue = << >>
  /\ interrupted = FALSE
  /\ broke = {}
  /\ outcome = "none"

\* Mutated jobs: those that are being executed are not counted.
Posted == Len(requestQueue) + Len(resultsQueue)

\* The tasks dispatched whose result was not taken (start()'s "jobs").
jobs == Len(requestQueue) + Cardinality(running) + Len(resultsQueue)

-----------------------------------------------------------------------------
(***************************************************************************)
(* The main thread.                                                        *)
(***************************************************************************)

\* next_task() looks at one more candidate; it may return it as a task.
LookForTask ==
  /\ pc = "next_task"
  /\ task = << >>
  /\ FindNextReadyNode
  /\ pc' = IF task' = << >> THEN "next_task" ELSE "start"
  /\ UNCHANGED <<num_jobs, requestQueue, running, resultsQueue, interrupted, broke, outcome>>

\* Mutated NoMoreTasks: cleanup() is not called.
NoCleanup ==
  /\ pc = "next_task"
  /\ task = << >>
  /\ NoNextCandidate
  /\ IF jobs > 0 THEN pc' = "wait" /\ UNCHANGED outcome
     ELSE pc' = "end" /\ outcome' = "done"
  /\ UNCHANGED <<num_jobs, requestQueue, running, resultsQueue, interrupted, broke>>

\* next_task() returns None: start() waits for results or, if none is due,
\* ends; Taskmaster.cleanup() raises an error when some child is still pending.
NoMoreTasks ==
  /\ pc = "next_task"
  /\ task = << >>
  /\ NoNextCandidate
  /\ IF jobs > 0 THEN pc' = "wait" /\ UNCHANGED outcome
     ELSE /\ pc' = "end"
          /\ outcome' = IF pending_children' = {} THEN "done" ELSE "cycle"
  /\ UNCHANGED <<num_jobs, requestQueue, running, resultsQueue, interrupted, broke>>

\* The executor's prepare() raises: the scan did, or a source is missing.
SourcesMissing(t) == t.exception \/ \E s \in ToSet(graph.sources[t.node]) : Missing(s)

\* A target's prepare() raises: something else it depends on is missing.
DependsMissing(n) ==
  \E d \in ToSet(graph.depends[n]) \cup (IF n \in scanned THEN implicit[n] ELSE {}) : Missing(d)

\* The side effects of each target are prepared with it.
PrepareRaises(t) ==
  SourcesMissing(t) \/ \E n \in Targets(t) \cup SideEffects(Targets(t)) : DependsMissing(n)

\* The files prepare() removes: targets that will be built, one after the other
\* until something raises.  (Side effects are precious.)
Removed(t) ==
  {t.targets[i] : i \in {j \in DOMAIN t.targets :
     /\ ~SourcesMissing(t)
     /\ \A k \in 1 .. j : ~DependsMissing(t.targets[k])
     /\ \A k \in 1 .. j - 1 : \A e \in graph.side_effects[t.targets[k]] : ~DependsMissing(e)
     /\ t.targets[j] \in graph.derived
     /\ state[t.targets[j]] # up_to_date}}

PrepareFails ==
  /\ pc = "start"
  /\ LET t == task[1]
     IN /\ PrepareRaises(t)
        /\ Conclude(t, FALSE)
        /\ broke' = broke \cup Targets(t)
  /\ pc' = "next_task"
  /\ task' = << >>
  /\ on_disk' = on_disk \ Removed(task[1])
  /\ UNCHANGED <<num_jobs, requestQueue, running, resultsQueue, interrupted, outcome>>

\* needs_execute() is false of a target that is up to date.
NothingToDo ==
  /\ pc = "start"
  /\ LET t == task[1]
     IN /\ ~PrepareRaises(t)
        /\ state[t.targets[1]] # executing
        /\ Conclude(t, TRUE)
        /\ IF NoWayToMake(t) THEN broke' = broke \cup Targets(t) ELSE UNCHANGED broke
  /\ pc' = "next_task"
  /\ task' = << >>
  /\ UNCHANGED <<on_disk, num_jobs, requestQueue, running, resultsQueue, interrupted, outcome>>

Dispatch ==
  /\ pc = "start"
  /\ ~PrepareRaises(task[1])
  /\ state[task[1].targets[1]] = executing
  /\ on_disk' = on_disk \ Removed(task[1])
  /\ absent' = absent \ (Removed(task[1]) \cap on_disk)
  /\ requestQueue' = Append(requestQueue, task[1])
  /\ pc' = IF jobs + 1 < num_jobs THEN "next_task" ELSE "wait"
  /\ task' = << >>
  /\ UNCHANGED <<graph, mode, nodeVars, scanned, implicit, walkVars, status, visited,
                 num_jobs, running, resultsQueue, interrupted, broke, outcome>>

\* A result is taken; after the last one there, tasks are looked for again.
TakeResult ==
  /\ pc = "wait"
  /\ resultsQueue # << >>
  /\ LET t == resultsQueue[1][1]
         ok == resultsQueue[1][2]
     IN /\ Conclude(t, ok)
        /\ IF ok THEN UNCHANGED broke ELSE broke' = broke \cup Targets(t)
  /\ resultsQueue' = Tail(resultsQueue)
  /\ pc' = IF resultsQueue' = << >> THEN "next_task" ELSE "wait"
  /\ UNCHANGED <<task, on_disk, num_jobs, requestQueue, running, interrupted, outcome>>

Main ==
  \/ LookForTask \/ NoMoreTasks \/ PrepareFails \/ NothingToDo \/ Dispatch \/ TakeResult

-----------------------------------------------------------------------------
(***************************************************************************)
(* The workers, and the signal handler.                                    *)
(***************************************************************************)
Post(t, ok) == resultsQueue' = Append(resultsQueue, <<t, ok>>)

\* A worker takes a task; after a signal, workers fail it at once.
TakeTask ==
  /\ requestQueue # << >>
  /\ Cardinality(running) < num_jobs
  /\ requestQueue' = Tail(requestQueue)
  /\ LET t == requestQueue[1]
     IN IF interrupted /\ num_jobs > 1
        THEN Post(t, FALSE) /\ UNCHANGED running
        ELSE /\ running' = running \cup {[task |-> t, at |-> 1, retrieved |-> FALSE]}
             /\ UNCHANGED resultsQueue
  /\ UNCHANGED <<tmVars, num_jobs, pc, interrupted, broke, outcome>>

Replace(r, new) == running' = (running \ {r}) \cup new

\* CacheDir.retrieve() copies the target r is at from the cache and marks it
\* executed, in the worker's thread.
RetrieveFromCache(r) ==
  /\ ~r.retrieved
  /\ r.at <= Len(r.task.targets)
  /\ LET n == r.task.targets[r.at]
     IN /\ n \in graph.cached
        /\ on_disk' = on_disk \cup {n}
        /\ state' = [state EXCEPT ![n] = executed]
  /\ Replace(r, {[r EXCEPT !.retrieved = TRUE]})
  /\ UNCHANGED <<graph, mode, ref_count, waiting_parents, waiting_s_e, scanVars, walkVars,
                 status, visited, task, num_jobs, pc, requestQueue, resultsQueue,
                 interrupted, broke, outcome>>

\* It then calls Node.built(): the parents that wait for it will scan again.
\* The task is done when every target was retrieved.
RetrievedBuilt(r) ==
  /\ r.retrieved
  /\ LET n == r.task.targets[r.at]
     IN /\ scanned' = scanned \ waiting_parents[n]
        /\ absent' = absent \ {n}
  /\ IF r.at < Len(r.task.targets)
     THEN Replace(r, {[r EXCEPT !.at = @ + 1, !.retrieved = FALSE]}) /\ UNCHANGED resultsQueue
     ELSE Replace(r, {}) /\ Post(r.task, TRUE)
  /\ UNCHANGED <<graph, mode, on_disk, nodeVars, implicit, walkVars, status, visited, task,
                 num_jobs, pc, requestQueue, interrupted, broke, outcome>>

MustBuild(r) ==
  /\ ~r.retrieved
  /\ r.task.targets[r.at] \notin graph.cached

\* The action makes all of its targets and side effects.
Build(r) ==
  /\ MustBuild(r)
  /\ on_disk' = on_disk \cup Targets(r.task) \cup SideEffects(Targets(r.task))
  /\ Replace(r, {})
  /\ Post(r.task, TRUE)
  /\ UNCHANGED <<graph, mode, nodeVars, scanVars, walkVars, status, visited, task,
                 num_jobs, pc, requestQueue, interrupted, broke, outcome>>

\* A command fails by itself, or because the signal reached it too.
BuildFails(r) ==
  /\ MustBuild(r)
  /\ r.task.node \in graph.fragile \/ interrupted
  /\ Replace(r, {})
  /\ Post(r.task, FALSE)
  /\ UNCHANGED <<tmVars, num_jobs, pc, requestQueue, interrupted, broke, outcome>>

Execute == \E r \in running :
  RetrieveFromCache(r) \/ RetrievedBuilt(r) \/ Build(r) \/ BuildFails(r)

\* SIGINT, SIGTERM or SIGHUP.
Interrupt ==
  /\ pc # "end"
  /\ ~interrupted
  /\ stopped' = TRUE
  /\ interrupted' = TRUE
  /\ UNCHANGED <<graph, mode, on_disk, nodeVars, scanVars, candidates, top_targets_left,
                 current_top, pending_children, status, visited, task, num_jobs, pc,
                 requestQueue, running, resultsQueue, broke, outcome>>

Ended == pc = "end" /\ UNCHANGED vars

Next == Main \/ TakeTask \/ Execute \/ Interrupt \/ Ended

\* The interpreter runs every thread that can run; commands end.
Fairness == WF_vars(Main) /\ WF_vars(TakeTask) /\ WF_vars(Execute)
Spec == Init /\ [][Next]_vars
FairSpec == Spec /\ Fairness

-----------------------------------------------------------------------------
(***************************************************************************)
(* Properties.                                                             *)
(***************************************************************************)
AtWork == ToSet(requestQueue) \cup {r.task : r \in running}

\* "looking for something that has no un-built children" (Taskmaster.py:538):
\* a task is dispatched, and executed, only while everything any of its targets
\* needs is finished and nobody is going to write it.  What was retrieved from the
\* cache is finished while the task that retrieved it is at work.
ChildrenSettled ==
  \A t \in AtWork : \A n \in Targets(t) : \A c \in Children(n) :
    /\ state[c] \in {up_to_date, executed}
    /\ \A u \in AtWork : c \in Targets(u) => Targets(u) \subseteq graph.cached

\* "We must invoke visited() to ensure that the node information has been
\* computed before allowing the parent nodes to execute" (Taskmaster.py:341).
VisitedBeforeParents ==
  \A t \in AtWork : \A n \in Targets(t) : Children(n) \subseteq visited

\* The same of what is not retrieved from the cache.
ChildrenVisited ==
  \A t \in AtWork : \A n \in Targets(t) : Children(n) \ graph.cached \subseteq visited

\* Two tasks never write the same file at once, be it a target or a side effect
\* (Taskmaster.py:683).
NoSharedOutput ==
  \A t, u \in AtWork : t # u =>
    (Targets(t) \cup SideEffects(Targets(t))) \cap (Targets(u) \cup SideEffects(Targets(u))) = {}

\* "may have itself (or its sources) re-scanned, in order to handle generated
\* header files" (Taskmaster.py:546): a task executes knowing every file its
\* sources include by then.
NoStaleScan ==
  \A t \in AtWork : \A n \in Targets(t) : IncludesThrough(n, on_disk) \subseteq ImplicitOf(n)

\* ref_count is the number of nodes the node waits for: too high and it is never
\* looked at again, too low and it is looked at too early (Taskmaster.py:671).
RefCountExact ==
  \A p \in Nodes : ref_count[p] = Cardinality({c \in Nodes : p \in waiting_parents[c]})

\* All a node needs, however it comes to know of it.
Needs(n) == ToSet(graph.sources[n]) \cup ToSet(graph.depends[n]) \cup IncludesThrough(n, on_disk)

\* The nodes ns and all below them.
Below(ns) ==
  {d \in Nodes : \A D \in SUBSET Nodes :
     (ns \subseteq D /\ \A m \in D : Needs(m) \subseteq D) => d \in D}

Settled == {n \in Nodes : state[n] \in {up_to_date, executed}}
Asked == Below(ToSet(graph.top))
OnCycle(n) == n \in Below(Needs(n))

\* A build that ends with status 0 and no error left nothing of what was asked
\* for undone (Job.py:371, "return when there are no more tasks").
NothingForgotten ==
  (outcome = "done" /\ status = 0 /\ ~interrupted) => Asked \subseteq Settled

\* With -k, what does not depend on a failure is still built, and nothing that
\* does is (Taskmaster.py:291).  What a generated header includes may be passed
\* over all the same (SilentFailure in MCJobs).
KeepGoing ==
  (pc = "end" /\ mode = "continue" /\ ~interrupted /\ \A n \in Asked : ~OnCycle(n)) =>
    \A n \in Asked : n \in Settled <=> Below({n}) \cap broke = {}

\* When nothing failed, cleanup() reports a cycle exactly if what was asked for
\* has one below it (Taskmaster.py:783).  It may also report one when a header made
\* during the build adds dependencies (LateHeader in MCJobs).
CycleReported ==
  (pc = "end" /\ broke = {} /\ ~interrupted) =>
    (outcome = "cycle" <=> \E n \in Asked : OnCycle(n))

\* Every build ends (Job.py:371): no wakeup is lost.
Terminates == <>(pc = "end")

\* The targets of tasks that were dispatched and whose result was not taken.
Dispatched ==
  UNION {Targets(t) : t \in AtWork \cup {resultsQueue[i][1] : i \in DOMAIN resultsQueue}}

\* The targets of the task the main thread has: nothing is final of them yet.
InHand == IF task = << >> THEN {} ELSE Targets(task[1])

\* What became of each node.
Fate(n) ==
  IF n \in broke \/ state[n] = failed THEN "given_up"
  ELSE IF n \in Settled \ InHand /\ ~IsSideEffect(n) /\ ~Missing(n) THEN "settled"
  ELSE IF state[n] = executing /\ n \in Dispatched THEN "worked_on"
  ELSE "untouched"

Order == INSTANCE BuildOrder WITH
  lenient <- mode = "ignore",
  fate <- [n \in Nodes |-> Fate(n)],
  needs <- [n \in Nodes |-> (ToSet(graph.sources[n]) \cup ToSet(graph.depends[n]))
                              \ SideEffects(Nodes)]

\* The build implements the abstract one: at most one try per node, in order,
\* and the verdict is final.
ImplementsBuildOrder == Order!Spec
=============================================================================
