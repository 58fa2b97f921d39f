----------------------------- MODULE Taskmaster -----------------------------
(***************************************************************************)
(* The walk over the dependency graph in the build engine that ships with  *)
(* the repository (src/scons-local-1.1.0/SCons/Taskmaster.py), with what   *)
(* it needs of the nodes (Node/__init__.py, Node/FS.py) and of BuildTask   *)
(* (Script/Main.py).  Who executes the tasks is module Jobs.               *)
(*                                                                         *)
(* A node is a file.  Its commands either succeed or fail; what is in it   *)
(* is abstracted to whether it is on disk and which files it includes.     *)
(***************************************************************************)
EXTENDS Integers, SequencesExt

CONSTANTS
  Nodes,      \* the nodes of the dependency graphs
  Graphs,     \* the graphs a build may be given
  Modes       \* what is done when a task fails: "stop", "continue" (-k) or
              \* "ignore" (-i)

VARIABLES
  graph,              \* the graph of this build
  mode,               \* the failure policy of this build
  on_disk,            \* the files that exist
  state,              \* node.state
  ref_count,          \* node.ref_count: how many nodes this one waits for
  waiting_parents,    \* node.waiting_parents
  waiting_s_e,        \* node.waiting_s_e: who waits for this side effect
  scanned,            \* the nodes whose implicit list is not None
  implicit,           \* node.implicit
  absent,             \* the files remembered as including nothing because they
                      \* did not exist when they were first read
  candidates,         \* the stack of nodes to look at
  top_targets_left,   \* the command line targets not looked at yet
  current_top,        \* the last of them that was
  pending_children,   \* nodes some parent found pending
  stopped,            \* next_candidate is no_next_candidate
  status,             \* exit_status
  visited,            \* nodes whose information was computed and stored
  task                \* what next_task() returned: none or one

nodeVars == <<state, ref_count, waiting_parents, waiting_s_e>>
scanVars == <<scanned, implicit, absent>>
walkVars == <<candidates, top_targets_left, current_top, pending_children, stopped>>
tmVars == <<graph, mode, on_disk, nodeVars, scanVars, walkVars, status, visited, task>>

\* The node states, in the order the comparisons rely on (Node/__init__.py:69).
no_state == 0
pending == 1
executing == 2
up_to_date == 3
executed == 4
failed == 5

NodeStates == no_state .. failed

\* A graph: ordered sources (which are scanned) and other dependencies, the
\* files each file includes, the targets built by one action together, the
\* side effects, the nodes with a builder, those whose scan raises, those whose
\* action may fail, those found in the cache, and the command line targets.
Graph ==
  [sources : [Nodes -> Seq(Nodes)], depends : [Nodes -> Seq(Nodes)],
   includes : [Nodes -> SUBSET Nodes], targets : [Nodes -> Seq(Nodes)],
   side_effects : [Nodes -> SUBSET Nodes], derived : SUBSET Nodes,
   unscannable : SUBSET Nodes, fragile : SUBSET Nodes, cached : SUBSET Nodes,
   disk : SUBSET Nodes, top : Seq(Nodes)]

ASSUME NodesAssumption == IsFiniteSet(Nodes)

\* Every target of an action belongs to that action's list, and something is
\* asked for.  Only what has a builder is scanned, and an action whose scan raises
\* has one target: what further ones would do is not modelled.
ASSUME GraphsAssumption ==
  /\ Graphs \subseteq Graph
  /\ \A g \in Graphs :
       /\ g.top # << >>
       /\ g.unscannable \subseteq g.derived
       /\ \A n \in g.unscannable : g.targets[n] = <<n>>
       /\ \A n \in Nodes :
            /\ n \in ToSet(g.targets[n])
            /\ \A t \in ToSet(g.targets[n]) : g.targets[t] = g.targets[n]
ASSUME ModesAssumption == Modes \subseteq {"stop", "continue", "ignore"}

Task == [node : Nodes, targets : Seq(Nodes), top : BOOLEAN, exception : BOOLEAN]
Targets(t) == ToSet(t.targets)

SideEffects(ts) == UNION {graph.side_effects[t] : t \in ts}
IsSideEffect(n) == n \in SideEffects(Nodes)
\* Built by an action of its own or as the side effect of another.
Derived(n) == n \in graph.derived \/ IsSideEffect(n)
Missing(n) == ~Derived(n) /\ n \notin on_disk

TaskmasterInit ==
  /\ graph \in Graphs
  /\ mode \in Modes
  /\ on_disk = graph.disk
  /\ state = [n \in Nodes |-> no_state]
  /\ ref_count = [n \in Nodes |-> 0]
  /\ waiting_parents = [n \in Nodes |-> {}]
  /\ waiting_s_e = [n \in Nodes |-> {}]
  /\ scanned = {}
  /\ implicit = [n \in Nodes |-> {}]
  /\ absent = {}
  /\ candidates = << >>
  /\ top_targets_left = graph.top
  /\ current_top = graph.top[1]
  /\ pending_children = {}
  /\ stopped = FALSE
  /\ status = 0
  /\ visited = {}
  /\ task = << >>

-----------------------------------------------------------------------------
\* The files found by following the includes of a node's sources through the
\* files that can be read: the least set closed under inclusion.
IncludesThrough(n, readable) ==
  LET Visible(f) == IF f \in readable THEN graph.includes[f] ELSE {}
      Closed(D) == \A f \in ToSet(graph.sources[n]) \cup D : Visible(f) \subseteq D
      included == UNION {graph.includes[f] : f \in Nodes}
  IN {d \in included : \A D \in SUBSET included : Closed(D) => d \in D}

\* What a file includes is remembered until the file is built.
FoundIncludes(n) == IncludesThrough(n, on_disk \ absent)

\* The nodes whose scan finds something; one that raises leaves an empty list.
Readable == graph.derived \ graph.unscannable

\* node.scan(): the first time, or after built() forgot the list; a node
\* without a builder has no implicit dependencies.
ImplicitOf(n) ==
  IF n \in scanned THEN implicit[n]
  ELSE IF n \in Readable THEN FoundIncludes(n) ELSE {}

\* The executor's scan adds what it found to all of its targets.
Scan(n) ==
  LET ts == IF n \in graph.derived THEN ToSet(graph.targets[n]) ELSE {n}
      read == IF n \in Readable THEN ToSet(graph.sources[n]) \cup FoundIncludes(n) ELSE {}
  IN IF n \in scanned THEN UNCHANGED scanVars
     ELSE /\ scanned' = scanned \cup ts
          /\ absent' = absent \cup (read \ on_disk)
          /\ implicit' = [m \in Nodes |->
               IF m = n THEN ImplicitOf(n)
               ELSE IF m \notin ts THEN implicit[m]
               ELSE IF m \in scanned THEN implicit[m] \cup ImplicitOf(n)
               ELSE ImplicitOf(n)]

\* Mutated Children: depends is left out.
SourcesAndIncludes(n) == ToSet(graph.sources[n]) \cup ImplicitOf(n)

\* node.children() as a set, once the node has been scanned.
Children(n) ==
  ToSet(graph.sources[n]) \cup ToSet(graph.depends[n]) \cup ImplicitOf(n)

-----------------------------------------------------------------------------
(***************************************************************************)
(* Marking nodes failed and bringing back the ones that waited.            *)
(***************************************************************************)

\* will_not_build(): the given nodes and, transitively, their waiting parents,
\* as far as the nodes are in "markable": the least such set.
WillNotBuild(ns, markable) ==
  {n \in markable : \A D \in SUBSET markable :
     (/\ ns \cap markable \subseteq D
      /\ \A d \in D : waiting_parents[d] \cap markable \subseteq D) => n \in D}

Unfailed == {n \in Nodes : state[n] # failed}
MarkFailed(ns) == [n \in Nodes |-> IF n \in ns THEN failed ELSE state[n]]
ParentsOf(ns) == UNION {waiting_parents[n] : n \in ns}

\* Mutated Subtract: one, however many of the targets p was waiting for.
SubtractOne(p, ts) == IF p \in ParentsOf(ts) THEN 1 ELSE 0

\* How many of the targets and released side effects p was waiting for.
Subtract(p, ts) == Cardinality({t \in ts : p \in waiting_parents[t]})

\* Task.postprocess() of the targets ts, in node states st and with pend as
\* pending_children.  A side effect that is still marked is released; the nodes
\* that waited for it, and the parents that have nothing left to wait for, are
\* candidates again.  The two come out of sets: in any order.
PostProcess(st, pend, ts) ==
  LET held == {s \in SideEffects(ts) : st[s] = executing}
      woken == {p \in UNION {waiting_s_e[s] : s \in SideEffects(ts)} : ref_count[p] = 0}
      Left(p) == ref_count[p] - Subtract(p, ts) - Subtract(p, held)
      ready == {p \in ParentsOf(ts \cup held) : Left(p) = 0}
  IN /\ \E w \in SetToSeqs(woken), r \in SetToSeqs(ready) :
          candidates' = candidates \o w \o r
     /\ ref_count' = [p \in Nodes |-> Left(p)]
     /\ pending_children' = pend \ (woken \cup ready)
     /\ state' = [n \in Nodes |-> IF n \in held THEN no_state ELSE st[n]]
     /\ waiting_parents' = [n \in Nodes |-> IF n \in ts THEN {} ELSE waiting_parents[n]]

\* Mutated Executed: visited() is not called.
ExecutedUnvisited(ts) ==
  LET built == {t \in ts : state[t] = executing}
      st == [n \in Nodes |-> IF n \in built THEN executed
                             ELSE IF n \in SideEffects(built) THEN no_state
                             ELSE state[n]]
  IN /\ PostProcess(st, pending_children, ts)
     /\ scanned' = scanned \ ParentsOf(built)
     /\ absent' = absent \ built
     /\ UNCHANGED <<stopped, status, visited>>

\* Mutated Executed: the implicit lists of the waiting parents are kept.
ExecutedUnscanned(ts) ==
  LET built == {t \in ts : state[t] = executing}
      st == [n \in Nodes |-> IF n \in built THEN executed
                             ELSE IF n \in SideEffects(built) THEN no_state
                             ELSE state[n]]
  IN /\ PostProcess(st, pending_children, ts)
     /\ absent' = absent \ built
     /\ visited' = visited \cup ts
     /\ UNCHANGED <<stopped, status, scanned>>

\* Task.executed(): targets that were executing are built, their side effects
\* free, and what waited for them is scanned again; all are visited.
Executed(ts) ==
  LET built == {t \in ts : state[t] = executing}
      st == [n \in Nodes |-> IF n \in built THEN executed
                             ELSE IF n \in SideEffects(built) THEN no_state
                             ELSE state[n]]
  IN /\ PostProcess(st, pending_children, ts)
     /\ scanned' = scanned \ ParentsOf(built)
     /\ absent' = absent \ built
     /\ visited' = visited \cup ts
     /\ UNCHANGED <<stopped, status>>

\* fail_stop(): no new tasks, and only the current top target is postprocessed.
FailStop(ts) ==
  LET doomed == WillNotBuild(ts, Unfailed)
  IN /\ PostProcess(MarkFailed(doomed), pending_children \ ParentsOf(doomed), {current_top})
     /\ stopped' = TRUE
     /\ status' = 2
     /\ UNCHANGED <<scanned, absent, visited>>

\* Mutated FailContinue: another status.
FailContinueOne(ts) ==
  LET doomed == WillNotBuild(ts, Unfailed)
  IN /\ PostProcess(MarkFailed(doomed), pending_children \ ParentsOf(doomed), ts)
     /\ status' = 1
     /\ UNCHANGED <<scanned, absent, visited, stopped>>

\* fail_continue(): what depends on the targets will not be built.
FailContinue(ts) ==
  LET doomed == WillNotBuild(ts, Unfailed)
  IN /\ PostProcess(MarkFailed(doomed), pending_children \ ParentsOf(doomed), ts)
     /\ status' = 2
     /\ UNCHANGED <<scanned, absent, visited, stopped>>

\* Mutated DoFailed: -k stops, too.
AlwaysStop(ts) ==
  \/ mode = "ignore" /\ Executed(ts)
  \/ mode # "ignore" /\ FailStop(ts)

\* do_failed(): -i takes a failure for a success, -k goes on with the rest.
DoFailed(ts) ==
  \/ mode = "ignore" /\ Executed(ts)
  \/ mode = "continue" /\ FailContinue(ts)
  \/ mode = "stop" /\ FailStop(ts)

\* A command line target that is neither built by anything nor on disk.
NoWayToMake(t) == t.top /\ Missing(t.targets[1])

\* executed() or failed(), then postprocess(), of a task that ended.
Conclude(t, ok) ==
  /\ IF ok /\ ~NoWayToMake(t) THEN Executed(Targets(t)) ELSE DoFailed(Targets(t))
  /\ UNCHANGED <<graph, mode, waiting_s_e, implicit, top_targets_left, current_top>>

-----------------------------------------------------------------------------
(***************************************************************************)
(* next_task(): one candidate at a time.                                   *)
(***************************************************************************)
HasCandidate == ~stopped /\ (candidates # << >> \/ top_targets_left # << >>)
Candidate == IF candidates # << >> THEN Last(candidates) ELSE Head(top_targets_left)

\* Mutated OtherCandidates: the candidate stays on the stack.
NotPopped == candidates
OtherCandidates == IF candidates # << >> THEN Front(candidates) ELSE << >>

PopCandidate ==
  IF candidates # << >> THEN UNCHANGED <<top_targets_left, current_top>>
  ELSE /\ top_targets_left' = Tail(top_targets_left)
       /\ current_top' = Head(top_targets_left)

\* The candidate has been evaluated already.
AlreadyHandled ==
  /\ HasCandidate
  /\ state[Candidate] > pending
  /\ PopCandidate
  /\ candidates' = OtherCandidates
  /\ UNCHANGED <<nodeVars, scanVars, pending_children, task>>

Considered == HasCandidate /\ state[Candidate] <= pending

\* The candidate's state, marked as being on the stack.
Marked == [state EXCEPT ![Candidate] = pending]

TaskFor(n, raises) ==
  [node |-> n, targets |-> graph.targets[n], top |-> n \in ToSet(graph.top),
   exception |-> raises]

\* make_ready(): the targets of the action are up to date, or all of them are to
\* be built.  Only existing files made from existing ones can be up to date; what
\* makes them so is module Rebuild.  The task raises later on what the scan raised.
MakeReady(n, raises) ==
  LET ts == ToSet(graph.targets[n])
  IN /\ task' = <<TaskFor(n, raises)>>
     /\ \/ /\ n \in graph.derived =>
                ts \subseteq on_disk /\ \A m \in ts : \A c \in Children(m) : ~Missing(c)
           /\ state' = [m \in Nodes |-> IF m \in ts THEN up_to_date ELSE state[m]]
           /\ visited' = visited \cup ts
        \/ /\ n \in graph.derived
           /\ state' = [m \in Nodes |->
                IF m \in ts \cup SideEffects(ts) THEN executing ELSE state[m]]
           /\ UNCHANGED visited

\* Scanning a node raises once: it leaves a list of what was found, an empty one.
ScanFails(n) == n \in graph.unscannable \ scanned

\* The candidate's children are not known, and it is made ready without a look at
\* any of them, or at its side effects.
ScanRaises ==
  /\ Considered
  /\ ScanFails(Candidate)
  /\ PopCandidate
  /\ candidates' = OtherCandidates
  /\ Scan(Candidate)
  /\ MakeReady(Candidate, TRUE)
  /\ UNCHANGED <<ref_count, waiting_parents, waiting_s_e, pending_children>>

\* The nodes of a list that were never looked at, in the opposite order (as the
\* one sequence of a set).
LastFirst(listed) ==
  LET unvisited == {i \in DOMAIN listed : Marked[listed[i]] = no_state}
  IN {[k \in DOMAIN places |-> listed[places[k]]] : places \in
       {p \in SetToSeqs(unvisited) : \A i, j \in DOMAIN p : i < j => p[i] > p[j]}}

\* Some child is not finished: the candidate waits for all of them, the ones
\* never looked at become candidates, the first on top; it is given up when a
\* child has failed.
WaitForChildren ==
  /\ Considered
  /\ ~ScanFails(Candidate)
  /\ LET n == Candidate
         children == Children(n)
         not_ready == {c \in children : Marked[c] <= executing}
         failing == \E c \in children : state[c] = failed
     IN /\ failing \/ not_ready # {}
        /\ \E found \in SetToSeqs(ImplicitOf(n)) :
             \E unvisited \in LastFirst(graph.sources[n] \o graph.depends[n] \o found) :
                candidates' = OtherCandidates \o unvisited
        /\ IF failing
           THEN /\ state' = [state EXCEPT ![n] = failed]
                /\ UNCHANGED <<ref_count, waiting_parents, pending_children>>
           ELSE /\ state' = Marked
                /\ ref_count' = [ref_count EXCEPT ![n] = 
                     @ + Cardinality({c \in not_ready : n \notin waiting_parents[c]})]
                /\ waiting_parents' = [c \in Nodes |->
                     IF c \in not_ready THEN waiting_parents[c] \cup {n}
                     ELSE waiting_parents[c]]
                /\ pending_children' = pending_children \cup
                     {c \in children : Marked[c] = pending}
        /\ Scan(n)
  /\ PopCandidate
  /\ UNCHANGED <<waiting_s_e, task>>

\* Mutated ChildrenFinished: a child that is executing is taken for finished.
ChildrenStarted ==
  /\ Considered
  /\ ~ScanFails(Candidate)
  /\ \A c \in Children(Candidate) : Marked[c] \in {executing, up_to_date, executed}
  /\ PopCandidate
  /\ candidates' = OtherCandidates
  /\ Scan(Candidate)

\* The candidate's children are all finished, and none has failed.
ChildrenFinished ==
  /\ Considered
  /\ ~ScanFails(Candidate)
  /\ \A c \in Children(Candidate) : Marked[c] \in {up_to_date, executed}
  /\ PopCandidate
  /\ candidates' = OtherCandidates
  /\ Scan(Candidate)

\* Mutated BusySideEffects: side effects are not looked at.
NoneBusy(n) == {}

BusySideEffects(n) == {s \in graph.side_effects[n] : Marked[s] = executing}

\* One of its side effects is being produced by another task.
WaitForSideEffect ==
  /\ ChildrenFinished
  /\ BusySideEffects(Candidate) # {}
  /\ state' = Marked
  /\ waiting_s_e' = [s \in Nodes |->
       IF s \in BusySideEffects(Candidate) THEN waiting_s_e[s] \cup {Candidate}
       ELSE waiting_s_e[s]]
  /\ UNCHANGED <<ref_count, waiting_parents, pending_children, task, visited>>

\* The candidate is evaluated.
Evaluate ==
  /\ ChildrenFinished
  /\ BusySideEffects(Candidate) = {}
  /\ MakeReady(Candidate, FALSE)
  /\ UNCHANGED <<ref_count, waiting_parents, waiting_s_e, pending_children>>

FindNextReadyNode ==
  /\ \/ AlreadyHandled /\ UNCHANGED visited
     \/ WaitForChildren /\ UNCHANGED visited
     \/ WaitForSideEffect
     \/ ScanRaises
     \/ Evaluate
  /\ UNCHANGED <<graph, mode, on_disk, stopped, status>>

\* There is nothing left to look at: next_task() returns None.  Once the build
\* is stopped, what was still to be looked at will not be built.
NoNextCandidate ==
  /\ ~HasCandidate
  /\ LET doomed == IF stopped
                   THEN WillNotBuild(ToSet(candidates), {n \in Nodes : state[n] < up_to_date})
                   ELSE {}
     IN /\ state' = MarkFailed(doomed)
        /\ pending_children' = pending_children \ ParentsOf(doomed)
  /\ candidates' = << >>
  /\ UNCHANGED <<graph, mode, on_disk, ref_count, waiting_parents, waiting_s_e, scanVars,
                 top_targets_left, current_top, stopped, status, visited, task>>

=============================================================================
